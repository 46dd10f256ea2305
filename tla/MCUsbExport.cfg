CONSTANTS
  d1 = d1
  d2 = d2
  Devices <- MCDevices
  MaxConns = 2
  MaxPlugs = 1
  Disablable <- MCDisablable
SPECIFICATION Spec
INVARIANTS
  TypeOK
  AtMostOneMonitor
  MonitorOwnsStruct
  LinkSingleOwner
  ServerExitClean
PROPERTIES
  ExportRefinement
