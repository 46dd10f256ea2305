CONSTANTS
  s1 = s1
  s2 = s2
  b1 = b1
  b2 = b2
  Servers <- MCServers
  Busids <- MCBusids
  Exports <- MCExportsOneServer
  MaxAttach = 3
  NPorts = 1
  MaxBeacons = 1
  ServerTls <- MCServerTls
  ServerMajor <- MCServerMajorNewer
  ClientTls = FALSE
SPECIFICATION Spec
INVARIANTS
  TypeOK
  KeyUnique
  ListMatchesAttached
  AppViewMatchesList
  DevlistOnlyCompatible
  ShutdownReleasesAll
PROPERTIES
  ReapEventually
  HandlerCompletes
