CONSTANTS
  s1 = s1
  s2 = s2
  b1 = b1
  b2 = b2
  Servers <- MCServers
  Busids <- MCBusids
  Exports <- MCExportsShared
  MaxAttach = 3
  NPorts = 1
  MaxBeacons = 2
  ServerTls <- MCServerTls
  ServerMajor <- MCServerMajorSame
  ClientTls = FALSE
SPECIFICATION Spec
INVARIANT
  ListMatchesAttached
