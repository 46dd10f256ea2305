CONSTANTS
  usb = usb  intf = intf  mgr = mgr  timer = timer  monitor = monitor
  host = host  app = app
  Tasks <- SrvTasks
  Mask <- SrvMask
  ExitOrder <- SrvExitOrder
  RunningSetInThread = {}
  Producers <- SrvProducers
  Script <- SrvScript
  InitOrder <- SrvInitOrder
  EarlyFail <- SrvEarlyFail
  Spawned <- SrvSpawned
  Owner <- SrvOwner
  Checks <- SrvChecks
SPECIFICATION Spec
CHECK_DEADLOCK FALSE
PROPERTIES
  Termination
