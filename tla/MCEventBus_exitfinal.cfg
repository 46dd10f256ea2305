CONSTANTS
  usb = usb  intf = intf  mgr = mgr  timer = timer  monitor = monitor
  host = host  app = app
  Tasks <- CliTasks
  Mask <- CliMask
  ExitOrder <- CliExitOrder
  RunningSetInThread <- CliRunningSetInThread
  Producers <- CliProducers
  Script <- CliScript
  InitOrder <- CliInitOrder
  EarlyFail <- CliEarlyFail
  Spawned <- CliSpawned
  Owner <- CliOwner
  Checks <- CliChecks
SPECIFICATION Spec
CHECK_DEADLOCK FALSE
PROPERTIES
  ExitIsFinal
