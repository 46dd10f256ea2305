CONSTANTS
  usb = usb  intf = intf  mgr = mgr  timer = timer  monitor = monitor
  host = host  app = app
  Tasks <- CliTasks
  Mask <- CliMask
  ExitOrder <- CliExitOrder
  RunningSetInThread <- CliRunningSetInThread
  Producers <- CliProducers
  Script <- CliScript
  InitOrder <- CliInitOrder
  EarlyFail <- CliEarlyFail
  Spawned <- CliSpawned
  Owner <- CliOwner
  Checks <- CliChecks
SPECIFICATION Spec
\* The process ends: once the main thread has cleaned up nothing is left.
CHECK_DEADLOCK FALSE
INVARIANTS
  HandledInOrder
  CleanupLeavesNoEvent
PROPERTIES
  EventEventuallyHandled
