----------------------------- MODULE MCEventBus ------------------------------
(* Instances of EventBus for the two executables.  Masks and event types   *)
(* are the values of srv_event.h and cli_event.h.                           *)
EXTENDS EventBus

CONSTANTS usb, intf, mgr, timer, monitor, host, app

\* Server: the USB task (TIMER_1S | REQ_DEVICELIST | REQ_IMPORT) and the
\* interface task (LOCAL_DEVICELIST | DEVICE_*).  server_event_handler
\* calls interface_exit, host_exit, usb_exit, beacon_exit, timer_exit.
SrvTasks == {usb, intf}
SrvMask == (usb :> 25) @@ (intf :> 484)
SrvExitOrder == <<intf, host, usb, timer>>
\* The timer's TIMER_1S, a monitor's DEVICE_EXPORTED, the host listener's
\* REQ_IMPORT, and rh_server_exit's EVENT_TERMINATE.
SrvProducers == {timer, monitor, host, app}
SrvScript == (timer :> <<1>>) @@ (monitor :> <<32>>) @@ (host :> <<16>>)
               @@ (app :> <<0>>)
\* rh_server_init: timer, beacon, usb_task_init (libusb_init may fail first),
\* host_task_init, which starts the listener, then interface_task_init.
\* Monitors exist once an import is served, the application once init
\* returned.
SrvInitOrder == <<usb, intf>>
SrvEarlyFail == {usb}
SrvSpawned == (timer :> 0) @@ (host :> 1) @@ (monitor :> 3) @@ (app :> 3)
\* host_exit joins the listener, usb_exit the monitors, timer_exit the timer.
SrvOwner == (timer :> {timer}) @@ (host :> {host}) @@ (monitor :> {usb})
              @@ (app :> {})
SrvChecks == [p \in SrvProducers |-> DOMAIN SrvScript[p]]

\* Client: the manager (TIMER_5S | DEVICELIST_REQUEST | ATTACH_REQUESTED |
\* DETACH_REQUESTED) and the interface, whose intf_loop sets running itself.
\* client_event_handler calls interface_exit, manager_exit, beacon_exit,
\* timer_exit.
CliTasks == {mgr, intf}
CliMask == (mgr :> 586) @@ (intf :> 3252)
CliExitOrder == <<intf, mgr, timer>>
CliRunningSetInThread == {intf}
\* One iteration of the timer's loop (TIMER_1S reaches no client task),
\* an ATTACHED reported by the manager side, and the application's
\* ATTACH_REQUESTED then rh_client_exit.
CliProducers == {timer, monitor, app}
CliScript == (timer :> timer_event_generate(1)) @@ (monitor :> <<16>>)
               @@ (app :> <<8, 0>>)
\* rh_client_init: timer, beacon listener, manager_task_init (which fails
\* first without VHCI or CA file), then interface_task_init.  The manager
\* side reports only after the application has asked.
CliInitOrder == <<mgr, intf>>
CliEarlyFail == {mgr}
CliSpawned == (timer :> 0) @@ (monitor :> 3) @@ (app :> 3)
\* timer_exit joins the timer, whose loop tests timer.running before each
\* TIMER_1S; the manager's reports end with manager_exit's join.
CliOwner == (timer :> {timer}) @@ (monitor :> {mgr}) @@ (app :> {})
CliChecks == (timer :> {i \in DOMAIN CliScript[timer] : CliScript[timer][i] = 1})
               @@ (monitor :> {1}) @@ (app :> {1, 2})
====
