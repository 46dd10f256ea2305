# TLA+ models of RemoteHub

RemoteHub shares USB devices over the network with the USB/IP protocol. A
**server** exports the devices plugged into its host. A **client** lists the
devices of the servers it finds and attaches them to the local kernel's VHCI
driver. This directory holds TLA+ models of the concurrent parts of both
programs, the TLC configurations that check them, and `PROJECT.json`. That
file is the machine-readable index: components, runs, mutants, the
definition-to-source map, findings and hazards.

## 1. The system

Both executables run the same kind of runtime (`src/common/event.c`). Several
long-lived **tasks** each own a thread and a FIFO mailbox. A global
**event bus** copies every event into the mailbox of each task whose mask
subscribes to its type. `EVENT_TERMINATE` stops the bus. The main thread then
shuts the tasks down in reverse order of creation.

Server (`src/server`):

| Part | Source | State | Operations |
|---|---|---|---|
| Host listener | `tasks/host.c` | listening link | accept a connection, read an OP request, emit `REQ_DEVLIST`/`REQ_IMPORT` with the link |
| USB task | `tasks/usb.c` | list of `server_usb_device` (busid, exported flag, forwarding thread, terminate) | `TIMER_1S`: rescan libusb, add new devices, remove detached ones, reap finished sessions; answer device-list and import requests; disable/enable buses |
| Forwarding session | `util/forwarding.c` | packet ring, `packets_ready`, `terminate`, `buffer_lock`/`buffer_cond`; monitor, RX and TX threads; libusb completion callbacks | RX: read `CMD_SUBMIT`/`CMD_UNLINK`, submit or cancel transfers, apply backpressure; callback: mark a packet ready; TX: send the first ready packet; monitor: spawn, join, destroy the ring, release the device |
| Beacon | `tasks/beacon.c` | UDP socket | broadcast the server's identity every second |
| Interface | `tasks/interface.c` | subscriber callbacks | forward device events to the embedding application |
| Server glue | `util/server.c`, `executable/rh_server.c` | config | init order, shutdown order, config parsing |

Client (`src/client`):

| Part | Source | State | Operations |
|---|---|---|---|
| Manager task | `tasks/manager.c` | list of `client_usb_device` keyed by (server ip, port, busid) | fetch device lists, attach, detach, `TIMER_5S` reap of finished sessions |
| VHCI bridge | `util/vhci.c` | VHCI port status, socket pair, bridge threads | find a free port, attach through sysfs, copy bytes both ways between the socket pair and the server link |
| Command | `util/command.c` | one link | the `OP_REQ_DEVLIST` and `OP_REQ_IMPORT` exchanges |
| Beacon listener | `tasks/beacon.c` | server list | filter beacons by identity, TLS use and version, report a new server |
| Timer | `tasks/timer.c` | counter | emit `TIMER_1S`, and `TIMER_5S` every fifth tick |
| Interface | `tasks/interface.c` | subscriber callbacks | expose servers and devices to the application |

Common: the link (`network.c`, TCP or TLS), the wire encoding
(`network_usbip.c`), logging, the library entry points (`remotehub.c`).

### How the parts interact

A client imports a device in four steps:

1. The client sends `OP_REQ_IMPORT` to the server's host listener.
2. The listener emits `REQ_IMPORT` to the USB task.
3. The USB task answers, then calls `forwarding_start`. This creates a monitor thread, which creates RX and TX.
4. From then on the server link carries USB/IP `CMD_SUBMIT`/`CMD_UNLINK` commands and their `RET_*` replies. On the client they pass through a VHCI bridge into the kernel.

A session ends in one of three ways: a thread exits on a link or device failure, the USB task shuts the link (`terminate_forward`), or the client closes its end. The USB task notices the end at its next `TIMER_1S` and reaps the session.

### Hazards

`PROJECT.json` lists the hazards, each at the line where it bites. The hard behaviours are:

- **Forwarding.** Four threads share the ring. Two updates of `packets_ready` happen outside `buffer_lock`. `terminate` is set and signalled without the lock. The backpressure wait is never signalled by TX. An unlink can race its target's completion. The destroy loop waits for cancelled transfers.
- **Event bus.** Task shutdown signals a mailbox without its lock, so a wakeup can be lost. A start-up that fails half-way leaves registered tasks, with or without a thread, for `err_exit` to stop. `event_cleanup` takes no lock, so every producer thread must be joined before it.
- **USB task.** The `exported` flag is refreshed only once a second. The link is read while the monitor frees it.
- **Client manager.** Devices are removed by bus id alone. `exit_fwd` reads `fwd_terminated` without a lock, and it joins a bridge that only ends once its link is shut, both on detach and in the shutdown loop.
- **Client interface.** The manager informs the application of a detach before the bridge is joined. A beacon may be received again and again. The interface mask decides which events the application ever sees.

## 2. Modules

### `Forwarding` (src/server/util/forwarding.c) — modelled

One forwarding session. The client side of the link (the peer) is the
environment. It appends `CMD_SUBMIT` and `CMD_UNLINK` requests to `reqs` and
may close its end. The device may vanish (`DeviceGone`). The USB task may shut
the link (`terminate_forward`, usb.c).

| Code | Model |
|---|---|
| `buffer_head` list | `ring`, a sequence of seqnums; `enqueue_packet` is `Append` |
| `usb_packet` | `pkt[seq]`: `ready`, `unlinked`, header `cmd`/`status`, transfer state (`inflight`, `cancelling` after `libusb_cancel_transfer`, `done` after the callback) |
| `packets_ready`, `terminate` | same names |
| `buffer_cond` | `waitSet`. `Signal` removes one waiter; a signal with no waiter is lost |
| `buffer_lock` | `LockFree`. A thread that has tested its wait predicate under the lock is at `prewait` until it is in `waitSet`; every step that takes the lock is disabled meanwhile. Unlocked steps (`rx_exit`, `tx_exit`, the unlocked store of `packets_ready++`) may still run |
| `rx_server` | `RxLock`, `RxWait`, `RxWake`, `RxCheck`, `RxRecvFail`, `handle_submit`, `handle_submit_fail`, `unlink_packet`, `handle_unlink_notfound` (which also loads `packets_ready` into `rxTmp`), `handle_unlink_enqueue` (the store, the locked enqueue and the signal), `rx_exit` |
| `tx_server` | `TxLock`, `TxWait`, `TxWake`, `TxCheck`, `dequeue_ready_packet`, `tx_send` (header rewrite by `TxHeader`, unknown-command exit, send failure), `tx_exit` |
| `xfer_completion_callback` | one action per packet. Statuses: `XferOutcomes` on a live device, `NO_DEVICE` on a vanished one, and `CANCELLED` after a cancel. `convert_libusb_status` is modelled with the real errno values |
| `monitor` | `MonitorSpawnRx`, `MonitorSpawnTx`, `MonitorRxCreateFail`, `MonitorTxCreateFail`, `MonitorJoinRx`, `MonitorJoin`, `MonitorDrain` (`dequeue_any_packet` plus the cancel), `MonitorPoll` (the `usleep` loop), `MonitorFinish` |

Left out, because no property is about them:

- payload bytes and ISO descriptors;
- endianness conversion;
- `intercept_control_packet` (SET_CONFIGURATION/SET_INTERFACE on ep 0);
- OUT-data reception, which is folded into reading the header.

A failed submit (`libusb_submit_transfer` error, or an allocation failure) is
the nondeterministic `handle_submit_fail`.

**Fairness.** These fairness assumptions are justified by the code:

- RX, TX and the monitor are OS threads, so each is weakly fair.
- libusb always calls back for a cancelled transfer, and for every transfer once the device is gone (`FairCallback`). A transfer on a live device may never complete (an interrupt endpoint waiting for input), so it gets no fairness.
- The USB task's one-second rescan shuts the link of a vanished device (`FairTeardown`).

The peer gets no fairness.

### `EventBus` (src/common/event.c) — partly modelled

The runtime both executables share: the bus's `running` flag, each task's
mailbox, `running` flag and thread, the producer threads, the start-up
in `rh_client_init`/`rh_server_init`, and the main thread that handles
`EVENT_TERMINATE` and shuts the tasks down.

| Code | Model |
|---|---|
| `rh_*_init` before the first task | `Init`: no task registered, no thread |
| `*_task_init`, `event_task_register` | `task_init`: the next task of `InitOrder` either fails before registering (`EarlyFail`: `manager_task_init` without VHCI or CA file, `usb_task_init` when `libusb_init` fails), or is linked into the task list (`regAt`, `Registered`), gets `running` unless its thread sets it, and its `pthread_create` succeeds or fails |
| `pthread_create` of the event-handler thread | `handler_spawn`: `rh_*_init` returns `RH_OK` (`initRet`) or fails |
| `err_exit` | `err_exit`: the init thread runs the same `*_exit` sequence and `event_cleanup`; `Joinable` is the `if (thread)` before each join |
| producer threads | `ProducerStarted`: a producer runs once the init that creates it has returned (`Spawned`), the application only after `RH_OK` |
| the client timer, `timer_event_generate` | `TimerLoop`/`timer_event_generate(n)`: the events of `n` iterations (`TIMER_1S`, then `TIMER_5S` when `ctr % 5 = 0`), used as the timer's script |
| a producer's stop and join (`timer_exit`, `host_exit`, the manager's or USB task's join) | `ExitOrder` lists producer threads as well as tasks; `Owner` says whose `*_exit` stops a producer. `ProducerGoesOn`: at a test of its loop (`Checks`) a stopped producer ends. `ProducerAtExit`, `Joinable`: the join waits until it has |
| `event_enqueue` | `EnqueueCheck` (the unlocked read of `running`), then `event_enqueue`, which appends to `sent` and fans out with `event_insert` to every task whose mask matches (`Subscribed`, evaluated with `Bitwise` on the real mask values of `srv_event.h`/`cli_event.h`) and signals it |
| `event_dequeue` | `event_dequeue` (take the head), `TaskWait` (test under the lock, then wait), `TaskWake` |
| the task loops (`usb_loop`, `manager_handler`, `intf_loop`) | `TaskStart` (the client `intf_loop` sets `running` itself), `TaskLoop`, `TaskHandle` |
| `server_event_handler`, `client_event_handler` | `event_handler` (stop the bus on `EVENT_TERMINATE`), `task_exit` (a `*_exit`: clear `running` and signal, without the lock), `task_join`, `event_cleanup` |

Producers are threads with a fixed script of event types. `MCEventBus`
gives the server's and the client's tasks, masks, init and exit orders and
producers, and which `*_exit` stops each producer thread.

### `UsbExport` and `AbstractExport` (src/server/tasks/usb.c, tasks/host.c, server.c) — partly modelled

The server's USB task. It holds the device list `usb_head`, answers
`REQ_DEVICELIST`/`REQ_IMPORT`, runs the `TIMER_1S` rescan and performs
`usb_exit`'s cleanup. It is composed with the host listener thread
(host.c), which accepts connections and turns each OP request into an
event in the USB task's mailbox, and with the server's shutdown sequence
(`server_event_handler`: `host_exit`, `usb_exit`, then `event_cleanup`).
Each accepted connection is a link id in `Sids`; a session started on a
connection takes that link's id. A forwarding session appears only through its
monitor's lifecycle: running, draining after RX or TX ended, done after
`monitor` has closed and freed its link. `Forwarding` models the session
in full.

| Code | Model |
|---|---|
| `usb_head` | `usbList`, a sequence of devices; `gen[d]` counts the incarnations of a struct, so a session can tell whether it still works on its own struct (`OwnsStruct`) |
| `fwd.forwarding_thread`, `fwd.terminate`, `fwd.link`, `info.exported` | `fwdThread` (the session id, 0 for none), `fwdTerminate`, `fwdLink`, `exported` |
| libusb's view of the ports | `present`; `PlugIn`, `Unplug` are the environment; `plugs` bounds replugging |
| `rh_disable_usb_bus`, `port_is_disabled` | `rh_disable_usb_bus(d)`, `disabled` (a device stands for its bus) |
| `update_local_usb_devices` | `UsbTimer`, then per device `remove_detached_devices` (reap, `exported` refresh, and for a missing device `terminate_forward` reading `fwd.link` into `tfLink`), `terminate_forward` (the shut), `delete_device` (the join, then removal), then `add_new_devices` (`NewDevices` is `device_already_exists` and the disabled-bus check) |
| `handle_usbip_req_devicelist` | `handle_usbip_req_devicelist`, offering `get_devicelist` |
| `handle_usbip_req_import` and `forwarding_start` | `handle_usbip_req_import(d)`: the status (`ImportStatus`: NODEV, DEV_BUSY, OK), then either no session (a rejected request or a failed exchange, leaving `fwd.link` alone; a failed `forwarding_start`, which resets `fwd.link` to NULL; the link is closed) or `forwarding_start` |
| host.c `network_listen` loop | `network_listen` (accept, link `nConns+1` opened, `hostPc` to "header") and `HostListenFail` (accept fails once `host_exit` shut the listening socket) |
| host.c `handle_usbip_command`, `handle_usbip_op` | `handle_usbip_command`: a failed `recv` or unknown code closes the link; otherwise `handle_usbip_op` enqueues the request with its link, or closes the link when `event_enqueue` refuses it after `EVENT_TERMINATE` (`BusRunning`) |
| the USB task's mailbox, `usb_loop` | `mailbox` (FIFO of `[type, link]`); `handle_event` takes its head, runs the handler and closes the link unless a session now holds it (`KeepLink`, usb.c:723-728) |
| `rh_server_exit`, `server_event_handler` | `rh_server_exit` (`srvPc` to "terminated"), `host_exit` (shut the listening socket, join the listener), `usb_exit`, `event_cleanup` (close the links of the events still queued) |
| `forwarding_start`'s monitor spawn failure | `MonitorSpawnFail(s)`: the monitor sets `fwd.terminate` and, without closing its link, joins RX (`MonitorJoinRx(s)`; when RX was not created the join returns at once) |
| `usb_exit` | `usb_exit` (the USB thread has been joined), `usb_exit_cleanup` per device, reusing `terminate_forward` and `delete_device`, then `Stopped` |
| the end of a session | `SessionEnd` (RX/TX exit, setting `fwd.terminate` of the struct it was started on) and `MonitorExit` (close and free the link, clear `fwd.link`) |

`shutFreed` records a `network_shut_link` on a link already freed.
`linkState[l]` is the state of connection `l` (open, shut, closed,
freed); `Holders(l)` is who may still close it: the listener thread, a
queued event, or a monitor.

**Refinement.** `AbstractExport` states what the task promises:

- an import gives a device to a fresh session only while no session holds it;
- a session ends by itself;
- a device is taken back only from a session that has ended.

`UsbExport` implements it under a refinement mapping (`ExportRefinement`):

- `holder` is `fwdThread`;
- `active` is the sessions whose monitor is live;
- `used` is the sessions ever started.

The reap in `remove_detached_devices` clears `forwarding_thread` only after
the session has set `fwd.terminate` and its monitor can be joined
(`ReapJoined`). Dropping the join check lets the mapped state take a device
back from a live session, and TLC reports that step.

**No fairness.** `UsbExport` checks safety only. A session ends when its
RX or TX thread leaves its loop, but the `backpressure_hang` and
`exit_lost_wakeup` runs show that either can sleep on `buffer_cond` for
good, and `network_shut_link` does not wake it. The joins of the reap,
of `terminate_forward` and of `usb_exit`'s cleanup may then never return,
and `usb_exit`'s own unlocked store of `running` and signal can be lost
(`event_termination`). No fairness on sessions or on the USB task is
justified, so no promise that sessions are reaped, that an unplugged
device leaves the list, that `usb_exit` returns or that a queued request
is answered is checked. What is checked is what holds whenever these
steps do happen: `ServerExitClean` says that a server that has shut down
has joined every session, emptied `usb_head` and closed every link no
session took.

### `ClientManager` (src/client/tasks/manager.c, util/vhci.c, tasks/interface.c, tasks/beacon.c) — partly modelled

The client's manager task with its list of attached devices, and the VHCI
bridge of each.

| Code | Model |
|---|---|
| `usb_device_head`, `next`, the item's (ip, port, busid) | `head`, `next`, `key`; `List` follows `next` from `head` (`Chain`) |
| `malloc`/`free` of an item | `alloc[i]`: unused, live, freed; `nAlloc` bounds the items allocated |
| `vhci_link`, `local_fwd_socket`, `fwd_terminated`, `local_fwd_thread` | `linkState`, `sockShut`, `fwdTerminated`, `bridge` |
| the VHCI status file | `portOwner`; `FreePorts`, `vhci_get_free_port` (lowest free port, or -1) |
| `attach_remote_device` | `attach_remote_device(k)`: a failed import exchange (`ImportFailed`: `exec_usbip_import_command` closed the link after a failed step, or the id check or item allocation failed) frees the link; or the bridge is set up and the sysfs write fails (then `exit_fwd` and free); or `vhci_attach`, `setup_forward` and `insert_device` |
| `detach_remote_device`, `TIMER_5S` | `detach_remote_device(k)`; `Timer5S`, `ReapVisit`, `ReapDone` |
| `exit_fwd`, `delete_device` | `exit_fwd_shut`, `exit_fwd_join`, `delete_device` (which matches on busid only, as the code does, via `Pred`) |
| the bridge threads | `BridgeStop` (`fwd_rx`/`fwd_tx` end on a failed read or write) and `monitor_forward_exit` (closes the link and socket, sets `fwd_terminated`, frees the port) |
| `manager_exit` and the end of `manager_handler` | `manager_exit`, `ShutdownVisit` (`exit_fwd` and `delete_device` per item), `Stopped` |

The model composes the manager with the two client tasks that feed it:

| Code | Model |
|---|---|
| `inform` (manager.c) and the bus's mask test | `inform(type, arg)` appends to `notes`, the interface task's mailbox, only for types in `IntfTypes` (the types `interface.c` subscribes to, `IntfMask`) |
| `intf_handle_event` (interface.c) | `intf_handle_event`. The application's view `appView` gains a key on `ATTACHED` and loses it on `DETACHED`. `DEVICELIST_READY` offers the server's exports (`offered`, via `ServerDevices`). `SERVER_DISCOVERED` calls `rh_get_devicelist`, which queues a request in `devlistReq` |
| `get_server_devicelist` (manager.c) | `get_server_devicelist` takes the head request and informs `DEVICELIST_READY` or `DEVICELIST_FAILED`, the two outcomes of `exec_usbip_devlist_command` (`DevlistResults`) |
| server `beacon_send` and client `handle_packet` (beacon.c) | `beacon_send(s)` builds the beacon, byte-swapping `ident` and `version_major` (`ByteSwap32`). `handle_packet` swaps them back (`beacon_from_network_order`), filters on identity, TLS use and major version (`BeaconAccepted`), and informs `SERVER_DISCOVERED`. `nBeacons` bounds the beacons received |

An attach is only requested for a key the application was offered.

In the pass run, `MCClientManager` has two servers. Only one server
exports devices, two bus ids. The second server announces a newer major
version, so its beacon must be dropped. In the `shared_busid` run, both
servers export the same bus id.

**Fairness.** The manager, the interface task and the bridge monitors are
threads (`WF` on each, including `intf_handle_event`). A bridge whose link
or socket was shut stops. Requests, servers, the kernel and
the user stopping the client get no fairness.

## 3. Runs

| Run | cfg | Expect | What it shows |
|---|---|---|---|
| `forwarding` | `MCForwarding.cfg` | pass | Replies echo requests (`ReplyAnswersRequest`). No seqnum or URB is answered twice (`UrbAnsweredOnce`). A not-found unlink is answered after its target (`UnlinkAfterTarget`). The destroy loop leaves no transfer in flight (`DrainLeavesNoTransfer`) and terminates (`DrainCompletes`). |
| `ready_count` | `MCForwarding_readycount.cfg` | violation | The unlocked `packets_ready++` in `handle_unlink` loses an update. |
| `backpressure_hang` | `MCForwarding_backpressure.cfg` | violation | RX stays blocked after TX drains the ring. |
| `exit_lost_wakeup` | `MCForwarding_lostwakeup.cfg` | violation | `rx_exit`'s unlocked signal is lost and TX waits forever. |
| `spawn_failure_leak` | `MCForwarding_spawnfail.cfg` | violation | The TX-creation failure path returns with a transfer in flight. |
| `event_bus` | `MCEventBus_client.cfg` | pass | Each client task handles exactly its subscribed events in bus order, from its registration on (`HandledInOrder`). `event_cleanup` leaves no event queued, though it runs without `event_lock` and, after `err_exit`, on a running bus: every producer is joined before it (`CleanupLeavesNoEvent`). An event in a running task's mailbox is handled, or the task is stopped (`EventEventuallyHandled`), also when `rh_client_init` fails half-way and goes to `err_exit`. |
| `event_termination` | `MCEventBus_termination.cfg` | violation | On the server, `usb_exit`'s signal without `event_lock` is lost, the join hangs, and spec §8.7 Termination fails. |
| `event_exit_final` | `MCEventBus_exitfinal.cfg` | violation | The client's `intf_loop` sets `running` after an early `interface_exit` cleared it. |
| `usb_export` | `MCUsbExport.cfg` | pass | No device has two live monitors (`AtMostOneMonitor`). A live monitor's struct is in the list, of its incarnation (`MonitorOwnsStruct`). Every connection has at most one holder, and none once closed (`LinkSingleOwner`). Once the server has shut down, every session is joined, `usb_head` is empty and every link no session took is closed, including requests `event_cleanup` found in the mailbox (`ServerExitClean`). The task implements `AbstractExport` (`ExportRefinement`). |
| `shut_after_free` | `MCUsbExport_uaf.cfg` | violation | `terminate_forward` shuts a link the monitor has freed. |
| `client_manager` | `MCClientManager.cfg` | pass | One entry per key (`KeyUnique`). Between events the list is the live entries, and every port holder is listed (`ListMatchesAttached`). Terminated bridges are reaped (`ReapEventually`). Handlers return (`HandlerCompletes`). The shutdown loop ends with no entry and no port held (`ShutdownReleasesAll`). Whether `manager_exit` returns is not claimed: its unlocked `running = false` and signal (manager.c:396-397) can be lost, as `event_termination` shows for the same pattern, and the model wakes the handler in one step. Once the interface task has drained its mailbox, the application's view of attached devices equals the manager's list (`AppViewMatchesList`). Device lists are requested only from servers whose beacon passed the TLS and version filter (`DevlistOnlyCompatible`). |
| `shared_busid` | `MCClientManager_sharedbusid.cfg` | violation | With one bus id on two servers, a detach unlinks the wrong entry and leaves the freed one listed. |

**Bounds.**

- **Forwarding.** `MaxSeq = 3` gives three USB/IP commands, the fewest that give:
  - an unlink whose target is still in the ring behind another packet;
  - an unlink whose target is in TX's hands;
  - a ready packet behind one that is not ready;
  - two completions racing a `packets_ready` update.

  `XferOutcomes = {COMPLETED, STALL}`: one success and one error. `PACKET_BUF_SIZE = 1` makes backpressure happen after the first completion. About 240,000 states.
- **EventBus.** The real task sets and masks, and one event from each producer kind, including `EVENT_TERMINATE`. That is enough to race every producer against the shutdown. Every failure point of the two-task start-up is explored (early failure, each `pthread_create`, the event-handler spawn). The timer runs one iteration of its loop (`TIMER_1S`, `TIMER_5S`), which puts its stop check and its join between two events of one iteration; two iterations give 300,000 states and 18 minutes. About 93,000 states in 1.5 minutes; `EventEventuallyHandled` is quantified only over the task and event pairs the masks let meet.
- **UsbExport.** Two devices, two connections (`MaxConns = 2`, each a device-list or an import request), one replug per device (`MaxPlugs = 1`), and one of the two buses disablable. That is enough for:
  - a second import of a device whose session is live or finished;
  - two requests queued in the mailbox at once, and a request refused after `EVENT_TERMINATE`;
  - an unplug during a session;
  - a replugged device getting a new struct while the old session ends;
  - a shutdown during any of these, with requests still queued.

  Three connections give over six million states; making only one bus disablable (the devices are otherwise interchangeable) keeps the run at about 400,000 states and half a minute.
- **ClientManager.** Two servers, two bus ids and one VHCI port, which makes port exhaustion reachable.
  - Three item allocations (`MaxAttach = 3`) allow attach, detach and re-attach, or a failure and two attaches of the two devices.
  - One beacon (`MaxBeacons = 1`) is received from either server, so both a kept and a dropped beacon are explored.
  - Only one server exports devices in the pass run. A second exporting server only multiplies keys; the bus-id-only match it would exercise is the `shared_busid` run.
  - About 100,000 states in under a minute.

Deadlock checking is off only in the Forwarding and EventBus cfgs. There a finished session or process has nothing left to do, and an idle session blocks every thread. The UsbExport and ClientManager cfgs check deadlock. Their terminal `Stopped` step is the only state with nothing else enabled.

**Mutants.** Each property of a pass run is checked against a plausible bug:

| Run | Property | Mutated code |
|---|---|---|
| forwarding | `TypeOK` | status codes without their sign |
| forwarding | `ReplyAnswersRequest` | TX not rewriting the seqnum of an unlinked packet |
| forwarding | `UrbAnsweredOnce` | `dequeue_ready_packet` not relinking the list past a non-head packet |
| forwarding | `UnlinkAfterTarget` | `unlink_packet` looking only at the ring's head |
| forwarding | `DrainLeavesNoTransfer` | the destroy loop freeing without cancelling or waiting |
| forwarding | `DrainCompletes` | the destroy loop waiting without cancelling |
| event_bus | `HandledInOrder` | `event_insert` at the head of the mailbox |
| event_bus | `EventEventuallyHandled` | `event_enqueue` without the signal |
| event_bus | `CleanupLeavesNoEvent` | `timer_exit` (and the other joins) not waiting for the producer thread |
| usb_export | `TypeOK` | `add_new_devices` without `device_already_exists` |
| usb_export | `AtMostOneMonitor` | the import without the DEV_BUSY check on `forwarding_thread` |
| usb_export | `MonitorOwnsStruct` | `delete_device` without the join |
| usb_export | `LinkSingleOwner` | `usb_loop` keeping the request link open when no session took it |
| usb_export | `ServerExitClean` | `event_cleanup` freeing queued events without closing their links |
| usb_export | `ExportRefinement` | the reap clearing `forwarding_thread` without checking that the session ended |
| client_manager | `TypeOK` | `vhci_attach_device` not checking for -1 |
| client_manager | `KeyUnique` | attach not checking for an attached triple |
| client_manager | `ListMatchesAttached` | `delete_device` rewriting the found node instead of its predecessor |
| client_manager | `ReapEventually` | `monitor_forward` not setting `fwd_terminated` |
| client_manager | `HandlerCompletes` | `exit_fwd` joining without the shut |
| client_manager | `ShutdownReleasesAll` | `exit_fwd` freeing the link without joining the bridge |
| client_manager | `AppViewMatchesList` | the interface mask without `EVENT_DEVICE_DETACHED` |
| client_manager | `DevlistOnlyCompatible` | `handle_packet` without the major-version check |

**Findings.** Each violation run is a finding in `PROJECT.json`:

- **`packets_ready` is updated outside the lock** (`ready_count`, forwarding.c:477).
- **TX never signals RX** after draining the ring (`backpressure_hang`, forwarding.c:605).
- **Unlocked exit signals are lost:**
  - `exit_lost_wakeup` (forwarding.c:645);
  - `event_termination` (usb.c:774; `manager_exit`, `interface_exit` and `beacon_exit` do the same).
- **The TX-spawn failure path** returns with transfers in flight (`spawn_failure_leak`, forwarding.c:847).
- **The client interface thread re-arms itself** (`event_exit_final`, interface.c:183). The early `interface_exit` is `rh_client_exit` soon after start-up, or `rh_client_init`'s own `err_exit` when the event-handler thread cannot be created right after `interface_task_init`.
- **`terminate_forward` uses a freed link** (`shut_after_free`, usb.c:419).
- **The client's `delete_device` matches by bus id only** (`shared_busid`, manager.c:79).

Two further divergences were noted while modelling. Neither has a run:

- The client interface mask (interface.c:215-229) leaves out `EVENT_DEVICE_DETACH_FAILED`. spec.md §4.6 lists it among the events passed to the application. The model keeps the mask as written, so a failed detach is never reported. It is a hazard in `PROJECT.json`.
- The client beacon listener stores `bcn.port` in the server's `version` field. No modelled behaviour reads that field.
- `host_exit` (host.c:132) shuts only the listening socket and then joins the listener. `handle_usbip_command` reads the request header with no timeout, so a client that connects and sends nothing blocks the join, and with it the whole server shutdown. The model's listener always completes its `recv`, so the run does not show the hang; it is a hazard in `PROJECT.json`.
- `event.c` never resets its task list (`head`), and the tasks are static structs that keep their `next` pointer. A second `rh_client_init` or `rh_server_init` in the same process (a retry after a failed init, or a restart after `rh_*_exit`) registers the timer task again while it is still in the list. The list becomes cyclic, and the next `event_task_register` (event.c:53) walks it forever. `EventBus` models one start-up per process, so no run shows this; it is a hazard.
- When `forwarding_start` fails to spawn the monitor's RX or TX thread (forwarding.c:838), the monitor returns without closing or freeing its link, and `fwd.link` keeps pointing at it. `MonitorSpawnFail` models this; the leak is a hazard.

## 4. Not modelled

- `host_task_init`'s failure paths (server socket, listener thread). The start-up and `err_exit` of both executables are in `EventBus`, but the `usb_export` run starts with every server thread running.
- TLS and TCP setup. The models treat a link as open, shut, closed or freed.
- Logging, configuration parsing and CLI handling: pure I/O or formatting.
- The wire encoding of the OP messages, which is byte swapping.
- Descriptor parsing on the server (`get_basic_device_info`, `parse_endpoints`, `get_busid`) and `generate_devicelist`: data conversion.
- `libusb_loop`, which only pumps libusb events. Its effect on a session is the completion callbacks of `Forwarding`.
- The beacon sockets and `beacon_exit`. Beacons are modelled as the values they carry, not the UDP send and receive.
- The client timer's counter in `ClientManager`, where `Timer5S` fires at any time, which covers every phase of the five-second tick. The timer loop itself is in `EventBus`; its one-second sleep is not timed.
- `command.c`'s byte exchanges step by step. Each is modelled by its outcome (`ImportFailed`, `DevlistResults`). The device-list query's own link is not tracked, so its leak on a failed `calloc` (command.c:85) is a hazard without a property.
- `vhci_detach_device`, which nothing in the source calls.
- The server interface task's callbacks (server/tasks/interface.c). Its running flag and event loop are an `EventBus` task. Its handler runs under `intf_lock`, as do the subscribe and unsubscribe calls. It only calls the application's subscribed callback, or frees the event's data when there is none. The callback pointers are the only state, and no other task of the server reads them.
