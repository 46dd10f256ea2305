------------------------------ MODULE UsbExport ------------------------------
(***************************************************************************)
(* The server's USB task (src/server/tasks/usb.c): the device list it     *)
(* keeps, the TIMER_1S rescan (remove_detached_devices, terminate_forward, *)
(* add_new_devices), and the REQ_DEVICELIST and REQ_IMPORT handlers that  *)
(* start forwarding sessions; composed with the host listener thread that *)
(* accepts the connections and queues the requests (host.c), the USB      *)
(* task's mailbox, and the server's shutdown sequence (server.c).          *)
(*                                                                         *)
(* A forwarding session is abstracted to its monitor's lifecycle: it runs, *)
(* it drains once terminate is set (its link failed, the client left, or   *)
(* terminate_forward shut the link), and it is done once monitor has freed *)
(* the link and returned.  Forwarding.tla models what happens inside.      *)
(* Every accepted connection has a link id; the session of an import     *)
(* takes the id of the link it was started on.                             *)
(***************************************************************************)
EXTENDS Naturals, Sequences, SequencesExt, FiniteSets

CONSTANTS
  Devices,      \* bus-ids of USB devices that may be plugged in
  MaxConns,     \* connections the host listener accepts (link ids)
  Disablable,   \* buses the application may pass to rh_disable_usb_bus
  MaxPlugs      \* times a device may be plugged in

ASSUME MaxConns \in Nat /\ MaxPlugs \in Nat \ {0} /\ Disablable \subseteq Devices

\* Link ids; an import's session has the id of its link.
Sids == 1..MaxConns

VARIABLES
  present,      \* devices libusb_get_device_list reports
  plugs,        \* times each device has been plugged in
  disabled,     \* devices on a bus given to rh_disable_usb_bus
  usbList,      \* usb_head: the tracked server_usb_devices, head first
  gen,          \* incarnation of each device's server_usb_device struct
  exported,     \* info.exported
  fwdThread,    \* fwd.forwarding_thread: the session it runs, 0 = none
  fwdTerminate, \* fwd.terminate
  fwdLink,      \* fwd.link: the session whose link it points at, 0 = NULL
  mon,          \* session -> its device, that struct's gen, monitor state
  linkState,    \* link -> state of its est_conn
  nConns,       \* connections accepted so far
  hostPc,       \* host listener thread (usbip_rx_handler)
  hostLink,     \* the link it is reading the OP header of
  mailbox,      \* the USB task's event queue: REQ_* events with their link
  srvPc,        \* server_event_handler thread
  offer,        \* the devices the last OP_REP_DEVLIST listed
  usbPc,        \* USB task program counter
  cursor,       \* devices remove_detached_devices has still to visit
  tfLink,       \* the fwd.link terminate_forward read
  shutFreed     \* network_shut_link has been called on a freed link

hostVars == <<nConns, hostPc, hostLink, mailbox, srvPc>>

vars == <<present, plugs, disabled, usbList, gen, exported, fwdThread,
          fwdTerminate, fwdLink, mon, linkState, offer,
          usbPc, cursor, tfLink, shutFreed, hostVars>>

Listed == Range(usbList)

NoMonitor == [dev |-> CHOOSE d \in Devices : TRUE, gen |-> 0, pc |-> "unused"]

\* A session whose monitor thread has not returned.
Live(s) == mon[s].pc \in {"running", "draining", "rxjoin"}

\* The monitor of session s works on the current struct of its device.
OwnsStruct(s) == mon[s].dev \in Listed /\ mon[s].gen = gen[mon[s].dev]

\* event_enqueue accepts events until EVENT_TERMINATE clears running.
BusRunning == srvPc = "run"

\* host_exit has shut the listening socket and cleared host_rx.running.
ListenShut == srvPc \in {"host_join", "usb_exit", "done"}

-----------------------------------------------------------------------------
(* Environment: the host's USB ports, the embedding application, clients   *)

PlugIn(d) ==
  /\ d \notin present /\ plugs[d] < MaxPlugs
  /\ present' = present \cup {d}
  /\ plugs' = [plugs EXCEPT ![d] = @ + 1]
  /\ UNCHANGED <<hostVars, disabled, usbList, gen, exported, fwdThread, fwdTerminate,
                 fwdLink, mon, linkState, offer,
                 usbPc, cursor, tfLink, shutFreed>>

Unplug(d) ==
  /\ d \in present
  /\ present' = present \ {d}
  /\ UNCHANGED <<hostVars, plugs, disabled, usbList, gen, exported, fwdThread,
                 fwdTerminate, fwdLink, mon, linkState, offer, usbPc, cursor, tfLink, shutFreed>>

\* rh_disable_usb_bus, called by the application.
rh_disable_usb_bus(d) ==
  /\ d \notin disabled
  /\ disabled' = disabled \cup {d}
  /\ UNCHANGED <<hostVars, present, plugs, usbList, gen, exported, fwdThread,
                 fwdTerminate, fwdLink, mon, linkState, offer, usbPc, cursor, tfLink, shutFreed>>

-----------------------------------------------------------------------------
(* A forwarding session (forwarding.c), abstracted                         *)

\* RX or TX exits (link failure, client gone, NO_DEVICE) and sets
\* fwd.terminate of the device struct the session was started on.
SessionEnd(s) ==
  /\ mon[s].pc = "running"
  /\ mon' = [mon EXCEPT ![s].pc = "draining"]
  /\ fwdTerminate' = IF OwnsStruct(s)
                       THEN [fwdTerminate EXCEPT ![mon[s].dev] = TRUE]
                       ELSE fwdTerminate
  /\ UNCHANGED <<hostVars, present, plugs, disabled, usbList, gen, exported, fwdThread,
                 fwdLink, linkState, offer, 
                 usbPc, cursor, tfLink, shutFreed>>

\* The end of monitor: network_close_link, free(link), fwd.link = NULL.
MonitorExit(s) ==
  /\ mon[s].pc = "draining"
  /\ mon' = [mon EXCEPT ![s].pc = "done"]
  /\ linkState' = [linkState EXCEPT ![s] = "freed"]
  /\ fwdLink' = IF OwnsStruct(s) THEN [fwdLink EXCEPT ![mon[s].dev] = 0]
                ELSE fwdLink
  /\ UNCHANGED <<hostVars, present, plugs, disabled, usbList, gen, exported, fwdThread,
                 fwdTerminate, offer, usbPc,
                 cursor, tfLink, shutFreed>>

\* monitor when pthread_create of RX or TX fails: the device is released
\* and fwd.terminate set, but the thread returns without closing the
\* link or clearing fwd.link.  When RX was created (TX failed), monitor
\* first joins RX ("rxjoin"); when RX was not, the same step returns at
\* once, which is the join returning at once.
MonitorSpawnFail(s) ==
  /\ mon[s].pc = "running"
  /\ mon' = [mon EXCEPT ![s].pc = "rxjoin"]
  /\ fwdTerminate' = IF OwnsStruct(s)
                       THEN [fwdTerminate EXCEPT ![mon[s].dev] = TRUE]
                       ELSE fwdTerminate
  /\ UNCHANGED <<hostVars, present, plugs, disabled, usbList, gen, exported,
                 fwdThread, fwdLink, linkState, offer, usbPc, cursor, tfLink,
                 shutFreed>>

\* pthread_join(rx_thread) after the TX create failure returns once RX
\* has left its loop; monitor then returns.
MonitorJoinRx(s) ==
  /\ mon[s].pc = "rxjoin"
  /\ mon' = [mon EXCEPT ![s].pc = "done"]
  /\ UNCHANGED <<hostVars, present, plugs, disabled, usbList, gen, exported,
                 fwdThread, fwdTerminate, fwdLink, linkState, offer, usbPc,
                 cursor, tfLink, shutFreed>>

-----------------------------------------------------------------------------
(* USB task: EVENT_TIMER_1S -> update_local_usb_devices                     *)

\* The timer task's event_enqueue fails once EVENT_TERMINATE has stopped
\* the bus, so rescans end with it.
UsbTimer ==
  /\ usbPc = "idle" /\ BusRunning
  /\ usbPc' = "rm" /\ cursor' = usbList
  /\ UNCHANGED <<hostVars, present, plugs, disabled, usbList, gen, exported, fwdThread,
                 fwdTerminate, fwdLink, mon, linkState, offer, tfLink, shutFreed>>

\* pthread_join(forwarding_thread) returns once that monitor has returned.
Joinable(d) == IF fwdThread[d] = 0 THEN TRUE ELSE mon[fwdThread[d]].pc = "done"

\* Mutant: the reap clears forwarding_thread without joining the thread.
ReapJoined_nojoin(d) == TRUE

\* The reap's pthread_join: a device whose terminate is set is passed only
\* once its forwarding thread has returned.
ReapJoined(d) == fwdTerminate[d] => Joinable(d)

\* Mutant: the reap forgets to clear forwarding_thread.
ReapedThread_noreap(d) == fwdThread[d]

\* forwarding_thread after the reap at the top of remove_detached_devices.
ReapedThread(d) == IF fwdTerminate[d] THEN 0 ELSE fwdThread[d]

\* One device of remove_detached_devices: reap a terminated session (join,
\* clear forwarding_thread and terminate), refresh info.exported, and if
\* the device is gone start terminate_forward by reading fwd.link.
remove_detached_devices ==
  /\ usbPc = "rm" /\ cursor # <<>>
  /\ LET d == Head(cursor)
         th == ReapedThread(d)
     IN /\ ReapJoined(d)
        /\ fwdThread' = [fwdThread EXCEPT ![d] = th]
        /\ fwdTerminate' = [fwdTerminate EXCEPT ![d] = FALSE]
        /\ exported' = [exported EXCEPT ![d] = th # 0]
        /\ IF d \in present
             THEN /\ cursor' = Tail(cursor)
                  /\ UNCHANGED <<usbPc, tfLink>>
             ELSE /\ tfLink' = fwdLink[d]
                  /\ usbPc' = "tf_shut"
                  /\ UNCHANGED cursor
  /\ UNCHANGED <<hostVars, present, plugs, disabled, usbList, gen, fwdLink, mon,
                 linkState, offer, shutFreed>>

\* Mutant: terminate_forward joins without shutting the link.
terminate_forward_noshut ==
  /\ usbPc \in {"tf_shut", "xtf_shut"}
  /\ usbPc' = IF usbPc = "tf_shut" THEN "tf_join" ELSE "xtf_join"
  /\ UNCHANGED <<hostVars, present, plugs, disabled, usbList, gen, exported, fwdThread,
                 fwdTerminate, fwdLink, mon, linkState, offer, cursor, tfLink, shutFreed>>

\* terminate_forward: network_shut_link on the link it read.
terminate_forward ==
  /\ usbPc \in {"tf_shut", "xtf_shut"}
  /\ IF tfLink = 0
       THEN UNCHANGED <<linkState, shutFreed>>
       ELSE /\ shutFreed' = (shutFreed \/ linkState[tfLink] = "freed")
            /\ linkState' = [linkState EXCEPT ![tfLink] =
                               IF @ = "open" THEN "shut" ELSE @]
  /\ usbPc' = IF usbPc = "tf_shut" THEN "tf_join" ELSE "xtf_join"
  /\ UNCHANGED <<hostVars, present, plugs, disabled, usbList, gen, exported, fwdThread,
                 fwdTerminate, fwdLink, mon, offer,
                 cursor, tfLink>>

\* Mutant: delete_device without terminate_forward's join.
delete_device_nojoin ==
  /\ usbPc \in {"tf_join", "xtf_join"}
  /\ LET d == Head(cursor) IN
       /\ fwdThread' = [fwdThread EXCEPT ![d] = 0]
       /\ usbList' = SelectSeq(usbList, LAMBDA x : x # d)
  /\ cursor' = Tail(cursor)
  /\ usbPc' = IF usbPc = "tf_join" THEN "rm" ELSE "exit"
  /\ UNCHANGED <<hostVars, present, plugs, disabled, gen, exported, fwdTerminate,
                 fwdLink, mon, linkState, offer,
                 tfLink, shutFreed>>

\* terminate_forward's join, then libusb_unref_device, inform_detached and
\* delete_device; back to the loop of remove_detached_devices, or of
\* usb_exit.
delete_device ==
  /\ usbPc \in {"tf_join", "xtf_join"}
  /\ LET d == Head(cursor) IN
       /\ Joinable(d)
       /\ fwdThread' = [fwdThread EXCEPT ![d] = 0]
       /\ usbList' = SelectSeq(usbList, LAMBDA x : x # d)
  /\ cursor' = Tail(cursor)
  /\ usbPc' = IF usbPc = "tf_join" THEN "rm" ELSE "exit"
  /\ UNCHANGED <<hostVars, present, plugs, disabled, gen, exported, fwdTerminate,
                 fwdLink, mon, linkState, offer,
                 tfLink, shutFreed>>

\* Mutant: device_already_exists is not consulted.
NewDevices_noexists == present \ disabled

\* The devices add_new_devices takes: present in the libusb list, not a hub,
\* not device_already_exists, not on a disabled bus.
NewDevices == present \ (Listed \cup disabled)

\* add_new_devices: a fresh zeroed struct for every present device that is
\* neither tracked nor on a disabled bus, inserted at the head.
add_new_devices ==
  /\ usbPc = "rm" /\ cursor = <<>>
  /\ LET new == NewDevices IN
       /\ usbList' = SetToSeq(new) \o usbList
       /\ gen' = [d \in Devices |-> IF d \in new THEN gen[d] + 1 ELSE gen[d]]
       /\ exported' = [d \in Devices |-> IF d \in new THEN FALSE ELSE exported[d]]
       /\ fwdThread' = [d \in Devices |-> IF d \in new THEN 0 ELSE fwdThread[d]]
       /\ fwdTerminate' = [d \in Devices |->
                             IF d \in new THEN FALSE ELSE fwdTerminate[d]]
       /\ fwdLink' = [d \in Devices |-> IF d \in new THEN 0 ELSE fwdLink[d]]
  /\ usbPc' = "idle"
  /\ UNCHANGED <<hostVars, present, plugs, disabled, mon, linkState, offer, cursor, tfLink, shutFreed>>

-----------------------------------------------------------------------------
(* USB task: EVENT_REQ_DEVICELIST and EVENT_REQ_IMPORT                      *)

\* get_devicelist(get_exported = false): the tracked devices whose
\* info.exported is clear.
get_devicelist == {d \in Listed : ~exported[d]}

\* handle_usbip_req_devicelist: OP_REP_DEVLIST lists get_devicelist (a
\* failed send only cuts the reply short).
handle_usbip_req_devicelist == offer' = get_devicelist

\* port_is_disabled: bus_is_disabled walks usb_bus_info_head under
\* usb_conf_lock; a device stands for its bus.
port_is_disabled(d) == d \in disabled

\* Mutant: no DEV_BUSY for a device whose forwarding thread is set.
ImportStatus_nobusy(d) ==
  IF d \notin Listed THEN "NODEV"
  ELSE IF port_is_disabled(d) THEN "DEV_BUSY"
  ELSE "OK"

\* The status OP_REP_IMPORT carries for bus-id d.
ImportStatus(d) ==
  IF d \notin Listed THEN "NODEV"
  ELSE IF port_is_disabled(d) \/ fwdThread[d] # 0 THEN "DEV_BUSY"
  ELSE "OK"

\* forwarding_start succeeding: the device is opened, claimed and reset,
\* and the monitor thread of session s runs on the link handed to it.
forwarding_start(d, s) ==
  /\ mon' = [mon EXCEPT ![s] = [dev |-> d, gen |-> gen[d], pc |-> "running"]]
  /\ fwdThread' = [fwdThread EXCEPT ![d] = s]
  /\ fwdLink' = [fwdLink EXCEPT ![d] = s]

\* handle_usbip_req_import on the request of link s.  No session starts
\* when the status is NODEV or DEV_BUSY or the exchange fails (the request
\* is not received, the OK header or the reply is not sent): fwd.link is
\* left alone.  When forwarding_start fails after the OK reply
\* (libusb_open, claim_device, pthread_create), fwd.link is reset to NULL.
handle_usbip_req_import(d, s) ==
  \/ UNCHANGED <<mon, fwdThread, fwdLink>>
  \/ /\ ImportStatus(d) = "OK"
     /\ fwdLink' = [fwdLink EXCEPT ![d] = 0]
     /\ UNCHANGED <<mon, fwdThread>>
  \/ /\ ImportStatus(d) = "OK"
     /\ forwarding_start(d, s)

\* network_close_link and free on every link of L.
CloseLinks(L) == [l \in Sids |-> IF l \in L THEN "closed" ELSE linkState[l]]

\* Mutant: handle_event closes the link whatever the import returned.
KeepLink_never(s) == FALSE

\* keep_link: handle_usbip_req_import returned true, i.e. a session now
\* owns link s.
KeepLink(s) == mon'[s].pc # "unused"

\* usb_loop: event_dequeue takes the head of the mailbox and handle_event
\* runs its handler.  The link of a device-list request is closed after
\* the reply; that of an import unless the import kept it.
handle_event ==
  /\ usbPc = "idle" /\ mailbox # <<>>
  /\ LET ev == Head(mailbox) IN
       \/ /\ ev.type = "REQ_DEVICELIST"
          /\ handle_usbip_req_devicelist
          /\ linkState' = CloseLinks({ev.link})
          /\ UNCHANGED <<mon, fwdThread, fwdLink>>
       \/ /\ ev.type = "REQ_IMPORT"
          /\ \E d \in Devices : handle_usbip_req_import(d, ev.link)
          /\ linkState' = IF KeepLink(ev.link) THEN linkState
                           ELSE CloseLinks({ev.link})
          /\ UNCHANGED offer
  /\ mailbox' = Tail(mailbox)
  /\ UNCHANGED <<present, plugs, disabled, usbList, gen, exported,
                 fwdTerminate, usbPc, cursor, tfLink, shutFreed,
                 nConns, hostPc, hostLink, srvPc>>

-----------------------------------------------------------------------------
(* Host listener thread (host.c usbip_rx_handler)                          *)

\* calloc a link and network_listen: accept returns a new connection.
network_listen ==
  /\ hostPc = "accept" /\ ~ListenShut /\ nConns < MaxConns
  /\ LET l == nConns + 1 IN
       /\ nConns' = l /\ hostLink' = l
       /\ linkState' = [linkState EXCEPT ![l] = "open"]
  /\ hostPc' = "header"
  /\ UNCHANGED <<present, plugs, disabled, usbList, gen, exported, fwdThread,
                 fwdTerminate, fwdLink, mon, offer, usbPc, cursor, tfLink,
                 shutFreed, mailbox, srvPc>>

\* accept fails on the socket host_exit shut; the loop then sees
\* host_rx.running cleared and the thread returns.
HostListenFail ==
  /\ hostPc = "accept" /\ ListenShut
  /\ hostPc' = "exited"
  /\ UNCHANGED <<present, plugs, disabled, usbList, gen, exported, fwdThread,
                 fwdTerminate, fwdLink, mon, linkState, offer, usbPc, cursor,
                 tfLink, shutFreed, nConns, hostLink, mailbox, srvPc>>

\* handle_usbip_op_devlist, handle_usbip_op_import: event_enqueue of a
\* REQ_* event with the link, which fails once the bus has stopped; then
\* the link is closed.
handle_usbip_op(t, l) ==
  IF BusRunning
    THEN /\ mailbox' = Append(mailbox, [type |-> t, link |-> l])
         /\ UNCHANGED linkState
    ELSE /\ linkState' = CloseLinks({l})
         /\ UNCHANGED mailbox

\* handle_usbip_command: the OP header arrives when the client sends it.
\* A failed recv or an unknown code closes the link; OP_REQ_DEVLIST and
\* OP_REQ_IMPORT go to the USB task.
handle_usbip_command ==
  /\ hostPc = "header"
  /\ \/ /\ linkState' = CloseLinks({hostLink})
        /\ UNCHANGED mailbox
     \/ \E t \in {"REQ_DEVICELIST", "REQ_IMPORT"} : handle_usbip_op(t, hostLink)
  /\ hostPc' = "accept" /\ hostLink' = 0
  /\ UNCHANGED <<present, plugs, disabled, usbList, gen, exported, fwdThread,
                 fwdTerminate, fwdLink, mon, offer, usbPc, cursor, tfLink,
                 shutFreed, nConns, srvPc>>

-----------------------------------------------------------------------------
(* Shutdown: rh_server_exit and server_event_handler (server.c)            *)

\* rh_server_exit: EVENT_TERMINATE clears the bus's running flag and wakes
\* event_handler in server_event_handler.
rh_server_exit ==
  /\ srvPc = "run"
  /\ srvPc' = "terminated"
  /\ UNCHANGED <<present, plugs, disabled, usbList, gen, exported, fwdThread,
                 fwdTerminate, fwdLink, mon, linkState, offer, usbPc, cursor,
                 tfLink, shutFreed, nConns, hostPc, hostLink, mailbox>>

\* interface_exit (no state here), then host_exit: shutdown of the
\* listening socket, host_rx.running = false, and the join of the host
\* thread, which returns once that thread has left its loop.
host_exit ==
  /\ \/ srvPc = "terminated" /\ srvPc' = "host_join"
     \/ srvPc = "host_join" /\ hostPc = "exited" /\ srvPc' = "usb_exit"
  /\ UNCHANGED <<present, plugs, disabled, usbList, gen, exported, fwdThread,
                 fwdTerminate, fwdLink, mon, linkState, offer, usbPc, cursor,
                 tfLink, shutFreed, nConns, hostPc, hostLink, mailbox>>

\* usb_exit: usb.running = false and the USB thread is joined: it finishes
\* the event it is handling and leaves the rest in its mailbox, so the
\* cleanup starts from an idle task.  The cleanup walks usb_head.
usb_exit ==
  /\ srvPc = "usb_exit" /\ usbPc = "idle"
  /\ usbPc' = "exit" /\ cursor' = usbList
  /\ UNCHANGED <<hostVars, present, plugs, disabled, usbList, gen, exported,
                 fwdThread, fwdTerminate, fwdLink, mon, linkState, offer,
                 tfLink, shutFreed>>

\* One device of usb_exit's cleanup loop: terminate_forward reads fwd.link,
\* then delete_device; with the list walked, libusb is stopped.
usb_exit_cleanup ==
  /\ usbPc = "exit"
  /\ IF cursor # <<>>
       THEN /\ tfLink' = fwdLink[Head(cursor)]
            /\ usbPc' = "xtf_shut"
       ELSE /\ usbPc' = "stopped"
            /\ UNCHANGED tfLink
  /\ UNCHANGED <<hostVars, present, plugs, disabled, usbList, gen, exported,
                 fwdThread, fwdTerminate, fwdLink, mon, linkState, offer,
                 cursor, shutFreed>>

\* The links of the REQ_* events left in a mailbox.
QueuedLinks == {mailbox[i].link : i \in 1..Len(mailbox)}

\* Mutant: event_cleanup frees the events without closing their links.
event_cleanup_noclose ==
  /\ srvPc = "usb_exit" /\ usbPc = "stopped"
  /\ mailbox' = <<>> /\ srvPc' = "done"
  /\ UNCHANGED <<present, plugs, disabled, usbList, gen, exported, fwdThread,
                 fwdTerminate, fwdLink, mon, linkState, offer, usbPc, cursor,
                 tfLink, shutFreed, nConns, hostPc, hostLink>>

\* beacon_exit and timer_exit (no state here), then event_cleanup: every
\* event left in a mailbox is freed, and its link closed and freed.
event_cleanup ==
  /\ srvPc = "usb_exit" /\ usbPc = "stopped"
  /\ linkState' = CloseLinks(QueuedLinks)
  /\ mailbox' = <<>> /\ srvPc' = "done"
  /\ UNCHANGED <<present, plugs, disabled, usbList, gen, exported, fwdThread,
                 fwdTerminate, fwdLink, mon, offer, usbPc, cursor, tfLink,
                 shutFreed, nConns, hostPc, hostLink>>

\* The server has shut down.
Stopped == srvPc = "done" /\ UNCHANGED vars

-----------------------------------------------------------------------------
Init ==
  /\ present \in SUBSET Devices
  /\ plugs = [d \in Devices |-> IF d \in present THEN 1 ELSE 0]
  /\ disabled = {}
  /\ usbList = <<>> /\ gen = [d \in Devices |-> 0]
  /\ exported = [d \in Devices |-> FALSE]
  /\ fwdThread = [d \in Devices |-> 0]
  /\ fwdTerminate = [d \in Devices |-> FALSE]
  /\ fwdLink = [d \in Devices |-> 0]
  /\ mon = [s \in Sids |-> NoMonitor]
  /\ linkState = [s \in Sids |-> "none"]
  /\ offer = {}
  /\ usbPc = "idle" /\ cursor = <<>> /\ tfLink = 0 /\ shutFreed = FALSE
  /\ nConns = 0 /\ hostPc = "accept" /\ hostLink = 0 /\ mailbox = <<>>
  /\ srvPc = "run"

UsbTask == UsbTimer \/ remove_detached_devices \/ terminate_forward
             \/ delete_device \/ add_new_devices \/ usb_exit_cleanup

\* The host thread's steps; handle_usbip_command waits for the client.
Host == network_listen \/ HostListenFail \/ handle_usbip_command

\* The server_event_handler thread's steps after EVENT_TERMINATE.
Server == host_exit \/ usb_exit \/ event_cleanup

Environment == \/ \E d \in Devices : PlugIn(d) \/ Unplug(d)
               \/ \E d \in Disablable : rh_disable_usb_bus(d)

Sessions == \E s \in Sids : SessionEnd(s) \/ MonitorExit(s) \/ MonitorSpawnFail(s)
                             \/ MonitorJoinRx(s)

Next == UsbTask \/ handle_event \/ Host \/ Environment \/ Sessions
          \/ rh_server_exit \/ Server \/ Stopped

\* No fairness: a session's RX or TX thread can sleep on buffer_cond for
\* good (see Forwarding), and network_shut_link does not wake it, so the
\* joins of terminate_forward, of the reap and of usb_exit need not
\* return; usb_exit's own store of running and signal can also be lost
\* (see EventBus).  Only safety is checked of this composition.
Spec == Init /\ [][Next]_vars

-----------------------------------------------------------------------------
(* Properties                                                              *)

TypeOK ==
  /\ present \subseteq Devices /\ disabled \subseteq Devices
  /\ plugs \in [Devices -> 0..MaxPlugs]
  /\ usbList \in Seq(Devices) /\ gen \in [Devices -> 0..MaxPlugs]
  /\ exported \in [Devices -> BOOLEAN]
  /\ fwdThread \in [Devices -> {0} \cup Sids]
  /\ fwdTerminate \in [Devices -> BOOLEAN]
  /\ fwdLink \in [Devices -> {0} \cup Sids]
  /\ \A s \in Sids : mon[s].dev \in Devices /\ mon[s].gen \in 0..MaxPlugs
                     /\ mon[s].pc \in {"unused", "running", "draining", "rxjoin", "done"}
  /\ linkState \in [Sids -> {"none", "open", "shut", "closed", "freed"}]
  /\ nConns \in 0..MaxConns /\ hostLink \in {0} \cup Sids
  /\ hostPc \in {"accept", "header", "exited"}
  /\ mailbox \in Seq([type : {"REQ_DEVICELIST", "REQ_IMPORT"}, link : Sids])
  /\ srvPc \in {"run", "terminated", "host_join", "usb_exit", "done"}
  /\ offer \subseteq Devices
  /\ usbPc \in {"idle", "rm", "tf_shut", "tf_join",
                "exit", "xtf_shut", "xtf_join", "stopped"}
  /\ cursor \in Seq(Devices) /\ tfLink \in {0} \cup Sids
  /\ shutFreed \in BOOLEAN

\* handle_usbip_req_import's DEV_BUSY check on forwarding_thread, with the
\* reap in remove_detached_devices that clears it, never lets two monitor
\* threads drive the same USB device.
AtMostOneMonitor ==
  \A d \in Devices : Cardinality({s \in Sids : Live(s) /\ mon[s].dev = d}) <= 1

\* remove_detached_devices joins the forwarding thread (terminate_forward)
\* before delete_device frees the struct, so a monitor that has not
\* returned always works on a struct still in usb_head, of its incarnation.
MonitorOwnsStruct == \A s \in Sids : Live(s) => OwnsStruct(s)

\* The holders of link l: the host thread reading its OP header, a REQ_*
\* event in the USB task's mailbox, and the monitor of its session.
Holders(l) ==
  {h \in {"host", "mailbox", "monitor"} :
     \/ h = "host" /\ hostPc = "header" /\ hostLink = l
     \/ h = "mailbox" /\ l \in QueuedLinks
     \/ h = "monitor" /\ Live(l)}

\* A link is handed on, never shared: the host thread gives it up to
\* event_enqueue, handle_event closes it unless the import gave it to a
\* monitor, the monitor closes it when the session ends, and event_cleanup
\* closes what is left in the mailbox.  At most one of them holds a link at
\* a time, and none holds a link once it has been closed.
LinkSingleOwner ==
  \A l \in Sids :
    /\ Cardinality(Holders(l)) <= 1
    /\ linkState[l] \in {"closed", "freed"} => Holders(l) = {}

\* When server_event_handler has run to its end, usb_exit's cleanup has
\* joined every monitor and emptied usb_head, and every link no session
\* took is closed: by the host thread on a bad OP header or a stopped bus,
\* by handle_event after its reply, or by event_cleanup for a request
\* still in the USB task's mailbox.  No client is left on a link nobody
\* will use again.
ServerExitClean ==
  srvPc = "done" =>
    /\ usbList = <<>>
    /\ \A s \in Sids : ~Live(s)
    /\ \A l \in Sids : mon[l].pc = "unused" => linkState[l] \in {"none", "closed"}

\* terminate_forward never calls network_shut_link on a link that monitor
\* has already closed and freed.
NoLinkUseAfterFree == ~shutFreed

-----------------------------------------------------------------------------
(* Refinement of AbstractExport                                             *)

\* A device is held by the session forwarding_thread names; a session is
\* active while its monitor thread has not returned, and used once an
\* import started it.
Abs == INSTANCE AbstractExport
         WITH holder <- fwdThread,
              active <- {s \in Sids : Live(s)},
              used <- {s \in Sids : mon[s].pc # "unused"}

\* The USB task implements AbstractExport: the DEV_BUSY check on
\* forwarding_thread, the fresh session of each import, and the join in
\* the reap, in terminate_forward and in usb_exit before forwarding_thread
\* is cleared mean every step either leaves the abstract state alone or
\* is an Export, an End or an Unexport.
ExportRefinement == Abs!Spec

====
