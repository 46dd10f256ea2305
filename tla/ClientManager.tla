---------------------------- MODULE ClientManager ----------------------------
(***************************************************************************)
(* The client's manager task (src/client/tasks/manager.c) and the VHCI     *)
(* bridge it starts for each attached device (src/client/util/vhci.c).     *)
(*                                                                         *)
(* The manager thread handles EVENT_ATTACH_REQUESTED, EVENT_DETACH_        *)
(* REQUESTED and EVENT_TIMER_5S one at a time.  Each attached device has a *)
(* bridge: monitor_forward and its fwd_tx/fwd_rx threads, copying between  *)
(* the server link and the socket pair handed to the kernel.  The manager  *)
(* and a bridge share the client_usb_device: fwd_terminated, vhci_link and *)
(* local_fwd_socket.                                                       *)
(*                                                                         *)
(* usb_device_head is kept as pointers (head, next) because delete_device  *)
(* rewires them by bus-id alone; an entry is an allocation id.  A server   *)
(* (ip, port) is a model value and a device key is <<server, busid>>.       *)
(***************************************************************************)
EXTENDS Naturals, Sequences, SequencesExt, FiniteSets, Bitwise

CONSTANTS
  Servers,     \* (ip, port) pairs of the servers
  Busids,      \* bus-ids devices may have
  Exports,     \* the keys <<server, busid>> a server will let us import
  MaxAttach,   \* EVENT_ATTACH_REQUESTs handled (entry ids 1..MaxAttach)
  MaxBeacons,  \* beacon datagrams received
  ServerTls,   \* each server's use_tls (beacon_send_init's tls_enabled)
  ServerMajor, \* each server's REMOTEHUB_VERSION_MAJOR
  ClientTls,   \* the client's use_tls (beacon_recv_init's is_tls)
  NPorts       \* VHCI ports of the right speed (VHCI_MAX_PORTS)

Keys == Servers \X Busids
Ids == 1..MaxAttach
Nil == 0
Ports == 0..NPorts-1

ASSUME Exports \subseteq Keys /\ NPorts \in Nat \ {0} /\ MaxBeacons \in Nat
       /\ ServerTls \in [Servers -> BOOLEAN] /\ ServerMajor \in [Servers -> Nat]
       /\ ClientTls \in BOOLEAN

\* The event types of cli_event.h the manager emits.
EVENT_SERVER_DISCOVERED == 4
EVENT_ATTACHED == 16
EVENT_ATTACH_FAILED == 32
EVENT_DETACHED == 128
EVENT_DETACH_FAILED == 256
EVENT_DEVICELIST_READY == 1024
EVENT_DEVICELIST_FAILED == 2048

\* Mutant: EVENT_DETACHED is left out of the interface's mask as well.
IntfMask_nodetached ==
  EVENT_SERVER_DISCOVERED | EVENT_DEVICELIST_READY | EVENT_DEVICELIST_FAILED
    | EVENT_ATTACHED | EVENT_ATTACH_FAILED

\* interface_task_init's event_mask: EVENT_DETACH_FAILED is not in it.
IntfMask ==
  EVENT_SERVER_DISCOVERED | EVENT_DEVICELIST_READY | EVENT_DEVICELIST_FAILED
    | EVENT_ATTACHED | EVENT_DETACHED | EVENT_ATTACH_FAILED

\* The report types the interface task's mask lets through.
IntfTypes == {t \in {EVENT_SERVER_DISCOVERED, EVENT_ATTACHED,
                     EVENT_ATTACH_FAILED, EVENT_DETACHED,
                     EVENT_DETACH_FAILED, EVENT_DEVICELIST_READY,
                     EVENT_DEVICELIST_FAILED} : (t & IntfMask) # 0}

VARIABLES
  head,          \* usb_device_head
  next,          \* client_usb_device.next
  key,           \* server_ipv4/ip_port and info.udev.busid of an entry
  alloc,         \* entry id -> "unused", "live" or "freed"
  fwdTerminated, \* fwd_terminated
  linkState,     \* the entry's vhci_link: "none", "open", "shut", "closed", "freed"
  sockShut,      \* shutdown() has been called on local_fwd_socket
  bridge,        \* monitor_forward: "none", "running", "closing", "done"
  vhciPort,      \* vhci_port
  portOwner,     \* the entry whose socket the kernel holds on each VHCI port
  nAlloc,        \* entries allocated so far
  mgrPc,         \* manager thread program counter
  mgrJob,        \* the handler that called exit_fwd: "detach", "reap", "attachfail"
  mgrDev,        \* the entry exit_fwd/delete_device work on
  mgrNext,       \* for_each_remote_device's saved next pointer
  notes,         \* the interface task's mailbox: the manager's reports
  appView,       \* keys the application's callbacks were told are attached
  offered,       \* keys of the device lists delivered to the application
  devlistReq,    \* the manager's queued EVENT_DEVICELIST_REQUESTs (servers)
  nBeacons       \* beacon datagrams the client has received

vars == <<head, next, key, alloc, fwdTerminated, linkState, sockShut, bridge,
          vhciPort, portOwner, nAlloc, mgrPc, mgrJob, mgrDev, mgrNext,
          notes, appView, offered, devlistReq, nBeacons>>

intfVars == <<notes, appView, offered, devlistReq, nBeacons>>

bridgeVars == <<fwdTerminated, linkState, sockShut, bridge, portOwner>>

\* The entries reachable from p by next pointers, in order (fuel bounds a
\* walk that delete_device could have made cyclic).
RECURSIVE Chain(_, _)
Chain(p, fuel) == IF p = Nil \/ fuel = 0 THEN <<>>
                  ELSE <<p>> \o Chain(next[p], fuel - 1)

List == Chain(head, MaxAttach)

\* The first listed entry with key k: the for_each_remote_device lookups of
\* attach_remote_device and detach_remote_device.
Lookup(k) == LET L == List
                 j == SelectInSeq(L, LAMBDA i : key[i] = k)
             IN IF j = 0 THEN {} ELSE {L[j]}

\* The ports vhci_hub_parse reports VHCI_PORT_AVAILABLE in the status
\* attribute read_vhci_sysfs_attribute returns: those no bridge holds.  A
\* failed read or parse ends attach_remote_device like any other early
\* failure (its first alternative).
FreePorts == {p \in Ports : portOwner[p] = Nil}

\* vhci_get_free_port: the first available port, or -1.
vhci_get_free_port == IF FreePorts = {} THEN -1 ELSE Min(FreePorts)

\* Mutant: vhci_attach_device does not check for -1.
PortFound_nocheck(p) == TRUE

\* vhci_attach_device goes on only with a port.
PortFound(p) == p >= 0

\* Mutant: the duplicate check of attach_remote_device is dropped.
Attached_never(k) == FALSE

\* attach_remote_device's search for the triple among listed entries.
Attached(k) == Lookup(k) # {}

-----------------------------------------------------------------------------
(* The bridge of entry i (monitor_forward, fwd_tx, fwd_rx)                  *)

\* fwd_rx or fwd_tx fails (the server or the kernel closed its end, or the
\* manager shut the link or the socket) and shuts the other side, so both
\* threads return.
BridgeStop(i) ==
  /\ bridge[i] = "running"
  /\ bridge' = [bridge EXCEPT ![i] = "closing"]
  /\ UNCHANGED <<head, next, key, alloc, fwdTerminated, linkState, sockShut,
                 vhciPort, portOwner, nAlloc, mgrPc, mgrJob, mgrDev, mgrNext>>
  /\ UNCHANGED intfVars

\* Mutant: monitor_forward does not set fwd_terminated.
monitor_forward_exit_noflag(i) ==
  /\ bridge[i] = "closing"
  /\ bridge' = [bridge EXCEPT ![i] = "done"]
  /\ linkState' = [linkState EXCEPT ![i] = IF @ = "freed" THEN @ ELSE "closed"]
  /\ portOwner' = [p \in Ports |-> IF portOwner[p] = i THEN Nil ELSE portOwner[p]]
  /\ UNCHANGED <<head, next, key, alloc, fwdTerminated, sockShut, vhciPort,
                 nAlloc, mgrPc, mgrJob, mgrDev, mgrNext>>
  /\ UNCHANGED intfVars

\* monitor_forward after both joins: network_close_link(vhci_link),
\* close(local_fwd_socket), which makes the kernel release the VHCI port,
\* and fwd_terminated = true.
monitor_forward_exit(i) ==
  /\ bridge[i] = "closing"
  /\ bridge' = [bridge EXCEPT ![i] = "done"]
  /\ linkState' = [linkState EXCEPT ![i] = IF @ = "freed" THEN @ ELSE "closed"]
  /\ fwdTerminated' = [fwdTerminated EXCEPT ![i] = TRUE]
  /\ portOwner' = [p \in Ports |-> IF portOwner[p] = i THEN Nil ELSE portOwner[p]]
  /\ UNCHANGED <<head, next, key, alloc, sockShut, vhciPort, nAlloc, mgrPc,
                 mgrJob, mgrDev, mgrNext>>
  /\ UNCHANGED intfVars

-----------------------------------------------------------------------------
(* Manager: EVENT_ATTACH_REQUESTED -> attach_remote_device                  *)

\* inform_attached, inform_attach_failed, inform_detached and the end of
\* get_server_devicelist: event_enqueue of a report about arg, which
\* reaches the interface task's queue only if its mask has the type.
inform(type, arg) ==
  notes' = IF type \in IntfTypes
             THEN Append(notes, [type |-> type, arg |-> arg]) ELSE notes

\* insert_device: push entry i on usb_device_head.
insert_device(i) == next' = [next EXCEPT ![i] = head] /\ head' = i

\* setup_forward: the socket pair and monitor_forward for entry i, which
\* holds the link the import opened.
setup_forward(i) ==
  /\ linkState' = [linkState EXCEPT ![i] = "open"]
  /\ alloc' = [alloc EXCEPT ![i] = "live"]
  /\ bridge' = [bridge EXCEPT ![i] = "running"]

\* The successful sysfs attach write of vhci_attach_device: the kernel
\* takes the socket on port p, recorded in vhci_port.
vhci_attach(i, p) ==
  /\ portOwner' = [portOwner EXCEPT ![p] = i]
  /\ vhciPort' = [vhciPort EXCEPT ![i] = p]

\* exec_usbip_import_command fails at the connect, a send, the reply
\* header (wrong code or a status other than OK) or the reply, closing the
\* link after every failed step past the connect; attach_remote_device
\* then frees it, as it closes and frees it on an idProduct/idVendor
\* mismatch or no memory for the item.
ImportFailed(i) ==
  /\ linkState' = [linkState EXCEPT ![i] = "freed"]
  /\ alloc' = [alloc EXCEPT ![i] = "freed"]

\* attach_remote_device for key k, offered by a device list: a triple
\* already listed is refused with EVENT_ATTACH_FAILED.  Otherwise the
\* import fails (EVENT_ATTACH_FAILED), or it succeeds with
\* a new entry holding the link, then vhci_attach_device.  Either no port
\* is free or setup_forward fails, and exit_fwd on the bridgeless item
\* shuts, closes and frees the link; or the bridge starts and the sysfs
\* attach write fails, and exit_fwd must stop the running bridge; or the
\* kernel takes the socket and the entry is inserted at the head and
\* EVENT_ATTACHED is emitted (EVENT_ATTACH_FAILED precedes exit_fwd).
attach_remote_device(k) ==
  /\ mgrPc = "idle" /\ nAlloc < MaxAttach
  /\ k \in offered
  /\ LET i == nAlloc + 1 IN
     /\ nAlloc' = i
     /\ IF Attached(k)
          THEN /\ inform(EVENT_ATTACH_FAILED, k)
               /\ UNCHANGED <<head, next, key, alloc, linkState, bridge,
                              vhciPort, portOwner, mgrPc, mgrJob, mgrDev>>
          ELSE /\ key' = [key EXCEPT ![i] = k]
               /\ \/ /\ ImportFailed(i)
                     /\ inform(EVENT_ATTACH_FAILED, k)
                     /\ UNCHANGED <<head, next, bridge, vhciPort, portOwner, mgrPc,
                                    mgrJob, mgrDev>>
                  \/ /\ PortFound(vhci_get_free_port)
                     /\ setup_forward(i)
                     /\ inform(EVENT_ATTACH_FAILED, k)
                     /\ mgrPc' = "xf_shut" /\ mgrJob' = "attachfail" /\ mgrDev' = i
                     /\ UNCHANGED <<head, next, vhciPort, portOwner>>
                  \/ /\ PortFound(vhci_get_free_port)
                     /\ vhci_attach(i, vhci_get_free_port)
                     /\ setup_forward(i)
                     /\ insert_device(i)
                     /\ inform(EVENT_ATTACHED, k)
                     /\ UNCHANGED <<mgrPc, mgrJob, mgrDev>>
  /\ UNCHANGED <<fwdTerminated, sockShut, mgrNext, appView, offered, devlistReq, nBeacons>>

-----------------------------------------------------------------------------
(* Manager: EVENT_DETACH_REQUESTED and EVENT_TIMER_5S                       *)

\* detach_remote_device: the entry with the triple, then exit_fwd,
\* delete_device and EVENT_DETACHED; for a missing triple only
\* EVENT_DETACH_FAILED.
detach_remote_device(k) ==
  /\ mgrPc = "idle"
  /\ IF Lookup(k) = {}
       THEN inform(EVENT_DETACH_FAILED, k) /\ UNCHANGED <<mgrPc, mgrJob, mgrDev>>
       ELSE \E i \in Lookup(k) :
              /\ mgrPc' = "xf_shut" /\ mgrJob' = "detach" /\ mgrDev' = i
              /\ UNCHANGED notes
  /\ UNCHANGED <<head, next, key, alloc, bridgeVars, vhciPort, nAlloc, mgrNext,
                 appView, offered, devlistReq, nBeacons>>

\* The reports exec_usbip_devlist_command leads to: READY when the
\* connect, the OP exchange (code REP_DEVLIST, status OK) and the receipt
\* of every device and interface succeed; FAILED on any failed step (the
\* list the application gets is a copy, so its content is not modelled).
DevlistResults == {EVENT_DEVICELIST_READY, EVENT_DEVICELIST_FAILED}

\* get_server_devicelist for the oldest EVENT_DEVICELIST_REQUEST: the
\* devlist query to its server reports READY or FAILED.
get_server_devicelist ==
  /\ mgrPc = "idle" /\ devlistReq # <<>>
  /\ devlistReq' = Tail(devlistReq)
  /\ \E type \in DevlistResults : inform(type, Head(devlistReq))
  /\ UNCHANGED <<head, next, key, alloc, bridgeVars, vhciPort, nAlloc, mgrPc,
                 mgrJob, mgrDev, mgrNext, appView, offered, nBeacons>>

\* handle_event(EVENT_TIMER_5S): for_each_remote_device from the head.
Timer5S ==
  /\ mgrPc = "idle"
  /\ mgrPc' = "reap" /\ mgrNext' = head
  /\ UNCHANGED <<head, next, key, alloc, bridgeVars, vhciPort, nAlloc,
                 mgrJob, mgrDev>>
  /\ UNCHANGED intfVars

\* One iteration: save dev->next, then if fwd_terminated inform_detached,
\* exit_fwd and delete_device.
ReapVisit ==
  /\ mgrPc = "reap" /\ mgrNext # Nil
  /\ mgrNext' = next[mgrNext]
  /\ IF fwdTerminated[mgrNext]
       THEN /\ inform(EVENT_DETACHED, key[mgrNext])
            /\ mgrPc' = "xf_shut" /\ mgrJob' = "reap" /\ mgrDev' = mgrNext
       ELSE UNCHANGED <<notes, mgrPc, mgrJob, mgrDev>>
  /\ UNCHANGED <<head, next, key, alloc, bridgeVars, vhciPort, nAlloc,
                 appView, offered, devlistReq, nBeacons>>

ReapDone ==
  /\ mgrPc = "reap" /\ mgrNext = Nil
  /\ mgrPc' = "idle"
  /\ UNCHANGED <<head, next, key, alloc, bridgeVars, vhciPort, nAlloc,
                 mgrJob, mgrDev, mgrNext>>
  /\ UNCHANGED intfVars

-----------------------------------------------------------------------------
(* Manager: exit_fwd and delete_device                                      *)

\* Mutant: exit_fwd joins without shutting the link or the socket.
exit_fwd_shut_noshut ==
  /\ mgrPc = "xf_shut"
  /\ mgrPc' = "xf_join"
  /\ UNCHANGED <<head, next, key, alloc, fwdTerminated, linkState, sockShut,
                 bridge, vhciPort, portOwner, nAlloc, mgrJob, mgrDev, mgrNext>>
  /\ UNCHANGED intfVars

\* exit_fwd: unless fwd_terminated, shut vhci_link and shutdown() the
\* local socket.
exit_fwd_shut ==
  /\ mgrPc = "xf_shut"
  /\ LET d == mgrDev IN
       IF fwdTerminated[d]
         THEN UNCHANGED <<linkState, sockShut>>
         ELSE /\ linkState' = [linkState EXCEPT ![d] =
                                 IF @ = "open" THEN "shut" ELSE @]
              /\ sockShut' = [sockShut EXCEPT ![d] = TRUE]
  /\ mgrPc' = "xf_join"
  /\ UNCHANGED <<head, next, key, alloc, fwdTerminated, bridge, vhciPort,
                 portOwner, nAlloc, mgrJob, mgrDev, mgrNext>>
  /\ UNCHANGED intfVars

\* Mutant: exit_fwd frees the link without joining the bridge thread.
exit_fwd_join_nowait ==
  /\ mgrPc = "xf_join"
  /\ LET d == mgrDev IN
     /\ fwdTerminated' = [fwdTerminated EXCEPT ![d] = FALSE]
     /\ linkState' = [linkState EXCEPT ![d] = "freed"]
     /\ IF mgrJob = "attachfail"
          THEN alloc' = [alloc EXCEPT ![d] = "freed"] /\ mgrPc' = "idle"
          ELSE UNCHANGED alloc /\ mgrPc' = "delete"
  /\ UNCHANGED <<head, next, key, sockShut, bridge, vhciPort, portOwner,
                 nAlloc, mgrJob, mgrDev, mgrNext>>
  /\ UNCHANGED intfVars

\* exit_fwd: pthread_join(local_fwd_thread), fwd_terminated = false, close
\* and free vhci_link.  After a failed attach the item is freed; otherwise
\* delete_device follows.
exit_fwd_join ==
  /\ mgrPc = "xf_join"
  /\ LET d == mgrDev IN
     /\ bridge[d] \in {"none", "done"}
     /\ fwdTerminated' = [fwdTerminated EXCEPT ![d] = FALSE]
     /\ linkState' = [linkState EXCEPT ![d] = "freed"]
     /\ IF mgrJob = "attachfail"
          THEN alloc' = [alloc EXCEPT ![d] = "freed"] /\ mgrPc' = "idle"
          ELSE UNCHANGED alloc /\ mgrPc' = "delete"
  /\ UNCHANGED <<head, next, key, sockShut, bridge, vhciPort, portOwner,
                 nAlloc, mgrJob, mgrDev, mgrNext>>
  /\ UNCHANGED intfVars

\* Mutant: the node found is rewritten instead of its predecessor.
Pred_self(d) ==
  LET L == List
      hits == {j \in 2..Len(L) : key[L[j]][2] = key[d][2]}
  IN IF hits = {} THEN Nil ELSE L[Min(hits)]

\* The listed entry before the first one after the head whose bus-id is
\* that of d: the node whose next delete_device rewrites.
Pred(d) ==
  LET L == List
      hits == {j \in 2..Len(L) : key[L[j]][2] = key[d][2]}
  IN IF hits = {} THEN Nil ELSE L[Min(hits) - 1]

\* delete_device(d): if the head's bus-id is d's, the head is unlinked;
\* otherwise the first later node with d's bus-id is replaced by d->next.
\* d is freed in every case.
delete_device ==
  /\ mgrPc = "delete"
  /\ LET d == mgrDev IN
     /\ IF key[head][2] = key[d][2]
          THEN head' = next[head] /\ UNCHANGED next
          ELSE /\ next' = IF Pred(d) = Nil THEN next
                          ELSE [next EXCEPT ![Pred(d)] = next[d]]
               /\ UNCHANGED head
     /\ alloc' = [alloc EXCEPT ![d] = "freed"]
     /\ IF mgrJob = "detach" THEN inform(EVENT_DETACHED, key[d])
                              ELSE UNCHANGED notes
  /\ mgrPc' = CASE mgrJob = "reap" -> "reap"
                 [] mgrJob = "exit" -> "shutdown"
                 [] OTHER -> "idle"
  /\ UNCHANGED <<key, bridgeVars, vhciPort, nAlloc, mgrJob, mgrDev, mgrNext,
                 appView, offered, devlistReq, nBeacons>>

-----------------------------------------------------------------------------
(* Shutdown: manager_exit and the end of manager_handler                    *)

\* manager_exit: running = false and the event cond is signalled; the
\* handler finishes the event it is handling, leaves its loop and walks
\* the list, saving dev->next first.
manager_exit ==
  /\ mgrPc = "idle"
  /\ mgrPc' = "shutdown" /\ mgrJob' = "exit" /\ mgrNext' = head
  /\ UNCHANGED <<head, next, key, alloc, bridgeVars, vhciPort, nAlloc, mgrDev>>
  /\ UNCHANGED intfVars

\* One iteration of the shutdown loop: exit_fwd and delete_device on every
\* entry; with the list walked, the thread returns and is joined.
ShutdownVisit ==
  /\ mgrPc = "shutdown"
  /\ IF mgrNext # Nil
       THEN /\ mgrNext' = next[mgrNext] /\ mgrDev' = mgrNext
            /\ mgrPc' = "xf_shut"
       ELSE /\ mgrPc' = "stopped" /\ UNCHANGED <<mgrNext, mgrDev>>
  /\ UNCHANGED <<head, next, key, alloc, bridgeVars, vhciPort, nAlloc, mgrJob>>
  /\ UNCHANGED intfVars

\* The manager has stopped.
Stopped == mgrPc = "stopped" /\ UNCHANGED vars

-----------------------------------------------------------------------------
(* The client interface task (src/client/tasks/interface.c)                 *)

\* The keys a server's device list holds (those it lets us import).
ServerDevices(s) == {k \in Exports : k[1] = s}

\* rh_get_devicelist: EVENT_DEVICELIST_REQUEST for server s joins the
\* manager's queue q.
rh_get_devicelist(q, s) == Append(q, s)

\* intf_loop: event_dequeue, then handle_event under intf_lock calls the
\* application's callback.  rh_client.c's callbacks only print; appView
\* and offered record what ATTACH_cb and DETACH_cb report and what
\* GET_USBIP_DEVICELIST_cb lists, i.e. what an application that keeps its
\* callbacks' reports would hold.  The failure callbacks report no state.  on_server_discovered
\* calls rh_get_devicelist, which queues EVENT_DEVICELIST_REQUEST for the
\* manager.
intf_handle_event ==
  /\ notes # <<>>
  /\ LET ev == Head(notes) IN
     /\ appView' = CASE ev.type = EVENT_ATTACHED -> appView \cup {ev.arg}
                     [] ev.type = EVENT_DETACHED -> appView \ {ev.arg}
                     [] OTHER -> appView
     /\ offered' = IF ev.type = EVENT_DEVICELIST_READY
                     THEN offered \cup ServerDevices(ev.arg) ELSE offered
     /\ devlistReq' = IF ev.type = EVENT_SERVER_DISCOVERED
                        THEN rh_get_devicelist(devlistReq, ev.arg)
                        ELSE devlistReq
  /\ notes' = Tail(notes)
  /\ UNCHANGED <<head, next, key, alloc, bridgeVars, vhciPort, nAlloc, mgrPc,
                 mgrJob, mgrDev, mgrNext, nBeacons>>

-----------------------------------------------------------------------------
(* Discovery: the server's beacon (src/server/tasks/beacon.c) and the       *)
(* client's beacon listener (src/client/tasks/beacon.c)                     *)

BEACON_IDENT == \h5248424E
REMOTEHUB_VERSION_MAJOR == 0

\* htonl and ntohl on the little-endian hosts the project builds for: the
\* four bytes of a uint32_t reversed.
ByteSwap32(x) == (x % 256) * 16777216 + ((x \div 256) % 256) * 65536
                   + ((x \div 65536) % 256) * 256 + x \div 16777216

\* beacon_send and beacon_to_network_order: the datagram server s
\* broadcasts; use_tls is a byte and is sent as it is.  The sender's
\* address and the port field identify the server to the client.
beacon_send(s) ==
  [ident |-> ByteSwap32(BEACON_IDENT),
   version_major |-> ByteSwap32(ServerMajor[s]),
   use_tls |-> IF ServerTls[s] THEN 1 ELSE 0,
   from |-> s]

\* beacon_from_network_order on a received datagram.
beacon_from_network_order(b) ==
  [b EXCEPT !.ident = ByteSwap32(@), !.version_major = ByteSwap32(@)]

\* Mutant: handle_packet does not drop a server with a newer major version.
BeaconAccepted_nomajor(b) ==
  LET h == beacon_from_network_order(b) IN
  h.ident = BEACON_IDENT /\ h.use_tls = (IF ClientTls THEN 1 ELSE 0)

\* handle_packet's filters: the RemoteHub ident, the client's TLS setting,
\* and a major version no newer than the client's.
BeaconAccepted(b) ==
  LET h == beacon_from_network_order(b) IN
  /\ h.ident = BEACON_IDENT /\ h.use_tls = (IF ClientTls THEN 1 ELSE 0)
  /\ h.version_major <= REMOTEHUB_VERSION_MAJOR

\* beacon_receive: recvfrom returns datagram b and handle_packet emits
\* EVENT_SERVER_DISCOVERED for its sender if it passes the filters.
handle_packet(b) ==
  /\ nBeacons < MaxBeacons
  /\ nBeacons' = nBeacons + 1
  /\ IF BeaconAccepted(b) THEN inform(EVENT_SERVER_DISCOVERED, b.from)
                          ELSE UNCHANGED notes
  /\ UNCHANGED <<head, next, key, alloc, bridgeVars, vhciPort, nAlloc, mgrPc,
                 mgrJob, mgrDev, mgrNext, appView, offered, devlistReq>>

-----------------------------------------------------------------------------
Init ==
  /\ head = Nil /\ next = [i \in Ids |-> Nil]
  /\ key = [i \in Ids |-> CHOOSE k \in Keys : TRUE]
  /\ alloc = [i \in Ids |-> "unused"]
  /\ fwdTerminated = [i \in Ids |-> FALSE]
  /\ linkState = [i \in Ids |-> "none"]
  /\ sockShut = [i \in Ids |-> FALSE]
  /\ bridge = [i \in Ids |-> "none"]
  /\ vhciPort = [i \in Ids |-> 0]
  /\ portOwner = [p \in Ports |-> Nil]
  /\ nAlloc = 0
  /\ mgrPc = "idle" /\ mgrJob = "detach" /\ mgrDev = Nil /\ mgrNext = Nil
  /\ notes = <<>> /\ appView = {} /\ offered = {}
  /\ devlistReq = <<>> /\ nBeacons = 0

\* The steps the manager takes on its own once an event is being handled,
\* and the TIMER_5S tick, which the timer task emits every fifth second.
ManagerSteps == get_server_devicelist \/ Timer5S \/ ReapVisit \/ ReapDone \/ exit_fwd_shut
                  \/ exit_fwd_join \/ delete_device \/ ShutdownVisit

Requests == \/ \E k \in Keys : attach_remote_device(k) \/ detach_remote_device(k)
            \/ \E s \in Servers : handle_packet(beacon_send(s))

Bridges == \E i \in Ids : BridgeStop(i) \/ monitor_forward_exit(i)

Next == ManagerSteps \/ Requests \/ Bridges \/ intf_handle_event
          \/ manager_exit \/ Stopped

\* The manager and bridge threads run; a bridge whose link or socket the
\* manager has shut stops (its blocking recv fails).  Requests, servers
\* the kernel closing its end and the user stopping the client
\* (manager_exit) are not fair.
Spec == Init /\ [][Next]_vars
          /\ WF_vars(ManagerSteps) /\ WF_vars(intf_handle_event)
          /\ \A i \in Ids : WF_vars(monitor_forward_exit(i))
          /\ \A j \in Ids : WF_vars((linkState[j] = "shut" \/ sockShut[j])
                                    /\ BridgeStop(j))

-----------------------------------------------------------------------------
(* Properties                                                              *)

TypeOK ==
  /\ head \in {Nil} \cup Ids /\ next \in [Ids -> {Nil} \cup Ids]
  /\ key \in [Ids -> Keys]
  /\ alloc \in [Ids -> {"unused", "live", "freed"}]
  /\ fwdTerminated \in [Ids -> BOOLEAN] /\ sockShut \in [Ids -> BOOLEAN]
  /\ linkState \in [Ids -> {"none", "open", "shut", "closed", "freed"}]
  /\ bridge \in [Ids -> {"none", "running", "closing", "done"}]
  /\ vhciPort \in [Ids -> Ports] /\ portOwner \in [Ports -> {Nil} \cup Ids]
  /\ nAlloc \in 0..MaxAttach
  /\ mgrPc \in {"idle", "reap", "xf_shut", "xf_join", "delete", "shutdown",
                "stopped"}
  /\ mgrJob \in {"detach", "reap", "attachfail", "exit"}
  /\ mgrDev \in {Nil} \cup Ids /\ mgrNext \in {Nil} \cup Ids
  /\ notes \in Seq([type : {EVENT_SERVER_DISCOVERED, EVENT_ATTACHED, EVENT_ATTACH_FAILED, EVENT_DETACHED,
                             EVENT_DEVICELIST_READY, EVENT_DEVICELIST_FAILED},
                     arg : Keys \cup Servers])
  /\ appView \subseteq Keys /\ offered \subseteq Exports
  /\ devlistReq \in Seq(Servers) /\ nBeacons \in 0..MaxBeacons

\* attach_remote_device rejects a triple already listed, and no handler
\* lists one twice: the list never holds two entries for one
\* (server, busid).
KeyUnique ==
  \A a, b \in 1..Len(List) : a # b => key[List[a]] # key[List[b]]

\* spec.md (data model): a ClientUsbDevice is in the client list iff it is
\* attached.  Between events, the list holds exactly the allocated entries,
\* so a detached or reaped entry is neither left in the list freed nor
\* dropped from it while its bridge still holds a VHCI port.
ListMatchesAttached ==
  mgrPc = "idle" =>
    \A i \in Ids :
      /\ i \in Range(List) <=> alloc[i] = "live"
      /\ \A p \in Ports : portOwner[p] = i => i \in Range(List)

\* spec.md (periodic reap): an entry whose bridge has terminated is
\* removed by a later TIMER_5S (the reap finds it through fwd_terminated,
\* which monitor_forward sets on its way out).
ReapEventually ==
  \A i \in Ids : (alloc[i] = "live" /\ bridge[i] = "done") ~> alloc[i] = "freed"

\* Every attach, detach and reap handler returns: exit_fwd's join is not
\* left waiting for a bridge nobody stops.
HandlerCompletes == mgrPc \notin {"idle", "stopped"} ~> mgrPc \in {"idle", "stopped"}

\* Once manager_handler's shutdown loop has walked the list, the client
\* holds no attached entry and no VHCI port: exit_fwd stops and joins every
\* bridge, whose socket close releases its port, before delete_device
\* frees the entry, including entries whose bridge has ended and that
\* wait for a TIMER_5S reap.
ShutdownReleasesAll ==
  mgrPc = "stopped" => /\ \A i \in Ids : alloc[i] # "live"
                       /\ \A p \in Ports : portOwner[p] = Nil

\* The application's view, built from the callbacks alone, is the client's
\* list once the manager is idle and the interface has handled every
\* report: a device attached, detached or reaped is reported, through the
\* event bus and the interface mask, to the callbacks.
AppViewMatchesList ==
  (mgrPc = "idle" /\ notes = <<>>) => appView = {key[i] : i \in Range(List)}

\* spec.md (beacon): a server is used only if its beacon carries the
\* RemoteHub ident, the client's TLS setting and a major version no newer
\* than the client's.  Every device-list request the application makes
\* on a discovery (through handle_packet, the interface task and
\* on_server_discovered) is for such a server.
DevlistOnlyCompatible ==
  \A i \in 1..Len(devlistReq) :
    ServerTls[devlistReq[i]] = ClientTls
      /\ ServerMajor[devlistReq[i]] <= REMOTEHUB_VERSION_MAJOR

====
