----------------------------- MODULE Forwarding -----------------------------
(***************************************************************************)
(* One server-side forwarding session (src/server/util/forwarding.c): the  *)
(* monitor thread, the RX thread reading USB/IP commands from the link, the *)
(* TX thread writing replies, and the libusb event thread running transfer  *)
(* completion callbacks, all sharing the packet ring of one forward_info.   *)
(*                                                                         *)
(* The peer (the client's VHCI driver) is the environment: it sends        *)
(* CMD_SUBMIT and CMD_UNLINK headers and may close its end.  The device    *)
(* may vanish, and the USB task may shut the link (terminate_forward).     *)
(*                                                                         *)
(* Packets are identified by the USB/IP seqnum of the command that created *)
(* them.  buffer_cond is a wait set: pthread_cond_signal removes one       *)
(* arbitrary waiter and is lost when nobody waits.  buffer_lock is held by *)
(* a thread from its wait-predicate check until it is in the wait set     *)
(* ("prewait"); every step that takes the lock is disabled meanwhile.      *)
(***************************************************************************)
EXTENDS Naturals, Integers, Sequences, SequencesExt, FiniteSets

CONSTANTS
  MaxSeq,           \* number of USB/IP commands the peer sends (seqnums 1..MaxSeq)
  PACKET_BUF_SIZE,  \* RX backpressure threshold on packets_ready (usb.h)
  XferOutcomes,     \* libusb statuses a live device may complete a transfer with
  SpawnCanFail      \* whether pthread_create of RX or TX may fail in monitor

LibusbStatus == {"COMPLETED", "ERROR", "TIMED_OUT", "CANCELLED", "STALL",
                 "NO_DEVICE", "OVERFLOW"}

ASSUME /\ MaxSeq \in Nat \ {0} /\ PACKET_BUF_SIZE \in Nat \ {0}
       /\ XferOutcomes \subseteq LibusbStatus \ {"CANCELLED", "NO_DEVICE"}
       /\ SpawnCanFail \in BOOLEAN

VARIABLES
  reqs,          \* commands the peer has written to the link, in order
  rxNext,        \* index in reqs of the next header RX will read
  peerClosed,    \* the peer has closed its end of the link
  shut,          \* network_shut_link has been called on the link
  devGone,       \* the USB device has disappeared
  replies,       \* USB/IP replies TX has written to the link, in order
  ring,          \* f_dev->buffer_head: the packet list, as seqnums
  pkt,           \* seqnum -> the usb_packet and the state of its transfer
  packets_ready, \* f_dev->packets_ready
  terminate,     \* f_dev->terminate
  waitSet,       \* threads blocked on f_dev->buffer_cond
  rxPc, rxTmp,   \* RX program counter; value RX loaded for packets_ready++
  txPc, txCur,   \* TX program counter; packet TX has dequeued (0 = none)
  monPc, monCur  \* monitor program counter; packet being drained (0 = none)

vars == <<reqs, rxNext, peerClosed, shut, devGone, replies, ring, pkt,
          packets_ready, terminate, waitSet, rxPc, rxTmp, txPc, txCur,
          monPc, monCur>>

Seqs == 1..MaxSeq

\* A transfer is "inflight" after libusb_submit_transfer, "cancelling" after
\* libusb_cancel_transfer, "done" once its completion callback has run.
XferStates == {"none", "inflight", "cancelling", "done"}

\* Linux errno values used by the USB/IP status field.
EIO == 5  ETIMEDOUT == 110  ECONNRESET == 104  EPIPE == 32
ESHUTDOWN == 108  EOVERFLOW == 75  ENOENT == 2

\* Variant: errno values returned without their sign.
convert_libusb_status_unsigned(st) ==
  CASE st = "COMPLETED" -> 0
    [] st = "ERROR"     -> EIO
    [] st = "TIMED_OUT" -> ETIMEDOUT
    [] st = "CANCELLED" -> ECONNRESET
    [] st = "STALL"     -> EPIPE
    [] st = "NO_DEVICE" -> ESHUTDOWN
    [] st = "OVERFLOW"  -> EOVERFLOW
    [] OTHER            -> ENOENT

\* convert_libusb_status: libusb transfer status to USB/IP -errno status.
convert_libusb_status(st) ==
  CASE st = "COMPLETED" -> 0
    [] st = "ERROR"     -> -EIO
    [] st = "TIMED_OUT" -> -ETIMEDOUT
    [] st = "CANCELLED" -> -ECONNRESET
    [] st = "STALL"     -> -EPIPE
    [] st = "NO_DEVICE" -> -ESHUTDOWN
    [] st = "OVERFLOW"  -> -EOVERFLOW
    [] OTHER            -> -ENOENT

Statuses == {0, -EIO, -ETIMEDOUT, -ECONNRESET, -EPIPE, -ESHUTDOWN, -EOVERFLOW,
             -ENOENT}
Commands == {"CMD_SUBMIT", "RET_SUBMIT", "RET_UNLINK"}

\* A calloc'ed usb_packet slot before RX creates it.
NoPacket == [ready |-> FALSE, unlinked |-> 0, cmd |-> "NONE",
             status |-> 0, xfer |-> "none"]

Request == [cmd : {"CMD_SUBMIT"}, seq : Seqs]
             \cup [cmd : {"CMD_UNLINK"}, seq : Seqs, target : Seqs]
Reply == [cmd : Commands, seq : Seqs, status : Statuses]

-----------------------------------------------------------------------------
(* buffer_cond and buffer_lock                                              *)

\* pthread_cond_signal: wake one waiter, if any.
Signal ==
  IF waitSet = {} THEN UNCHANGED waitSet
  ELSE \E t \in waitSet : waitSet' = waitSet \ {t}

\* No thread is between its wait-predicate check and pthread_cond_wait.
LockFree == rxPc # "prewait" /\ txPc # "prewait"

\* Requests the peer has sent, by kind.
Submitted == {reqs[i].seq : i \in {j \in 1..Len(reqs) : reqs[j].cmd = "CMD_SUBMIT"}}
UnlinkReqs == {i \in 1..Len(reqs) : reqs[i].cmd = "CMD_UNLINK"}
UnlinkTarget(u) == reqs[CHOOSE i \in UnlinkReqs : reqs[i].seq = u].target

-----------------------------------------------------------------------------
(* The peer, the device and the USB task (environment)                      *)

PeerSubmit ==
  /\ ~peerClosed /\ Len(reqs) < MaxSeq
  /\ reqs' = Append(reqs, [cmd |-> "CMD_SUBMIT", seq |-> Len(reqs) + 1])
  /\ UNCHANGED <<rxNext, peerClosed, shut, devGone, replies, ring, pkt,
                 packets_ready, terminate, waitSet, rxPc, rxTmp, txPc, txCur,
                 monPc, monCur>>

\* The peer unlinks a URB it submitted, at most once per URB.
PeerUnlink ==
  /\ ~peerClosed /\ Len(reqs) < MaxSeq
  /\ \E t \in Submitted :
       /\ \A i \in UnlinkReqs : reqs[i].target # t
       /\ reqs' = Append(reqs, [cmd |-> "CMD_UNLINK", seq |-> Len(reqs) + 1,
                                target |-> t])
  /\ UNCHANGED <<rxNext, peerClosed, shut, devGone, replies, ring, pkt,
                 packets_ready, terminate, waitSet, rxPc, rxTmp, txPc, txCur,
                 monPc, monCur>>

PeerClose ==
  /\ ~peerClosed
  /\ peerClosed' = TRUE
  /\ UNCHANGED <<reqs, rxNext, shut, devGone, replies, ring, pkt,
                 packets_ready, terminate, waitSet, rxPc, rxTmp, txPc, txCur,
                 monPc, monCur>>

DeviceGone ==
  /\ ~devGone
  /\ devGone' = TRUE
  /\ UNCHANGED <<reqs, rxNext, peerClosed, shut, replies, ring, pkt,
                 packets_ready, terminate, waitSet, rxPc, rxTmp, txPc, txCur,
                 monPc, monCur>>

\* terminate_forward (usb.c) on device removal or server exit: shut the link.
terminate_forward ==
  /\ ~shut /\ monPc # "done"
  /\ shut' = TRUE
  /\ UNCHANGED <<reqs, rxNext, peerClosed, devGone, replies, ring, pkt,
                 packets_ready, terminate, waitSet, rxPc, rxTmp, txPc, txCur,
                 monPc, monCur>>

-----------------------------------------------------------------------------
(* RX thread: rx_server, handle_submit/submit_xfer, handle_unlink          *)

\* Top of the RX loop: lock, test the backpressure predicate.
RxLock ==
  /\ rxPc = "top" /\ LockFree
  /\ rxPc' = IF packets_ready >= PACKET_BUF_SIZE /\ ~terminate
               THEN "prewait" ELSE "check"
  /\ UNCHANGED <<reqs, rxNext, peerClosed, shut, devGone, replies, ring, pkt,
                 packets_ready, terminate, waitSet, rxTmp, txPc, txCur,
                 monPc, monCur>>

\* pthread_cond_wait: join the wait set and release buffer_lock.
RxWait ==
  /\ rxPc = "prewait"
  /\ waitSet' = waitSet \cup {"rx"}
  /\ rxPc' = "wait"
  /\ UNCHANGED <<reqs, rxNext, peerClosed, shut, devGone, replies, ring, pkt,
                 packets_ready, terminate, rxTmp, txPc, txCur, monPc, monCur>>

\* Woken from buffer_cond: re-take the lock and re-test the predicate.
RxWake ==
  /\ rxPc = "wait" /\ "rx" \notin waitSet
  /\ rxPc' = "top"
  /\ UNCHANGED <<reqs, rxNext, peerClosed, shut, devGone, replies, ring, pkt,
                 packets_ready, terminate, waitSet, rxTmp, txPc, txCur,
                 monPc, monCur>>

\* The unlocked read of f_dev->terminate after the wait loop.
RxCheck ==
  /\ rxPc = "check"
  /\ rxPc' = IF terminate THEN "exit" ELSE "recv"
  /\ UNCHANGED <<reqs, rxNext, peerClosed, shut, devGone, replies, ring, pkt,
                 packets_ready, terminate, waitSet, rxTmp, txPc, txCur,
                 monPc, monCur>>

\* network_recv_data of a header fails once the link is shut, or when the
\* peer has closed it and every byte it sent has been read.
RxRecvFail ==
  /\ rxPc = "recv"
  /\ shut \/ (peerClosed /\ rxNext > Len(reqs))
  /\ rxPc' = "exit"
  /\ UNCHANGED <<reqs, rxNext, peerClosed, shut, devGone, replies, ring, pkt,
                 packets_ready, terminate, waitSet, rxTmp, txPc, txCur,
                 monPc, monCur>>

\* The next header the peer sent, readable while the link is not shut.
NextReq == reqs[rxNext]
CanRecv == rxPc = "recv" /\ ~shut /\ rxNext <= Len(reqs)

\* enqueue_packet: append at the tail of buffer_head.
enqueue_packet(s) == ring' = Append(ring, s)

\* handle_submit: submit_xfer takes buffer_lock, libusb_submit_transfer
\* succeeds and the packet is appended to the ring.
handle_submit ==
  /\ CanRecv /\ NextReq.cmd = "CMD_SUBMIT" /\ LockFree /\ ~devGone
  /\ enqueue_packet(NextReq.seq)
  /\ pkt' = [pkt EXCEPT ![NextReq.seq] = [NoPacket EXCEPT !.cmd = "CMD_SUBMIT",
                                                          !.xfer = "inflight"]]
  /\ rxNext' = rxNext + 1
  /\ rxPc' = "top"
  /\ UNCHANGED <<reqs, peerClosed, shut, devGone, replies, packets_ready,
                 terminate, waitSet, rxTmp, txPc, txCur, monPc, monCur>>

\* handle_submit fails (libusb_submit_transfer error, always so once the
\* device is gone; or an allocation failure): RX goes to rx_exit.
handle_submit_fail ==
  /\ CanRecv /\ NextReq.cmd = "CMD_SUBMIT" /\ LockFree
  /\ rxNext' = rxNext + 1
  /\ rxPc' = "exit"
  /\ UNCHANGED <<reqs, peerClosed, shut, devGone, replies, ring, pkt,
                 packets_ready, terminate, waitSet, rxTmp, txPc, txCur,
                 monPc, monCur>>

\* unlink_packet: the target is in the ring; mark it and cancel its transfer.
unlink_packet ==
  /\ CanRecv /\ NextReq.cmd = "CMD_UNLINK" /\ LockFree
  /\ Contains(ring, NextReq.target)
  /\ LET t == NextReq.target IN
       pkt' = [pkt EXCEPT ![t].unlinked = NextReq.seq,
                          ![t].xfer = IF @ = "inflight" THEN "cancelling" ELSE @]
  /\ rxNext' = rxNext + 1
  /\ rxPc' = "top"
  /\ UNCHANGED <<reqs, peerClosed, shut, devGone, replies, ring,
                 packets_ready, terminate, waitSet, rxTmp, txPc, txCur,
                 monPc, monCur>>

\* Variant: the ring scan looks only at the head entry.
handle_unlink_notfound_headonly ==
  /\ CanRecv /\ NextReq.cmd = "CMD_UNLINK" /\ LockFree
  /\ ~(ring # <<>> /\ Head(ring) = NextReq.target)
  /\ pkt' = [pkt EXCEPT ![NextReq.seq] = [NoPacket EXCEPT !.cmd = "RET_UNLINK"]]
  /\ rxTmp' = packets_ready
  /\ rxNext' = rxNext + 1
  /\ rxPc' = "unlink_inc"
  /\ UNCHANGED <<reqs, peerClosed, shut, devGone, replies, ring,
                 packets_ready, terminate, waitSet, txPc, txCur, monPc, monCur>>

\* handle_unlink, target not in the ring: build a RET_UNLINK with status 0
\* and load packets_ready for the unlocked packets_ready++.
handle_unlink_notfound ==
  /\ CanRecv /\ NextReq.cmd = "CMD_UNLINK" /\ LockFree
  /\ ~Contains(ring, NextReq.target)
  /\ pkt' = [pkt EXCEPT ![NextReq.seq] = [NoPacket EXCEPT !.cmd = "RET_UNLINK"]]
  /\ rxTmp' = packets_ready
  /\ rxNext' = rxNext + 1
  /\ rxPc' = "unlink_inc"
  /\ UNCHANGED <<reqs, peerClosed, shut, devGone, replies, ring,
                 packets_ready, terminate, waitSet, txPc, txCur, monPc, monCur>>

\* The store of packets_ready++, ready = true, enqueue under buffer_lock,
\* then pthread_cond_signal.
handle_unlink_enqueue ==
  /\ rxPc = "unlink_inc" /\ LockFree
  /\ LET u == reqs[rxNext - 1].seq IN
       /\ packets_ready' = rxTmp + 1
       /\ pkt' = [pkt EXCEPT ![u].ready = TRUE]
       /\ enqueue_packet(u)
  /\ Signal
  /\ rxPc' = "top"
  /\ UNCHANGED <<reqs, rxNext, peerClosed, shut, devGone, replies,
                 terminate, rxTmp, txPc, txCur, monPc, monCur>>

\* rx_exit: terminate = true and signal, without buffer_lock.
rx_exit ==
  /\ rxPc = "exit"
  /\ terminate' = TRUE
  /\ Signal
  /\ rxPc' = "done"
  /\ UNCHANGED <<reqs, rxNext, peerClosed, shut, devGone, replies, ring, pkt,
                 packets_ready, rxTmp, txPc, txCur, monPc, monCur>>

-----------------------------------------------------------------------------
(* TX thread: tx_server, dequeue_ready_packet                               *)

TxLock ==
  /\ txPc = "top" /\ LockFree
  /\ txPc' = IF packets_ready = 0 /\ ~terminate THEN "prewait" ELSE "check"
  /\ UNCHANGED <<reqs, rxNext, peerClosed, shut, devGone, replies, ring, pkt,
                 packets_ready, terminate, waitSet, rxPc, rxTmp, txCur,
                 monPc, monCur>>

TxWait ==
  /\ txPc = "prewait"
  /\ waitSet' = waitSet \cup {"tx"}
  /\ txPc' = "wait"
  /\ UNCHANGED <<reqs, rxNext, peerClosed, shut, devGone, replies, ring, pkt,
                 packets_ready, terminate, rxPc, rxTmp, txCur, monPc, monCur>>

TxWake ==
  /\ txPc = "wait" /\ "tx" \notin waitSet
  /\ txPc' = "top"
  /\ UNCHANGED <<reqs, rxNext, peerClosed, shut, devGone, replies, ring, pkt,
                 packets_ready, terminate, waitSet, rxPc, rxTmp, txCur,
                 monPc, monCur>>

TxCheck ==
  /\ txPc = "check"
  /\ txPc' = IF terminate THEN "exit" ELSE "deq"
  /\ UNCHANGED <<reqs, rxNext, peerClosed, shut, devGone, replies, ring, pkt,
                 packets_ready, terminate, waitSet, rxPc, rxTmp, txCur,
                 monPc, monCur>>

\* Indices of ring entries whose packet is ready.
ReadyIdx == {i \in 1..Len(ring) : pkt[ring[i]].ready}

\* Variant: a ready packet behind the head is not unlinked from the list.
dequeue_ready_packet_norelink ==
  /\ txPc = "deq" /\ LockFree
  /\ IF ReadyIdx = {}
       THEN /\ txPc' = "top"
            /\ UNCHANGED <<ring, packets_ready, txCur>>
       ELSE LET i == CHOOSE j \in ReadyIdx : \A k \in ReadyIdx : j <= k IN
            /\ txCur' = ring[i]
            /\ ring' = IF i = 1 THEN Tail(ring) ELSE ring
            /\ packets_ready' = packets_ready - 1
            /\ txPc' = "send"
  /\ UNCHANGED <<reqs, rxNext, peerClosed, shut, devGone, replies, pkt,
                 terminate, waitSet, rxPc, rxTmp, monPc, monCur>>

\* dequeue_ready_packet: unlink the first ready packet and decrement
\* packets_ready; with none ready TX "continue"s to the top of its loop.
dequeue_ready_packet ==
  /\ txPc = "deq" /\ LockFree
  /\ IF ReadyIdx = {}
       THEN /\ txPc' = "top"
            /\ UNCHANGED <<ring, packets_ready, txCur>>
       ELSE LET i == CHOOSE j \in ReadyIdx : \A k \in ReadyIdx : j <= k IN
            /\ txCur' = ring[i]
            /\ ring' = RemoveAt(ring, i)
            /\ packets_ready' = packets_ready - 1
            /\ txPc' = "send"
  /\ UNCHANGED <<reqs, rxNext, peerClosed, shut, devGone, replies, pkt,
                 terminate, waitSet, rxPc, rxTmp, monPc, monCur>>

\* Variant: the seqnum is not rewritten to the unlink's.
TxHeader_keepseq(s) ==
  IF pkt[s].unlinked # 0
    THEN [cmd |-> "RET_UNLINK", seq |-> s, status |-> -ECONNRESET]
    ELSE [cmd |-> pkt[s].cmd, seq |-> s, status |-> pkt[s].status]

\* The header TX puts on the wire for packet s: an unlinked packet is
\* rewritten to RET_UNLINK, seqnum = the unlink's, status -ECONNRESET.
TxHeader(s) ==
  IF pkt[s].unlinked # 0
    THEN [cmd |-> "RET_UNLINK", seq |-> pkt[s].unlinked, status |-> -ECONNRESET]
    ELSE [cmd |-> pkt[s].cmd, seq |-> s, status |-> pkt[s].status]

\* The rest of one tx_server iteration: unknown command -> tx_exit; header
\* (and data) send fails on a shut link, may fail on a closed one.
tx_send ==
  /\ txPc = "send"
  /\ \/ /\ TxHeader(txCur).cmd \in {"RET_SUBMIT", "RET_UNLINK"}
        /\ ~shut
        /\ replies' = Append(replies, TxHeader(txCur))
        /\ txPc' = "top"
     \/ /\ TxHeader(txCur).cmd \notin {"RET_SUBMIT", "RET_UNLINK"}
           \/ shut \/ peerClosed
        /\ txPc' = "exit"
        /\ UNCHANGED replies
  /\ txCur' = 0
  /\ UNCHANGED <<reqs, rxNext, peerClosed, shut, devGone, ring, pkt,
                 packets_ready, terminate, waitSet, rxPc, rxTmp, monPc, monCur>>

tx_exit ==
  /\ txPc = "exit"
  /\ terminate' = TRUE
  /\ Signal
  /\ txPc' = "done"
  /\ UNCHANGED <<reqs, rxNext, peerClosed, shut, devGone, replies, ring, pkt,
                 packets_ready, rxPc, rxTmp, txCur, monPc, monCur>>

-----------------------------------------------------------------------------
(* libusb event thread: xfer_completion_callback                            *)

\* The statuses libusb may report for packet s's transfer: CANCELLED only
\* after libusb_cancel_transfer (a completion may still win that race),
\* NO_DEVICE once the device is gone.
CallbackStatus(s) ==
  (IF devGone THEN {"NO_DEVICE"} ELSE XferOutcomes)
    \cup (IF pkt[s].xfer = "cancelling" THEN {"CANCELLED"} ELSE {})

xfer_completion_callback(s) ==
  /\ pkt[s].xfer \in {"inflight", "cancelling"} /\ LockFree
  /\ \E st \in CallbackStatus(s) :
       /\ pkt' = [pkt EXCEPT
                    ![s].cmd = IF st \in {"CANCELLED", "NO_DEVICE"}
                                 THEN @ ELSE "RET_SUBMIT",
                    ![s].status = IF st = "NO_DEVICE"
                                    THEN @ ELSE convert_libusb_status(st),
                    ![s].ready = TRUE,
                    ![s].xfer = "done"]
       /\ shut' = (shut \/ st = "NO_DEVICE")
       /\ terminate' = (terminate \/ st = "NO_DEVICE")
  /\ packets_ready' = packets_ready + 1
  /\ Signal
  /\ UNCHANGED <<reqs, rxNext, peerClosed, devGone, replies, ring, rxPc,
                 rxTmp, txPc, txCur, monPc, monCur>>

-----------------------------------------------------------------------------
(* Monitor thread: monitor                                                  *)

\* inform_exported, init lock and cond, create RX.
MonitorSpawnRx ==
  /\ monPc = "spawn"
  /\ rxPc' = "top"
  /\ monPc' = "spawntx"
  /\ UNCHANGED <<reqs, rxNext, peerClosed, shut, devGone, replies, ring, pkt,
                 packets_ready, terminate, waitSet, rxTmp, txPc, txCur, monCur>>

MonitorSpawnTx ==
  /\ monPc = "spawntx"
  /\ txPc' = "top"
  /\ monPc' = "join"
  /\ UNCHANGED <<reqs, rxNext, peerClosed, shut, devGone, replies, ring, pkt,
                 packets_ready, terminate, waitSet, rxPc, rxTmp, txCur, monCur>>

\* pthread_create of RX fails: release_device, inform_unexported,
\* terminate = true, return.
MonitorRxCreateFail ==
  /\ monPc = "spawn" /\ SpawnCanFail
  /\ terminate' = TRUE
  /\ monPc' = "done"
  /\ UNCHANGED <<reqs, rxNext, peerClosed, shut, devGone, replies, ring, pkt,
                 packets_ready, waitSet, rxPc, rxTmp, txPc, txCur, monCur>>

\* pthread_create of TX fails while RX runs: release_device,
\* inform_unexported, terminate = true (no signal), then join RX ...
MonitorTxCreateFail ==
  /\ monPc = "spawntx" /\ SpawnCanFail
  /\ terminate' = TRUE
  /\ monPc' = "joinrx"
  /\ UNCHANGED <<reqs, rxNext, peerClosed, shut, devGone, replies, ring, pkt,
                 packets_ready, waitSet, rxPc, rxTmp, txPc, txCur, monCur>>

\* ... and returns without draining the ring.
MonitorJoinRx ==
  /\ monPc = "joinrx" /\ rxPc = "done"
  /\ monPc' = "done"
  /\ UNCHANGED <<reqs, rxNext, peerClosed, shut, devGone, replies, ring, pkt,
                 packets_ready, terminate, waitSet, rxPc, rxTmp, txPc, txCur,
                 monCur>>

MonitorJoin ==
  /\ monPc = "join" /\ rxPc = "done" /\ txPc = "done"
  /\ monPc' = "drain"
  /\ UNCHANGED <<reqs, rxNext, peerClosed, shut, devGone, replies, ring, pkt,
                 packets_ready, terminate, waitSet, rxPc, rxTmp, txPc, txCur,
                 monCur>>

\* Variant: packets are freed without cancelling or waiting for them.
MonitorDrain_nowait ==
  /\ monPc = "drain" /\ ring # <<>> /\ LockFree
  /\ ring' = Tail(ring)
  /\ packets_ready' = packets_ready - 1
  /\ UNCHANGED <<reqs, rxNext, peerClosed, shut, devGone, replies, pkt,
                 terminate, waitSet, rxPc, rxTmp, txPc, txCur, monPc, monCur>>

\* Variant: a packet not ready is waited for but never cancelled.
MonitorDrain_nocancel ==
  /\ monPc = "drain" /\ ring # <<>> /\ LockFree
  /\ LET h == Head(ring) IN
       /\ ring' = Tail(ring)
       /\ packets_ready' = packets_ready - 1
       /\ IF pkt[h].ready
            THEN UNCHANGED <<monPc, monCur>>
            ELSE /\ monCur' = h
                 /\ monPc' = "poll"
  /\ UNCHANGED <<reqs, rxNext, peerClosed, shut, devGone, replies, pkt,
                 terminate, waitSet, rxPc, rxTmp, txPc, txCur>>

\* One iteration of the destroy loop: dequeue_any_packet takes the head
\* (decrementing packets_ready even if it is not ready); a packet not ready
\* has its transfer cancelled and is polled until its callback has run.
MonitorDrain ==
  /\ monPc = "drain" /\ ring # <<>> /\ LockFree
  /\ LET h == Head(ring) IN
       /\ ring' = Tail(ring)
       /\ packets_ready' = packets_ready - 1
       /\ IF pkt[h].ready
            THEN UNCHANGED <<pkt, monPc, monCur>>
            ELSE /\ pkt' = [pkt EXCEPT ![h].xfer =
                              IF @ = "inflight" THEN "cancelling" ELSE @]
                 /\ monCur' = h
                 /\ monPc' = "poll"
  /\ UNCHANGED <<reqs, rxNext, peerClosed, shut, devGone, replies,
                 terminate, waitSet, rxPc, rxTmp, txPc, txCur>>

\* The usleep(10000) loop ends once the callback has marked it ready.
MonitorPoll ==
  /\ monPc = "poll" /\ LockFree /\ pkt[monCur].ready
  /\ monPc' = "drain" /\ monCur' = 0
  /\ UNCHANGED <<reqs, rxNext, peerClosed, shut, devGone, replies, ring, pkt,
                 packets_ready, terminate, waitSet, rxPc, rxTmp, txPc, txCur>>

\* Ring empty: release_device, libusb_close, packets_ready = 0, close the
\* link, inform_unexported.
MonitorFinish ==
  /\ monPc = "drain" /\ ring = <<>>
  /\ packets_ready' = 0
  /\ shut' = TRUE
  /\ monPc' = "done"
  /\ UNCHANGED <<reqs, rxNext, peerClosed, devGone, replies, ring, pkt,
                 terminate, waitSet, rxPc, rxTmp, txPc, txCur, monCur>>

-----------------------------------------------------------------------------
Init ==
  /\ reqs = <<>> /\ rxNext = 1 /\ peerClosed = FALSE
  /\ shut = FALSE /\ devGone = FALSE /\ replies = <<>>
  /\ ring = <<>> /\ pkt = [s \in Seqs |-> NoPacket]
  /\ packets_ready = 0 /\ terminate = FALSE /\ waitSet = {}
  /\ rxPc = "idle" /\ rxTmp = 0 /\ txPc = "idle" /\ txCur = 0
  /\ monPc = "spawn" /\ monCur = 0

Environment == PeerSubmit \/ PeerUnlink \/ PeerClose \/ DeviceGone
                 \/ terminate_forward

Rx == RxLock \/ RxWait \/ RxWake \/ RxCheck \/ RxRecvFail \/ handle_submit
        \/ handle_submit_fail \/ unlink_packet \/ handle_unlink_notfound
        \/ handle_unlink_enqueue \/ rx_exit

Tx == TxLock \/ TxWait \/ TxWake \/ TxCheck \/ dequeue_ready_packet
        \/ tx_send \/ tx_exit

Monitor == MonitorSpawnRx \/ MonitorSpawnTx \/ MonitorRxCreateFail \/ MonitorTxCreateFail
             \/ MonitorJoinRx \/ MonitorJoin \/ MonitorDrain \/ MonitorPoll
             \/ MonitorFinish

Next == Environment \/ Rx \/ Tx \/ Monitor
          \/ \E s \in Seqs : xfer_completion_callback(s)

\* libusb guarantees a callback for a cancelled transfer and for every
\* transfer of a vanished device; a transfer on a live device may pend
\* forever (an interrupt IN endpoint with no input).
FairCallback(s) ==
  (pkt[s].xfer = "cancelling" \/ devGone) /\ xfer_completion_callback(s)

\* The USB task's one-second poll notices a vanished device and calls
\* terminate_forward (remove_detached_devices).
FairTeardown == devGone /\ terminate_forward

Fairness ==
  /\ WF_vars(Rx) /\ WF_vars(Tx) /\ WF_vars(Monitor)
  /\ \A s \in Seqs : WF_vars(FairCallback(s))
  /\ WF_vars(FairTeardown)

Spec == Init /\ [][Next]_vars /\ Fairness

-----------------------------------------------------------------------------
(* Properties                                                               *)

TypeOK ==
  /\ reqs \in Seq(Request) /\ Len(reqs) <= MaxSeq
  /\ rxNext \in 1..MaxSeq + 1
  /\ {peerClosed, shut, devGone, terminate} \subseteq BOOLEAN
  /\ replies \in Seq(Reply)
  /\ ring \in Seq(Seqs)
  /\ pkt \in [Seqs -> [ready : BOOLEAN, unlinked : 0..MaxSeq,
                       cmd : Commands \cup {"NONE"}, status : Statuses,
                       xfer : XferStates]]
  /\ packets_ready \in Int /\ rxTmp \in Int
  /\ waitSet \subseteq {"rx", "tx"}
  /\ rxPc \in {"idle", "top", "prewait", "wait", "check", "recv",
               "unlink_inc", "exit", "done"}
  /\ txPc \in {"idle", "top", "prewait", "wait", "check", "deq", "send",
               "exit", "done"}
  /\ txCur \in 0..MaxSeq /\ monCur \in 0..MaxSeq
  /\ monPc \in {"spawn", "spawntx", "join", "joinrx", "drain", "poll", "done"}

\* The URB a reply answers: RET_SUBMIT s answers s; a RET_UNLINK rewritten
\* by tx_server (-ECONNRESET) answers the unlink's target.
Answers(r) ==
  IF r.cmd = "RET_UNLINK" /\ r.status = -ECONNRESET
    THEN UnlinkTarget(r.seq) ELSE r.seq

\* Every reply tx_server writes echoes a command the peer sent, with the
\* matching kind: RET_SUBMIT for a CMD_SUBMIT, RET_UNLINK for a CMD_UNLINK.
ReplyAnswersRequest ==
  \A i \in 1..Len(replies) :
    /\ replies[i].seq <= Len(reqs)
    /\ replies[i].cmd = "RET_SUBMIT" => reqs[replies[i].seq].cmd = "CMD_SUBMIT"
    /\ replies[i].cmd = "RET_UNLINK" => reqs[replies[i].seq].cmd = "CMD_UNLINK"

\* No seqnum appears twice on the wire and no URB is answered twice, whether
\* its transfer completes, is unlinked by handle_unlink or races with it.
UrbAnsweredOnce ==
  \A i, j \in 1..Len(replies) :
    i # j => /\ replies[i].seq # replies[j].seq
             /\ Answers(replies[i]) # Answers(replies[j])

\* A RET_UNLINK with status 0 (handle_unlink did not find the target in the
\* ring) is only sent after the target's RET_SUBMIT: a target absent from
\* the ring must already be in tx_server's hands.
UnlinkAfterTarget ==
  \A j \in 1..Len(replies) :
    (replies[j].cmd = "RET_UNLINK" /\ replies[j].status = 0) =>
      \E i \in 1..j - 1 : /\ replies[i].cmd = "RET_SUBMIT"
                          /\ replies[i].seq = UnlinkTarget(replies[j].seq)

\* Once monitor has joined RX and TX and emptied the ring, no transfer of
\* the session is in flight: the destroy loop cancels and waits for each.
DrainLeavesNoTransfer ==
  (monPc = "done" /\ txPc = "done") =>
    \A s \in Seqs : pkt[s].xfer \notin {"inflight", "cancelling"}

\* Once RX and TX have exited, monitor's destroy loop terminates.
DrainCompletes ==
  (rxPc = "done" /\ txPc = "done") ~> (monPc = "done")

-----------------------------------------------------------------------------
(* Properties the spec or the code's comments state, and the code breaks    *)

\* packets_ready counts the ready packets in the ring whenever no thread is
\* inside an update of it (handle_unlink's packets_ready++ is outside
\* buffer_lock) and monitor has not started its destroy loop.
ReadyCountAccurate ==
  (rxPc # "unlink_inc" /\ monPc \in {"spawn", "spawntx", "join", "joinrx"}) =>
    packets_ready = Cardinality(ReadyIdx)

\* Whenever RX is blocked on backpressure and TX has brought packets_ready
\* below PACKET_BUF_SIZE, RX eventually resumes reading the link.
RxBackpressureReleased ==
  (rxPc = "wait" /\ packets_ready < PACKET_BUF_SIZE) ~> (rxPc # "wait")

\* Once one thread of the session sets terminate, both RX and TX exit
\* (rx_exit and tx_exit signal buffer_cond to wake the other).
TerminateStopsThreads ==
  terminate ~> (rxPc \in {"idle", "done"} /\ txPc \in {"idle", "done"})

\* When monitor returns, no transfer of the session is left in flight.
NoTransferAfterMonitorExit ==
  monPc = "done" => \A s \in Seqs : pkt[s].xfer \notin {"inflight", "cancelling"}

====
