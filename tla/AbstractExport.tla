---------------------------- MODULE AbstractExport ---------------------------
(***************************************************************************)
(* What the server promises about exporting its USB devices (spec.md, the  *)
(* USB task and REQ_IMPORT): an import hands a device to a new forwarding *)
(* session only while no session holds it; a session ends on its own; and *)
(* a device is taken back from a session only once that session has       *)
(* ended.  UsbExport.tla is shown to implement this specification.        *)
(***************************************************************************)
CONSTANTS
  Devices,  \* the server's USB devices
  Sids      \* forwarding sessions, one per accepted import

VARIABLES
  holder,   \* device -> the session it is exported to, 0 = none
  active,   \* sessions that have not ended
  used      \* sessions ever started

vars == <<holder, active, used>>

Init == holder = [d \in Devices |-> 0] /\ active = {} /\ used = {}

\* An import succeeds: a fresh session takes a device nobody holds.
Export(d, s) ==
  /\ holder[d] = 0 /\ s \notin used
  /\ holder' = [holder EXCEPT ![d] = s]
  /\ active' = active \cup {s}
  /\ used' = used \cup {s}

\* A session ends (its client left, its link failed, or it was stopped).
End(s) ==
  /\ s \in active
  /\ active' = active \ {s}
  /\ UNCHANGED <<holder, used>>

\* The device of an ended session becomes free again.
Unexport(d) ==
  /\ holder[d] # 0 /\ holder[d] \notin active
  /\ holder' = [holder EXCEPT ![d] = 0]
  /\ UNCHANGED <<active, used>>

Next == \/ \E d \in Devices, s \in Sids : Export(d, s)
        \/ \E s \in Sids : End(s)
        \/ \E d \in Devices : Unexport(d)

Spec == Init /\ [][Next]_vars

====
