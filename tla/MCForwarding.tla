---------------------------- MODULE MCForwarding ----------------------------
(* Model-checking instance of Forwarding: three USB/IP commands, a ring    *)
(* backpressure threshold of one ready packet, and completions that either *)
(* succeed or stall.                                                        *)
EXTENDS Forwarding

MCMaxSeq == 3
MCPacketBufSize == 1
MCXferOutcomes == {"COMPLETED", "STALL"}
\* A threshold RX never reaches: no backpressure wait.
MCLargeBufSize == MCMaxSeq + 1
====
