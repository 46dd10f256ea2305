CONSTANTS
  MaxSeq <- MCMaxSeq
  PACKET_BUF_SIZE <- MCPacketBufSize
  XferOutcomes <- MCXferOutcomes
  SpawnCanFail = TRUE
SPECIFICATION Spec
CHECK_DEADLOCK FALSE
INVARIANTS
  NoTransferAfterMonitorExit
