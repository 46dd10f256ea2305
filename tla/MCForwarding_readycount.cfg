CONSTANTS
  MaxSeq <- MCMaxSeq
  PACKET_BUF_SIZE <- MCLargeBufSize
  XferOutcomes <- MCXferOutcomes
  SpawnCanFail = FALSE
SPECIFICATION Spec
CHECK_DEADLOCK FALSE
INVARIANTS
  ReadyCountAccurate
