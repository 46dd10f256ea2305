CONSTANTS
  MaxSeq <- MCMaxSeq
  PACKET_BUF_SIZE <- MCPacketBufSize
  XferOutcomes <- MCXferOutcomes
  SpawnCanFail = FALSE
SPECIFICATION Spec
CHECK_DEADLOCK FALSE
PROPERTIES
  RxBackpressureReleased
