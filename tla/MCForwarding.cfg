CONSTANTS
  MaxSeq <- MCMaxSeq
  PACKET_BUF_SIZE <- MCPacketBufSize
  XferOutcomes <- MCXferOutcomes
  SpawnCanFail = TRUE
SPECIFICATION Spec
\* An idle session with a live peer blocks every thread; a finished one
\* has nothing left to do.
CHECK_DEADLOCK FALSE
INVARIANTS
  TypeOK
  ReplyAnswersRequest
  UrbAnsweredOnce
  UnlinkAfterTarget
  DrainLeavesNoTransfer
PROPERTIES
  DrainCompletes
