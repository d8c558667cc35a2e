SPECIFICATION LinkSpec
CONSTANTS
  Command <- MCCommand
  FrameSize <- MCSize
  HeaderSize = 2
  ChunkSize = 5
  Version <- MCVersion
  MaxSent = 3
CHECK_DEADLOCK FALSE
INVARIANTS
  NothingPastFlaw
  DrainedBeforeRecv
PROPERTIES
  ReceivesInOrder
  EndToEnd
  DeliveredOnNextChunk
