SPECIFICATION Spec
CONSTANTS
  a = a
  b = b
  Peer <- TwoPeers
  Kind <- MCKind
  Version <- MCVersion
  ClaimedVersion <- OneClaimed
  PROTOCOL_VERSION = 1
  NonceVersion = 0
  PipeSize = 1
  LogWritten = TRUE
  MaxReceived = 1
  MaxPolled = 2
  SerialConnects = FALSE
  MayShutdown = FALSE
CHECK_DEADLOCK FALSE
SYMMETRY Symmetry
INVARIANTS
  VersionSentFirst
