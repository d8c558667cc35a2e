SPECIFICATION Spec
CONSTANTS
  a = a
  b = b
  Peer <- MCPeer
  Kind <- OneKind
  Version <- NoVersion
  PipeSize = 1
  LogWritten = TRUE
  MaxReceived = 0
  SerialConnects = FALSE
  MaxCommands = 1
  CommandCount <- MCCount
CHECK_DEADLOCK FALSE
INVARIANT HoldsActivePeers
