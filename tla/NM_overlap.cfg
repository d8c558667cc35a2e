SPECIFICATION Spec
CONSTANTS
  a = a
  b = b
  Peer <- MCPeer
  Kind <- MCKind
  Version <- MCVersion
  PipeSize = 1
  LogWritten = TRUE
  MaxReceived = 1
  SerialConnects = FALSE
  MaxCommands = 1
  CommandCount <- MCCount
CHECK_DEADLOCK FALSE
SYMMETRY Symmetry
INVARIANTS
  DisconnectedIsLast
