SPECIFICATION FairSpec
CONSTANTS
  a = a
  b = b
  Peer <- OnePeer
  Kind <- MCKind
  Version <- MCVersion
  ClaimedVersion <- MCClaimed
  PROTOCOL_VERSION = 1
  NonceVersion = 0
  PipeSize = 1
  LogWritten = TRUE
  MaxReceived = 2
  MaxPolled = 2
  SerialConnects = TRUE
  MayShutdown = TRUE
CHECK_DEADLOCK FALSE
INVARIANTS
  ClusterInv
  HandshakeInv
  VersionsAgree
  VersionHeardFirst
PROPERTIES
  ClusterShutdownReturns
  BadPeerEnds
  UsesNetworkManager
