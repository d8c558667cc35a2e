SPECIFICATION Spec
CONSTANTS
  a = a
  b = b
  Peer <- MCPeer
  Nonce <- MCNonce
  Version <- MCVersion
  NonceVersion = 1
  LatencyLimit = 3
  MaxTime = 4
  MaxPings <- MCPings
  MaxAhead = 1
INVARIANTS
  PingInv
  PongsEcho
PROPERTY LatencyMeasured
