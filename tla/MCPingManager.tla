--------------------------- MODULE MCPingManager ---------------------------
(* Two remote ends, of which one sends pings too; two nonces, and versions  *)
(* on both sides of the one in which pings got their nonce.                 *)
EXTENDS PingManager

CONSTANTS a, b

MCPeer    == {a, b}
MCNonce   == {1, 2}
MCVersion == {0, 1, 2}
MCPings   == [p \in MCPeer |-> IF p = a THEN 2 ELSE 0]
=============================================================================
