--------------------------- MODULE MCPickCluster ---------------------------
(* Model values and bounds of the runs of PickCluster. *)
EXTENDS PickCluster

CONSTANTS a, b

OnePeer   == {a}
TwoPeers  == {a, b}
MCKind    == {"version", "verack", "ping", "pong"}
MCVersion == {0, 1}
MCClaimed == {0, 2}
OneClaimed == {2}
Symmetry  == Permutations(TwoPeers)
=============================================================================
