------------------------- MODULE MCNetworkManager --------------------------
(* Model values and the symmetry of the runs of NetworkManager. *)
EXTENDS NetworkManager, TLC

CONSTANTS a, b, MaxCommands

MCPeer    == {a, b}
MCKind    == {"version", "ping"}
OneKind   == {"version"}
MCVersion == {0, 1}
NoVersion == {0}
MCCount   == 0..MaxCommands
Symmetry  == Permutations(MCPeer)
=============================================================================
