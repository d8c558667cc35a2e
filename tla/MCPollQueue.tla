---------------------------- MODULE MCPollQueue ----------------------------
(* Handlers with equal and different rates, and one that is not polled. *)
EXTENDS PollQueue

CONSTANTS slow, fast, twin, idle

MCHandler == {slow, fast, twin, idle}
MCRate    == (slow :> 2) @@ (fast :> 1) @@ (twin :> 2) @@ (idle :> 0)
=============================================================================
