-------------------------- MODULE MCLink --------------------------
(* Frames of a header of two bytes and a body of one; a chunk may hold a    *)
(* message and a part of the next, but not two messages.                    *)
EXTENDS Link

MCCommand == {"version", "ping"}
MCSize    == {3}
MCVersion == {0, 1}
=============================================================================
