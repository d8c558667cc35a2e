-------------------------------- MODULE Data --------------------------------
(***************************************************************************)
(* The pure functions in one state space: in each behaviour one of them is *)
(* at work, a compact target, a message, an address or a chain of blocks.  *)
(***************************************************************************)
EXTENDS Messages, Chain, AddressText

Init ==
  \/ TargetInit /\ MessageIdle /\ AddressIdle /\ ChainIdle
  \/ TargetIdle /\ MessageInit /\ AddressIdle /\ ChainIdle
  \/ TargetIdle /\ MessageIdle /\ AddressInit /\ ChainIdle
  \/ TargetIdle /\ MessageIdle /\ AddressIdle /\ ChainInit

Next ==
  \/ Normalise /\ UNCHANGED <<messageVars, addressVars, chainVars>>
  \/ (Refuse \/ Send \/ Receive) /\ UNCHANGED <<targetVars, addressVars, chainVars>>
  \/ Convert /\ UNCHANGED <<targetVars, messageVars, chainVars>>
  \/ Extend /\ UNCHANGED <<targetVars, messageVars, addressVars>>

Spec == Init /\ [][Next]_<<targetVars, messageVars, addressVars, chainVars>>
=============================================================================
