-------------------------------- MODULE Chain -------------------------------
(***************************************************************************)
(* The targets and subsidies of a chain of blocks, as the calculators of   *)
(* src/bitcoin/protocols.py give them, while the chain grows block by      *)
(* block with timestamps of any kind.                                      *)
(***************************************************************************)
EXTENDS TargetBits, Sequences

CONSTANTS Timespan,     \* two weeks: what a period of blocks should take
          Period,       \* 2016: the target is adjusted every so many blocks
          RetargetStart, \* 2016: how far behind a block the time begins ...
          RetargetEnd,  \* 1: ... and ends from which it is adjusted
          Payout,       \* the subsidy of the first blocks
          Halving,      \* 210000: it is halved every so many blocks
          Offset,       \* 1
          Genesis,      \* bound: the targets of first blocks
          Stamp,        \* bound: the timestamps of blocks
          MaxHeight     \* bound

ASSUME PeriodAssumption ==
  /\ Timespan \in Nat \ {0} /\ Timespan % 4 = 0
  /\ Period \in Nat \ {0} /\ RetargetStart \in 1..Period /\ RetargetEnd \in 1..Period
ASSUME SubsidyAssumption == Payout \in Nat /\ Halving \in Nat \ {0} /\ Offset \in Nat
ASSUME ChainAssumption   == Genesis \subseteq Nat /\ Stamp \subseteq Nat /\ MaxHeight \in Nat

VARIABLES targets,    \* of the blocks from height 0 on
          timestamps,
          paid        \* the sum of the subsidies of all blocks but the first

chainVars == <<targets, timestamps, paid>>

(* SubsidyCalculator. *)
Subsidy(height) == Payout \div Power(2, (height + Offset) \div Halving)

(* An item of a list: an index below 0 counts from its end. *)
Item(list, i) == IF i < 0 THEN list[Len(list) + i + 1] ELSE list[i + 1]

(* TargetCalculator.get_standard_target(), where it raises nothing.         *)
Defined(list, height) == Len(list) > height - 1

Clamped_Mutant(timespan) ==
  IF timespan < Timespan \div 4 THEN Timespan \div 4 ELSE timespan

Clamped(timespan) ==
  CASE timespan < Timespan \div 4 -> Timespan \div 4
    [] timespan > Timespan * 4    -> Timespan * 4
    [] OTHER                      -> timespan

Retargeted(list, stamps, height) ==
  LET timespan == Item(stamps, height - RetargetEnd) - Item(stamps, height - RetargetStart)
  IN  (Item(list, height - 1) * Clamped(timespan)) \div Timespan

StandardTarget(list, stamps, height) ==
  IF height % Period # 0 THEN Item(list, height - 1)
  ELSE Compact(Retargeted(list, stamps, height))

-----------------------------------------------------------------------------
ChainIdle == targets = <<>> /\ timestamps = <<>> /\ paid = 0

ChainInit ==
  /\ \E t \in Genesis : targets = <<t>>
  /\ \E s \in Stamp : timestamps = <<s>>
  /\ paid = 0

Extend ==
  LET height == Len(targets)
  IN  /\ height \in 1..MaxHeight
      /\ Defined(targets, height)
      /\ height % Period = 0 => Fits(Retargeted(targets, timestamps, height))
      /\ targets' = Append(targets, StandardTarget(targets, timestamps, height))
      /\ \E s \in Stamp : timestamps' = Append(timestamps, s)
      /\ paid' = paid + Subsidy(height)

-----------------------------------------------------------------------------
(* The target of a block depends on the blocks before it, and can be found  *)
(* again however far the chain has grown; it changes with a period only,    *)
(* and then by no more than a factor of four, and what the compact form     *)
(* cuts off, however the timestamps are set.                                *)
TargetsConsistent ==
  \A h \in 1..(Len(targets) - 1) :
    LET old == Item(targets, h - 1)
        new == Item(targets, h)
    IN  /\ new = StandardTarget(targets, timestamps, h)
        /\ h % Period # 0 => new = old
        /\ new <= 4 * old
        /\ 4 * (new + Kept(old)) > old

(* The subsidies of all blocks there can be do not exceed twice those of    *)
(* the blocks before the first halving.                                     *)
PayoutBounded == paid <= 2 * Payout * Halving

(* Both hold of every chain. *)
ChainConsistent == TargetsConsistent /\ PayoutBounded
=============================================================================
