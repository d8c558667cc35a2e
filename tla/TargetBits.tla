----------------------------- MODULE TargetBits -----------------------------
(***************************************************************************)
(* The compact form of difficulty targets, src/bitcoin/message.py: a count *)
(* of bytes, and the three most significant of them, the top bit of which  *)
(* is the sign.                                                            *)
(*                                                                         *)
(* The functions are the same for bytes of any width; ByteBits is 8 in the *)
(* code and small where all inputs are enumerated.                         *)
(***************************************************************************)
EXTENDS Powers

CONSTANTS ByteBits, \* the width of a byte
          MaxCount, \* the highest count of bytes: 255
          MaxTarget \* bound: targets are enumerated up to this one

ASSUME ByteAssumption   == ByteBits \in Nat \ {0}
ASSUME TargetAssumption == MaxCount \in Nat /\ MaxTarget \in Nat

VARIABLES target, \* __i of a TargetBits
          code    \* __encoded

targetVars == <<target, code>>

Shift(bytes) == Power(2, ByteBits * bytes)
SignBit      == Power(2, 3 * ByteBits - 1)

(* The bits of an encoding: they are kept apart here, not in the code.      *)
Code   == [count : 0..MaxCount, neg : BOOLEAN, mantissa : 0..(SignBit - 1)]
Target == -MaxTarget..MaxTarget

Abs(i) == IF i < 0 THEN -i ELSE i

(***************************************************************************)
(* target_to_bits().  The sign is or-ed to the mantissa, and so a mantissa *)
(* that reached its bit would be taken for a negative one.                 *)
(***************************************************************************)
BitLength[n \in Nat] == IF n = 0 THEN 0 ELSE 1 + BitLength[n \div 2]

ByteCount_Mutant(i) == (BitLength[Abs(i)] + ByteBits - 1) \div ByteBits

ByteCount(i) == IF i = 0 THEN 0 ELSE 1 + BitLength[Abs(i)] \div ByteBits

(* target_to_bits() raises when there are more bytes than can be counted.   *)
Fits(i) == ByteCount(i) <= MaxCount

Mantissa_Mutant(i, count) ==
  IF count <= 3 THEN Abs(i) * Shift(3 - count)
                ELSE (Abs(i) + Shift(count - 3) - 1) \div Shift(count - 3)

Mantissa(i, count) ==
  IF count < 3 THEN Abs(i) * Shift(3 - count)
               ELSE Abs(i) \div Shift(count - 3)

TargetToBits(i) ==
  LET count == ByteCount(i)
      bits  == Mantissa(i, count)
  IN  [count    |-> count,
       neg      |-> i < 0 \/ (bits \div SignBit) % 2 = 1,
       mantissa |-> bits % SignBit]

(* bits_to_target(). *)
BitsToTarget(c) ==
  LET i == IF c.count < 3 THEN c.mantissa \div Shift(3 - c.count)
                          ELSE c.mantissa * Shift(c.count - 3)
  IN  IF c.neg THEN -i ELSE i

-----------------------------------------------------------------------------
TargetIdle == target = 0 /\ code = TargetToBits(0)

(* Any target, or any encoding as it may be read. *)
TargetInit ==
  \/ target \in Target /\ Fits(target) /\ code = TargetToBits(target)
  \/ code \in Code /\ target = BitsToTarget(code)

(* What becomes of a new target: it is cut to what its encoding can say.    *)
Compact(i) == BitsToTarget(TargetToBits(i))

Normalise ==
  /\ target' = Compact(target)
  /\ code' = TargetToBits(target')

-----------------------------------------------------------------------------
(***************************************************************************)
(* The exhaustive test of tests/difficulty_target_test.py, which is        *)
(* switched off: decoded and encoded again, an encoding loses the bytes    *)
(* below the first, and comes back with as few bytes as its value needs.   *)
(***************************************************************************)
Masked(c) ==
  LET lost == IF c.count < 3 THEN Shift(3 - c.count) ELSE 1
  IN  (c.mantissa \div lost) * lost

Canonical(c) ==
  LET m == Masked(c)
      k == CHOOSE n \in 0..2 :
             /\ m * Shift(n) >= Shift(2) \div 2
             /\ \A l \in 0..(n - 1) : m * Shift(l) < Shift(2) \div 2
  IN  IF m = 0 THEN [count |-> 0, neg |-> FALSE, mantissa |-> 0]
               ELSE [count |-> c.count - k, neg |-> c.neg, mantissa |-> m * Shift(k)]

FullTest == TargetToBits(BitsToTarget(code)) = Canonical(code)

(* A target is cut towards zero, by less than one in the last byte kept,    *)
(* keeps its sign and its order with the next one, and is not cut again.    *)
Kept(i) == IF ByteCount(i) > 3 THEN Shift(ByteCount(i) - 3) ELSE 1

CutOnce ==
  [][/\ Abs(target') <= Abs(target)
     /\ Abs(target) - Abs(target') < Kept(target)
     /\ target' < 0 <=> target < 0
     /\ target' > 0 <=> target > 0
     /\ target' <= Compact(target + 1)
     /\ Compact(target') = target']_targetVars
=============================================================================
