------------------------------- MODULE Powers -------------------------------
(***************************************************************************)
(* Powers of natural numbers, written as a recursive function: b to the    *)
(* n-th, which is what a shift by n bits multiplies or divides by.         *)
(***************************************************************************)
EXTENDS Integers

Power(b, n) ==
  LET power[k \in Nat] == IF k = 0 THEN 1 ELSE b * power[k - 1]
  IN  power[n]
=============================================================================
