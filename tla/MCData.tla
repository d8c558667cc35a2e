------------------------------- MODULE MCData -------------------------------
(***************************************************************************)
(* The pure functions on bytes of eight values, and messages, words and    *)
(* chains at the limits of what is told apart.                             *)
(***************************************************************************)
EXTENDS Data

(* Messages that differ from a plain one in one field, where the limits of  *)
(* its form are.                                                            *)
Limits(f) ==
  CASE f.form = "int"     -> {<<n>> : n \in {-1, 0, 1, -(Radix^f.width \div 2),
                                             Radix^f.width \div 2, Radix^f.width - 1,
                                             Radix^f.width + 1}}
    [] f.form = "bool"    -> {<<0>>, <<1>>}
    [] f.form = "bytes"   -> {[i \in 1..f.width |-> i], [i \in 1..f.width |-> Radix - 1]}
    [] f.form = "var_int" -> {<<n + d>> : n \in {1, Radix - 3, Radix^2, Radix^4, Radix^8},
                                          d \in {-1, 0, 1}}
    [] f.form = "string"  -> {[i \in 1..n |-> 1] : n \in {0, 1, Radix - 4, Radix - 3}}
                             \cup {<<1, Radix \div 2>>}

MCVersion == {0, 2, 3, 4}

Plains(k) == IF k # "version" THEN {New(k)}
             ELSE {[New(k) EXCEPT !["version"] = <<v>>] : v \in 1..4}

MCSample ==
  [k \in Kind |->
     Plains(k) \cup {[m EXCEPT ![f[1]] = v] : m \in Plains(k),
                     <<f, v>> \in UNION {{f} \X Limits(f[2]) : f \in Range(Fields[k])}}]

MCWord    == {0, 1, 2}
MCLinkLocal == {1}
MCGenesis == {1, 5, 700, 1400, 15000}
MCStamp   == {0, 2, 9, 40}
=============================================================================
