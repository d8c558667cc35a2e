--------------------------- MODULE ByteArrayCodec ---------------------------
(***************************************************************************)
(* Integers and strings as bytes, src/bitcoin/byte_array_codec.py.         *)
(*                                                                         *)
(* The formats are the same for bytes of any width.  Radix is the number   *)
(* of their values, 256 in the code and small where inputs are enumerated. *)
(* What is put or got at once is a field: an integer of so many bytes, a   *)
(* truth value, so many bytes as they are, a var_int, or a string that is  *)
(* preceded by its length.                                                 *)
(***************************************************************************)
EXTENDS Powers, SequencesExt

CONSTANT Radix

ASSUME RadixAssumption == Radix \in Nat /\ Radix > 3 /\ Radix % 2 = 0

Byte == 0..(Radix - 1)

Field == [form : {"int", "bool", "bytes", "var_int", "string"}, width : Nat,
          signed : BOOLEAN, big : BOOLEAN]

Fixed(width, signed) ==
  [form |-> "int", width |-> width, signed |-> signed, big |-> FALSE]
Plain(form, width) ==
  [form |-> form, width |-> width, signed |-> FALSE, big |-> FALSE]

-----------------------------------------------------------------------------
(***************************************************************************)
(* BinEncoder.  What does not fit is cut off, and a sign is a large number.*)
(***************************************************************************)
PutInt(v, width, big) ==
  LET bytes == [i \in 1..width |-> (v \div Power(Radix, i - 1)) % Radix]
  IN  IF big THEN Reverse(bytes) ELSE bytes

(* 0xFD, 0xFE and 0xFF stand before a short, an int and a long.             *)
Marker(width) == CASE width = 2 -> Radix - 3 [] width = 4 -> Radix - 2 [] width = 8 -> Radix - 1

PutMarked(v, width) == <<Marker(width)>> \o PutInt(v, width, FALSE)

PutVarInt_Mutant(v) ==
  LET u == v % Power(Radix, 8)
  IN  CASE u <= Marker(2)             -> <<u>>
        [] u \in (Marker(2) + 1)..(Power(Radix, 2) - 1) -> PutMarked(u, 2)
        [] u \in Power(Radix, 2)..(Power(Radix, 4) - 1)   -> PutMarked(u, 4)
        [] u >= Power(Radix, 4)               -> PutMarked(u, 8)

PutVarInt(v) ==
  LET u == v % Power(Radix, 8)
  IN  CASE u < Marker(2)              -> <<u>>
        [] u \in Marker(2)..(Power(Radix, 2) - 1) -> PutMarked(u, 2)
        [] u \in Power(Radix, 2)..(Power(Radix, 4) - 1)   -> PutMarked(u, 4)
        [] u >= Power(Radix, 4)               -> PutMarked(u, 8)

Put(f, value) ==
  CASE f.form = "int"     -> PutInt(value[1], f.width, f.big)
    [] f.form = "bool"    -> <<IF value[1] = 0 THEN 0 ELSE 1>>
    [] f.form = "bytes"   -> value
    [] f.form = "var_int" -> PutVarInt(value[1])
    [] f.form = "string"  -> PutVarInt(Len(value)) \o value

-----------------------------------------------------------------------------
(***************************************************************************)
(* BinDecoder.  A field is got from position i on, the number of bytes     *)
(* before it; DecoderEOF is raised when the buffer ends too early.         *)
(***************************************************************************)
EOF == [eof |-> TRUE, value |-> <<>>, i |-> 0]

Got(value, i) == [eof |-> FALSE, value |-> value, i |-> i]

GetBytes(buf, i, width) ==
  IF i + width > Len(buf) THEN EOF ELSE Got(SubSeq(buf, i + 1, i + width), i + width)

Unsigned(bytes, big) ==
  LET digits == IF big THEN Reverse(bytes) ELSE bytes
      upto[k \in 0..Len(digits)] ==
        IF k = 0 THEN 0 ELSE upto[k - 1] + digits[k] * Power(Radix, k - 1)
  IN  upto[Len(digits)]

GetInt(buf, i, width, signed, big) ==
  LET got == GetBytes(buf, i, width)
      u   == Unsigned(got.value, big)
  IN  IF got.eof THEN EOF
      ELSE Got(<<IF signed /\ 2 * u >= Power(Radix, width) THEN u - Power(Radix, width) ELSE u>>, got.i)

GetVarInt(buf, i) ==
  LET first == GetInt(buf, i, 1, FALSE, FALSE)
  IN  IF first.eof \/ first.value[1] < Marker(2) THEN first
      ELSE LET width == CHOOSE w \in {2, 4, 8} : Marker(w) = first.value[1]
           IN  GetInt(buf, first.i, width, FALSE, FALSE)

Get(f, buf, i) ==
  CASE f.form = "int"     -> GetInt(buf, i, f.width, f.signed, f.big)
    [] f.form = "bool"    -> LET got == GetInt(buf, i, 1, TRUE, FALSE)
                             IN  IF got.eof THEN EOF
                                 ELSE Got(<<IF got.value[1] = 0 THEN 0 ELSE 1>>, got.i)
    [] f.form = "bytes"   -> GetBytes(buf, i, f.width)
    [] f.form = "var_int" -> GetVarInt(buf, i)
    [] f.form = "string"  -> LET len == GetVarInt(buf, i)
                             IN  IF len.eof THEN EOF ELSE GetBytes(buf, len.i, len.value[1])

-----------------------------------------------------------------------------
(* What an integer of a field means when it is put and got again. *)
Wrapped(v, width, signed) ==
  CHOOSE n \in {v % Power(Radix, width), (v % Power(Radix, width)) - Power(Radix, width)} :
    n < 0 <=> signed /\ 2 * (v % Power(Radix, width)) >= Power(Radix, width)

Meant(f, value) ==
  CASE f.form = "int"     -> <<Wrapped(value[1], f.width, f.signed)>>
    [] f.form = "bool"    -> <<IF value[1] = 0 THEN 0 ELSE 1>>
    [] f.form = "var_int" -> <<value[1] % Power(Radix, 8)>>
    [] OTHER              -> value
=============================================================================
