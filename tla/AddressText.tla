---------------------------- MODULE AddressText -----------------------------
(***************************************************************************)
(* The address of a connection, src/network/network.py: convert_ip() reads *)
(* the text of the address that getpeername() gives.                       *)
(*                                                                         *)
(* A text is the sequence of the words between its colons.  A word is its  *)
(* value, or Empty, or NotHex: not a hexadecimal number, but an address of *)
(* version 4 with its dots, or a word with a percent sign and a zone.      *)
(***************************************************************************)
EXTENDS Integers, SequencesExt

CONSTANTS Word,      \* the words of the addresses: 0 and 0xFFFF among them
          LinkLocal, \* the first words of the addresses that need a zone
          MaxWord    \* 0xFFFF

ASSUME WordAssumption == MaxWord \in Nat \ {0} /\ {0, MaxWord} \subseteq Word /\ Word \subseteq 0..MaxWord
ASSUME ZoneAssumption == 0 \notin LinkLocal

Empty  == -1
NotHex == -2

Address == [1..8 -> Word]

-----------------------------------------------------------------------------
(***************************************************************************)
(* The text of an address, as the library writes it: the first of the      *)
(* longest runs of two zero words or more is left out, and what ends in an *)
(* address of version 4 is written with dots.  An address of one link only *)
(* has its zone behind the last word.                                      *)
(***************************************************************************)
Zeros(a, first, n) == \A i \in first..(first + n - 1) : a[i] = 0

Runs(a) == {r \in (1..8) \X (2..8) : r[1] + r[2] <= 9 /\ Zeros(a, r[1], r[2])}

Longest(a) ==
  CHOOSE r \in Runs(a) :
    \A s \in Runs(a) : r[2] > s[2] \/ (r[2] = s[2] /\ r[1] <= s[1])

Tail4(a, first, n) ==
  /\ first = 1
  /\ n = 6 \/ (n = 5 /\ a[6] = MaxWord)

Spelled(a) ==
  IF Runs(a) = {} THEN a
  ELSE LET first == Longest(a)[1]
           n     == Longest(a)[2]
           left  == SubSeq(a, 1, first - 1)
           right == IF Tail4(a, first, n)
                    THEN SubSeq(a, first + n, 6) \o <<NotHex>>
                    ELSE SubSeq(a, first + n, 8)
       IN  (IF left = <<>> THEN <<Empty>> ELSE left) \o <<Empty>>
           \o (IF right = <<>> THEN <<Empty>> ELSE right)

Zoned(t) == [t EXCEPT ![Len(t)] = NotHex]

Text(a) == IF a[1] \in LinkLocal THEN Zoned(Spelled(a)) ELSE Spelled(a)

-----------------------------------------------------------------------------
(***************************************************************************)
(* convert_ip().  The result is an outcome with the words that were put:   *)
(* "address", "none", or "raised" for what int() does not read.            *)
(***************************************************************************)
Outcome(what, words) == [what |-> what, words |-> words]

NoAddress == Outcome("none", <<>>)

(* An empty word at an end stands beside another one, and is dropped.       *)
BadStart(t) == t[1] = Empty /\ t[2] # Empty
Trimmed(t)  == IF t[1] = Empty THEN Tail(t) ELSE t
BadEnd(t)   == Last(t) = Empty /\ t[Len(t) - 1] # Empty
Cut(t)      == IF Last(t) = Empty THEN Front(t) ELSE t

Padding_Mutant(t) == [i \in 1..(8 - Len(t)) |-> 0]

Padding(t) == [i \in 1..(9 - Len(t)) |-> 0]

(* The words one by one, the first that will not do ends it. *)
PutWords(t) ==
  LET empties == {i \in DOMAIN t : t[i] = Empty}
      wrong   == {i \in DOMAIN t :
                    \/ t[i] = NotHex \/ t[i] > MaxWord
                    \/ (t[i] = Empty /\ \E j \in empties : j < i)}
  IN  IF wrong # {}
      THEN IF t[Min(wrong)] = NotHex THEN Outcome("raised", <<>>) ELSE NoAddress
      ELSE Outcome("address",
                   IF empties = {} THEN t
                   ELSE SubSeq(t, 1, Min(empties) - 1) \o Padding(t)
                        \o SubSeq(t, Min(empties) + 1, Len(t)))

ConvertIp(t) ==
  IF Len(t) > 8 \/ Len(t) < 2 THEN NoAddress
  ELSE IF BadStart(t) THEN NoAddress
  ELSE LET u == Trimmed(t)
       IN  IF Len(u) < 2 \/ BadEnd(u) THEN NoAddress ELSE PutWords(Cut(u))

(* What an address of version 4 becomes, and how get_host_string() tells it *)
(* from the others.                                                         *)
ConvertIp4(high, low) == <<0, 0, 0, 0, 0, MaxWord, high, low>>

IsIp4(words) == \E high, low \in Word : words = ConvertIp4(high, low)

-----------------------------------------------------------------------------
VARIABLES address, \* of the remote end; <<>> for none
          ip       \* what became of it

addressVars == <<address, ip>>

AddressIdle == address = <<>> /\ ip = NoAddress

AddressInit == address \in Address /\ ip = NoAddress

Convert ==
  /\ address # <<>>
  /\ ip' = ConvertIp(Text(address))
  /\ UNCHANGED address

(* Every address of version 6 is read back from its text, whichever words   *)
(* are left out, unless it is written with dots or with a zone: then the    *)
(* thread of the connection ends.  That is so of every address of version 6 *)
(* that is told to be one of version 4, and of every one of a link.         *)
NotAllHex == NotHex \in Range(Text(address))

AddressRead ==
  address # <<>> /\ ip # NoAddress =>
    /\ ip = IF NotAllHex THEN Outcome("raised", <<>>) ELSE Outcome("address", address)
    /\ IsIp4(address) \/ address[1] \in LinkLocal => ip.what = "raised"
=============================================================================
