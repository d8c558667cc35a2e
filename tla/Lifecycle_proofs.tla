-------------------------- MODULE Lifecycle_proofs --------------------------
(***************************************************************************)
(* Proofs about the processes of the program from start to end, for pipes  *)
(* of any size and any number of records, commands and events: the None    *)
(* that ends the log server comes behind every record, unless the node was *)
(* not up in time, so that no record is lost.                              *)
(***************************************************************************)
EXTENDS Lifecycle, SequenceTheorems, TLAPS

-----------------------------------------------------------------------------
(***************************************************************************)
(* The records of a process in a sequence.                                 *)
(***************************************************************************)
(* A sequence with one more element. *)
LEMMA AppendElements ==
  ASSUME NEW S, NEW s \in Seq(S), NEW e \in S
  PROVE  /\ Append(s, e) \in Seq(S)
         /\ Len(s) \in Nat
         /\ Len(Append(s, e)) = Len(s) + 1
         /\ DOMAIN s = 1..Len(s)
         /\ DOMAIN Append(s, e) = 1..(Len(s) + 1)
         /\ \A i \in 1..Len(s) : Append(s, e)[i] = s[i]
         /\ Append(s, e)[Len(s) + 1] = e
  BY AppendProperties, LenProperties

(* A sequence without its first element. *)
LEMMA TailElements ==
  ASSUME NEW S, NEW s \in Seq(S), s # <<>>
  PROVE  /\ Head(s) \in S
         /\ Tail(s) \in Seq(S)
         /\ Len(s) \in Nat \ {0}
         /\ Len(Tail(s)) = Len(s) - 1
         /\ DOMAIN s = 1..Len(s)
         /\ DOMAIN Tail(s) = 1..(Len(s) - 1)
         /\ \A i \in 1..(Len(s) - 1) : Tail(s)[i] = s[i + 1]
         /\ Head(s) = s[1]
  <1>1. Len(s) \in Nat \ {0} /\ DOMAIN s = 1..Len(s)
    BY EmptySeq, LenProperties
  <1>2. Tail(s) \in Seq(S) /\ Len(Tail(s)) = Len(s) - 1 /\ Head(s) \in S
    BY HeadTailProperties
  <1>3. DOMAIN Tail(s) = 1..(Len(s) - 1)
    BY <1>2, LenProperties
  <1>4. \A i \in 1..(Len(s) - 1) : Tail(s)[i] = s[i + 1]
    BY <1>1, HeadTailProperties
  <1> QED
    BY <1>1, <1>2, <1>3, <1>4

(* The items of the log: the records have a process and a number, and None  *)
(* belongs to no process.                                                   *)
LEMMA LogItems ==
  /\ Item("log") = Record \cup {None}
  /\ \A e \in Record : e.by \in Logging /\ e.n \in Nat /\ e # None
  /\ \A p \in Logging, n \in Nat : [by |-> p, n |-> n] \in Record
  /\ \A p \in Logging : None.by # p
  /\ None.by = "none" /\ None.n = 0
  BY DEF Item, Record, None, Logging

(* The next record of a process at the end. *)
LEMMA InOrderAppend ==
  ASSUME NEW p \in Logging, NEW s \in Seq(Record \cup {None}),
         NEW from \in Nat, NEW to \in Nat, from <= to + 1,
         RecordsInOrder(p, s, from, to)
  PROVE  RecordsInOrder(p, Append(s, [by |-> p, n |-> to + 1]), from, to + 1)
  <1> DEFINE e == [by |-> p, n |-> to + 1]
             t == Append(s, e)
             N == Len(s)
             Ns(q) == {q[i].n : i \in {j \in DOMAIN q : q[j].by = p}}
  <1>0. e \in Record \cup {None} /\ e.by = p /\ e.n = to + 1
    BY LogItems
  <1> HIDE DEF e
  <1>1. /\ N \in Nat /\ DOMAIN s = 1..N /\ DOMAIN t = 1..(N + 1)
        /\ \A i \in 1..N : t[i] = s[i]
        /\ t[N + 1] = e
    BY <1>0, AppendElements
  <1> HIDE DEF t, N
  <1>2. Ns(s) = from..to
    BY DEF RecordsInOrder
  <1>3. \A i, j \in DOMAIN s : s[i].by = p /\ s[j].by = p /\ i < j => s[i].n < s[j].n
    BY DEF RecordsInOrder
  <1>4. Ns(t) = Ns(s) \cup {to + 1}
    BY <1>0, <1>1
  <1>5. \A i \in 1..N : s[i].by = p => s[i].n \in from..to
    BY <1>1, <1>2
  <1>6. Ns(t) = from..(to + 1)
    <2>1. (from..to) \cup {to + 1} = from..(to + 1)
      OBVIOUS
    <2> HIDE DEF Ns
    <2> QED
      BY <1>2, <1>4, <2>1
  <1>7. ASSUME NEW i \in DOMAIN t, NEW j \in DOMAIN t, t[i].by = p, t[j].by = p, i < j
        PROVE  t[i].n < t[j].n
    <2>1. i \in 1..N /\ t[i] = s[i]
      BY <1>1, <1>7
    <2>2. CASE j = N + 1
      BY <1>0, <1>1, <1>5, <1>7, <2>1, <2>2
    <2>3. CASE j # N + 1
      <3>1. j \in 1..N /\ t[j] = s[j]
        BY <1>1, <2>3
      <3> QED
        BY <1>1, <1>3, <1>7, <2>1, <3>1
    <2> QED
      BY <2>2, <2>3
  <1>8. RecordsInOrder(p, t, from, to + 1)
    BY <1>6, <1>7 DEF RecordsInOrder
  <1> QED
    BY <1>8 DEF t, e

(* What is not of a process changes nothing for it. *)
LEMMA InOrderOther ==
  ASSUME NEW p \in Logging, NEW s \in Seq(Record \cup {None}),
         NEW e \in Record \cup {None},
         e.by # p, NEW from, NEW to, RecordsInOrder(p, s, from, to)
  PROVE  RecordsInOrder(p, Append(s, e), from, to)
  <1> DEFINE t == Append(s, e)
             N == Len(s)
  <1>1. /\ N \in Nat /\ DOMAIN s = 1..N /\ DOMAIN t = 1..(N + 1)
        /\ \A i \in 1..N : t[i] = s[i]
        /\ t[N + 1] = e
    BY AppendElements
  <1> HIDE DEF t, N
  <1>2. \A j \in DOMAIN t : t[j].by = p => j \in DOMAIN s /\ t[j] = s[j]
    BY <1>1
  <1>3. \A j \in DOMAIN s : j \in DOMAIN t /\ t[j] = s[j]
    BY <1>1
  <1>4. RecordsInOrder(p, t, from, to)
    BY <1>2, <1>3 DEF RecordsInOrder
  <1> QED
    BY <1>4 DEF t

(* The first record of a process is the one with the lowest number, and the *)
(* others follow it.                                                        *)
LEMMA InOrderTail ==
  ASSUME NEW p \in Logging, NEW s \in Seq(Record \cup {None}), s # <<>>, Head(s).by = p,
         NEW from \in Nat, NEW to \in Nat, RecordsInOrder(p, s, from, to)
  PROVE  /\ Head(s) = [by |-> p, n |-> from]
         /\ from <= to
         /\ RecordsInOrder(p, Tail(s), from + 1, to)
  <1> DEFINE t == Tail(s)
             N == Len(s)
             Ns(q) == {q[i].n : i \in {j \in DOMAIN q : q[j].by = p}}
  <1>1. /\ N \in Nat \ {0} /\ DOMAIN s = 1..N /\ DOMAIN t = 1..(N - 1)
        /\ \A i \in 1..(N - 1) : t[i] = s[i + 1]
        /\ Head(s) = s[1] /\ s[1] \in Record \cup {None}
    BY TailElements
  <1>2. Ns(s) = from..to
    BY DEF RecordsInOrder
  <1>3. \A i, j \in DOMAIN s : s[i].by = p /\ s[j].by = p /\ i < j => s[i].n < s[j].n
    BY DEF RecordsInOrder
  <1> HIDE DEF t, N
  <1>4. 1 \in DOMAIN s /\ s[1].by = p
    BY <1>1
  <1>5. s[1].n \in from..to
    BY <1>2, <1>4
  <1>6. from <= to /\ from \in from..to
    BY <1>5
  <1>7. PICK k \in DOMAIN s : s[k].by = p /\ s[k].n = from
    BY <1>2, <1>6
  <1>8. k = 1
    <2> SUFFICES ASSUME k # 1 PROVE FALSE
      OBVIOUS
    <2>1. 1 < k
      BY <1>1, <1>7
    <2>2. s[1].n < s[k].n
      BY <1>3, <1>4, <1>7, <2>1
    <2> QED
      BY <1>5, <1>7, <2>2
  <1>9. s[1] = [by |-> p, n |-> from]
    <2>1. s[1] \in Record
      BY <1>1, <1>4, LogItems
    <2> QED
      BY <1>4, <1>7, <1>8, <2>1 DEF Record
  <1>10. \A i \in DOMAIN s : s[i].by = p /\ i # 1 => s[i].n \in (from + 1)..to
    <2> SUFFICES ASSUME NEW i \in DOMAIN s, s[i].by = p, i # 1
                 PROVE  s[i].n \in (from + 1)..to
      OBVIOUS
    <2>1. s[i].n \in from..to
      BY <1>2
    <2>2. s[1].n < s[i].n
      BY <1>1, <1>3, <1>4
    <2> QED
      BY <1>7, <1>8, <2>1, <2>2
  <1>11. Ns(t) = (from + 1)..to
    <2>1. ASSUME NEW m \in Ns(t) PROVE m \in (from + 1)..to
      <3>1. PICK j \in DOMAIN t : t[j].by = p /\ t[j].n = m
        BY <2>1
      <3>2. j + 1 \in DOMAIN s /\ j + 1 # 1 /\ s[j + 1] = t[j]
        BY <1>1
      <3> QED
        BY <1>10, <3>1, <3>2
    <2>2. ASSUME NEW m \in (from + 1)..to PROVE m \in Ns(t)
      <3>1. m \in from..to /\ m # from
        OBVIOUS
      <3>2. PICK j \in DOMAIN s : s[j].by = p /\ s[j].n = m
        BY <1>2, <3>1
      <3>3. j # 1
        BY <1>7, <1>8, <3>1, <3>2
      <3>4. j - 1 \in DOMAIN t /\ t[j - 1] = s[j]
        <4>1. j \in 2..N /\ j - 1 \in 1..(N - 1) /\ (j - 1) + 1 = j
          BY <1>1, <3>3
        <4> QED
          BY <1>1, <4>1
      <3> QED
        BY <3>2, <3>4
    <2> HIDE DEF Ns
    <2> QED
      BY <2>1, <2>2
  <1>12. ASSUME NEW i \in DOMAIN t, NEW j \in DOMAIN t, t[i].by = p, t[j].by = p, i < j
         PROVE  t[i].n < t[j].n
    <2>1. i + 1 \in DOMAIN s /\ s[i + 1] = t[i] /\ j + 1 \in DOMAIN s /\ s[j + 1] = t[j]
          /\ i + 1 < j + 1
      BY <1>1, <1>12
    <2> QED
      BY <1>3, <1>12, <2>1
  <1>13. RecordsInOrder(p, t, from + 1, to)
    BY <1>11, <1>12 DEF RecordsInOrder
  <1> QED
    BY <1>1, <1>6, <1>9, <1>13 DEF t

LEMMA InOrderTailOther ==
  ASSUME NEW p \in Logging, NEW s \in Seq(Record \cup {None}), s # <<>>, Head(s).by # p,
         NEW from, NEW to, RecordsInOrder(p, s, from, to)
  PROVE  RecordsInOrder(p, Tail(s), from, to)
  <1> DEFINE t == Tail(s)
             N == Len(s)
             Ns(q) == {q[i].n : i \in {j \in DOMAIN q : q[j].by = p}}
  <1>1. /\ N \in Nat \ {0} /\ DOMAIN s = 1..N /\ DOMAIN t = 1..(N - 1)
        /\ \A i \in 1..(N - 1) : t[i] = s[i + 1]
        /\ s[1].by # p
    BY TailElements
  <1> HIDE DEF t, N
  <1>2. \A j \in DOMAIN t : j + 1 \in DOMAIN s /\ t[j] = s[j + 1]
    BY <1>1
  <1>3. \A j \in DOMAIN s : s[j].by = p => j - 1 \in DOMAIN t /\ t[j - 1] = s[j]
    <2> SUFFICES ASSUME NEW j \in DOMAIN s, s[j].by = p
                 PROVE  j - 1 \in DOMAIN t /\ t[j - 1] = s[j]
      OBVIOUS
    <2>1. j - 1 \in 1..(N - 1) /\ (j - 1) + 1 = j
      BY <1>1
    <2> QED
      BY <1>1, <2>1
  <1>4. Ns(t) = Ns(s)
    BY <1>2, <1>3
  <1>5. ASSUME NEW i \in DOMAIN t, NEW j \in DOMAIN t, t[i].by = p, t[j].by = p, i < j
        PROVE  t[i].n < t[j].n
    <2>1. i + 1 < j + 1
      BY <1>1, <1>5
    <2> QED
      BY <1>2, <1>5, <2>1 DEF RecordsInOrder
  <1>6. RecordsInOrder(p, t, from, to)
    BY <1>4, <1>5 DEF RecordsInOrder
  <1> QED
    BY <1>6 DEF t

(* The records of a process from the first on, with the next. *)
LEMMA RecordsAppend ==
  ASSUME NEW p \in Logging, NEW n \in Nat
  PROVE  /\ Append(Records(p, n), [by |-> p, n |-> n + 1]) = Records(p, n + 1)
         /\ Records(p, n) \in Seq(Record)
         /\ Len(Records(p, n)) = n
  <1> DEFINE r == Records(p, n)
             e == [by |-> p, n |-> n + 1]
             t == Records(p, n + 1)
  <1>0. e \in Record
    BY LogItems
  <1>1. r \in Seq(Record) /\ Len(r) = n /\ \A i \in 1..n : r[i] = [by |-> p, n |-> i]
    BY LogItems DEF Records
  <1>2. t \in Seq(Record) /\ Len(t) = n + 1
        /\ \A i \in 1..(n + 1) : t[i] = [by |-> p, n |-> i]
    BY LogItems DEF Records
  <1> HIDE DEF r, t, e
  <1>3. /\ Append(r, e) \in Seq(Record) /\ Len(Append(r, e)) = n + 1
        /\ \A i \in 1..n : Append(r, e)[i] = r[i]
        /\ Append(r, e)[n + 1] = e
    BY <1>0, <1>1, AppendElements
  <1>4. \A i \in 1..(n + 1) : Append(r, e)[i] = t[i]
    BY <1>1, <1>2, <1>3 DEF e
  <1>5. Append(r, e) = t
    BY <1>2, <1>3, <1>4, SeqEqual
  <1> QED
    BY <1>1, <1>5 DEF r, t, e

-----------------------------------------------------------------------------
(***************************************************************************)
(* What a step does to the log, and how the processes go on.               *)
(***************************************************************************)
(* The parts of the type that the log is made of. *)
LEMMA LogTypes ==
  ASSUME LifecycleTypeOK
  PROVE  /\ ToLog \in [Logging -> Seq(Record \cup {None})]
         /\ pipe["log"] \in Seq(Record \cup {None})
         /\ written \in [Logging -> Seq(Record)]
         /\ logged \in [Logging -> Nat]
         /\ \A p \in Logging : ToLog[p] = buffer[<<p, "log">>]
  <1>1. \A p \in Logging : <<p, "log">> \in Feeder /\ <<p, "log">>[2] = "log"
    BY DEF Feeder
  <1>2. \A p \in Logging : buffer[<<p, "log">>] \in Seq(Item("log"))
    BY <1>1 DEF LifecycleTypeOK
  <1>3. pipe["log"] \in Seq(Item("log"))
    BY DEF LifecycleTypeOK, Queue
  <1> QED
    BY <1>2, <1>3, LogItems DEF LifecycleTypeOK, ToLog

(* Which process may end when, and what begins anew. *)
Moves ==
  /\ faults \subseteq faults'
  /\ pc'.network = "ended" => pc.network = "ended" \/ ToLog["network"] = <<>>
  /\ pc.network = "ended" => pc'.network = "ended" \/ pc'.node = "starting"
  /\ pc'.node = "ended" =>
       pc.node = "ended" \/ (pc.network = "ended" /\ ToLog["node"] = <<>>)
  /\ pc.node = "ended" => pc'.node = "ended" \/ pc'.main \notin AtEnd
  /\ pc'.main \in AtEnd =>
       pc.main \in AtEnd \/ pc.node = "ended" \/ "main" \in faults'
  /\ pc.main \in AtEnd => pc'.main \in AtEnd
  /\ pc'.main \in {"reaping", "ended"} =>
       pc.main \in {"reaping", "ended"} \/ pc.server = "ended"
  /\ pc.server = "ended" => pc'.server = "ended" \/ pc'.main = "loaded"

(* A step leaves the log alone, *)
LogUntouched == UNCHANGED <<ToLog, pipe["log"], written, logged>>

(* the server does not end, but for a fault, *)
ServerStays == pc'.server = "ended" => pc.server = "ended" \/ "server" \in faults'

(* process p logs a record, *)
Logged(p) ==
  /\ pc[p] # "ended"
  /\ p = "main" => pc.main \notin AtEnd /\ pc'.main \notin AtEnd
  /\ pc'[p] # "ended"
  /\ ToLog' = [ToLog EXCEPT ![p] = Append(@, [by |-> p, n |-> logged[p] + 1])]
  /\ logged' = [logged EXCEPT ![p] = @ + 1]
  /\ UNCHANGED <<pipe["log"], written>>

(* main puts its None, *)
Closed ==
  /\ pc.main \notin AtEnd /\ pc'.main \in AtEnd
  /\ ToLog' = [ToLog EXCEPT !["main"] = Append(@, None)]
  /\ UNCHANGED <<pipe["log"], written, logged>>

(* the feeder thread of p writes, *)
Fed(p) ==
  /\ pc[p] # "ended"
  /\ ToLog[p] # <<>>
  /\ pipe'["log"] = Append(pipe["log"], Head(ToLog[p]))
  /\ ToLog' = [ToLog EXCEPT ![p] = Tail(@)]
  /\ UNCHANGED <<pc, written, logged, faults>>

(* the server writes a record, *)
Wrote ==
  /\ pipe["log"] # <<>>
  /\ Head(pipe["log"]) # None
  /\ pipe'["log"] = Tail(pipe["log"])
  /\ LET p == Head(pipe["log"]).by
     IN  written' = [written EXCEPT ![p] = Append(@, Head(pipe["log"]))]
  /\ UNCHANGED <<pc, faults, ToLog, logged>>

(* or it takes the None and ends. *)
ServerTold ==
  /\ pipe["log"] # <<>>
  /\ Head(pipe["log"]) = None
  /\ pipe'["log"] = Tail(pipe["log"])
  /\ pc' = [pc EXCEPT !.server = "ended"]
  /\ UNCHANGED <<ToLog, written, logged, faults>>

LogStep ==
  \/ LogUntouched /\ ServerStays
  \/ (\E p \in Logging : Logged(p)) /\ ServerStays
  \/ Closed /\ ServerStays
  \/ \E p \in Logging : Fed(p)
  \/ Wrote
  \/ ServerTold

Progress == LifecycleTypeOK' /\ Moves /\ LogStep

(* The pairs of a process and a queue differ in one or the other. *)
LEMMA FeederPairs ==
  /\ \A p, q, r, s : <<p, q>> = <<r, s>> <=> p = r /\ q = s
  /\ \A p, q : <<p, q>>[2] = q
  /\ \A p \in Logging : <<p, "log">> \in Feeder
  /\ \A f \in Feeder : f = <<f[1], f[2]>> /\ f[2] \in Queue
  /\ {"log", "nodeIn", "nodeOut", "netIn", "netOut"} = Queue
  BY DEF Feeder, Queue, Logging

(* What PutAndLog does to the buffers. *)
LEMMA PutAndLogDoes ==
  ASSUME LifecycleTypeOK, NEW p \in Logging, NEW q, NEW items,
         q # "log" => items \in Seq(Item(q)), PutAndLog(p, q, items, 1)
  PROVE  /\ buffer' = [f \in Feeder |-> buffer'[f]]
         /\ \A f \in Feeder : buffer'[f] \in Seq(Item(f[2]))
         /\ ToLog' = [ToLog EXCEPT ![p] = Append(@, [by |-> p, n |-> logged[p] + 1])]
         /\ logged' = [logged EXCEPT ![p] = @ + 1]
         /\ logged' \in [Logging -> Nat]
  <1> DEFINE e == [by |-> p, n |-> logged[p] + 1]
             new == [i \in 1..1 |-> [by |-> p, n |-> logged[p] + i]]
             more(f) == CASE f = <<p, "log">> -> new
                          [] f = <<p, q>> /\ q # "log" -> items
                          [] OTHER -> <<>>
  <1>1. logged' = [logged EXCEPT ![p] = @ + 1] /\ logged' \in [Logging -> Nat]
    BY DEF PutAndLog, LifecycleTypeOK
  <1>2. e \in Record
    BY LogItems DEF LifecycleTypeOK
  <1>3. new = <<e>>
    <2>1. new = [i \in 1..1 |-> e]
      OBVIOUS
    <2> QED
      BY <2>1
  <1>4. buffer' = [f \in Feeder |-> buffer[f] \o more(f)]
    BY DEF PutAndLog
  <1> HIDE DEF e, new
  <1>5. more(<<p, "log">>) = new
    OBVIOUS
  <1>6. \A f \in Feeder : f # <<p, "log">> /\ ~(f = <<p, q>> /\ q # "log") => more(f) = <<>>
    OBVIOUS
  <1>7. q # "log" => more(<<p, q>>) = items
    BY FeederPairs
  <1> HIDE DEF more
  <1>8. \A f \in Feeder : buffer[f] \in Seq(Item(f[2]))
    BY DEF LifecycleTypeOK
  <1>9. ASSUME NEW f \in Feeder PROVE buffer'[f] \in Seq(Item(f[2]))
    <2>1. CASE f = <<p, "log">>
      <3>1. more(f) \in Seq(Item(f[2]))
        BY <1>2, <1>3, <1>5, <2>1, FeederPairs, LogItems
      <3> QED
        BY <1>4, <1>8, <3>1, ConcatProperties
    <2>2. CASE f = <<p, q>> /\ q # "log"
      <3>1. more(f) \in Seq(Item(f[2]))
        BY <1>7, <2>2, FeederPairs
      <3> QED
        BY <1>4, <1>8, <3>1, ConcatProperties
    <2>3. CASE f # <<p, "log">> /\ ~(f = <<p, q>> /\ q # "log")
      <3>1. more(f) = <<>>
        BY <1>6, <2>3
      <3>2. buffer[f] \o <<>> = buffer[f]
        BY <1>8, ConcatEmptySeq
      <3> QED
        BY <1>4, <1>8, <3>1, <3>2
    <2> QED
      BY <2>1, <2>2, <2>3
  <1>10. \A r \in Logging : buffer'[<<r, "log">>] =
            IF r = p THEN Append(buffer[<<p, "log">>], e) ELSE buffer[<<r, "log">>]
    <2> SUFFICES ASSUME NEW r \in Logging
                 PROVE  buffer'[<<r, "log">>] =
                          IF r = p THEN Append(buffer[<<p, "log">>], e)
                                   ELSE buffer[<<r, "log">>]
      OBVIOUS
    <2>0. <<r, "log">> \in Feeder /\ buffer[<<r, "log">>] \in Seq(Record \cup {None})
      BY FeederPairs, LogTypes
    <2>1. CASE r = p
      <3>1. buffer[<<p, "log">>] \o <<e>> = Append(buffer[<<p, "log">>], e)
        BY <1>2, <2>0, <2>1, AppendIsConcat
      <3> QED
        BY <1>3, <1>4, <1>5, <2>0, <2>1, <3>1
    <2>2. CASE r # p
      <3>1. more(<<r, "log">>) = <<>>
        BY <1>6, <2>0, <2>2, FeederPairs
      <3>2. buffer[<<r, "log">>] \o <<>> = buffer[<<r, "log">>]
        BY <2>0, ConcatEmptySeq
      <3> QED
        BY <1>4, <2>0, <2>2, <3>1, <3>2
    <2> QED
      BY <2>1, <2>2
  <1>11. ToLog' = [ToLog EXCEPT ![p] = Append(@, e)]
    BY <1>10 DEF ToLog
  <1> QED
    BY <1>1, <1>4, <1>9, <1>11 DEF e

(* What Put does to the buffers. *)
LEMMA PutDoes ==
  ASSUME LifecycleTypeOK, NEW p, NEW q, <<p, q>> \in Feeder, NEW item \in Item(q),
         Put(p, q, item)
  PROVE  /\ buffer' = [f \in Feeder |-> buffer'[f]]
         /\ \A f \in Feeder : buffer'[f] \in Seq(Item(f[2]))
         /\ q # "log" => ToLog' = ToLog
         /\ q = "log" => ToLog' = [ToLog EXCEPT ![p] = Append(@, item)]
         /\ logged' = logged
  <1>1. buffer' = [buffer EXCEPT ![<<p, q>>] = Append(@, item)] /\ logged' = logged
    BY DEF Put
  <1>2. /\ buffer = [f \in Feeder |-> buffer[f]]
        /\ \A f \in Feeder : buffer[f] \in Seq(Item(f[2]))
    BY DEF LifecycleTypeOK
  <1>3. DOMAIN buffer = Feeder
    BY <1>2
  <1>4. \A f \in Feeder : buffer'[f] = IF f = <<p, q>> THEN Append(buffer[f], item)
                                                       ELSE buffer[f]
    BY <1>1, <1>3
  <1>5. buffer' = [f \in Feeder |-> buffer'[f]]
    BY <1>1, <1>2, <1>3
  <1>6. \A f \in Feeder : buffer'[f] \in Seq(Item(f[2]))
    <2> SUFFICES ASSUME NEW f \in Feeder PROVE buffer'[f] \in Seq(Item(f[2]))
      OBVIOUS
    <2>1. CASE f = <<p, q>>
      <3>1. f[2] = q /\ buffer[f] \in Seq(Item(q))
        BY <1>2, <2>1, FeederPairs
      <3>2. Append(buffer[f], item) \in Seq(Item(q))
        BY <3>1, AppendProperties
      <3> QED
        BY <1>4, <2>1, <3>1, <3>2
    <2>2. CASE f # <<p, q>>
      BY <1>2, <1>4, <2>2
    <2> QED
      BY <2>1, <2>2
  <1>7. \A r \in Logging : <<r, "log">> \in Feeder
                           /\ (<<r, "log">> = <<p, q>> <=> r = p /\ q = "log")
    BY FeederPairs
  <1>8. q # "log" => ToLog' = ToLog
    BY <1>4, <1>7 DEF ToLog
  <1>9. q = "log" => ToLog' = [ToLog EXCEPT ![p] = Append(@, item)]
    BY <1>4, <1>7 DEF ToLog
  <1> QED
    BY <1>1, <1>5, <1>6, <1>8, <1>9

(* What is read from a queue. *)
LEMMA GotDoes ==
  ASSUME LifecycleTypeOK, NEW q \in Queue, NEW item, Got(q, item)
  PROVE  /\ pipe' = [r \in Queue |-> pipe'[r]]
         /\ \A r \in Queue : pipe'[r] \in Seq(Item(r)) /\ Len(pipe'[r]) <= PipeSize
         /\ pipe'[q] = Tail(pipe[q])
         /\ \A r \in Queue : r # q => pipe'[r] = pipe[r]
         /\ pipe[q] # <<>> /\ Head(pipe[q]) = item
  <1>1. pipe' = [pipe EXCEPT ![q] = Tail(@)] /\ pipe[q] # <<>> /\ Head(pipe[q]) = item
    BY DEF Got
  <1>2. /\ pipe = [r \in Queue |-> pipe[r]]
        /\ \A r \in Queue : pipe[r] \in Seq(Item(r)) /\ Len(pipe[r]) <= PipeSize
    BY DEF LifecycleTypeOK
  <1>3. DOMAIN pipe = Queue
    BY <1>2
  <1>4. \A r \in Queue : pipe'[r] = IF r = q THEN Tail(pipe[r]) ELSE pipe[r]
    BY <1>1, <1>3
  <1>5. pipe' = [r \in Queue |-> pipe'[r]]
    BY <1>1, <1>2, <1>3
  <1>6. Tail(pipe[q]) \in Seq(Item(q)) /\ Len(Tail(pipe[q])) <= PipeSize
    BY <1>1, <1>2, PipeAssumption, TailElements
  <1> QED
    BY <1>1, <1>2, <1>4, <1>5, <1>6

(* What a feeder thread does. *)
LEMMA FeedDoes ==
  ASSUME LifecycleTypeOK, NEW f \in Feeder, Feed(f)
  PROVE  Progress
  <1> DEFINE q == f[2]
  <1>1. /\ pc[f[1]] # "ended"
        /\ buffer[f] # <<>>
        /\ Len(pipe[q]) < PipeSize
        /\ pipe' = [pipe EXCEPT ![q] = Append(@, Head(buffer[f]))]
        /\ buffer' = [buffer EXCEPT ![f] = Tail(@)]
        /\ UNCHANGED <<pc, written, logged, puts, faults>>
    BY DEF Feed
  <1>2. /\ pipe = [r \in Queue |-> pipe[r]]
        /\ \A r \in Queue : pipe[r] \in Seq(Item(r)) /\ Len(pipe[r]) <= PipeSize
        /\ buffer = [g \in Feeder |-> buffer[g]]
        /\ \A g \in Feeder : buffer[g] \in Seq(Item(g[2]))
    BY DEF LifecycleTypeOK
  <1>3. q \in Queue /\ f = <<f[1], q>>
    BY FeederPairs
  <1> HIDE DEF q
  <1>4. /\ Head(buffer[f]) \in Item(q)
        /\ Tail(buffer[f]) \in Seq(Item(q))
    BY <1>1, <1>2, TailElements DEF q
  <1>5. /\ Append(pipe[q], Head(buffer[f])) \in Seq(Item(q))
        /\ Len(Append(pipe[q], Head(buffer[f]))) <= PipeSize
    <2>1. pipe[q] \in Seq(Item(q)) /\ Len(pipe[q]) \in Nat
      BY <1>2, <1>3, LenProperties
    <2> QED
      BY <1>1, <1>4, <2>1, AppendElements, PipeAssumption
  <1>6. /\ pipe' = [r \in Queue |-> pipe'[r]]
        /\ \A r \in Queue : pipe'[r] \in Seq(Item(r)) /\ Len(pipe'[r]) <= PipeSize
    <2>1. DOMAIN pipe = Queue
      BY <1>2
    <2>2. \A r \in Queue : pipe'[r] = IF r = q THEN Append(pipe[q], Head(buffer[f])) ELSE pipe[r]
      BY <1>1, <2>1
    <2>3. pipe' = [r \in Queue |-> pipe'[r]]
      BY <1>1, <1>2, <2>1
    <2> QED
      BY <1>2, <1>5, <2>2, <2>3
  <1>7. DOMAIN buffer = Feeder
    BY <1>2
  <1>8. \A g \in Feeder : buffer'[g] = IF g = f THEN Tail(buffer[f]) ELSE buffer[g]
    BY <1>1, <1>7
  <1>9. buffer' = [g \in Feeder |-> buffer'[g]]
    BY <1>1, <1>2, <1>7
  <1>10. \A g \in Feeder : buffer'[g] \in Seq(Item(g[2]))
    BY <1>2, <1>4, <1>8 DEF q
  <1>11. LifecycleTypeOK'
    BY <1>1, <1>6, <1>9, <1>10 DEF LifecycleTypeOK
  <1>12. CASE q = "log"
    <2>1. PICK p \in Logging : f = <<p, "log">>
      BY <1>3, <1>12 DEF Feeder
    <2>2. f[1] = p /\ ToLog[p] = buffer[f]
      BY <2>1, LogTypes
    <2>3. \A r \in Logging : <<r, "log">> \in Feeder /\ (<<r, "log">> = f <=> r = p)
      BY <2>1, FeederPairs
    <2>4. ToLog' = [ToLog EXCEPT ![p] = Tail(@)]
      BY <1>8, <2>3 DEF ToLog
    <2>5. pipe'["log"] = Append(pipe["log"], Head(ToLog[p]))
      BY <1>1, <1>2, <1>12, <2>2 DEF Queue
    <2>6. Fed(p)
      BY <1>1, <2>2, <2>4, <2>5 DEF Fed
    <2>7. Moves
      BY <1>1 DEF Moves
    <2> QED
      BY <1>11, <2>6, <2>7 DEF Progress, LogStep
  <1>13. CASE q # "log"
    <2>1. \A r \in Logging : <<r, "log">> \in Feeder /\ <<r, "log">> # f
      BY <1>13, FeederPairs DEF q
    <2>2. ToLog' = ToLog
      BY <1>8, <2>1 DEF ToLog
    <2>3. pipe'["log"] = pipe["log"]
      BY <1>1, <1>2, <1>13 DEF Queue
    <2>4. LogUntouched /\ ServerStays /\ Moves
      BY <1>1, <2>2, <2>3 DEF LogUntouched, ServerStays, Moves
    <2> QED
      BY <1>11, <2>4 DEF Progress, LogStep
  <1> QED
    BY <1>12, <1>13

-----------------------------------------------------------------------------
(***************************************************************************)
(* Every step is one of these.                                             *)
(***************************************************************************)
(* The parts of the type that hold when a queue is not touched. *)
LEMMA Untyped ==
  ASSUME LifecycleTypeOK
  PROVE  /\ pc \in Place
         /\ buffer' = buffer => /\ buffer' = [f \in Feeder |-> buffer'[f]]
                                /\ \A f \in Feeder : buffer'[f] \in Seq(Item(f[2]))
                                /\ ToLog' = ToLog
         /\ pipe' = pipe => /\ pipe' = [q \in Queue |-> pipe'[q]]
                            /\ \A q \in Queue : /\ pipe'[q] \in Seq(Item(q))
                                                /\ Len(pipe'[q]) <= PipeSize
  BY DEF LifecycleTypeOK, ToLog

(* Main.  *)
LEMMA MainProgress ==
  ASSUME LifecycleTypeOK, MainStep \/ Shutdown \/ NodeTimesOut
  PROVE  Progress
  <1> USE Untyped
  <1>1. CASE StartLogServer
    <2>1. /\ pc.main = "unborn"
          /\ pc' = [pc EXCEPT !.main = "loaded", !.server = "booting"]
          /\ PutAndLog("main", "log", <<>>, 1)
          /\ UNCHANGED <<pipe, written, puts, faults>>
      BY <1>1 DEF StartLogServer, Log
    <2>2. pc' \in Place /\ Moves /\ ServerStays
      BY <2>1 DEF Place, Moves, ServerStays, AtEnd
    <2>3. "main" \in Logging
      BY DEF Logging
    <2>4. /\ buffer' = [f \in Feeder |-> buffer'[f]]
          /\ \A f \in Feeder : buffer'[f] \in Seq(Item(f[2]))
          /\ ToLog' = [ToLog EXCEPT !["main"] =
                         Append(@, [by |-> "main", n |-> logged["main"] + 1])]
          /\ logged' = [logged EXCEPT !["main"] = @ + 1]
          /\ logged' \in [Logging -> Nat]
      BY <2>1, <2>3, PutAndLogDoes
    <2>5. LifecycleTypeOK'
      BY <2>1, <2>2, <2>4 DEF LifecycleTypeOK
    <2>6. Logged("main")
      BY <2>1, <2>4 DEF Logged, Place, AtEnd
    <2> QED
      BY <2>2, <2>3, <2>5, <2>6 DEF Progress, LogStep
  <1>2. CASE StartNode
    <2>1. /\ pc.main = "loaded"
          /\ pc' = [pc EXCEPT !.main = "starting", !.node = "booting"]
          /\ UNCHANGED <<buffer, pipe, written, logged, puts, faults>>
      BY <1>2 DEF StartNode
    <2>2. pc' \in Place /\ Moves /\ ServerStays
      BY <2>1 DEF Place, Moves, ServerStays, AtEnd
    <2>3. LifecycleTypeOK' /\ LogUntouched
      BY <2>1, <2>2 DEF LifecycleTypeOK, LogUntouched
    <2> QED
      BY <2>2, <2>3 DEF Progress, LogStep
  <1>3. CASE NodeIsUp
    <2>1. /\ pc.main = "starting"
          /\ pc' = [pc EXCEPT !.main = "running"]
          /\ Got("nodeOut", "start")
          /\ UNCHANGED <<buffer, written, logged, puts, faults>>
      BY <1>3 DEF NodeIsUp, Go
    <2>2. pc' \in Place /\ Moves /\ ServerStays
      BY <2>1 DEF Place, Moves, ServerStays, AtEnd
    <2>3. "nodeOut" \in Queue /\ "log" \in Queue
      BY DEF Queue
    <2>4. /\ pipe' = [r \in Queue |-> pipe'[r]]
          /\ \A r \in Queue : pipe'[r] \in Seq(Item(r)) /\ Len(pipe'[r]) <= PipeSize
          /\ pipe'["log"] = pipe["log"]
      BY <2>1, <2>3, GotDoes
    <2>5. LifecycleTypeOK' /\ LogUntouched
      BY <2>1, <2>2, <2>4 DEF LifecycleTypeOK, LogUntouched
    <2> QED
      BY <2>2, <2>5 DEF Progress, LogStep
  <1>4. CASE NodeTimesOut
    <2>1. /\ pc.main = "starting"
          /\ pc' = [pc EXCEPT !.main = "closing"]
          /\ Put("main", "log", None)
          /\ faults' = faults \cup {"main"}
          /\ UNCHANGED <<pipe, written, puts>>
      BY <1>4 DEF NodeTimesOut, Go
    <2>2. pc' \in Place /\ Moves /\ ServerStays
      BY <2>1 DEF Place, Moves, ServerStays, AtEnd
    <2>3. <<"main", "log">> \in Feeder /\ None \in Item("log")
      BY FeederPairs, LogItems DEF Logging
    <2>4. /\ buffer' = [f \in Feeder |-> buffer'[f]]
          /\ \A f \in Feeder : buffer'[f] \in Seq(Item(f[2]))
          /\ ToLog' = [ToLog EXCEPT !["main"] = Append(@, None)] /\ logged' = logged
      BY <2>1, <2>3, PutDoes
    <2>5. LifecycleTypeOK'
      BY <2>1, <2>2, <2>4 DEF LifecycleTypeOK
    <2>6. Closed
      BY <2>1, <2>4 DEF Closed, AtEnd, Place
    <2> QED
      BY <2>2, <2>5, <2>6 DEF Progress, LogStep
  <1>5. CASE Shutdown
    <2>1. /\ pc.main = "running"
          /\ pc' = [pc EXCEPT !.main = "joining"]
          /\ PutAndLog("main", "nodeIn", <<"shutdown">>, 1)
          /\ UNCHANGED <<pipe, written, puts, faults>>
      BY <1>5 DEF Shutdown, Go
    <2>2. pc' \in Place /\ Moves /\ ServerStays
      BY <2>1 DEF Place, Moves, ServerStays, AtEnd
    <2>3. "main" \in Logging /\ <<"shutdown">> \in Seq(Item("nodeIn"))
      BY DEF Logging, Item
    <2>4. /\ buffer' = [f \in Feeder |-> buffer'[f]]
          /\ \A f \in Feeder : buffer'[f] \in Seq(Item(f[2]))
          /\ ToLog' = [ToLog EXCEPT !["main"] =
                         Append(@, [by |-> "main", n |-> logged["main"] + 1])]
          /\ logged' = [logged EXCEPT !["main"] = @ + 1]
          /\ logged' \in [Logging -> Nat]
      BY <2>1, <2>3, PutAndLogDoes
    <2>5. LifecycleTypeOK'
      BY <2>1, <2>2, <2>4 DEF LifecycleTypeOK
    <2>6. Logged("main")
      BY <2>1, <2>4 DEF Logged, Place, AtEnd
    <2> QED
      BY <2>2, <2>3, <2>5, <2>6 DEF Progress, LogStep
  <1>6. CASE NodeJoined
    <2>1. /\ pc.main = "joining"
          /\ pc' = [pc EXCEPT !.main = "closing"]
          /\ pc.node = "ended"
          /\ Put("main", "log", None)
          /\ UNCHANGED <<pipe, written, puts, faults>>
      BY <1>6 DEF NodeJoined, Go, Joined
    <2>2. pc' \in Place /\ Moves /\ ServerStays
      BY <2>1 DEF Place, Moves, ServerStays, AtEnd
    <2>3. <<"main", "log">> \in Feeder /\ None \in Item("log")
      BY FeederPairs, LogItems DEF Logging
    <2>4. /\ buffer' = [f \in Feeder |-> buffer'[f]]
          /\ \A f \in Feeder : buffer'[f] \in Seq(Item(f[2]))
          /\ ToLog' = [ToLog EXCEPT !["main"] = Append(@, None)] /\ logged' = logged
      BY <2>1, <2>3, PutDoes
    <2>5. LifecycleTypeOK'
      BY <2>1, <2>2, <2>4 DEF LifecycleTypeOK
    <2>6. Closed
      BY <2>1, <2>4 DEF Closed, AtEnd, Place
    <2> QED
      BY <2>2, <2>5, <2>6 DEF Progress, LogStep
  <1>7. CASE ServerJoined
    <2>1. /\ pc.main = "closing"
          /\ pc' = [pc EXCEPT !.main = "reaping"]
          /\ pc.server = "ended"
          /\ UNCHANGED <<buffer, pipe, written, logged, puts, faults>>
      BY <1>7 DEF ServerJoined, Go, Joined
    <2>2. pc' \in Place /\ Moves /\ ServerStays
      BY <2>1 DEF Place, Moves, ServerStays, AtEnd
    <2>3. LifecycleTypeOK' /\ LogUntouched
      BY <2>1, <2>2 DEF LifecycleTypeOK, LogUntouched
    <2> QED
      BY <2>2, <2>3 DEF Progress, LogStep
  <1>8. CASE MainEnds
    <2>1. /\ pc.main = "reaping"
          /\ pc' = [pc EXCEPT !.main = "ended"]
          /\ pc.node = "ended"
          /\ UNCHANGED <<buffer, pipe, written, logged, puts, faults>>
      BY <1>8 DEF MainEnds, Go, Joined
    <2>2. pc' \in Place /\ Moves /\ ServerStays
      BY <2>1 DEF Place, Moves, ServerStays, AtEnd
    <2>3. LifecycleTypeOK' /\ LogUntouched
      BY <2>1, <2>2 DEF LifecycleTypeOK, LogUntouched
    <2> QED
      BY <2>2, <2>3 DEF Progress, LogStep
  <1> QED
    BY <1>1, <1>2, <1>3, <1>4, <1>5, <1>6, <1>7, <1>8 DEF MainStep

(* The log server.  *)
LEMMA ServerProgress ==
  ASSUME LifecycleTypeOK, ServerStep
  PROVE  Progress
  <1> USE Untyped
  <1>1. CASE ServerOpens
    <2>1. /\ pc.server = "booting"
          /\ pc' = [pc EXCEPT !.server = "running"]
          /\ UNCHANGED <<buffer, pipe, written, logged, puts, faults>>
      BY <1>1 DEF ServerOpens, Go
    <2>2. pc' \in Place /\ Moves /\ ServerStays
      BY <2>1 DEF Place, Moves, ServerStays, AtEnd
    <2>3. LifecycleTypeOK' /\ LogUntouched
      BY <2>1, <2>2 DEF LifecycleTypeOK, LogUntouched
    <2> QED
      BY <2>2, <2>3 DEF Progress, LogStep
  <1>2. CASE ServerFails
    <2>1. /\ pc.server = "booting"
          /\ pc' = [pc EXCEPT !.server = "ended"]
          /\ faults' = faults \cup {"server"}
          /\ UNCHANGED <<buffer, pipe, written, logged, puts>>
      BY <1>2 DEF ServerFails, Go
    <2>2. pc' \in Place /\ Moves /\ ServerStays
      BY <2>1 DEF Place, Moves, ServerStays, AtEnd
    <2>3. LifecycleTypeOK' /\ LogUntouched
      BY <2>1, <2>2 DEF LifecycleTypeOK, LogUntouched
    <2> QED
      BY <2>2, <2>3 DEF Progress, LogStep
  <1>3. CASE ServerWrites
    <2>1. /\ pc.server = "running"
          /\ Head(pipe["log"]) # None
          /\ Got("log", Head(pipe["log"]))
          /\ written' = [written EXCEPT ![Head(pipe["log"]).by] =
                           Append(@, Head(pipe["log"]))]
          /\ UNCHANGED <<pc, buffer, logged, puts, faults>>
      BY <1>3 DEF ServerWrites
    <2>2. Moves
      BY <2>1 DEF Moves
    <2>3. "log" \in Queue
      BY DEF Queue
    <2>4. /\ pipe' = [r \in Queue |-> pipe'[r]]
          /\ \A r \in Queue : pipe'[r] \in Seq(Item(r)) /\ Len(pipe'[r]) <= PipeSize
          /\ pipe'["log"] = Tail(pipe["log"])
          /\ pipe["log"] # <<>>
      BY <2>1, <2>3, GotDoes
    <2>5. written' \in [Logging -> Seq(Record)]
      <3>1. pipe["log"] \in Seq(Record \cup {None}) /\ written \in [Logging -> Seq(Record)]
        BY LogTypes
      <3>2. Head(pipe["log"]) \in Record
        BY <2>1, <2>4, <3>1, TailElements
      <3>3. Head(pipe["log"]).by \in Logging
        BY <3>2, LogItems
      <3>4. Append(written[Head(pipe["log"]).by], Head(pipe["log"])) \in Seq(Record)
        BY <3>1, <3>2, <3>3, AppendProperties
      <3> QED
        BY <2>1, <3>1, <3>3, <3>4
    <2>6. LifecycleTypeOK'
      BY <2>1, <2>4, <2>5 DEF LifecycleTypeOK
    <2>7. Wrote
      BY <2>1, <2>4 DEF Wrote
    <2> QED
      BY <2>2, <2>6, <2>7 DEF Progress, LogStep
  <1>4. CASE ServerEnds
    <2>1. /\ pc.server = "running"
          /\ pc' = [pc EXCEPT !.server = "ended"]
          /\ Got("log", None)
          /\ UNCHANGED <<buffer, written, logged, puts, faults>>
      BY <1>4 DEF ServerEnds, Go
    <2>2. pc' \in Place /\ Moves
      BY <2>1 DEF Place, Moves, AtEnd
    <2>3. "log" \in Queue
      BY DEF Queue
    <2>4. /\ pipe' = [r \in Queue |-> pipe'[r]]
          /\ \A r \in Queue : pipe'[r] \in Seq(Item(r)) /\ Len(pipe'[r]) <= PipeSize
          /\ pipe'["log"] = Tail(pipe["log"])
          /\ pipe["log"] # <<>> /\ Head(pipe["log"]) = None
      BY <2>1, <2>3, GotDoes
    <2>5. LifecycleTypeOK'
      BY <2>1, <2>2, <2>4 DEF LifecycleTypeOK
    <2>6. ServerTold
      BY <2>1, <2>4 DEF ServerTold
    <2> QED
      BY <2>2, <2>5, <2>6 DEF Progress, LogStep
  <1> QED
    BY <1>1, <1>2, <1>3, <1>4 DEF ServerStep

(* The node.  *)
LEMMA NodeProgress ==
  ASSUME LifecycleTypeOK, \/ NodeStep \/ NetworkTimesOut \/ NodeCommands
                             \/ NodeTakesEvent \/ NodeShutsDown \/ NodeFails
  PROVE  Progress
  <1> USE Untyped
  <1>1. CASE NodeBoots
    <2>1. /\ pc.node = "booting"
          /\ pc' = [pc EXCEPT !.node = "starting", !.network = "booting"]
          /\ PutAndLog("node", "nodeOut", <<"start">>, 1)
          /\ UNCHANGED <<pipe, written, puts, faults>>
      BY <1>1 DEF NodeBoots
    <2>2. pc' \in Place /\ Moves /\ ServerStays
      BY <2>1 DEF Place, Moves, ServerStays, AtEnd
    <2>3. "node" \in Logging /\ <<"start">> \in Seq(Item("nodeOut"))
      BY DEF Logging, Item
    <2>4. /\ buffer' = [f \in Feeder |-> buffer'[f]]
          /\ \A f \in Feeder : buffer'[f] \in Seq(Item(f[2]))
          /\ ToLog' = [ToLog EXCEPT !["node"] =
                         Append(@, [by |-> "node", n |-> logged["node"] + 1])]
          /\ logged' = [logged EXCEPT !["node"] = @ + 1]
          /\ logged' \in [Logging -> Nat]
      BY <2>1, <2>3, PutAndLogDoes
    <2>5. LifecycleTypeOK'
      BY <2>1, <2>2, <2>4 DEF LifecycleTypeOK
    <2>6. Logged("node")
      BY <2>1, <2>4 DEF Logged, Place, AtEnd
    <2> QED
      BY <2>2, <2>3, <2>5, <2>6 DEF Progress, LogStep
  <1>2. CASE NetworkIsUp
    <2>1. /\ pc.node = "starting"
          /\ pc' = [pc EXCEPT !.node = "running"]
          /\ Got("netOut", "start")
          /\ UNCHANGED <<buffer, written, logged, puts, faults>>
      BY <1>2 DEF NetworkIsUp, Go
    <2>2. pc' \in Place /\ Moves /\ ServerStays
      BY <2>1 DEF Place, Moves, ServerStays, AtEnd
    <2>3. "netOut" \in Queue /\ "log" \in Queue
      BY DEF Queue
    <2>4. /\ pipe' = [r \in Queue |-> pipe'[r]]
          /\ \A r \in Queue : pipe'[r] \in Seq(Item(r)) /\ Len(pipe'[r]) <= PipeSize
          /\ pipe'["log"] = pipe["log"]
      BY <2>1, <2>3, GotDoes
    <2>5. LifecycleTypeOK' /\ LogUntouched
      BY <2>1, <2>2, <2>4 DEF LifecycleTypeOK, LogUntouched
    <2> QED
      BY <2>2, <2>5 DEF Progress, LogStep
  <1>3. CASE NetworkTimesOut
    <2>1. /\ pc.node = "starting"
          /\ pc' = [pc EXCEPT !.node = "exiting"]
          /\ PutAndLog("node", "log", <<>>, 1)
          /\ faults' = faults \cup {"node"}
          /\ UNCHANGED <<pipe, written, puts>>
      BY <1>3 DEF NetworkTimesOut, Go, Log
    <2>2. pc' \in Place /\ Moves /\ ServerStays
      BY <2>1 DEF Place, Moves, ServerStays, AtEnd
    <2>3. "node" \in Logging
      BY DEF Logging
    <2>4. /\ buffer' = [f \in Feeder |-> buffer'[f]]
          /\ \A f \in Feeder : buffer'[f] \in Seq(Item(f[2]))
          /\ ToLog' = [ToLog EXCEPT !["node"] =
                         Append(@, [by |-> "node", n |-> logged["node"] + 1])]
          /\ logged' = [logged EXCEPT !["node"] = @ + 1]
          /\ logged' \in [Logging -> Nat]
      BY <2>1, <2>3, PutAndLogDoes
    <2>5. LifecycleTypeOK'
      BY <2>1, <2>2, <2>4 DEF LifecycleTypeOK
    <2>6. Logged("node")
      BY <2>1, <2>4 DEF Logged, Place, AtEnd
    <2> QED
      BY <2>2, <2>3, <2>5, <2>6 DEF Progress, LogStep
  <1>4. CASE NodeCommands
    <2>1. /\ pc.node = "running"
          /\ puts' = [puts EXCEPT !["node"] = @ + 1]
          /\ Put("node", "netIn", "command")
          /\ UNCHANGED <<pc, pipe, written, faults>>
      BY <1>4 DEF NodeCommands
    <2>2. pc' \in Place /\ Moves /\ ServerStays
      BY <2>1 DEF Place, Moves, ServerStays, AtEnd
    <2>3. <<"node", "netIn">> \in Feeder /\ "command" \in Item("netIn")
      BY DEF Feeder, Item
    <2>4. /\ buffer' = [f \in Feeder |-> buffer'[f]]
          /\ \A f \in Feeder : buffer'[f] \in Seq(Item(f[2]))
          /\ ToLog' = ToLog /\ logged' = logged
      BY <2>1, <2>3, PutDoes
    <2>5. LifecycleTypeOK' /\ LogUntouched
      BY <2>1, <2>2, <2>4 DEF LifecycleTypeOK, LogUntouched
    <2> QED
      BY <2>2, <2>5 DEF Progress, LogStep
  <1>5. CASE NodeTakesEvent
    <2>1. /\ pc.node = "running"
          /\ Got("netOut", "event")
          /\ UNCHANGED <<pc, buffer, written, logged, puts, faults>>
      BY <1>5 DEF NodeTakesEvent
    <2>2. pc' \in Place /\ Moves /\ ServerStays
      BY <2>1 DEF Place, Moves, ServerStays, AtEnd
    <2>3. "netOut" \in Queue /\ "log" \in Queue
      BY DEF Queue
    <2>4. /\ pipe' = [r \in Queue |-> pipe'[r]]
          /\ \A r \in Queue : pipe'[r] \in Seq(Item(r)) /\ Len(pipe'[r]) <= PipeSize
          /\ pipe'["log"] = pipe["log"]
      BY <2>1, <2>3, GotDoes
    <2>5. LifecycleTypeOK' /\ LogUntouched
      BY <2>1, <2>2, <2>4 DEF LifecycleTypeOK, LogUntouched
    <2> QED
      BY <2>2, <2>5 DEF Progress, LogStep
  <1>6. CASE NodeShutsDown
    <2>1. /\ pc.node = "running"
          /\ pc' = [pc EXCEPT !.node = "joining"]
          /\ Got("nodeIn", "shutdown")
          /\ Put("node", "netIn", "shutdown")
          /\ UNCHANGED <<written, puts, faults>>
      BY <1>6 DEF NodeShutsDown, Go
    <2>2. pc' \in Place /\ Moves /\ ServerStays
      BY <2>1 DEF Place, Moves, ServerStays, AtEnd
    <2>3. <<"node", "netIn">> \in Feeder /\ "shutdown" \in Item("netIn")
      BY DEF Feeder, Item
    <2>4. /\ buffer' = [f \in Feeder |-> buffer'[f]]
          /\ \A f \in Feeder : buffer'[f] \in Seq(Item(f[2]))
          /\ ToLog' = ToLog /\ logged' = logged
      BY <2>1, <2>3, PutDoes
    <2>5. "nodeIn" \in Queue /\ "log" \in Queue
      BY DEF Queue
    <2>6. /\ pipe' = [r \in Queue |-> pipe'[r]]
          /\ \A r \in Queue : pipe'[r] \in Seq(Item(r)) /\ Len(pipe'[r]) <= PipeSize
          /\ pipe'["log"] = pipe["log"]
      BY <2>1, <2>5, GotDoes
    <2>7. LifecycleTypeOK' /\ LogUntouched
      BY <2>1, <2>2, <2>4, <2>6 DEF LifecycleTypeOK, LogUntouched
    <2> QED
      BY <2>2, <2>7 DEF Progress, LogStep
  <1>7. CASE NodeFails
    <2>1. /\ pc.node = "running"
          /\ pc' = [pc EXCEPT !.node = "failing"]
          /\ Put("node", "netIn", "shutdown")
          /\ UNCHANGED <<pipe, written, puts, faults>>
      BY <1>7 DEF NodeFails, Go
    <2>2. pc' \in Place /\ Moves /\ ServerStays
      BY <2>1 DEF Place, Moves, ServerStays, AtEnd
    <2>3. <<"node", "netIn">> \in Feeder /\ "shutdown" \in Item("netIn")
      BY DEF Feeder, Item
    <2>4. /\ buffer' = [f \in Feeder |-> buffer'[f]]
          /\ \A f \in Feeder : buffer'[f] \in Seq(Item(f[2]))
          /\ ToLog' = ToLog /\ logged' = logged
      BY <2>1, <2>3, PutDoes
    <2>5. LifecycleTypeOK' /\ LogUntouched
      BY <2>1, <2>2, <2>4 DEF LifecycleTypeOK, LogUntouched
    <2> QED
      BY <2>2, <2>5 DEF Progress, LogStep
  <1>8. CASE NetworkJoined
    <2>1. /\ pc.node = "joining"
          /\ pc' = [pc EXCEPT !.node = "exiting"]
          /\ Put("node", "netIn", "shutdown")
          /\ UNCHANGED <<pipe, written, puts, faults>>
      BY <1>8 DEF NetworkJoined, Go
    <2>2. pc' \in Place /\ Moves /\ ServerStays
      BY <2>1 DEF Place, Moves, ServerStays, AtEnd
    <2>3. <<"node", "netIn">> \in Feeder /\ "shutdown" \in Item("netIn")
      BY DEF Feeder, Item
    <2>4. /\ buffer' = [f \in Feeder |-> buffer'[f]]
          /\ \A f \in Feeder : buffer'[f] \in Seq(Item(f[2]))
          /\ ToLog' = ToLog /\ logged' = logged
      BY <2>1, <2>3, PutDoes
    <2>5. LifecycleTypeOK' /\ LogUntouched
      BY <2>1, <2>2, <2>4 DEF LifecycleTypeOK, LogUntouched
    <2> QED
      BY <2>2, <2>5 DEF Progress, LogStep
  <1>9. CASE NetworkJoinedFailing
    <2>1. /\ pc.node = "failing"
          /\ pc' = [pc EXCEPT !.node = "exiting"]
          /\ PutAndLog("node", "log", <<>>, 1)
          /\ UNCHANGED <<pipe, written, puts, faults>>
      BY <1>9 DEF NetworkJoinedFailing, Go, Log
    <2>2. pc' \in Place /\ Moves /\ ServerStays
      BY <2>1 DEF Place, Moves, ServerStays, AtEnd
    <2>3. "node" \in Logging
      BY DEF Logging
    <2>4. /\ buffer' = [f \in Feeder |-> buffer'[f]]
          /\ \A f \in Feeder : buffer'[f] \in Seq(Item(f[2]))
          /\ ToLog' = [ToLog EXCEPT !["node"] =
                         Append(@, [by |-> "node", n |-> logged["node"] + 1])]
          /\ logged' = [logged EXCEPT !["node"] = @ + 1]
          /\ logged' \in [Logging -> Nat]
      BY <2>1, <2>3, PutAndLogDoes
    <2>5. LifecycleTypeOK'
      BY <2>1, <2>2, <2>4 DEF LifecycleTypeOK
    <2>6. Logged("node")
      BY <2>1, <2>4 DEF Logged, Place, AtEnd
    <2> QED
      BY <2>2, <2>3, <2>5, <2>6 DEF Progress, LogStep
  <1>10. CASE NodeEnds
    <2>1. /\ pc.node = "exiting"
          /\ pc' = [pc EXCEPT !.node = "ended"]
          /\ pc.network = "ended"
          /\ ToLog["node"] = <<>>
          /\ UNCHANGED <<buffer, pipe, written, logged, puts, faults>>
      BY <1>10 DEF NodeEnds, Go, Joined, Flushed, ToLog, Feeder, Logging
    <2>2. pc' \in Place /\ Moves /\ ServerStays
      BY <2>1 DEF Place, Moves, ServerStays, AtEnd
    <2>3. LifecycleTypeOK' /\ LogUntouched
      BY <2>1, <2>2 DEF LifecycleTypeOK, LogUntouched
    <2> QED
      BY <2>2, <2>3 DEF Progress, LogStep
  <1> QED
    BY <1>1, <1>2, <1>3, <1>4, <1>5, <1>6, <1>7, <1>8, <1>9, <1>10 DEF NodeStep

(* The network process.  *)
LEMMA NetworkProgress ==
  ASSUME LifecycleTypeOK, NetworkStep \/ NetworkEmits \/ NetworkFails
  PROVE  Progress
  <1> USE Untyped
  <1>1. CASE NetworkBoots
    <2>1. /\ pc.network = "booting"
          /\ pc' = [pc EXCEPT !.network = "running"]
          /\ PutAndLog("network", "netOut", <<"start">>, 1)
          /\ UNCHANGED <<pipe, written, puts, faults>>
      BY <1>1 DEF NetworkBoots, Go
    <2>2. pc' \in Place /\ Moves /\ ServerStays
      BY <2>1 DEF Place, Moves, ServerStays, AtEnd
    <2>3. "network" \in Logging /\ <<"start">> \in Seq(Item("netOut"))
      BY DEF Logging, Item
    <2>4. /\ buffer' = [f \in Feeder |-> buffer'[f]]
          /\ \A f \in Feeder : buffer'[f] \in Seq(Item(f[2]))
          /\ ToLog' = [ToLog EXCEPT !["network"] =
                         Append(@, [by |-> "network", n |-> logged["network"] + 1])]
          /\ logged' = [logged EXCEPT !["network"] = @ + 1]
          /\ logged' \in [Logging -> Nat]
      BY <2>1, <2>3, PutAndLogDoes
    <2>5. LifecycleTypeOK'
      BY <2>1, <2>2, <2>4 DEF LifecycleTypeOK
    <2>6. Logged("network")
      BY <2>1, <2>4 DEF Logged, Place, AtEnd
    <2> QED
      BY <2>2, <2>3, <2>5, <2>6 DEF Progress, LogStep
  <1>2. CASE NetworkEmits
    <2>1. /\ pc.network = "running"
          /\ puts' = [puts EXCEPT !["network"] = @ + 1]
          /\ Put("network", "netOut", "event")
          /\ UNCHANGED <<pc, pipe, written, faults>>
      BY <1>2 DEF NetworkEmits
    <2>2. pc' \in Place /\ Moves /\ ServerStays
      BY <2>1 DEF Place, Moves, ServerStays, AtEnd
    <2>3. <<"network", "netOut">> \in Feeder /\ "event" \in Item("netOut")
      BY DEF Feeder, Item
    <2>4. /\ buffer' = [f \in Feeder |-> buffer'[f]]
          /\ \A f \in Feeder : buffer'[f] \in Seq(Item(f[2]))
          /\ ToLog' = ToLog /\ logged' = logged
      BY <2>1, <2>3, PutDoes
    <2>5. LifecycleTypeOK' /\ LogUntouched
      BY <2>1, <2>2, <2>4 DEF LifecycleTypeOK, LogUntouched
    <2> QED
      BY <2>2, <2>5 DEF Progress, LogStep
  <1>3. CASE NetworkTakesCommand
    <2>1. /\ pc.network = "running"
          /\ Got("netIn", "command")
          /\ UNCHANGED <<pc, buffer, written, logged, puts, faults>>
      BY <1>3 DEF NetworkTakesCommand
    <2>2. pc' \in Place /\ Moves /\ ServerStays
      BY <2>1 DEF Place, Moves, ServerStays, AtEnd
    <2>3. "netIn" \in Queue /\ "log" \in Queue
      BY DEF Queue
    <2>4. /\ pipe' = [r \in Queue |-> pipe'[r]]
          /\ \A r \in Queue : pipe'[r] \in Seq(Item(r)) /\ Len(pipe'[r]) <= PipeSize
          /\ pipe'["log"] = pipe["log"]
      BY <2>1, <2>3, GotDoes
    <2>5. LifecycleTypeOK' /\ LogUntouched
      BY <2>1, <2>2, <2>4 DEF LifecycleTypeOK, LogUntouched
    <2> QED
      BY <2>2, <2>5 DEF Progress, LogStep
  <1>4. CASE NetworkShutsDown
    <2>1. /\ pc.network = "running"
          /\ pc' = [pc EXCEPT !.network = "exiting"]
          /\ Got("netIn", "shutdown")
          /\ UNCHANGED <<buffer, written, logged, puts, faults>>
      BY <1>4 DEF NetworkShutsDown, Go
    <2>2. pc' \in Place /\ Moves /\ ServerStays
      BY <2>1 DEF Place, Moves, ServerStays, AtEnd
    <2>3. "netIn" \in Queue /\ "log" \in Queue
      BY DEF Queue
    <2>4. /\ pipe' = [r \in Queue |-> pipe'[r]]
          /\ \A r \in Queue : pipe'[r] \in Seq(Item(r)) /\ Len(pipe'[r]) <= PipeSize
          /\ pipe'["log"] = pipe["log"]
      BY <2>1, <2>3, GotDoes
    <2>5. LifecycleTypeOK' /\ LogUntouched
      BY <2>1, <2>2, <2>4 DEF LifecycleTypeOK, LogUntouched
    <2> QED
      BY <2>2, <2>5 DEF Progress, LogStep
  <1>5. CASE NetworkFails
    <2>1. /\ pc.network = "running"
          /\ pc' = [pc EXCEPT !.network = "exiting"]
          /\ PutAndLog("network", "log", <<>>, 1)
          /\ UNCHANGED <<pipe, written, puts, faults>>
      BY <1>5 DEF NetworkFails, Go, Log
    <2>2. pc' \in Place /\ Moves /\ ServerStays
      BY <2>1 DEF Place, Moves, ServerStays, AtEnd
    <2>3. "network" \in Logging
      BY DEF Logging
    <2>4. /\ buffer' = [f \in Feeder |-> buffer'[f]]
          /\ \A f \in Feeder : buffer'[f] \in Seq(Item(f[2]))
          /\ ToLog' = [ToLog EXCEPT !["network"] =
                         Append(@, [by |-> "network", n |-> logged["network"] + 1])]
          /\ logged' = [logged EXCEPT !["network"] = @ + 1]
          /\ logged' \in [Logging -> Nat]
      BY <2>1, <2>3, PutAndLogDoes
    <2>5. LifecycleTypeOK'
      BY <2>1, <2>2, <2>4 DEF LifecycleTypeOK
    <2>6. Logged("network")
      BY <2>1, <2>4 DEF Logged, Place, AtEnd
    <2> QED
      BY <2>2, <2>3, <2>5, <2>6 DEF Progress, LogStep
  <1>6. CASE NetworkEnds
    <2>1. /\ pc.network = "exiting"
          /\ pc' = [pc EXCEPT !.network = "ended"]
          /\ ToLog["network"] = <<>>
          /\ UNCHANGED <<buffer, pipe, written, logged, puts, faults>>
      BY <1>6 DEF NetworkEnds, Go, Flushed, ToLog, Feeder, Logging
    <2>2. pc' \in Place /\ Moves /\ ServerStays
      BY <2>1 DEF Place, Moves, ServerStays, AtEnd
    <2>3. LifecycleTypeOK' /\ LogUntouched
      BY <2>1, <2>2 DEF LifecycleTypeOK, LogUntouched
    <2> QED
      BY <2>2, <2>3 DEF Progress, LogStep
  <1> QED
    BY <1>1, <1>2, <1>3, <1>4, <1>5, <1>6 DEF NetworkStep

(* A process that logs while it runs, or while it exits. *)
LEMMA LogsProgress ==
  ASSUME LifecycleTypeOK, NEW p \in Logging, Logs(p)
  PROVE  Progress
  <1>1. /\ pc[p] \in {"running", "exiting"}
        /\ puts' = [puts EXCEPT !["log"] = @ + 1]
        /\ PutAndLog(p, "log", <<>>, 1)
        /\ UNCHANGED <<pc, pipe, written, faults>>
    BY DEF Logs, Log
  <1>2. Moves /\ ServerStays
    BY <1>1 DEF Moves, ServerStays
  <1>3. /\ buffer' = [f \in Feeder |-> buffer'[f]]
        /\ \A f \in Feeder : buffer'[f] \in Seq(Item(f[2]))
        /\ ToLog' = [ToLog EXCEPT ![p] = Append(@, [by |-> p, n |-> logged[p] + 1])]
        /\ logged' = [logged EXCEPT ![p] = @ + 1]
        /\ logged' \in [Logging -> Nat]
    BY <1>1, PutAndLogDoes
  <1>4. LifecycleTypeOK'
    BY <1>1, <1>3 DEF LifecycleTypeOK
  <1>5. Logged(p)
    BY <1>1, <1>3 DEF Logged, AtEnd
  <1> QED
    BY <1>2, <1>4, <1>5 DEF Progress, LogStep

LEMMA EveryStep ==
  ASSUME LifecycleTypeOK, Next
  PROVE  Progress
  BY MainProgress, ServerProgress, NodeProgress, NetworkProgress, LogsProgress,
     FeedDoes
  DEF Next, Whim

-----------------------------------------------------------------------------
(***************************************************************************)
(* The records of one process, which wrote m: w is what the file has of    *)
(* them, s what the pipe holds and b the process's own buffer.             *)
(***************************************************************************)
KeptBy(p, w, s, b, m) ==
  /\ w = Records(p, Len(w))
  /\ \E n \in Len(w)..m : /\ RecordsInOrder(p, s, Len(w) + 1, n)
                          /\ RecordsInOrder(p, b, n + 1, m)

(* The process logs. *)
LEMMA KeptLogged ==
  ASSUME NEW p \in Logging, NEW w \in Seq(Record), NEW s,
         NEW b \in Seq(Record \cup {None}),
         NEW m \in Nat, KeptBy(p, w, s, b, m)
  PROVE  KeptBy(p, w, s, Append(b, [by |-> p, n |-> m + 1]), m + 1)
  <1>1. Len(w) \in Nat
    BY LenProperties
  <1>2. PICK n \in Len(w)..m : /\ RecordsInOrder(p, s, Len(w) + 1, n)
                               /\ RecordsInOrder(p, b, n + 1, m)
    BY DEF KeptBy
  <1>3. n \in Len(w)..(m + 1) /\ n + 1 \in Nat /\ n + 1 <= m + 1
    BY <1>1
  <1>4. RecordsInOrder(p, Append(b, [by |-> p, n |-> m + 1]), n + 1, m + 1)
    BY <1>2, <1>3, InOrderAppend
  <1> QED
    BY <1>2, <1>3, <1>4 DEF KeptBy

(* Something else is put, *)
LEMMA KeptPut ==
  ASSUME NEW p \in Logging, NEW w, NEW s, NEW b \in Seq(Record \cup {None}),
         NEW m, NEW e \in Record \cup {None}, e.by # p, KeptBy(p, w, s, b, m)
  PROVE  KeptBy(p, w, s, Append(b, e), m)
  BY InOrderOther DEF KeptBy

(* another process's feeder thread writes, *)
LEMMA KeptFedOther ==
  ASSUME NEW p \in Logging, NEW w, NEW s \in Seq(Record \cup {None}), NEW b,
         NEW m, NEW e \in Record \cup {None}, e.by # p, KeptBy(p, w, s, b, m)
  PROVE  KeptBy(p, w, Append(s, e), b, m)
  BY InOrderOther DEF KeptBy

(* its own does, *)
LEMMA KeptFed ==
  ASSUME NEW p \in Logging, NEW w \in Seq(Record), NEW s \in Seq(Record \cup {None}),
         NEW b \in Seq(Record \cup {None}), NEW m \in Nat, b # <<>>, KeptBy(p, w, s, b, m)
  PROVE  KeptBy(p, w, Append(s, Head(b)), Tail(b), m)
  <1>1. Len(w) \in Nat
    BY LenProperties
  <1>2. PICK n \in Len(w)..m : /\ RecordsInOrder(p, s, Len(w) + 1, n)
                               /\ RecordsInOrder(p, b, n + 1, m)
    BY DEF KeptBy
  <1>3. Head(b) \in Record \cup {None}
    BY TailElements
  <1>4. CASE Head(b).by = p
    <2>1. n + 1 \in Nat /\ n \in Nat /\ Len(w) + 1 \in Nat /\ Len(w) + 1 <= n + 1
      BY <1>1
    <2>2. /\ Head(b) = [by |-> p, n |-> n + 1]
          /\ n + 1 <= m
          /\ RecordsInOrder(p, Tail(b), (n + 1) + 1, m)
      BY <1>2, <1>4, <2>1, InOrderTail
    <2>3. RecordsInOrder(p, Append(s, Head(b)), Len(w) + 1, n + 1)
      BY <1>2, <2>1, <2>2, InOrderAppend
    <2>4. n + 1 \in Len(w)..m
      BY <1>1, <2>2
    <2> QED
      BY <2>2, <2>3, <2>4 DEF KeptBy
  <1>5. CASE Head(b).by # p
    <2>1. RecordsInOrder(p, Append(s, Head(b)), Len(w) + 1, n)
      BY <1>2, <1>3, <1>5, InOrderOther
    <2>2. RecordsInOrder(p, Tail(b), n + 1, m)
      BY <1>2, <1>5, InOrderTailOther
    <2> QED
      BY <2>1, <2>2 DEF KeptBy
  <1> QED
    BY <1>4, <1>5

(* the server writes a record of the process to the file, *)
LEMMA KeptWrote ==
  ASSUME NEW p \in Logging, NEW w \in Seq(Record), NEW s \in Seq(Record \cup {None}),
         NEW b, NEW m \in Nat, s # <<>>, Head(s).by = p, KeptBy(p, w, s, b, m)
  PROVE  KeptBy(p, Append(w, Head(s)), Tail(s), b, m)
  <1> DEFINE k == Len(w)
             v == Append(w, Head(s))
  <1>1. k \in Nat /\ w = Records(p, k)
    BY LenProperties DEF KeptBy
  <1>2. PICK n \in k..m : RecordsInOrder(p, s, k + 1, n) /\ RecordsInOrder(p, b, n + 1, m)
    BY DEF KeptBy
  <1>3. k + 1 \in Nat /\ n \in Nat
    BY <1>1
  <1> HIDE DEF k
  <1>4. /\ Head(s) = [by |-> p, n |-> k + 1]
        /\ k + 1 <= n
        /\ RecordsInOrder(p, Tail(s), (k + 1) + 1, n)
    BY <1>2, <1>3, InOrderTail
  <1>5. v = Records(p, k + 1) /\ Len(v) = k + 1
    <2>1. v = Append(Records(p, k), [by |-> p, n |-> k + 1])
      BY <1>1, <1>4
    <2>2. Append(Records(p, k), [by |-> p, n |-> k + 1]) = Records(p, k + 1)
      BY <1>1, RecordsAppend
    <2>3. Len(Records(p, k + 1)) = k + 1
      BY <1>3, RecordsAppend
    <2> HIDE DEF v
    <2> QED
      BY <2>1, <2>2, <2>3
  <1> HIDE DEF v
  <1>6. n \in (k + 1)..m
    BY <1>1, <1>4
  <1>7. KeptBy(p, v, Tail(s), b, m)
    BY <1>2, <1>4, <1>5, <1>6 DEF KeptBy
  <1> QED
    BY <1>7 DEF v

(* or it takes something else. *)
LEMMA KeptTaken ==
  ASSUME NEW p \in Logging, NEW w, NEW s \in Seq(Record \cup {None}), NEW b, NEW m,
         s # <<>>, Head(s).by # p, KeptBy(p, w, s, b, m)
  PROVE  KeptBy(p, w, Tail(s), b, m)
  BY InOrderTailOther DEF KeptBy

(* When nothing is on its way all records are in the file. *)
LEMMA KeptAll ==
  ASSUME NEW p \in Logging, NEW w \in Seq(Record), NEW m \in Nat,
         KeptBy(p, w, <<>>, <<>>, m)
  PROVE  w = Records(p, m)
  <1>1. Len(w) \in Nat /\ w = Records(p, Len(w))
    BY LenProperties DEF KeptBy
  <1>2. PICK n \in Len(w)..m : /\ RecordsInOrder(p, <<>>, Len(w) + 1, n)
                               /\ RecordsInOrder(p, <<>>, n + 1, m)
    BY DEF KeptBy
  <1>3. DOMAIN <<>> = {}
    OBVIOUS
  <1>4. (Len(w) + 1)..n = {} /\ (n + 1)..m = {}
    BY <1>2, <1>3 DEF RecordsInOrder
  <1>5. n \in Nat /\ Len(w) <= n /\ n <= m
    BY <1>1
  <1>6. ~(Len(w) + 1 <= n) /\ ~(n + 1 <= m)
    <2>1. Len(w) + 1 <= n => Len(w) + 1 \in (Len(w) + 1)..n
      BY <1>1, <1>5
    <2>2. n + 1 <= m => n + 1 \in (n + 1)..m
      BY <1>5
    <2> QED
      BY <1>4, <2>1, <2>2
  <1> QED
    BY <1>1, <1>5, <1>6

-----------------------------------------------------------------------------
(***************************************************************************)
(* The invariant.                                                          *)
(***************************************************************************)
LEMMA KeptOf ==
  RecordsKept <=>
    \A p \in Logging : KeptBy(p, written[p], pipe["log"], ToLog[p], logged[p])
  BY DEF RecordsKept, KeptBy

(* What the first record of a process in its buffer is. *)
LEMMA OwnRecords ==
  ASSUME LifecycleTypeOK, EndMarkLast, NEW p \in Logging, ToLog[p] # <<>>
  PROVE  /\ Head(ToLog[p]) \in Record \cup {None}
         /\ \A r \in Logging : r # p => Head(ToLog[p]).by # r
         /\ Head(ToLog[p]) = None => p = "main" /\ pc.main \in AtEnd /\ Len(ToLog[p]) = 1
  <1>1. ToLog[p] \in Seq(Record \cup {None})
    BY LogTypes
  <1>2. /\ Head(ToLog[p]) \in Record \cup {None}
        /\ Head(ToLog[p]) = ToLog[p][1]
        /\ 1 \in DOMAIN ToLog[p]
    BY <1>1, TailElements
  <1>3. Head(ToLog[p]).by = p \/ (p = "main" /\ Head(ToLog[p]) = None)
    BY <1>2 DEF EndMarkLast
  <1>4. Head(ToLog[p]) = None => p = "main"
    BY <1>3, LogItems
  <1>5. Head(ToLog[p]) = None => pc.main \in AtEnd /\ 1 = Len(ToLog[p])
    BY <1>2, <1>4 DEF EndMarkLast
  <1> QED
    BY <1>2, <1>3, <1>4, <1>5, LogItems

LEMMA KeptNext ==
  ASSUME LifecycleTypeOK, EndMarkLast, RecordsKept, LogStep
  PROVE  RecordsKept'
  <1> DEFINE K(p) == KeptBy(p, written[p], pipe["log"], ToLog[p], logged[p])
             k(p) == KeptBy(p, written'[p], pipe'["log"], ToLog'[p], logged'[p])
  <1>1. /\ ToLog \in [Logging -> Seq(Record \cup {None})]
        /\ pipe["log"] \in Seq(Record \cup {None})
        /\ written \in [Logging -> Seq(Record)]
        /\ logged \in [Logging -> Nat]
    BY LogTypes
  <1>2. \A r \in Logging : K(r)
    BY KeptOf
  <1>3. ASSUME NEW r \in Logging PROVE k(r)
    <2> DEFINE w == written[r]
               s == pipe["log"]
               b == ToLog[r]
               m == logged[r]
    <2>0. /\ KeptBy(r, w, s, b, m)
          /\ w \in Seq(Record) /\ s \in Seq(Record \cup {None})
          /\ b \in Seq(Record \cup {None}) /\ m \in Nat
      BY <1>1, <1>2
    <2>1. CASE LogUntouched
      BY <2>0, <2>1 DEF LogUntouched
    <2>2. CASE \E p \in Logging : Logged(p)
      <3>1. PICK p \in Logging : Logged(p)
        BY <2>2
      <3>2. pipe'["log"] = s /\ written'[r] = w
        BY <3>1 DEF Logged
      <3>3. CASE r = p
        <4>1. ToLog'[r] = Append(b, [by |-> r, n |-> m + 1]) /\ logged'[r] = m + 1
          BY <1>1, <3>1, <3>3 DEF Logged
        <4> HIDE DEF w, s, b, m
        <4>2. KeptBy(r, w, s, Append(b, [by |-> r, n |-> m + 1]), m + 1)
          BY <2>0, KeptLogged
        <4> QED
          BY <3>2, <4>1, <4>2
      <3>4. CASE r # p
        <4>1. ToLog'[r] = b /\ logged'[r] = m
          BY <1>1, <3>1, <3>4 DEF Logged
        <4> QED
          BY <2>0, <3>2, <4>1
      <3> QED
        BY <3>3, <3>4
    <2>3. CASE Closed
      <3>1. pipe'["log"] = s /\ written'[r] = w /\ logged'[r] = m
        BY <2>3 DEF Closed
      <3>2. ToLog'[r] = Append(b, None) \/ ToLog'[r] = b
        BY <1>1, <2>3 DEF Closed
      <3> HIDE DEF w, s, b, m
      <3>3. KeptBy(r, w, s, Append(b, None), m)
        BY <2>0, KeptPut, LogItems
      <3> QED
        BY <2>0, <3>1, <3>2, <3>3
    <2>4. CASE \E p \in Logging : Fed(p)
      <3>1. PICK p \in Logging : Fed(p)
        BY <2>4
      <3>2. /\ written'[r] = w /\ logged'[r] = m
            /\ pipe'["log"] = Append(s, Head(ToLog[p]))
            /\ ToLog[p] # <<>>
        BY <3>1 DEF Fed
      <3>3. CASE r = p
        <4>1. ToLog'[r] = Tail(b) /\ pipe'["log"] = Append(s, Head(b)) /\ b # <<>>
          BY <1>1, <3>1, <3>2, <3>3 DEF Fed
        <4> HIDE DEF w, s, b, m
        <4>2. KeptBy(r, w, Append(s, Head(b)), Tail(b), m)
          BY <2>0, <4>1, KeptFed
        <4> QED
          BY <3>2, <4>1, <4>2
      <3>4. CASE r # p
        <4>1. ToLog'[r] = b
          BY <1>1, <3>1, <3>4 DEF Fed
        <4>2. Head(ToLog[p]) \in Record \cup {None} /\ Head(ToLog[p]).by # r
          BY <3>2, <3>4, OwnRecords
        <4> HIDE DEF w, s, b, m
        <4>3. KeptBy(r, w, Append(s, Head(ToLog[p])), b, m)
          BY <2>0, <4>2, KeptFedOther
        <4> QED
          BY <3>2, <4>1, <4>3
      <3> QED
        BY <3>3, <3>4
    <2>5. CASE Wrote
      <3>1. /\ ToLog'[r] = b /\ logged'[r] = m
            /\ pipe'["log"] = Tail(s) /\ s # <<>>
        BY <2>5 DEF Wrote
      <3>2. CASE Head(s).by = r
        <4>1. written'[r] = Append(w, Head(s))
          BY <1>1, <2>5, <3>2 DEF Wrote
        <4> HIDE DEF w, s, b, m
        <4>2. KeptBy(r, Append(w, Head(s)), Tail(s), b, m)
          BY <2>0, <3>1, <3>2, KeptWrote
        <4> QED
          BY <3>1, <4>1, <4>2
      <3>3. CASE Head(s).by # r
        <4>1. written'[r] = w
          BY <1>1, <2>5, <3>3 DEF Wrote
        <4> HIDE DEF w, s, b, m
        <4>2. KeptBy(r, w, Tail(s), b, m)
          BY <2>0, <3>1, <3>3, KeptTaken
        <4> QED
          BY <3>1, <4>1, <4>2
      <3> QED
        BY <3>2, <3>3
    <2>6. CASE ServerTold
      <3>1. /\ ToLog'[r] = b /\ logged'[r] = m /\ written'[r] = w
            /\ pipe'["log"] = Tail(s) /\ s # <<>> /\ Head(s) = None
        BY <2>6 DEF ServerTold
      <3> HIDE DEF w, s, b, m
      <3>2. KeptBy(r, w, Tail(s), b, m)
        BY <2>0, <3>1, KeptTaken, LogItems
      <3> QED
        BY <3>1, <3>2
    <2> HIDE DEF k
    <2> QED
      BY <2>1, <2>2, <2>3, <2>4, <2>5, <2>6 DEF LogStep
  <1> QED
    BY <1>3 DEF RecordsKept, KeptBy

(* The three processes that log. *)
LEMMA ThreeLog ==
  /\ Logging = {"main", "node", "network"}
  /\ "main" # "node" /\ "main" # "network" /\ "node" # "network"
  BY DEF Logging

LEMMA TurnNext ==
  ASSUME LifecycleTypeOK, EndsInTurn, Moves, LogStep
  PROVE  EndsInTurn'
  <1>1. ToLog \in [Logging -> Seq(Record \cup {None})]
    BY LogTypes
  <1>2. /\ pc'.main \in AtEnd /\ "main" \notin faults' => pc'.node = "ended"
        /\ pc'.main \in {"reaping", "ended"} => pc'.server = "ended"
        /\ pc'.node = "ended" => pc'.network = "ended"
        /\ pc'.network = "ended" => ToLog["network"] = <<>>
        /\ pc'.node = "ended" => ToLog["node"] = <<>>
    BY DEF EndsInTurn, Moves, AtEnd
  <1>3. /\ pc'.network = "ended" => ToLog'["network"] = <<>>
        /\ pc'.node = "ended" => ToLog'["node"] = <<>>
    <2>1. CASE ToLog' = ToLog
      BY <1>2, <2>1
    <2>2. CASE \E p \in Logging : Logged(p)
      <3>1. PICK p \in Logging : Logged(p)
        BY <2>2
      <3>2. pc'[p] # "ended" /\ \A r \in Logging : r # p => ToLog'[r] = ToLog[r]
        BY <1>1, <3>1 DEF Logged
      <3> QED
        BY <1>2, <3>2, ThreeLog
    <2>3. CASE Closed
      <3>1. \A r \in Logging : r # "main" => ToLog'[r] = ToLog[r]
        BY <1>1, <2>3 DEF Closed
      <3> QED
        BY <1>2, <3>1, ThreeLog
    <2>4. CASE \E p \in Logging : Fed(p)
      <3>1. PICK p \in Logging : Fed(p)
        BY <2>4
      <3>2. pc'[p] # "ended" /\ \A r \in Logging : r # p => ToLog'[r] = ToLog[r]
        BY <1>1, <3>1 DEF Fed
      <3> QED
        BY <1>2, <3>2, ThreeLog
    <2> QED
      BY <2>1, <2>2, <2>3, <2>4 DEF LogStep, LogUntouched, Wrote, ServerTold
  <1> QED
    BY <1>2, <1>3 DEF EndsInTurn

(* Once main is at its end, in time, only main is left. *)
LEMMA OnlyMain ==
  ASSUME EndsInTurn, pc.main \in AtEnd, "main" \notin faults
  PROVE  /\ pc.node = "ended" /\ pc.network = "ended"
         /\ ToLog["node"] = <<>> /\ ToLog["network"] = <<>>
  BY DEF EndsInTurn

LEMMA LastNext ==
  ASSUME LifecycleTypeOK, EndsInTurn, EndMarkLast, ServerEndsLast, Moves, LogStep
  PROVE  ServerEndsLast'
  <1> SUFFICES ASSUME pc'.server = "ended", faults' = {}
               PROVE  /\ pc'.main \in AtEnd
                      /\ pipe'["log"] = <<>>
                      /\ \A p \in Logging : ToLog'[p] = <<>>
    BY DEF ServerEndsLast
  <1>1. faults = {} /\ "main" \notin faults
    BY DEF Moves
  <1>2. pipe["log"] \in Seq(Record \cup {None})
    BY LogTypes
  <1>3. ASSUME pc.server = "ended"
        PROVE  /\ pc.main \in AtEnd /\ pc'.main \in AtEnd
               /\ pipe["log"] = <<>>
               /\ \A p \in Logging : ToLog[p] = <<>>
               /\ \A p \in Logging : p # "main" => pc[p] = "ended"
    BY <1>1, <1>3, OnlyMain, ThreeLog DEF ServerEndsLast, Moves
  <1>4. ServerStays => pc.server = "ended"
    BY DEF ServerStays
  <1>5. CASE LogUntouched /\ ServerStays
    BY <1>3, <1>4, <1>5 DEF LogUntouched
  <1>6. CASE (\E p \in Logging : Logged(p)) /\ ServerStays
    BY <1>3, <1>4, <1>6 DEF Logged
  <1>7. CASE Closed /\ ServerStays
    BY <1>3, <1>4, <1>7 DEF Closed
  <1>8. CASE \E p \in Logging : Fed(p)
    BY <1>3, <1>8 DEF Fed
  <1>9. CASE Wrote
    BY <1>3, <1>9 DEF Wrote
  <1>10. CASE ServerTold
    <2>1. /\ Head(pipe["log"]) = pipe["log"][1]
          /\ 1 \in DOMAIN pipe["log"]
          /\ Len(Tail(pipe["log"])) = Len(pipe["log"]) - 1
          /\ Tail(pipe["log"]) \in Seq(Record \cup {None})
      BY <1>2, <1>10, TailElements DEF ServerTold
    <2>2. pipe["log"][1] = None
      BY <1>10, <2>1 DEF ServerTold
    <2>3. pc.main \in AtEnd /\ ToLog["main"] = <<>> /\ 1 = Len(pipe["log"])
      BY <1>1, <2>1, <2>2 DEF EndMarkLast
    <2>4. pipe'["log"] = <<>>
      <3>1. Len(Tail(pipe["log"])) = 0
        BY <2>1, <2>3
      <3>2. Tail(pipe["log"]) = <<>>
        BY <2>1, <3>1, EmptySeq
      <3> QED
        BY <1>10, <3>2 DEF ServerTold
    <2>5. \A p \in Logging : ToLog[p] = <<>>
      BY <1>1, <2>3, OnlyMain, ThreeLog
    <2>6. ToLog' = ToLog /\ pc'.main = pc.main
      BY <1>10 DEF ServerTold
    <2> QED
      BY <2>3, <2>4, <2>5, <2>6
  <1> QED
    BY <1>5, <1>6, <1>7, <1>8, <1>9, <1>10 DEF LogStep

(* The parts of EndMarkLast: what is in the pipe, in main's buffer and in   *)
(* the others.                                                              *)
PipeMarked ==
  \A i \in DOMAIN pipe["log"] :
    pipe["log"][i] = None =>
      /\ pc.main \in AtEnd /\ ToLog["main"] = <<>>
      /\ "main" \notin faults => i = Len(pipe["log"])

MainMarked ==
  \A i \in DOMAIN ToLog["main"] :
    ToLog["main"][i] = None => pc.main \in AtEnd /\ i = Len(ToLog["main"])

LEMMA MarkNext ==
  ASSUME LifecycleTypeOK, EndsInTurn, EndMarkLast, Moves, LogStep
  PROVE  EndMarkLast'
  <1> DEFINE s == pipe["log"]
             N == Len(s)
             b == ToLog["main"]
             M == Len(b)
             Own(r, q) == \A i \in DOMAIN q : q[i].by = r \/ (r = "main" /\ q[i] = None)
  <1>1. /\ ToLog \in [Logging -> Seq(Record \cup {None})]
        /\ s \in Seq(Record \cup {None})
        /\ logged \in [Logging -> Nat]
        /\ "main" \in Logging
    BY LogTypes, ThreeLog
  <1>2. PipeMarked /\ MainMarked /\ \A r \in Logging : Own(r, ToLog[r])
    BY DEF EndMarkLast, PipeMarked, MainMarked
  <1>3. /\ N \in Nat /\ DOMAIN s = 1..N
        /\ M \in Nat /\ DOMAIN b = 1..M
    BY <1>1, LenProperties
  <1>4. /\ pc.main \in AtEnd => pc'.main \in AtEnd
        /\ "main" \notin faults' => "main" \notin faults
    BY DEF Moves
  <1>5. CASE LogUntouched
    <2>1. ToLog' = ToLog /\ pipe'["log"] = pipe["log"]
      BY <1>5 DEF LogUntouched
    <2>2. PipeMarked' /\ MainMarked'
      BY <1>2, <1>4, <2>1 DEF PipeMarked, MainMarked
    <2> QED
      BY <1>2, <2>1, <2>2 DEF EndMarkLast, PipeMarked, MainMarked
  <1>6. CASE \E p \in Logging : Logged(p)
    <2>1. PICK p \in Logging : Logged(p)
      BY <1>6
    <2> DEFINE e == [by |-> p, n |-> logged[p] + 1]
    <2>2. /\ e \in Record \cup {None} /\ e # None /\ e.by = p
          /\ ToLog' = [ToLog EXCEPT ![p] = Append(@, e)]
          /\ pipe'["log"] = s
          /\ p = "main" => pc.main \notin AtEnd
      BY <1>1, <2>1, LogItems DEF Logged
    <2> HIDE DEF e
    <2>3. PipeMarked'
      <3>1. CASE p = "main"
        BY <1>2, <2>2, <3>1 DEF PipeMarked
      <3>2. CASE p # "main"
        <4>1. ToLog'["main"] = ToLog["main"]
          BY <1>1, <2>2, <3>2
        <4> QED
          BY <1>2, <1>4, <2>2, <4>1 DEF PipeMarked
      <3> QED
        BY <3>1, <3>2
    <2>4. MainMarked'
      <3>1. CASE p = "main"
        <4>1. /\ ToLog'["main"] = Append(b, e)
              /\ DOMAIN Append(b, e) = 1..(M + 1)
              /\ \A i \in 1..M : Append(b, e)[i] = b[i]
              /\ Append(b, e)[M + 1] = e
          BY <1>1, <2>2, <3>1, AppendElements
        <4>2. \A i \in 1..(M + 1) : Append(b, e)[i] # None
          BY <1>2, <1>3, <2>2, <3>1, <4>1 DEF MainMarked
        <4> QED
          BY <4>1, <4>2 DEF MainMarked
      <3>2. CASE p # "main"
        <4>1. ToLog'["main"] = ToLog["main"]
          BY <1>1, <2>2, <3>2
        <4> QED
          BY <1>2, <1>4, <4>1 DEF MainMarked
      <3> QED
        BY <3>1, <3>2
    <2>5. ASSUME NEW r \in Logging PROVE Own(r, ToLog'[r])
      <3>1. CASE r = p
        <4> DEFINE c == ToLog[p]
        <4>1. /\ ToLog'[r] = Append(c, e)
              /\ DOMAIN Append(c, e) = 1..(Len(c) + 1)
              /\ DOMAIN c = 1..Len(c) /\ Len(c) \in Nat
              /\ \A i \in 1..Len(c) : Append(c, e)[i] = c[i]
              /\ Append(c, e)[Len(c) + 1] = e
          BY <1>1, <2>2, <3>1, AppendElements
        <4>2. Own(r, c)
          BY <1>2, <3>1
        <4> HIDE DEF c
        <4> QED
          BY <2>2, <3>1, <4>1, <4>2
      <3>2. CASE r # p
        BY <1>1, <1>2, <2>2, <3>2
      <3> QED
        BY <3>1, <3>2
    <2> QED
      BY <2>3, <2>4, <2>5 DEF EndMarkLast, PipeMarked, MainMarked
  <1>7. CASE Closed
    <2>1. /\ pc.main \notin AtEnd /\ pc'.main \in AtEnd
          /\ ToLog'["main"] = Append(b, None)
          /\ \A r \in Logging : r # "main" => ToLog'[r] = ToLog[r]
          /\ pipe'["log"] = s
      BY <1>1, <1>7 DEF Closed
    <2>2. /\ DOMAIN Append(b, None) = 1..(M + 1)
          /\ Len(Append(b, None)) = M + 1
          /\ \A i \in 1..M : Append(b, None)[i] = b[i]
          /\ Append(b, None)[M + 1] = None
      BY <1>1, AppendElements
    <2>3. PipeMarked'
      BY <1>2, <2>1 DEF PipeMarked
    <2>4. \A i \in 1..M : b[i] # None
      BY <1>2, <1>3, <2>1 DEF MainMarked
    <2>5. MainMarked'
      BY <1>3, <2>1, <2>2, <2>4 DEF MainMarked
    <2>6. Own("main", Append(b, None))
      BY <1>1, <1>2, <1>3, <2>2
    <2>7. \A r \in Logging : Own(r, ToLog'[r])
      BY <1>2, <2>1, <2>6
    <2> QED
      BY <2>3, <2>5, <2>7 DEF EndMarkLast, PipeMarked, MainMarked
  <1>8. CASE \E p \in Logging : Fed(p)
    <2>1. PICK p \in Logging : Fed(p)
      BY <1>8
    <2> DEFINE c == ToLog[p]
               e == Head(c)
    <2>2. /\ pc[p] # "ended" /\ pc' = pc /\ faults' = faults
          /\ c # <<>>
          /\ pipe'["log"] = Append(s, e)
          /\ ToLog'[p] = Tail(c)
          /\ \A r \in Logging : r # p => ToLog'[r] = ToLog[r]
      BY <1>1, <2>1 DEF Fed
    <2>3. /\ e \in Record \cup {None}
          /\ e = None => p = "main" /\ pc.main \in AtEnd /\ Len(c) = 1
      BY <2>2, OwnRecords
    <2>4. /\ Tail(c) \in Seq(Record \cup {None})
          /\ Len(c) \in Nat /\ Len(Tail(c)) = Len(c) - 1
          /\ DOMAIN c = 1..Len(c)
          /\ DOMAIN Tail(c) = 1..(Len(c) - 1)
          /\ \A i \in 1..(Len(c) - 1) : Tail(c)[i] = c[i + 1]
      BY <1>1, <2>2, TailElements
    <2>5. /\ DOMAIN Append(s, e) = 1..(N + 1)
          /\ Len(Append(s, e)) = N + 1
          /\ \A i \in 1..N : Append(s, e)[i] = s[i]
          /\ Append(s, e)[N + 1] = e
      BY <1>1, <2>3, AppendElements
    <2>6. Own(p, c)
      BY <1>2
    <2>7. p = "main" => c = b
      OBVIOUS
    <2> HIDE DEF c, e
    <2>8. ASSUME NEW i \in 1..(N + 1), Append(s, e)[i] = None
          PROVE  /\ pc'.main \in AtEnd /\ ToLog'["main"] = <<>>
                 /\ "main" \notin faults' => i = N + 1
      <3>1. CASE i = N + 1
        <4>1. p = "main" /\ pc.main \in AtEnd /\ Len(Tail(c)) = 0
          BY <2>3, <2>4, <2>5, <2>8, <3>1
        <4>2. Tail(c) = <<>>
          BY <2>4, <4>1, EmptySeq
        <4> QED
          BY <2>2, <3>1, <4>1, <4>2
      <3>2. CASE i # N + 1
        <4>1. i \in DOMAIN s /\ s[i] = None
          BY <1>3, <2>5, <2>8, <3>2
        <4>2. pc.main \in AtEnd /\ b = <<>>
          BY <1>2, <4>1 DEF PipeMarked
        <4>3. p # "main" /\ p \in {"node", "network"}
          BY <2>2, <2>7, <4>2, ThreeLog
        <4>4. "main" \in faults
          BY <2>2, <4>2, <4>3, OnlyMain
        <4> QED
          BY <1>1, <2>2, <4>2, <4>3, <4>4
      <3> QED
        BY <3>1, <3>2
    <2>9. PipeMarked'
      BY <2>2, <2>5, <2>8 DEF PipeMarked
    <2>10. MainMarked'
      <3>1. CASE p = "main"
        <4>1. \A i \in 1..(M - 1) : i + 1 \in 1..M
          BY <1>3
        <4>2. \A i \in 1..(M - 1) : b[i + 1] = None => pc.main \in AtEnd /\ i + 1 = M
          BY <1>2, <1>3, <4>1 DEF MainMarked
        <4>3. /\ ToLog'["main"] = Tail(c) /\ Len(Tail(c)) = M - 1
              /\ DOMAIN Tail(c) = 1..(M - 1)
              /\ \A i \in 1..(M - 1) : Tail(c)[i] = b[i + 1]
          BY <2>2, <2>4, <2>7, <3>1
        <4> QED
          BY <1>3, <2>2, <4>2, <4>3 DEF MainMarked
      <3>2. CASE p # "main"
        <4>1. ToLog'["main"] = ToLog["main"]
          BY <1>1, <2>2, <3>2
        <4> QED
          BY <1>2, <2>2, <4>1 DEF MainMarked
      <3> QED
        BY <3>1, <3>2
    <2>11. Own(p, Tail(c))
      <3>1. \A i \in 1..(Len(c) - 1) : i + 1 \in DOMAIN c
        BY <2>4
      <3> QED
        BY <2>4, <2>6, <3>1
    <2>12. \A r \in Logging : Own(r, ToLog'[r])
      BY <1>2, <2>2, <2>11
    <2> QED
      BY <2>9, <2>10, <2>12 DEF EndMarkLast, PipeMarked, MainMarked
  <1>9. CASE Wrote \/ ServerTold
    <2>1. /\ ToLog' = ToLog /\ faults' = faults
          /\ pipe'["log"] = Tail(s) /\ s # <<>>
      BY <1>9 DEF Wrote, ServerTold
    <2>2. /\ DOMAIN Tail(s) = 1..(N - 1) /\ Len(Tail(s)) = N - 1
          /\ \A i \in 1..(N - 1) : Tail(s)[i] = s[i + 1]
      BY <1>1, <2>1, TailElements
    <2>3. \A i \in 1..(N - 1) : i + 1 \in DOMAIN s
      BY <1>3
    <2>4. \A i \in 1..(N - 1) : Tail(s)[i] = None =>
             /\ pc.main \in AtEnd /\ ToLog["main"] = <<>>
             /\ "main" \notin faults => i + 1 = N
      BY <1>2, <2>2, <2>3 DEF PipeMarked
    <2>5. PipeMarked'
      BY <1>3, <1>4, <2>1, <2>2, <2>4 DEF PipeMarked
    <2>6. MainMarked'
      BY <1>2, <1>4, <2>1 DEF MainMarked
    <2> QED
      BY <1>2, <2>1, <2>5, <2>6 DEF EndMarkLast, PipeMarked, MainMarked
  <1> QED
    BY <1>5, <1>6, <1>7, <1>8, <1>9 DEF LogStep

(* When main has joined the log server the log is complete. *)
LEMMA LogComplete ==
  ASSUME LifecycleTypeOK, EndsInTurn, ServerEndsLast, RecordsKept
  PROVE  NoRecordLost
  <1> SUFFICES ASSUME pc.main \in {"reaping", "ended"}, faults = {}, NEW p \in Logging
               PROVE  written[p] = Records(p, logged[p])
    BY DEF NoRecordLost
  <1>1. pc.server = "ended"
    BY DEF EndsInTurn
  <1>2. pipe["log"] = <<>> /\ ToLog[p] = <<>>
    BY <1>1 DEF ServerEndsLast
  <1>3. KeptBy(p, written[p], <<>>, <<>>, logged[p])
    BY <1>2, KeptOf
  <1> QED
    BY <1>3, LogTypes, KeptAll

LEMMA LifecycleStep ==
  ASSUME LifecycleInv, Next
  PROVE  LifecycleInv'
  <1>1. Progress /\ RecordsKept
    BY EveryStep DEF LifecycleInv, NoRecordLost
  <1>2. LifecycleTypeOK' /\ EndsInTurn' /\ EndMarkLast' /\ ServerEndsLast' /\ RecordsKept'
    BY <1>1, TurnNext, MarkNext, LastNext, KeptNext DEF LifecycleInv, Progress
  <1>3. LifecycleTypeOK' /\ EndsInTurn' /\ ServerEndsLast' /\ RecordsKept' => NoRecordLost'
    BY LogComplete, PTL
  <1> QED
    BY <1>2, <1>3 DEF LifecycleInv

LEMMA LifecycleStart ==
  ASSUME Init
  PROVE  LifecycleInv
  <1>1. LifecycleTypeOK
    BY PipeAssumption DEF Init, LifecycleTypeOK, Place
  <1>2. /\ pipe["log"] = <<>>
        /\ \A p \in Logging : ToLog[p] = <<>> /\ written[p] = <<>> /\ logged[p] = 0
    BY FeederPairs DEF Init, ToLog
  <1>3. DOMAIN <<>> = {} /\ Len(<<>>) = 0
    OBVIOUS
  <1>4. EndsInTurn /\ ServerEndsLast
    BY DEF Init, EndsInTurn, ServerEndsLast, AtEnd
  <1>5. EndMarkLast
    BY <1>2, <1>3, ThreeLog DEF EndMarkLast
  <1>6. RecordsKept
    <2>1. \A p \in Logging : /\ Records(p, 0) = <<>>
                             /\ RecordsInOrder(p, <<>>, 1, 0)
      BY <1>3 DEF Records, RecordsInOrder
    <2> QED
      BY <1>2, <1>3, <2>1 DEF RecordsKept
  <1>7. NoRecordLost
    BY <1>1, <1>4, <1>6, LogComplete
  <1> QED
    BY <1>1, <1>4, <1>5, <1>7 DEF LifecycleInv

LEMMA LifecycleStutter ==
  ASSUME LifecycleInv, UNCHANGED vars
  PROVE  LifecycleInv'
  <1>1. ToLog' = ToLog /\ UNCHANGED <<pc, buffer, pipe, written, logged, puts, faults>>
    BY DEF vars, ToLog
  <1>2. LifecycleTypeOK'
    BY <1>1 DEF LifecycleInv, LifecycleTypeOK
  <1>3. EndsInTurn' /\ ServerEndsLast'
    BY <1>1 DEF LifecycleInv, EndsInTurn, ServerEndsLast
  <1>4. EndMarkLast'
    BY <1>1 DEF LifecycleInv, EndMarkLast
  <1>5. NoRecordLost'
    BY <1>1 DEF LifecycleInv, NoRecordLost, RecordsKept
  <1> QED
    BY <1>2, <1>3, <1>4, <1>5 DEF LifecycleInv

(* Whatever the processes do, and whatever fails: their ends come in turn,  *)
(* the None of the log server behind every record, and no record of any     *)
(* process is lost, comes twice or out of its turn.                         *)
THEOREM LifecycleInvHolds == Spec => []LifecycleInv
  <1>1. Init => LifecycleInv
    BY LifecycleStart
  <1>2. LifecycleInv /\ [Next]_vars => LifecycleInv'
    BY LifecycleStep, LifecycleStutter
  <1> QED
    BY <1>1, <1>2, PTL DEF Spec

(* In particular, when main has joined the log server all that was logged   *)
(* is in the file, if nothing failed to start.                              *)
THEOREM LogIsComplete == Spec => []NoRecordLost
  <1>1. LifecycleInv => NoRecordLost
    BY DEF LifecycleInv
  <1> QED
    BY <1>1, LifecycleInvHolds, PTL
=============================================================================
