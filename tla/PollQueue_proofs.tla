-------------------------- MODULE PollQueue_proofs --------------------------
(***************************************************************************)
(* Proofs about the queue of polled handlers, for any number of handlers   *)
(* and any rates, while the clock does what it likes.                      *)
(***************************************************************************)
EXTENDS PollQueue, SequenceTheorems, TLAPS

(* What an insertion leaves where. *)
LEMMA InsertedElements ==
  ASSUME NEW S, NEW q \in Seq(S), NEW e \in S, NEW i \in 1..(Len(q) + 1)
  PROVE  /\ InsertAt(q, i, e) \in Seq(S)
         /\ Len(InsertAt(q, i, e)) = Len(q) + 1
         /\ \A j \in 1..(i - 1) : InsertAt(q, i, e)[j] = q[j]
         /\ InsertAt(q, i, e)[i] = e
         /\ \A j \in (i + 1)..(Len(q) + 1) : InsertAt(q, i, e)[j] = q[j - 1]
  <1> DEFINE a == SubSeq(q, 1, i - 1)
             b == SubSeq(q, i, Len(q))
             c == a \o <<e>>
  <1>1. a \in Seq(S) /\ Len(a) = i - 1 /\ \A j \in 1..(i - 1) : a[j] = q[j]
    OBVIOUS
  <1>2. b \in Seq(S) /\ Len(b) = Len(q) - i + 1
        /\ \A j \in 1..(Len(q) - i + 1) : b[j] = q[i + j - 1]
    OBVIOUS
  <1> HIDE DEF a, b
  <1>3. c \in Seq(S) /\ Len(c) = i /\ c[i] = e /\ \A j \in 1..(i - 1) : c[j] = q[j]
    BY <1>1
  <1> HIDE DEF c
  <1>4. /\ c \o b \in Seq(S) /\ Len(c \o b) = Len(c) + Len(b)
        /\ \A j \in 1..(Len(c) + Len(b)) :
             (c \o b)[j] = IF j <= Len(c) THEN c[j] ELSE b[j - Len(c)]
    BY <1>2, <1>3, ConcatProperties
  <1>5. \A j \in 1..i : (c \o b)[j] = c[j]
    BY <1>2, <1>3, <1>4
  <1>6. \A j \in (i + 1)..(Len(q) + 1) : (c \o b)[j] = q[j - 1]
    <2> SUFFICES ASSUME NEW j \in (i + 1)..(Len(q) + 1) PROVE (c \o b)[j] = q[j - 1]
      OBVIOUS
    <2>1. (c \o b)[j] = b[j - i]
      BY <1>2, <1>3, <1>4
    <2>2. j - i \in 1..(Len(q) - i + 1) /\ i + (j - i) - 1 = j - 1
      OBVIOUS
    <2> QED
      BY <1>2, <2>1, <2>2
  <1>7. InsertAt(q, i, e) = c \o b
    BY DEF InsertAt, a, b, c
  <1> QED
    BY <1>2, <1>3, <1>4, <1>5, <1>6, <1>7

(* The queue without its last element. *)
LEMMA FrontElements ==
  ASSUME NEW S, NEW q \in Seq(S), q # <<>>
  PROVE  /\ Front(q) \in Seq(S)
         /\ Len(Front(q)) = Len(q) - 1
         /\ \A j \in 1..(Len(q) - 1) : Front(q)[j] = q[j]
         /\ Last(q) = q[Len(q)]
         /\ Len(q) \in DOMAIN q
  <1>1. Len(q) \in Nat \ {0} /\ DOMAIN q = 1..Len(q)
    BY EmptySeq, LenProperties
  <1>2. \A j \in 1..(Len(q) - 1) : q[j] \in S
    BY <1>1, ElementOfSeq
  <1>3. /\ SubSeq(q, 1, Len(q) - 1) \in Seq(S)
        /\ Len(SubSeq(q, 1, Len(q) - 1)) = Len(q) - 1
        /\ \A j \in 1..(Len(q) - 1) : SubSeq(q, 1, Len(q) - 1)[j] = q[j]
    BY <1>1, <1>2, SubSeqProperties
  <1> QED
    BY <1>1, <1>3 DEF Front, Last

-----------------------------------------------------------------------------
(***************************************************************************)
(* A queue r that is q with e inserted at i: what is in it, and its order. *)
(***************************************************************************)
Inserted(q, e, i, r) ==
  /\ i \in 1..(Len(q) + 1)
  /\ r \in Seq(Element)
  /\ Len(r) = Len(q) + 1
  /\ \A j \in 1..(i - 1) : r[j] = q[j]
  /\ r[i] = e
  /\ \A j \in (i + 1)..(Len(q) + 1) : r[j] = q[j - 1]

LEMMA InsertedIsInserted ==
  ASSUME NEW q \in Seq(Element), NEW e \in Element, NEW i \in 1..(Len(q) + 1)
  PROVE  Inserted(q, e, i, InsertAt(q, i, e))
  BY InsertedElements DEF Inserted

(* Which element of r comes from where. *)
LEMMA InsertedFrom ==
  ASSUME NEW q \in Seq(Element), NEW e \in Element, NEW i, NEW r, Inserted(q, e, i, r)
  PROVE  /\ Len(q) \in Nat /\ DOMAIN q = 1..Len(q) /\ DOMAIN r = 1..(Len(q) + 1)
         /\ i \in 1..(Len(q) + 1) /\ r[i] = e
         /\ \A j \in 1..(Len(q) + 1) :
              \/ j = i /\ r[j] = e
              \/ j < i /\ j \in 1..Len(q) /\ r[j] = q[j]
              \/ i < j /\ j - 1 \in 1..Len(q) /\ r[j] = q[j - 1]
         /\ \A k \in 1..Len(q) : k < i => r[k] = q[k]
         /\ \A k \in 1..Len(q) : k >= i => r[k + 1] = q[k]
  <1>1. Len(q) \in Nat /\ DOMAIN q = 1..Len(q)
    BY LenProperties
  <1>2. DOMAIN r = 1..(Len(q) + 1)
    BY LenProperties DEF Inserted
  <1>3. i \in 1..(Len(q) + 1) /\ r[i] = e
    BY DEF Inserted
  <1>4. ASSUME NEW j \in 1..(Len(q) + 1)
        PROVE  \/ j = i /\ r[j] = e
               \/ j < i /\ j \in 1..Len(q) /\ r[j] = q[j]
               \/ i < j /\ j - 1 \in 1..Len(q) /\ r[j] = q[j - 1]
    <2>1. CASE j = i
      BY <1>3, <2>1
    <2>2. CASE j < i
      <3>1. j \in 1..(i - 1) /\ j \in 1..Len(q)
        BY <1>1, <1>3, <2>2
      <3> QED
        BY <2>2, <3>1 DEF Inserted
    <2>3. CASE i < j
      <3>1. j \in (i + 1)..(Len(q) + 1) /\ j - 1 \in 1..Len(q)
        BY <1>1, <1>3, <2>3
      <3> QED
        BY <2>3, <3>1 DEF Inserted
    <2> QED
      BY <1>1, <1>3, <2>1, <2>2, <2>3
  <1>5. ASSUME NEW k \in 1..Len(q), k < i PROVE r[k] = q[k]
    <2>1. k \in 1..(i - 1)
      BY <1>1, <1>3, <1>5
    <2> QED
      BY <2>1 DEF Inserted
  <1>6. ASSUME NEW k \in 1..Len(q), k >= i PROVE r[k + 1] = q[k]
    <2>1. k + 1 \in (i + 1)..(Len(q) + 1) /\ (k + 1) - 1 = k
      BY <1>1, <1>3, <1>6
    <2>2. r[k + 1] = q[(k + 1) - 1]
      BY <2>1 DEF Inserted
    <2> QED
      BY <2>1, <2>2
  <1> QED
    BY <1>1, <1>2, <1>3, <1>4, <1>5, <1>6

LEMMA InsertedHandlers ==
  ASSUME NEW q \in Seq(Element), NEW e \in Element, NEW i, NEW r, Inserted(q, e, i, r)
  PROVE  /\ \A j \in DOMAIN r : r[j] = e \/ \E k \in DOMAIN q : r[j] = q[k]
         /\ HandlersOf(r) = HandlersOf(q) \cup {e.handler}
  <1>1. \A j \in DOMAIN r : r[j] = e \/ \E k \in DOMAIN q : r[j] = q[k]
    <2>1. /\ DOMAIN q = 1..Len(q) /\ DOMAIN r = 1..(Len(q) + 1)
          /\ \A j \in 1..(Len(q) + 1) :
               \/ j = i /\ r[j] = e
               \/ j < i /\ j \in 1..Len(q) /\ r[j] = q[j]
               \/ i < j /\ j - 1 \in 1..Len(q) /\ r[j] = q[j - 1]
      BY InsertedFrom
    <2> QED
      BY <2>1
  <1>2. ASSUME NEW k \in DOMAIN q PROVE \E j \in DOMAIN r : r[j] = q[k]
    <2>1. k \in 1..Len(q) /\ Len(q) \in Nat /\ DOMAIN r = 1..(Len(q) + 1)
      BY InsertedFrom
    <2>2. CASE k < i
      <3>1. r[k] = q[k] /\ k \in 1..(Len(q) + 1)
        BY <2>1, <2>2, InsertedFrom
      <3> QED
        BY <2>1, <3>1
    <2>3. CASE k >= i
      <3>1. r[k + 1] = q[k] /\ k + 1 \in 1..(Len(q) + 1)
        BY <2>1, <2>3, InsertedFrom
      <3> QED
        BY <2>1, <3>1
    <2>4. k < i \/ k >= i
      BY <2>1, InsertedFrom
    <2> QED
      BY <2>2, <2>3, <2>4
  <1>3. i \in DOMAIN r /\ r[i] = e
    BY InsertedFrom
  <1>4. HandlersOf(r) \subseteq HandlersOf(q) \cup {e.handler}
    BY <1>1 DEF HandlersOf
  <1>5. HandlersOf(q) \cup {e.handler} \subseteq HandlersOf(r)
    BY <1>2, <1>3 DEF HandlersOf
  <1> QED
    BY <1>1, <1>4, <1>5

LEMMA InsertedDescending ==
  ASSUME NEW q \in Seq(Element), NEW e \in Element, NEW i, NEW r, Inserted(q, e, i, r),
         Slot(q, e.t, i), Descending(q)
  PROVE  Descending(r)
  <1>1. /\ Len(q) \in Nat /\ DOMAIN q = 1..Len(q) /\ DOMAIN r = 1..(Len(q) + 1)
        /\ i \in 1..(Len(q) + 1)
    BY InsertedFrom
  <1>2. e.t \in Nat /\ \A j \in 1..Len(q) : q[j].t \in Nat
    <2>1. \A j \in 1..Len(q) : q[j] \in Element
      BY ElementOfSeq
    <2> QED
      BY <2>1 DEF Element
  <1>3. \A j, k \in 1..Len(q) : j <= k => q[j].t >= q[k].t
    BY <1>1, <1>2 DEF Descending
  <1>4. \A k \in 1..Len(q) : k < i => q[k].t >= e.t
    <2> SUFFICES ASSUME NEW k \in 1..Len(q), k < i PROVE q[k].t >= e.t
      OBVIOUS
    <2>1. i > 1 /\ i - 1 \in 1..Len(q) /\ k <= i - 1
      BY <1>1
    <2>2. q[i - 1].t >= e.t
      BY <2>1 DEF Slot
    <2>3. q[k].t >= q[i - 1].t
      BY <1>3, <2>1
    <2> QED
      BY <1>2, <2>1, <2>2, <2>3
  <1>5. \A k \in 1..Len(q) : k >= i => e.t > q[k].t
    BY <1>1, <1>2 DEF Slot
  <1> SUFFICES ASSUME NEW j \in 1..(Len(q) + 1), NEW k \in 1..(Len(q) + 1), j < k
               PROVE  r[j].t >= r[k].t
    BY <1>1 DEF Descending
  <1>6. \/ j = i /\ r[j] = e
        \/ j < i /\ j \in 1..Len(q) /\ r[j] = q[j]
        \/ i < j /\ j - 1 \in 1..Len(q) /\ r[j] = q[j - 1]
    BY InsertedFrom
  <1>7. \/ k = i /\ r[k] = e
        \/ k < i /\ k \in 1..Len(q) /\ r[k] = q[k]
        \/ i < k /\ k - 1 \in 1..Len(q) /\ r[k] = q[k - 1]
    BY InsertedFrom
  <1>8. CASE k = i /\ r[k] = e
    BY <1>1, <1>4, <1>6, <1>8
  <1>9. CASE k < i /\ k \in 1..Len(q) /\ r[k] = q[k]
    BY <1>1, <1>3, <1>6, <1>9
  <1>10. CASE i < k /\ k - 1 \in 1..Len(q) /\ r[k] = q[k - 1]
    <2>1. CASE j = i /\ r[j] = e
      <3>1. e.t > q[k - 1].t
        BY <1>1, <1>5, <1>10
      <3> QED
        BY <1>2, <1>10, <2>1, <3>1
    <2>2. CASE j < i /\ j \in 1..Len(q) /\ r[j] = q[j]
      <3>1. j <= k - 1
        BY <1>1, <1>10, <2>2
      <3> QED
        BY <1>3, <1>10, <2>2, <3>1
    <2>3. CASE i < j /\ j - 1 \in 1..Len(q) /\ r[j] = q[j - 1]
      <3>1. j - 1 <= k - 1
        BY <1>1
      <3> QED
        BY <1>3, <1>10, <2>3, <3>1
    <2> QED
      BY <1>6, <2>1, <2>2, <2>3
  <1> QED
    BY <1>7, <1>8, <1>9, <1>10

LEMMA InsertedDistinct ==
  ASSUME NEW q \in Seq(Element), NEW e \in Element, NEW i, NEW r, Inserted(q, e, i, r),
         Distinct(q), e.handler \notin HandlersOf(q)
  PROVE  Distinct(r)
  <1>1. /\ Len(q) \in Nat /\ DOMAIN q = 1..Len(q) /\ DOMAIN r = 1..(Len(q) + 1)
        /\ i \in 1..(Len(q) + 1)
    BY InsertedFrom
  <1>2. \A k \in 1..Len(q) : q[k].handler # e.handler
    BY <1>1 DEF HandlersOf
  <1>3. \A j, k \in 1..Len(q) : q[j].handler = q[k].handler => j = k
    BY <1>1 DEF Distinct
  <1> SUFFICES ASSUME NEW j \in 1..(Len(q) + 1), NEW k \in 1..(Len(q) + 1),
                      r[j].handler = r[k].handler
               PROVE  j = k
    BY <1>1 DEF Distinct
  <1>4. \/ j = i /\ r[j] = e
        \/ j < i /\ j \in 1..Len(q) /\ r[j] = q[j]
        \/ i < j /\ j - 1 \in 1..Len(q) /\ r[j] = q[j - 1]
    BY InsertedFrom
  <1>5. \/ k = i /\ r[k] = e
        \/ k < i /\ k \in 1..Len(q) /\ r[k] = q[k]
        \/ i < k /\ k - 1 \in 1..Len(q) /\ r[k] = q[k - 1]
    BY InsertedFrom
  <1>6. CASE j = i /\ r[j] = e
    BY <1>2, <1>5, <1>6
  <1>7. CASE j < i /\ j \in 1..Len(q) /\ r[j] = q[j]
    <2>1. CASE k = i /\ r[k] = e
      BY <1>2, <1>7, <2>1
    <2>2. CASE k < i /\ k \in 1..Len(q) /\ r[k] = q[k]
      BY <1>3, <1>7, <2>2
    <2>3. CASE i < k /\ k - 1 \in 1..Len(q) /\ r[k] = q[k - 1]
      <3>1. j = k - 1
        BY <1>3, <1>7, <2>3
      <3> QED
        BY <1>1, <1>7, <2>3, <3>1
    <2> QED
      BY <1>5, <2>1, <2>2, <2>3
  <1>8. CASE i < j /\ j - 1 \in 1..Len(q) /\ r[j] = q[j - 1]
    <2>1. CASE k = i /\ r[k] = e
      BY <1>2, <1>8, <2>1
    <2>2. CASE k < i /\ k \in 1..Len(q) /\ r[k] = q[k]
      <3>1. j - 1 = k
        BY <1>3, <1>8, <2>2
      <3> QED
        BY <1>1, <1>8, <2>2, <3>1
    <2>3. CASE i < k /\ k - 1 \in 1..Len(q) /\ r[k] = q[k - 1]
      <3>1. j - 1 = k - 1
        BY <1>3, <1>8, <2>3
      <3> QED
        BY <3>1
    <2> QED
      BY <1>5, <2>1, <2>2, <2>3
  <1> QED
    BY <1>4, <1>6, <1>7, <1>8

(***************************************************************************)
(* __add_polled_handler: what is in the queue after it, and its order.     *)
(***************************************************************************)
LEMMA AddedElements ==
  ASSUME NEW q \in Seq(Element), NEW e \in Element, AddPolledHandler(q, e)
  PROVE  /\ queue' \in Seq(Element)
         /\ \A j \in DOMAIN queue' : queue'[j] = e \/ \E k \in DOMAIN q : queue'[j] = q[k]
         /\ HandlersOf(queue') = HandlersOf(q) \cup {e.handler}
         /\ Descending(q) => Descending(queue')
         /\ Distinct(q) /\ e.handler \notin HandlersOf(q) => Distinct(queue')
  <1>1. PICK i \in 1..(Len(q) + 1) : Slot(q, e.t, i) /\ queue' = InsertAt(q, i, e)
    BY DEF AddPolledHandler
  <1> DEFINE r == InsertAt(q, i, e)
  <1>2. Inserted(q, e, i, r)
    BY InsertedIsInserted
  <1> HIDE DEF r
  <1>3. r \in Seq(Element)
    BY <1>2 DEF Inserted
  <1>4. /\ \A j \in DOMAIN r : r[j] = e \/ \E k \in DOMAIN q : r[j] = q[k]
        /\ HandlersOf(r) = HandlersOf(q) \cup {e.handler}
    BY <1>2, InsertedHandlers
  <1>5. Descending(q) => Descending(r)
    BY <1>1, <1>2, InsertedDescending
  <1>6. Distinct(q) /\ e.handler \notin HandlersOf(q) => Distinct(r)
    BY <1>2, InsertedDistinct
  <1>7. queue' = r
    BY <1>1 DEF r
  <1>8. /\ HandlersOf(queue') = HandlersOf(r)
        /\ Descending(queue') = Descending(r)
        /\ Distinct(queue') = Distinct(r)
    BY <1>7 DEF HandlersOf, Descending, Distinct
  <1> QED
    BY <1>3, <1>4, <1>5, <1>6, <1>7, <1>8

-----------------------------------------------------------------------------
(***************************************************************************)
(* The queue without its last element, and the last element itself.        *)
(***************************************************************************)
LEMMA LastElement ==
  ASSUME PollTypeOK, Sorted, QueuedOnce, queue # <<>>
  PROVE  /\ Front(queue) \in Seq(Element)
         /\ Last(queue) \in Element
         /\ Last(queue).handler \in registered
         /\ Rate[Last(queue).handler] # 0
         /\ \E n \in DOMAIN queue : /\ Last(queue) = queue[n]
                                    /\ \A j \in DOMAIN queue : queue[n].t <= queue[j].t
         /\ \A j \in DOMAIN Front(queue) : j \in DOMAIN queue /\ Front(queue)[j] = queue[j]
         /\ Descending(Front(queue))
         /\ Distinct(Front(queue))
         /\ Last(queue).handler \notin HandlersOf(Front(queue))
         /\ HandlersOf(queue) = HandlersOf(Front(queue)) \cup {Last(queue).handler}
  <1> DEFINE n == Len(queue)
             f == Front(queue)
  <1>1. queue \in Seq(Element)
    BY DEF PollTypeOK
  <1>2. n \in Nat /\ DOMAIN queue = 1..n
    BY <1>1, LenProperties
  <1>3. /\ f \in Seq(Element) /\ Len(f) = n - 1 /\ \A j \in 1..(n - 1) : f[j] = queue[j]
        /\ Last(queue) = queue[n] /\ n \in DOMAIN queue
    BY <1>1, FrontElements
  <1>4. DOMAIN f = 1..(n - 1)
    BY <1>3, LenProperties
  <1>5. \A j \in 1..n : queue[j] \in Element
    BY <1>1, ElementOfSeq
  <1>6. \A j \in 1..n : queue[j].t \in Nat
    BY <1>5 DEF Element
  <1> HIDE DEF n, f
  <1>7. \A j \in 1..n : queue[n].t <= queue[j].t
    <2> SUFFICES ASSUME NEW j \in 1..n PROVE queue[n].t <= queue[j].t
      OBVIOUS
    <2>1. j < n \/ j = n
      BY <1>2
    <2> QED
      BY <1>2, <1>3, <1>6, <2>1 DEF Sorted, Descending
  <1>8. \A j \in DOMAIN f : j \in DOMAIN queue /\ j # n /\ f[j] = queue[j]
    BY <1>2, <1>3, <1>4
  <1>9. \A j \in DOMAIN queue : j = n \/ j \in DOMAIN f
    BY <1>2, <1>4
  <1>10. Descending(f)
    BY <1>8 DEF Sorted, Descending
  <1>11. Distinct(f)
    BY <1>8 DEF QueuedOnce, Distinct
  <1>12. queue[n].handler \notin HandlersOf(f)
    BY <1>3, <1>8 DEF QueuedOnce, Distinct, HandlersOf
  <1>13. HandlersOf(queue) = HandlersOf(f) \cup {queue[n].handler}
    BY <1>3, <1>8, <1>9 DEF HandlersOf
  <1>14. queue[n].handler \in {h \in registered : Rate[h] # 0}
    BY <1>3 DEF QueuedOnce, HandlersOf
  <1> QED
    BY <1>2, <1>3, <1>5, <1>7, <1>8, <1>10, <1>11, <1>12, <1>13, <1>14 DEF f

LEMMA PollInvInit == Init => PollInv
  <1> SUFFICES ASSUME Init PROVE PollInv
    OBVIOUS
  <1>1. queue \in Seq(Element) /\ DOMAIN queue = {}
    BY DEF Init
  <1>2. PollTypeOK
    BY <1>1 DEF Init, PollTypeOK
  <1>3. Sorted /\ NothingOverdue
    BY <1>1 DEF Sorted, Descending, NothingOverdue
  <1>4. QueuedOnce
    BY <1>1 DEF Init, QueuedOnce, Distinct, HandlersOf
  <1>5. RateRespected /\ Ahead
    BY <1>1 DEF Init, RateRespected, Ahead
  <1> QED
    BY <1>2, <1>3, <1>4, <1>5 DEF PollInv

LEMMA RegisterStep ==
  ASSUME PollInv, NEW h \in Handler, Register(h)
  PROVE  PollInv'
  <1> USE DEF PollInv
  <1>1. /\ h \notin registered /\ registered' = registered \cup {h}
        /\ since' = [since EXCEPT ![h] = now]
        /\ UNCHANGED <<pc, now, polls, polledAt, latest, checkedAt>>
        /\ pc = "starting"
    BY DEF Register
  <1>2. /\ since \in [Handler -> Nat] /\ polls \in [Handler -> Nat]
        /\ polledAt \in [Handler -> Nat] /\ now \in Nat /\ latest \in Nat
        /\ queue \in Seq(Element) /\ Rate[h] \in Nat
    BY RateAssumption DEF PollTypeOK
  <1>3. h \notin HandlersOf(queue)
    BY <1>1 DEF QueuedOnce
  <1>4. polls[h] = 0
    BY <1>1 DEF Ahead
  <1>5. \A i \in DOMAIN queue : queue[i] \in Element /\ queue[i].handler \in Handler
                                /\ queue[i].handler # h
    <2>1. \A i \in DOMAIN queue : queue[i] \in Element
      BY <1>2, ElementOfSeq, LenProperties
    <2> QED
      BY <1>3, <2>1 DEF Element, HandlersOf
  <1>6. /\ queue' \in Seq(Element) /\ Sorted' /\ QueuedOnce'
        /\ \A i \in DOMAIN queue' :
             \/ queue'[i] = [handler |-> h, t |-> now + Rate[h]]
             \/ \E k \in DOMAIN queue : queue'[i] = queue[k]
    <2>1. CASE Rate[h] # 0 /\ AddPolledHandler(queue, [handler |-> h, t |-> FirstTime(h)])
      <3> DEFINE e == [handler |-> h, t |-> now + Rate[h]]
      <3>1. e \in Element /\ e.handler = h
        BY <1>2 DEF Element
      <3>2. AddPolledHandler(queue, e)
        BY <2>1 DEF FirstTime
      <3> HIDE DEF e
      <3>3. /\ queue' \in Seq(Element)
            /\ \A j \in DOMAIN queue' : queue'[j] = e \/ \E k \in DOMAIN queue : queue'[j] = queue[k]
            /\ HandlersOf(queue') = HandlersOf(queue) \cup {h}
            /\ Descending(queue) => Descending(queue')
            /\ Distinct(queue) => Distinct(queue')
        BY <1>2, <1>3, <3>1, <3>2, AddedElements
      <3>4. Sorted'
        BY <3>3 DEF Sorted, Descending
      <3>5. HandlersOf(queue') = {g \in registered' : Rate[g] # 0}
        BY <1>1, <2>1, <3>3 DEF QueuedOnce
      <3>6. Distinct(queue')
        BY <3>3 DEF QueuedOnce
      <3>7. QueuedOnce'
        BY <3>5, <3>6 DEF QueuedOnce, Distinct, HandlersOf
      <3> QED
        BY <3>3, <3>4, <3>7 DEF e
    <2>2. CASE Rate[h] = 0 /\ UNCHANGED queue
      <3>1. Sorted'
        BY <2>2 DEF Sorted, Descending
      <3>2. QueuedOnce'
        BY <1>1, <2>2 DEF QueuedOnce, Distinct, HandlersOf
      <3> QED
        BY <1>2, <2>2, <3>1, <3>2
    <2> QED
      BY <2>1, <2>2 DEF Register
  <1>7. PollTypeOK'
    BY <1>1, <1>2, <1>6 DEF PollTypeOK
  <1>8. NothingOverdue'
    BY <1>1 DEF NothingOverdue
  <1>9. RateRespected'
    BY <1>1, <1>2, <1>4 DEF RateRespected
  <1>10. Ahead'
    <2>1. now' <= latest' /\ \A g \in Handler \ registered' : polls'[g] = 0
      BY <1>1 DEF Ahead
    <2>2. ASSUME NEW i \in DOMAIN queue'
          PROVE  LET g == queue'[i].handler
                 IN  /\ since'[g] + (polls'[g] + 1) * Rate[g] <= queue'[i].t
                     /\ polls'[g] > 0 => polledAt'[g] <= queue'[i].t
      <3>1. CASE queue'[i] = [handler |-> h, t |-> now + Rate[h]]
        <4>1. queue'[i].handler = h /\ queue'[i].t = now + Rate[h]
          BY <3>1
        <4>2. since'[h] = now /\ polls'[h] = 0 /\ (0 + 1) * Rate[h] = Rate[h]
          BY <1>1, <1>2, <1>4
        <4> QED
          BY <1>2, <4>1, <4>2
      <3>2. ASSUME NEW k \in DOMAIN queue, queue'[i] = queue[k]
            PROVE  LET g == queue'[i].handler
                   IN  /\ since'[g] + (polls'[g] + 1) * Rate[g] <= queue'[i].t
                       /\ polls'[g] > 0 => polledAt'[g] <= queue'[i].t
        <4>1. /\ since'[queue[k].handler] = since[queue[k].handler]
              /\ polls' = polls /\ polledAt' = polledAt
          BY <1>1, <1>2, <1>5
        <4> QED
          BY <3>2, <4>1 DEF Ahead
      <3> QED
        BY <1>6, <3>1, <3>2
    <2> QED
      BY <2>1, <2>2 DEF Ahead
  <1> QED
    BY <1>6, <1>7, <1>8, <1>9, <1>10

(* One more poll costs one more rate. *)
LEMMA OneMoreRate ==
  ASSUME NEW n \in Nat, NEW rate \in Nat
  PROVE  n * rate \in Nat /\ (n + 1) * rate = n * rate + rate /\ (n + 1) * rate \in Nat
  OBVIOUS

LEMMA PollStep ==
  ASSUME PollInv, Poll
  PROVE  PollInv'
  <1> USE DEF PollInv
  <1> DEFINE e == Last(queue)
             h == e.handler
             t == NextTime(e)
  <1>1. /\ queue # <<>> /\ e.t < now /\ pc = "polling"
        /\ AddPolledHandler(Front(queue), [e EXCEPT !.t = t])
        /\ polls' = [polls EXCEPT ![h] = @ + 1]
        /\ polledAt' = [polledAt EXCEPT ![h] = now]
        /\ UNCHANGED <<pc, now, registered, since, latest, checkedAt>>
    BY DEF Poll, Due, Requeue
  <1>2. /\ since \in [Handler -> Nat] /\ polls \in [Handler -> Nat]
        /\ polledAt \in [Handler -> Nat] /\ now \in Nat /\ latest \in Nat
        /\ queue \in Seq(Element)
    BY DEF PollTypeOK
  <1>3. /\ Front(queue) \in Seq(Element)
        /\ e \in Element
        /\ h \in registered /\ Rate[h] # 0
        /\ \E n \in DOMAIN queue : e = queue[n] /\ \A j \in DOMAIN queue : queue[n].t <= queue[j].t
        /\ \A j \in DOMAIN Front(queue) : j \in DOMAIN queue /\ Front(queue)[j] = queue[j]
        /\ Descending(Front(queue))
        /\ Distinct(Front(queue))
        /\ h \notin HandlersOf(Front(queue))
        /\ HandlersOf(queue) = HandlersOf(Front(queue)) \cup {h}
    BY <1>1, LastElement
  <1>4. h \in Handler /\ e.t \in Nat /\ Rate[h] \in Nat
    BY <1>3, RateAssumption DEF Element
  <1>5. t \in Nat /\ t >= e.t + Rate[h] /\ t >= now
    <2>1. t = IF e.t + Rate[h] < now THEN now + Rate[h] ELSE e.t + Rate[h]
      BY DEF NextTime
    <2>2. e.t < now
      BY <1>1
    <2> HIDE DEF t, h, e
    <2> QED
      BY <1>2, <1>4, <2>1, <2>2
  <1> DEFINE f == [e EXCEPT !.t = t]
  <1>6. f \in Element /\ f.handler = h /\ f.t = t
    BY <1>3, <1>5 DEF Element
  <1>7. AddPolledHandler(Front(queue), f)
    BY <1>1
  <1> HIDE DEF e, h, t, f
  <1>8. /\ queue' \in Seq(Element)
        /\ \A j \in DOMAIN queue' : queue'[j] = f \/ \E k \in DOMAIN Front(queue) : queue'[j] = Front(queue)[k]
        /\ HandlersOf(queue') = HandlersOf(queue)
        /\ Descending(queue')
        /\ Distinct(queue')
    <2> DEFINE fr == Front(queue)
    <2>1. fr \in Seq(Element) /\ f \in Element /\ AddPolledHandler(fr, f)
      BY <1>3, <1>6, <1>7
    <2>2. Descending(fr) /\ Distinct(fr) /\ f.handler \notin HandlersOf(fr)
      BY <1>3, <1>6
    <2> HIDE DEF fr
    <2>3. /\ queue' \in Seq(Element)
          /\ \A j \in DOMAIN queue' : queue'[j] = f \/ \E k \in DOMAIN fr : queue'[j] = fr[k]
          /\ HandlersOf(queue') = HandlersOf(fr) \cup {f.handler}
          /\ Descending(queue')
          /\ Distinct(queue')
      BY <2>1, <2>2, AddedElements
    <2> QED
      BY <1>3, <1>6, <2>3 DEF fr
  <1>9. ASSUME NEW j \in DOMAIN queue'
        PROVE  \/ queue'[j].handler = h /\ queue'[j].t = t
               \/ /\ queue'[j].handler # h
                  /\ \E k \in DOMAIN queue : queue'[j] = queue[k]
    <2>1. CASE queue'[j] = f
      BY <1>6, <2>1
    <2>2. ASSUME NEW k \in DOMAIN Front(queue), queue'[j] = Front(queue)[k]
          PROVE  queue'[j].handler # h /\ \E n \in DOMAIN queue : queue'[j] = queue[n]
      BY <1>3, <2>2 DEF HandlersOf
    <2> QED
      BY <1>8, <2>1, <2>2
  <1>10. Sorted'
    BY <1>8 DEF Sorted, Descending
  <1>11. QueuedOnce'
    <2>1. HandlersOf(queue') = {g \in registered' : Rate[g] # 0}
      BY <1>1, <1>8 DEF QueuedOnce
    <2> QED
      BY <1>8, <2>1 DEF QueuedOnce, Distinct, HandlersOf
  <1>12. PollTypeOK'
    BY <1>1, <1>2, <1>4, <1>8 DEF PollTypeOK
  <1>13. NothingOverdue'
    BY <1>1 DEF NothingOverdue
  <1>14. /\ polls'[h] = polls[h] + 1 /\ polledAt'[h] = now
         /\ \A g \in Handler \ {h} : polls'[g] = polls[g] /\ polledAt'[g] = polledAt[g]
         /\ since' = since /\ polls[h] \in Nat /\ since[h] \in Nat
    BY <1>1, <1>2, <1>4
  <1>15. since[h] + (polls[h] + 1) * Rate[h] <= e.t
    BY <1>3 DEF Ahead, h
  <1>16. /\ (polls[h] + 1) * Rate[h] \in Nat
         /\ ((polls[h] + 1) + 1) * Rate[h] = (polls[h] + 1) * Rate[h] + Rate[h]
    <2>1. polls[h] + 1 \in Nat
      BY <1>14
    <2> QED
      BY <1>4, <2>1, OneMoreRate
  <1>17. RateRespected'
    <2> SUFFICES ASSUME NEW g \in Handler, polls'[g] > 0
                 PROVE  since'[g] + polls'[g] * Rate[g] < latest'
      BY DEF RateRespected
    <2>1. CASE g = h
      <3>1. now <= latest
        BY DEF Ahead
      <3>2. since[h] + (polls[h] + 1) * Rate[h] < latest
        BY <1>1, <1>2, <1>4, <1>14, <1>15, <1>16, <3>1 DEF e
      <3> QED
        BY <1>1, <1>14, <2>1, <3>2
    <2>2. CASE g # h
      BY <1>1, <1>14, <2>2 DEF RateRespected
    <2> QED
      BY <2>1, <2>2
  <1>18. Ahead'
    <2>1. now' <= latest'
      BY <1>1 DEF Ahead
    <2>2. \A g \in Handler \ registered' : polls'[g] = 0
      BY <1>1, <1>3, <1>14 DEF Ahead
    <2>3. ASSUME NEW i \in DOMAIN queue'
          PROVE  LET g == queue'[i].handler
                 IN  /\ since'[g] + (polls'[g] + 1) * Rate[g] <= queue'[i].t
                     /\ polls'[g] > 0 => polledAt'[g] <= queue'[i].t
      <3>1. CASE queue'[i].handler = h /\ queue'[i].t = t
        <4>1. since[h] + ((polls[h] + 1) + 1) * Rate[h] <= t
          BY <1>4, <1>5, <1>14, <1>15, <1>16
        <4> QED
          BY <1>5, <1>14, <3>1, <4>1
      <3>2. ASSUME queue'[i].handler # h, NEW k \in DOMAIN queue, queue'[i] = queue[k]
            PROVE  LET g == queue'[i].handler
                   IN  /\ since'[g] + (polls'[g] + 1) * Rate[g] <= queue'[i].t
                       /\ polls'[g] > 0 => polledAt'[g] <= queue'[i].t
        <4>1. queue[k].handler \in Handler
          <5>1. queue[k] \in Element
            BY <1>2, ElementOfSeq, LenProperties
          <5> QED
            BY <5>1 DEF Element
        <4>2. /\ polls'[queue[k].handler] = polls[queue[k].handler]
              /\ polledAt'[queue[k].handler] = polledAt[queue[k].handler]
          BY <1>14, <3>2, <4>1
        <4> QED
          BY <1>14, <3>2, <4>2 DEF Ahead
      <3> QED
        BY <1>9, <3>1, <3>2
    <2> QED
      BY <2>1, <2>2, <2>3 DEF Ahead
  <1> QED
    BY <1>10, <1>11, <1>12, <1>13, <1>17, <1>18

(* The loop ends when the last element is not due, and then none is. *)
LEMMA NoneDueStep ==
  ASSUME PollInv, NoneDue
  PROVE  PollInv'
  <1> USE DEF PollInv
  <1>1. /\ ~Due /\ pc' = "waiting" /\ checkedAt' = now
        /\ UNCHANGED <<queue, now, registered, since, polls, polledAt, latest>>
    BY DEF NoneDue
  <1>2. PollTypeOK'
    BY <1>1 DEF PollTypeOK
  <1>3. Sorted' /\ QueuedOnce' /\ RateRespected' /\ Ahead'
    BY <1>1 DEF Sorted, Descending, QueuedOnce, Distinct, HandlersOf, RateRespected, Ahead
  <1>4. NothingOverdue'
    <2>1. CASE queue = <<>>
      BY <1>1, <2>1 DEF NothingOverdue
    <2>2. CASE queue # <<>>
      <3>1. PICK n \in DOMAIN queue :
              Last(queue) = queue[n] /\ \A j \in DOMAIN queue : queue[n].t <= queue[j].t
        BY <2>2, LastElement
      <3>2. ~(queue[n].t < now)
        BY <1>1, <2>2, <3>1 DEF Due
      <3>3. \A j \in DOMAIN queue : queue[j].t \in Nat
        <4>1. \A j \in DOMAIN queue : queue[j] \in Element
          BY ElementOfSeq, LenProperties DEF PollTypeOK
        <4> QED
          BY <4>1 DEF Element
      <3>4. now \in Nat
        BY DEF PollTypeOK
      <3>5. \A j \in DOMAIN queue : queue[j].t >= now
        BY <3>1, <3>2, <3>3, <3>4
      <3> QED
        BY <1>1, <3>5 DEF NothingOverdue
    <2> QED
      BY <2>1, <2>2
  <1> QED
    BY <1>2, <1>3, <1>4

LEMMA ClockStep ==
  ASSUME PollInv, Clock
  PROVE  PollInv'
  <1> USE DEF PollInv
  <1>1. /\ now' \in Nat /\ latest' \in Nat /\ now' <= latest' /\ latest <= latest'
        /\ latest \in Nat
        /\ UNCHANGED <<pc, queue, registered, since, polls, polledAt, checkedAt>>
    BY TimeAssumption DEF Clock, PollTypeOK
  <1>2. PollTypeOK'
    BY <1>1 DEF PollTypeOK
  <1>3. Sorted' /\ QueuedOnce' /\ NothingOverdue' /\ Ahead'
    BY <1>1 DEF Sorted, Descending, QueuedOnce, Distinct, HandlersOf, NothingOverdue, Ahead
  <1>4. RateRespected'
    <2> SUFFICES ASSUME NEW h \in Handler, polls[h] > 0
                 PROVE  since[h] + polls[h] * Rate[h] < latest'
      BY <1>1 DEF RateRespected
    <2>1. since[h] \in Nat /\ polls[h] * Rate[h] \in Nat
      BY RateAssumption, OneMoreRate DEF PollTypeOK
    <2>2. since[h] + polls[h] * Rate[h] < latest
      BY DEF RateRespected
    <2> QED
      BY <1>1, <2>1, <2>2
  <1> QED
    BY <1>2, <1>3, <1>4

LEMMA QuietStep ==
  ASSUME PollInv, Start \/ NextRound \/ UNCHANGED vars
  PROVE  PollInv'
  <1> USE DEF PollInv
  <1>1. /\ pc' \in {"starting", "polling", "waiting"}
        /\ pc' = "waiting" => pc = "waiting"
        /\ UNCHANGED <<queue, now, registered, since, polls, polledAt, latest, checkedAt>>
    BY DEF Start, NextRound, vars, PollTypeOK
  <1>2. PollTypeOK'
    BY <1>1 DEF PollTypeOK
  <1>3. Sorted' /\ QueuedOnce' /\ NothingOverdue' /\ RateRespected' /\ Ahead'
    BY <1>1 DEF Sorted, Descending, QueuedOnce, Distinct, HandlersOf, NothingOverdue,
                RateRespected, Ahead
  <1> QED
    BY <1>2, <1>3

-----------------------------------------------------------------------------
(***************************************************************************)
(* The invariant holds, for any handlers and rates.                        *)
(***************************************************************************)
THEOREM PollInvariant == Spec => []PollInv
  <1>1. PollInv /\ [Next]_vars => PollInv'
    BY RegisterStep, PollStep, NoneDueStep, ClockStep, QuietStep DEF Next
  <1> QED
    BY PollInvInit, <1>1, PTL DEF Spec

(* The state keeps its types: in particular the times in the queue stay     *)
(* natural numbers, however the clock is set.                              *)
THEOREM PollTypeCorrect == Spec => []PollTypeOK
  BY PollInvariant, PTL DEF PollInv

(* A polled handler is neither lost nor doubled when it is taken off the   *)
(* end of the queue and put back at its next time.                         *)
THEOREM EachQueuedOnce == Spec => []QueuedOnce
  BY PollInvariant, PTL DEF PollInv

(* The loop looks at the last element only, and yet no handler is overdue  *)
(* when it ends, because the queue is in order.                            *)
THEOREM NoneLeftOverdue == Spec => []NothingOverdue
  BY PollInvariant, PTL DEF PollInv

(* However late a handler is polled and however the clock is set, it is    *)
(* not polled more often than its rate allows.                             *)
THEOREM RateIsRespected == Spec => []RateRespected
  BY PollInvariant, PTL DEF PollInv

(* No poll before the handler's time, and no handler is passed over: the   *)
(* order of the queue is the order in which handlers fall due.             *)
THEOREM PollsEarliestFirst == Spec => EarliestFirst
  <1>1. PollInv /\ [Next]_vars =>
          [\A h \in Handler : Polled(h) =>
             \E i \in DOMAIN queue :
               /\ queue[i].handler = h
               /\ \A j \in DOMAIN queue : queue[i].t <= queue[j].t]_vars
    <2> SUFFICES ASSUME PollInv, Next, NEW h \in Handler, Polled(h)
                 PROVE  \E i \in DOMAIN queue :
                          /\ queue[i].handler = h
                          /\ \A j \in DOMAIN queue : queue[i].t <= queue[j].t
      OBVIOUS
    <2>1. Poll
      BY DEF Next, Polled, Register, Start, NoneDue, NextRound, Clock
    <2>2. queue # <<>> /\ polls' = [polls EXCEPT ![Last(queue).handler] = @ + 1]
      BY <2>1 DEF Poll, Due
    <2>3. h = Last(queue).handler
      BY <2>2 DEF Polled, PollInv, PollTypeOK
    <2> QED
      BY <2>2, <2>3, LastElement DEF PollInv
  <1> QED
    BY PollInvariant, <1>1, PTL DEF Spec, EarliestFirst

(* No handler is polled twice while the clock stands still, so the loop    *)
(* that polls until nothing is due does not go round and round.            *)
THEOREM PollsOncePerInstant == Spec => PolledOncePerInstant
  <1>1. PollInv /\ [Next]_vars =>
          [\A h \in Handler : Polled(h) => polls[h] = 0 \/ polledAt[h] < now]_vars
    <2> SUFFICES ASSUME PollInv, Next, NEW h \in Handler, Polled(h)
                 PROVE  polls[h] = 0 \/ polledAt[h] < now
      OBVIOUS
    <2>1. Poll
      BY DEF Next, Polled, Register, Start, NoneDue, NextRound, Clock
    <2>2. /\ queue # <<>> /\ Last(queue).t < now
          /\ polls' = [polls EXCEPT ![Last(queue).handler] = @ + 1]
      BY <2>1 DEF Poll, Due
    <2>3. h = Last(queue).handler
      BY <2>2 DEF Polled, PollInv, PollTypeOK
    <2>4. Last(queue) \in Element /\ \E n \in DOMAIN queue : Last(queue) = queue[n]
      BY <2>2, LastElement DEF PollInv
    <2>5. polls[h] > 0 => polledAt[h] <= Last(queue).t
      BY <2>3, <2>4 DEF PollInv, Ahead
    <2>6. Last(queue).t \in Nat /\ polls[h] \in Nat /\ polledAt[h] \in Nat /\ now \in Nat
      BY <2>4 DEF Element, PollInv, PollTypeOK
    <2> QED
      BY <2>2, <2>5, <2>6
  <1> QED
    BY PollInvariant, <1>1, PTL DEF Spec, PolledOncePerInstant
=============================================================================
