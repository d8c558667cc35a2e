----------------------------- MODULE PollQueue -----------------------------
(***************************************************************************)
(* The queue of polled handlers of the node, src/bitcoin/node.py: handlers *)
(* ordered by the time at which they are next due, the earliest last.      *)
(*                                                                         *)
(* The clock is time.time(): it moves between any two readings and may be  *)
(* set back.  The history variables record what has been polled when.      *)
(***************************************************************************)
EXTENDS SequencesExt

CONSTANTS Handler, \* the handlers that are registered
          Rate,    \* polling_rate() of each, 0 if it is not polled
          MaxTime  \* bound: the clock stays below it

ASSUME RateAssumption == Rate \in [Handler -> Nat]
ASSUME TimeAssumption == MaxTime \in Nat

VARIABLES
  pc,          \* "starting": handlers register; "polling"; "waiting" elsewhere
  queue,       \* __handlers_queue
  now,         \* the clock
  registered,  \* the handlers registered so far
  (* history *)
  since,       \* when each handler was registered
  polls,       \* how often it was polled
  polledAt,    \* when it was polled last
  latest,      \* the latest time the clock has shown
  checkedAt    \* when the poll loop found no handler due

vars == <<pc, queue, now, registered, since, polls, polledAt, latest, checkedAt>>

Element == [handler : Handler, t : Nat]

(* Type correctness: what is in the queue is a handler with a time. *)
PollTypeOK ==
  /\ pc \in {"starting", "polling", "waiting"}
  /\ queue \in Seq(Element)
  /\ now \in Nat /\ latest \in Nat /\ checkedAt \in Nat
  /\ registered \subseteq Handler
  /\ since \in [Handler -> Nat]
  /\ polls \in [Handler -> Nat]
  /\ polledAt \in [Handler -> Nat]

Init ==
  /\ pc = "starting"
  /\ queue = <<>>
  /\ now = 0 /\ latest = 0 /\ checkedAt = 0
  /\ registered = {}
  /\ since = [h \in Handler |-> 0]
  /\ polls = [h \in Handler |-> 0]
  /\ polledAt = [h \in Handler |-> 0]

(***************************************************************************)
(* __add_polled_handler: from the end of the queue, past the elements that *)
(* are due before t.                                                       *)
(***************************************************************************)
Slot_Mutant(q, t, i) ==
  /\ \A j \in i..Len(q) : q[j].t > t
  /\ i > 1 => q[i - 1].t <= t

Slot(q, t, i) ==
  /\ \A j \in i..Len(q) : q[j].t < t
  /\ i > 1 => q[i - 1].t >= t

AddPolledHandler_Mutant(q, e) ==
  \E i \in 1..(Len(q) + 1) :
    /\ Slot(q, e.t, i)
    /\ queue' = InsertAt(q, i, e.handler)

AddPolledHandler(q, e) ==
  \E i \in 1..(Len(q) + 1) :
    /\ Slot(q, e.t, i)
    /\ queue' = InsertAt(q, i, e)

(* __register_handler: a handler without a rate is not polled. *)
FirstTime_Mutant(h) == now

FirstTime(h) == now + Rate[h]

Register(h) ==
  /\ pc = "starting"
  /\ h \notin registered
  /\ registered' = registered \cup {h}
  /\ \/ Rate[h] # 0 /\ AddPolledHandler(queue, [handler |-> h, t |-> FirstTime(h)])
     \/ Rate[h] = 0 /\ UNCHANGED queue
  /\ since' = [since EXCEPT ![h] = now]
  /\ UNCHANGED <<pc, now, polls, polledAt, latest, checkedAt>>

Start ==
  /\ pc = "starting"
  /\ pc' = "polling"
  /\ UNCHANGED <<queue, now, registered, since, polls, polledAt, latest, checkedAt>>

(***************************************************************************)
(* __get_polled_handler: the last element, if its time has come, is moved  *)
(* to its next time, which is not in the past.                             *)
(***************************************************************************)
NextTime_Mutant(e) == e.t + Rate[e.handler]

NextTime(e) ==
  LET t == e.t + Rate[e.handler]
  IN  IF t < now THEN now + Rate[e.handler] ELSE t

Due == queue # <<>> /\ Last(queue).t < now

Requeue_Mutant(e) == queue' = Front(queue)

Requeue(e) == AddPolledHandler(Front(queue), [e EXCEPT !.t = NextTime(e)])

Poll ==
  /\ pc = "polling"
  /\ Due
  /\ LET e == Last(queue)
     IN  /\ Requeue(e)
         /\ polls' = [polls EXCEPT ![e.handler] = @ + 1]
         /\ polledAt' = [polledAt EXCEPT ![e.handler] = now]
  /\ UNCHANGED <<pc, now, registered, since, latest, checkedAt>>

NoneDue ==
  /\ pc = "polling"
  /\ ~Due
  /\ pc' = "waiting"
  /\ checkedAt' = now
  /\ UNCHANGED <<queue, now, registered, since, polls, polledAt, latest>>

(* The rest of the node's main loop. *)
NextRound ==
  /\ pc = "waiting"
  /\ pc' = "polling"
  /\ UNCHANGED <<queue, now, registered, since, polls, polledAt, latest, checkedAt>>

Clock ==
  /\ now' \in 0..MaxTime
  /\ latest' = IF now' > latest THEN now' ELSE latest
  /\ UNCHANGED <<pc, queue, registered, since, polls, polledAt, checkedAt>>

Next ==
  \/ \E h \in Handler : Register(h)
  \/ Start
  \/ Poll
  \/ NoneDue
  \/ NextRound
  \/ Clock

Spec == Init /\ [][Next]_vars

-----------------------------------------------------------------------------
(***************************************************************************)
(* Safety.                                                                 *)
(***************************************************************************)
Descending(q) == \A i, j \in DOMAIN q : i < j => q[i].t >= q[j].t

(* The queue is in order, the earliest last. *)
Sorted == Descending(queue)

(* A polled handler is in the queue once; it is neither lost nor doubled    *)
(* when it is moved.                                                        *)
Distinct(q) == \A i, j \in DOMAIN q : q[i].handler = q[j].handler => i = j

HandlersOf(q) == {q[i].handler : i \in DOMAIN q}

QueuedOnce ==
  /\ Distinct(queue)
  /\ HandlersOf(queue) = {h \in registered : Rate[h] # 0}

(* When the loop ends no handler is overdue, not only the one it looked at. *)
NothingOverdue ==
  pc = "waiting" => \A i \in DOMAIN queue : queue[i].t >= checkedAt

(* However late it is polled, a handler is not polled more often than its   *)
(* rate allows for the time since it was registered.                        *)
RateRespected ==
  \A h \in Handler :
    polls[h] > 0 => since[h] + polls[h] * Rate[h] < latest

(* The inductive invariant: besides, the time at which a handler is next    *)
(* due is at least one rate ahead for every poll since it was registered.   *)
Ahead ==
  /\ now <= latest
  /\ \A h \in Handler \ registered : polls[h] = 0
  /\ \A i \in DOMAIN queue :
       LET h == queue[i].handler
       IN  /\ since[h] + (polls[h] + 1) * Rate[h] <= queue[i].t
           /\ polls[h] > 0 => polledAt[h] <= queue[i].t

(* All of it together: what the safety properties follow from. *)
PollInv ==
  /\ PollTypeOK
  /\ Sorted
  /\ QueuedOnce
  /\ NothingOverdue
  /\ RateRespected
  /\ Ahead

(* The handler that is polled is the one that has waited longest. *)
Polled(h) == polls'[h] # polls[h]

EarliestFirst ==
  [][\A h \in Handler : Polled(h) =>
       \E i \in DOMAIN queue :
         /\ queue[i].handler = h
         /\ \A j \in DOMAIN queue : queue[i].t <= queue[j].t]_vars

(* A handler is polled at a later time than before: while the clock stands  *)
(* still the loop polls each handler once at most, and so it ends.          *)
PolledOncePerInstant ==
  [][\A h \in Handler : Polled(h) => polls[h] = 0 \/ polledAt[h] < now]_vars
=============================================================================
