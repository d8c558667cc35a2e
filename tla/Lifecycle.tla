----------------------------- MODULE Lifecycle ------------------------------
(***************************************************************************)
(* The processes of the program from start to end: main, which starts the  *)
(* log server and the node, src/pickcluter.py; the node, which starts the  *)
(* network process, src/bitcoin/node.py; and what they are made of, the    *)
(* queues, the start code, shutdown and the log of                         *)
(* src/logmanager/logmanager.py.                                           *)
(*                                                                         *)
(* A multiprocessing queue is a buffer in each process that puts, emptied  *)
(* by a feeder thread into a pipe, which holds PipeSize items.  What the   *)
(* node and the network process do between start and end is cut down to    *)
(* the items they put: PickCluster models the rest.                        *)
(***************************************************************************)
EXTENDS Naturals, SequencesExt

CONSTANTS PipeSize,    \* what a pipe holds, in items
          MaxRecords,  \* bound: the records logged between start and end
          MaxCommands, \* bound: the commands the node puts before shutdown
          MaxEvents    \* bound: the events the network process puts

ASSUME PipeAssumption   == PipeSize \in Nat \ {0}
ASSUME BoundsAssumption == MaxRecords \in Nat /\ MaxCommands \in Nat /\ MaxEvents \in Nat

Logging == {"main", "node", "network"}

(* Queues, and the pairs of a process and a queue it puts to.               *)
Queue  == {"log", "nodeIn", "nodeOut", "netIn", "netOut"}
Feeder == (Logging \X {"log"}) \cup
          {<<"main", "nodeIn">>, <<"node", "nodeOut">>,
           <<"node", "netIn">>, <<"network", "netOut">>}

VARIABLES
  pc,      \* where each process is
  buffer,  \* what each feeder thread has still to write
  pipe,    \* what can be read from each queue
  written, \* the records of each process in the log file
  (* history and bounds *)
  logged,  \* how many records each process has logged
  puts,    \* how many commands, events and records were put, for the bounds
  faults   \* processes that failed to start, or to start what they need

vars == <<pc, buffer, pipe, written, logged, puts, faults>>

Record  == [by : Logging, n : Nat]
None    == [by |-> "none", n |-> 0]

Place ==
  [main    : {"unborn", "loaded", "starting", "running", "joining", "closing",
              "reaping", "ended"},
   node    : {"unborn", "booting", "starting", "running", "joining", "failing",
              "exiting", "ended"},
   network : {"unborn", "booting", "running", "exiting", "ended"},
   server  : {"unborn", "booting", "running", "ended"}]

Item(q) ==
  CASE q = "log"     -> Record \cup {None}
    [] q = "nodeIn"  -> {"shutdown"}
    [] q = "nodeOut" -> {"start"}
    [] q = "netIn"   -> {"command", "shutdown"}
    [] q = "netOut"  -> {"start", "event"}

(* Type correctness of the processes and their queues: each has items of    *)
(* its own, and a pipe never holds more than fits.                          *)
LifecycleTypeOK ==
  /\ pc \in Place
  /\ buffer = [f \in Feeder |-> buffer[f]]
  /\ \A f \in Feeder : buffer[f] \in Seq(Item(f[2]))
  /\ pipe = [q \in Queue |-> pipe[q]]
  /\ \A q \in Queue : pipe[q] \in Seq(Item(q)) /\ Len(pipe[q]) <= PipeSize
  /\ written \in [Logging -> Seq(Record)]
  /\ logged \in [Logging -> Nat]
  /\ puts \in [{"node", "network", "log"} -> Nat]
  /\ faults \subseteq {"main", "node", "server"}

Init ==
  /\ pc = [main |-> "unborn", node |-> "unborn", network |-> "unborn",
           server |-> "unborn"]
  /\ buffer = [f \in Feeder |-> <<>>]
  /\ pipe = [q \in Queue |-> <<>>]
  /\ written = [p \in Logging |-> <<>>]
  /\ logged = [p \in Logging |-> 0]
  /\ puts = [p \in {"node", "network", "log"} |-> 0]
  /\ faults = {}

-----------------------------------------------------------------------------
(***************************************************************************)
(* Queues.                                                                 *)
(***************************************************************************)
(* Process p puts items to queue q and logs so many records.  (Each of them *)
(* is put once for every handler p has, its own and those of the processes  *)
(* it was forked from; here the copies are one item.)                       *)
PutAndLog(p, q, items, records) ==
  LET new == [i \in 1..records |-> [by |-> p, n |-> logged[p] + i]]
  IN  /\ buffer' = [f \in Feeder |->
                      buffer[f] \o CASE f = <<p, "log">> -> new
                                     [] f = <<p, q>> /\ q # "log" -> items
                                     [] OTHER -> <<>>]
      /\ logged' = [logged EXCEPT ![p] = @ + records]

Log(p, records) == PutAndLog(p, "log", <<>>, records)

Put(p, q, item) ==
  /\ buffer' = [buffer EXCEPT ![<<p, q>>] = Append(@, item)]
  /\ UNCHANGED logged

Got(q, item) ==
  /\ pipe[q] # <<>>
  /\ Head(pipe[q]) = item
  /\ pipe' = [pipe EXCEPT ![q] = Tail(@)]

(* The feeder thread: it is a daemon, and ends with its process.            *)
Feed(f) ==
  LET q == f[2]
  IN  /\ pc[f[1]] # "ended"
      /\ buffer[f] # <<>>
      /\ Len(pipe[q]) < PipeSize
      /\ pipe' = [pipe EXCEPT ![q] = Append(@, Head(buffer[f]))]
      /\ buffer' = [buffer EXCEPT ![f] = Tail(@)]
  /\ UNCHANGED <<pc, written, logged, puts, faults>>

(* At its end a process waits for the feeder threads of the queues that     *)
(* were made by another process.                                            *)
Flushed_Mutant(p) == \A q \in {"nodeOut", "netOut"} :
                       <<p, q>> \in Feeder => buffer[<<p, q>>] = <<>>

Flushed(p) == \A q \in {"log", "nodeOut", "netOut"} :
                <<p, q>> \in Feeder => buffer[<<p, q>>] = <<>>

Go(p, from, to) ==
  /\ pc[p] = from
  /\ pc' = [pc EXCEPT ![p] = to]

-----------------------------------------------------------------------------
(***************************************************************************)
(* Main.  start() takes the start code, and raises when there is none for  *)
(* two seconds.  At the end the functions registered with atexit are       *)
(* called, the latest first: stop_log_server, then the one of              *)
(* multiprocessing, which joins the processes that are left.               *)
(***************************************************************************)
StartLogServer ==
  /\ pc.main = "unborn"
  /\ pc' = [pc EXCEPT !.main = "loaded", !.server = "booting"]
  /\ Log("main", 1)
  /\ UNCHANGED <<pipe, written, puts, faults>>

StartNode ==
  /\ pc.main = "loaded"
  /\ pc' = [pc EXCEPT !.main = "starting", !.node = "booting"]
  /\ UNCHANGED <<buffer, pipe, written, logged, puts, faults>>

NodeIsUp ==
  /\ Go("main", "starting", "running")
  /\ Got("nodeOut", "start")
  /\ UNCHANGED <<buffer, written, logged, puts, faults>>

NodeTimesOut ==
  /\ Go("main", "starting", "closing")
  /\ pipe["nodeOut"] = <<>>
  /\ Put("main", "log", None)
  /\ faults' = faults \cup {"main"}
  /\ UNCHANGED <<pipe, written, puts>>

(* Node.shutdown(): a line has been read. *)
Shutdown ==
  /\ Go("main", "running", "joining")
  /\ PutAndLog("main", "nodeIn", <<"shutdown">>, 1)
  /\ UNCHANGED <<pipe, written, puts, faults>>

Joined(p) == pc[p] = "ended"

NodeJoined ==
  /\ Go("main", "joining", "closing")
  /\ Joined("node")
  /\ Put("main", "log", None)
  /\ UNCHANGED <<pipe, written, puts, faults>>

ServerJoined ==
  /\ Go("main", "closing", "reaping")
  /\ Joined("server")
  /\ UNCHANGED <<buffer, pipe, written, logged, puts, faults>>

MainEnds ==
  /\ Go("main", "reaping", "ended")
  /\ Joined("node")
  /\ UNCHANGED <<buffer, pipe, written, logged, puts, faults>>

-----------------------------------------------------------------------------
(***************************************************************************)
(* The log server.                                                         *)
(***************************************************************************)
ServerOpens ==
  /\ Go("server", "booting", "running")
  /\ UNCHANGED <<buffer, pipe, written, logged, puts, faults>>

(* The directory or the file cannot be made. *)
ServerFails ==
  /\ Go("server", "booting", "ended")
  /\ faults' = faults \cup {"server"}
  /\ UNCHANGED <<buffer, pipe, written, logged, puts>>

ServerWrites ==
  /\ pc.server = "running"
  /\ pipe["log"] # <<>>
  /\ LET record == Head(pipe["log"])
     IN  /\ record # None
         /\ Got("log", record)
         /\ written' = [written EXCEPT ![record.by] = Append(@, record)]
  /\ UNCHANGED <<pc, buffer, logged, puts, faults>>

ServerEnds ==
  /\ Go("server", "running", "ended")
  /\ Got("log", None)
  /\ UNCHANGED <<buffer, written, logged, puts, faults>>

-----------------------------------------------------------------------------
(***************************************************************************)
(* The node.  __at_start() is outside the try statement of _execute(): if  *)
(* the network process does not answer in time, nobody shuts it down.      *)
(***************************************************************************)
NodeBoots ==
  /\ pc.node = "booting"
  /\ pc' = [pc EXCEPT !.node = "starting", !.network = "booting"]
  /\ PutAndLog("node", "nodeOut", <<"start">>, 1)
  /\ UNCHANGED <<pipe, written, puts, faults>>

NetworkIsUp ==
  /\ Go("node", "starting", "running")
  /\ Got("netOut", "start")
  /\ UNCHANGED <<buffer, written, logged, puts, faults>>

NetworkTimesOut ==
  /\ Go("node", "starting", "exiting")
  /\ pipe["netOut"] = <<>>
  /\ Log("node", 1)
  /\ faults' = faults \cup {"node"}
  /\ UNCHANGED <<pipe, written, puts>>

NodeCommands ==
  /\ pc.node = "running"
  /\ puts["node"] < MaxCommands
  /\ puts' = [puts EXCEPT !["node"] = @ + 1]
  /\ Put("node", "netIn", "command")
  /\ UNCHANGED <<pc, pipe, written, faults>>

NodeTakesEvent ==
  /\ pc.node = "running"
  /\ Got("netOut", "event")
  /\ UNCHANGED <<pc, buffer, written, logged, puts, faults>>

(* PeerManager.shutdown() puts its command and joins the network process.   *)
NodeShutsDown ==
  /\ Go("node", "running", "joining")
  /\ Got("nodeIn", "shutdown")
  /\ Put("node", "netIn", "shutdown")
  /\ UNCHANGED <<written, puts, faults>>

(* An exception: the finally clause shuts the network process down first.   *)
NodeFails_Mutant ==
  /\ Go("node", "running", "failing")
  /\ UNCHANGED <<buffer, pipe, written, logged, puts, faults>>

NodeFails ==
  /\ Go("node", "running", "failing")
  /\ Put("node", "netIn", "shutdown")
  /\ UNCHANGED <<pipe, written, puts, faults>>

(* The finally clause calls shutdown() a second time. *)
NetworkJoined ==
  /\ Go("node", "joining", "exiting")
  /\ Joined("network")
  /\ Put("node", "netIn", "shutdown")
  /\ UNCHANGED <<pipe, written, puts, faults>>

NetworkJoinedFailing ==
  /\ Go("node", "failing", "exiting")
  /\ Joined("network")
  /\ Log("node", 1)
  /\ UNCHANGED <<pipe, written, puts, faults>>

NodeEnds ==
  /\ Go("node", "exiting", "ended")
  /\ Joined("network")
  /\ Flushed("node")
  /\ UNCHANGED <<buffer, pipe, written, logged, puts, faults>>

-----------------------------------------------------------------------------
(***************************************************************************)
(* The network process.                                                    *)
(***************************************************************************)
NetworkBoots ==
  /\ Go("network", "booting", "running")
  /\ PutAndLog("network", "netOut", <<"start">>, 1)
  /\ UNCHANGED <<pipe, written, puts, faults>>

NetworkEmits ==
  /\ pc.network = "running"
  /\ puts["network"] < MaxEvents
  /\ puts' = [puts EXCEPT !["network"] = @ + 1]
  /\ Put("network", "netOut", "event")
  /\ UNCHANGED <<pc, pipe, written, faults>>

NetworkTakesCommand ==
  /\ pc.network = "running"
  /\ Got("netIn", "command")
  /\ UNCHANGED <<pc, buffer, written, logged, puts, faults>>

NetworkShutsDown ==
  /\ Go("network", "running", "exiting")
  /\ Got("netIn", "shutdown")
  /\ UNCHANGED <<buffer, written, logged, puts, faults>>

NetworkFails ==
  /\ Go("network", "running", "exiting")
  /\ Log("network", 1)
  /\ UNCHANGED <<pipe, written, puts, faults>>

NetworkEnds ==
  /\ Go("network", "exiting", "ended")
  /\ Flushed("network")
  /\ UNCHANGED <<buffer, pipe, written, logged, puts, faults>>

-----------------------------------------------------------------------------
(* A process logs what it likes while it runs, and the threads of the       *)
(* network process go on while it exits.  (What they log after its feeder   *)
(* thread was told to stop is never written; it is not counted as logged.)  *)
Logs(p) ==
  /\ pc[p] = "running" \/ (p = "network" /\ pc[p] = "exiting")
  /\ puts["log"] < MaxRecords
  /\ puts' = [puts EXCEPT !["log"] = @ + 1]
  /\ Log(p, 1)
  /\ UNCHANGED <<pc, pipe, written, faults>>

(* What a process does without being asked, or because something failed.    *)
Whim ==
  \/ Shutdown
  \/ NodeTimesOut
  \/ NetworkTimesOut
  \/ NodeCommands
  \/ NodeFails
  \/ NetworkEmits
  \/ NetworkFails
  \/ \E p \in Logging : Logs(p)

MainStep    == StartLogServer \/ StartNode \/ NodeIsUp \/ NodeJoined \/ ServerJoined \/ MainEnds
ServerStep  == ServerOpens \/ ServerFails \/ ServerWrites \/ ServerEnds
NodeStep    == NodeBoots \/ NetworkIsUp \/ NetworkJoined \/ NetworkJoinedFailing \/ NodeEnds
NetworkStep == NetworkBoots \/ NetworkTakesCommand \/ NetworkShutsDown \/ NetworkEnds

Next ==
  \/ Whim
  \/ MainStep
  \/ ServerStep
  \/ NodeStep
  \/ NodeTakesEvent
  \/ NodeShutsDown
  \/ NetworkStep
  \/ \E f \in Feeder : Feed(f)

Spec == Init /\ [][Next]_vars

(***************************************************************************)
(* Fairness.  Every process and every feeder thread goes on when it can;   *)
(* the node looks at its commands and at its events in turn.  Nothing is   *)
(* assumed of the user, of failures, or of what takes longer than it may.  *)
(***************************************************************************)
Fairness ==
  /\ WF_vars(MainStep)
  /\ WF_vars(ServerStep)
  /\ WF_vars(NodeStep)
  /\ WF_vars(NodeTakesEvent)
  /\ WF_vars(NodeShutsDown)
  /\ WF_vars(NetworkStep)
  /\ \A f \in Feeder : WF_vars(Feed(f))

FairSpec == Spec /\ Fairness

-----------------------------------------------------------------------------
(***************************************************************************)
(* Safety.                                                                 *)
(***************************************************************************)
(* The records that each process has still to write. *)
ToLog == [p \in Logging |-> buffer[<<p, "log">>]]

(* The records of a process in a sequence are those from one number to      *)
(* another, in order.                                                       *)
RecordsInOrder(p, s, from, to) ==
  /\ {s[i].n : i \in {j \in DOMAIN s : s[j].by = p}} = from..to
  /\ \A i, j \in DOMAIN s : s[i].by = p /\ s[j].by = p /\ i < j => s[i].n < s[j].n

Records(p, n) == [i \in 1..n |-> [by |-> p, n |-> i]]

(* The records of each process keep their order on their way to the file,   *)
(* the first in the file, the next in the pipe and the last in its buffer;  *)
(* none is lost or comes twice.                                             *)
RecordsKept ==
  \A p \in Logging :
    /\ written[p] = Records(p, Len(written[p]))
    /\ \E n \in Len(written[p])..logged[p] :
         /\ RecordsInOrder(p, pipe["log"], Len(written[p]) + 1, n)
         /\ RecordsInOrder(p, ToLog[p], n + 1, logged[p])

(* When main has joined the log server, all that any process has logged is  *)
(* in the file, unless it could not be opened or a process was not up in    *)
(* time.                                                                    *)
NoRecordLost ==
  /\ RecordsKept
  /\ pc.main \in {"reaping", "ended"} /\ faults = {} =>
       \A p \in Logging : written[p] = Records(p, logged[p])

AtEnd == {"closing", "reaping", "ended"}

(* The processes end one after the other, and each has written its records  *)
(* before it ends.                                                          *)
EndsInTurn ==
  /\ pc.network = "ended" => ToLog["network"] = <<>>
  /\ pc.node = "ended" => pc.network = "ended" /\ ToLog["node"] = <<>>
  /\ pc.main \in AtEnd /\ "main" \notin faults => pc.node = "ended"
  /\ pc.main \in {"reaping", "ended"} => pc.server = "ended"

(* The None that ends the log server is the last thing main puts, and if    *)
(* the node was up in time nothing comes behind it.                         *)
EndMarkLast ==
  /\ \A i \in DOMAIN pipe["log"] :
       pipe["log"][i] = None =>
         /\ pc.main \in AtEnd /\ ToLog["main"] = <<>>
         /\ "main" \notin faults => i = Len(pipe["log"])
  /\ \A i \in DOMAIN ToLog["main"] :
       ToLog["main"][i] = None =>
         pc.main \in AtEnd /\ i = Len(ToLog["main"])
  /\ \A p \in Logging : \A i \in DOMAIN ToLog[p] :
       ToLog[p][i].by = p \/ (p = "main" /\ ToLog[p][i] = None)

(* Once the log server has ended without a fault nothing is left to write.  *)
ServerEndsLast ==
  pc.server = "ended" /\ faults = {} =>
    /\ pc.main \in AtEnd
    /\ pipe["log"] = <<>>
    /\ \A p \in Logging : ToLog[p] = <<>>

(* All of it together, which is inductive. *)
LifecycleInv ==
  /\ LifecycleTypeOK
  /\ EndsInTurn
  /\ EndMarkLast
  /\ ServerEndsLast
  /\ NoRecordLost

-----------------------------------------------------------------------------
(***************************************************************************)
(* Liveness.                                                               *)
(***************************************************************************)
(* A process at its end waits for a pipe that is full and that nobody will  *)
(* read: the events, when the node has stopped taking them, or the log,     *)
(* when the server is gone.                                                 *)
Full(q) == Len(pipe[q]) = PipeSize

Jammed ==
  \/ /\ pc.network = "exiting" /\ buffer[<<"network", "netOut">>] # <<>>
     /\ Full("netOut") /\ pc.node \in {"joining", "failing"}
  \/ /\ pc.server = "ended" /\ Full("log")
     /\ \E p \in {"node", "network"} :
          pc[p] = "exiting" /\ buffer[<<p, "log">>] # <<>>

(* Once main has asked for the end, the program ends, with all its          *)
(* processes, unless a pipe is jammed, or the network process was not up in *)
(* time.                                                                    *)
ProgramEnds ==
  pc.main = "joining" ~> \/ \A p \in DOMAIN pc : pc[p] = "ended"
                         \/ Jammed
                         \/ "node" \in faults
=============================================================================
