---------------------------- MODULE PingManager -----------------------------
(***************************************************************************)
(* Pings and pongs, src/bitcoin/ping_manager.py: the one handler of the    *)
(* node, what it keeps in the handles of the peers, and what the versions  *)
(* of a connection do to the nonces, src/bitcoin/message.py.               *)
(*                                                                         *)
(* The way of a ping to the remote end is part of the time that end takes. *)
(* A latency is rounded down to the unit of the clock; 0 stands for None.  *)
(***************************************************************************)
EXTENDS Naturals, Sequences

CONSTANTS Peer,         \* the remote ends
          Nonce,        \* nonces other than 0
          Version,      \* the versions of a connection, 0 before one is agreed
          NonceVersion, \* 60000: pings have a nonce in later versions
          LatencyLimit, \* 30 seconds: a pong that takes as long does not count
          MaxTime,      \* bound: the clock stays below or at it
          MaxPings,     \* bound: pings of each remote end on one connection
          MaxAhead      \* bound: a pong is sent with fewer than this on the way

ASSUME NonceAssumption   == Nonce \subseteq Nat \ {0}
ASSUME VersionAssumption == Version \subseteq Nat /\ 0 \in Version
ASSUME LimitAssumption   == NonceVersion \in Nat /\ LatencyLimit \in Nat \ {0}
ASSUME BoundsAssumption  ==
  MaxTime \in Nat \ {0} /\ MaxPings \in [Peer -> Nat] /\ MaxAhead \in Nat

VARIABLES
  clock,     \* time.time(), which may be set back
  connected, \* the keys of __peer_map
  handle,    \* its PeerHandles
  wire,      \* what a remote end has sent and the node has not yet taken
  pongs,     \* the nonces of the pongs sent to each remote end
  (* the remote ends, and history *)
  asked,     \* the nonces a remote end has read in our pings
  pings,     \* the nonces of the pings it has sent
  drawn,     \* the nonces drawn so far
  lastPing   \* nonce and time of the last ping to each remote end

vars       == <<clock, connected, handle, wire, pongs, asked, pings, drawn, lastPing>>
remoteVars == <<asked, pings>>

Time    == 0..MaxTime
Ping    == [nonce : Nonce \cup {0}, time : Time]
Message == [command : {"ping", "pong"}, nonce : Nonce \cup {0}]

PeerHandle ==
  [version : Version, nonce : Nonce \cup {0}, time : Time, latency : Nat]

NewHandle == [version |-> 0, nonce |-> 0, time |-> 0, latency |-> 0]

Init ==
  /\ clock \in Time \ {0}
  /\ connected = {}
  /\ handle = [p \in Peer |-> NewHandle]
  /\ wire = [p \in Peer |-> <<>>]
  /\ pongs = [p \in Peer |-> <<>>]
  /\ asked = [p \in Peer |-> {}]
  /\ pings = [p \in Peer |-> <<>>]
  /\ drawn = {}
  /\ lastPing = [p \in Peer |-> [nonce |-> 0, time |-> 0]]

-----------------------------------------------------------------------------
(* The node: a connection comes, gets its version and goes. *)
Connect(p) ==
  /\ p \notin connected
  /\ connected' = connected \cup {p}
  /\ UNCHANGED <<clock, handle, wire, pongs, remoteVars, drawn, lastPing>>

SetVersion(p) ==
  /\ p \in connected
  /\ handle[p].version = 0
  /\ \E v \in Version \ {0} : handle' = [handle EXCEPT ![p].version = v]
  /\ UNCHANGED <<clock, connected, wire, pongs, remoteVars, drawn, lastPing>>

(* The handle is dropped; another connection is another one. *)
Disconnect(p) ==
  /\ p \in connected
  /\ connected' = connected \ {p}
  /\ handle' = [handle EXCEPT ![p] = NewHandle]
  /\ wire' = [wire EXCEPT ![p] = <<>>]
  /\ pongs' = [pongs EXCEPT ![p] = <<>>]
  /\ asked' = [asked EXCEPT ![p] = {}]
  /\ pings' = [pings EXCEPT ![p] = <<>>]
  /\ lastPing' = [lastPing EXCEPT ![p] = [nonce |-> 0, time |-> 0]]
  /\ UNCHANGED <<clock, drawn>>

(* The clock goes on, or is set. *)
Tick ==
  /\ clock' \in Time \ {0}
  /\ UNCHANGED <<connected, handle, wire, pongs, remoteVars, drawn, lastPing>>

-----------------------------------------------------------------------------
(***************************************************************************)
(* poll().  Nonces are random; no two are the same, but one may be 0.      *)
(***************************************************************************)
(* Ping.encode(). *)
HasNonce_Mutant(version) == version = 0 \/ version > NonceVersion

HasNonce(version) == version > NonceVersion

SetPing_Mutant(h, nonce) ==
  [h EXCEPT !.nonce = nonce, !.time = IF @ = 0 THEN clock ELSE @]

SetPing(h, nonce) == [h EXCEPT !.nonce = nonce, !.time = clock]

Draws ==
  {n \in [connected -> (Nonce \ drawn) \cup {0}] :
     \A p, q \in connected : n[p] = n[q] /\ n[p] # 0 => p = q}

Poll ==
  \E n \in Draws :
    /\ handle' = [p \in Peer |-> IF p \in connected THEN SetPing(handle[p], n[p])
                                                    ELSE handle[p]]
    /\ asked' = [p \in Peer |->
                   IF p \in connected /\ HasNonce(handle[p].version)
                   THEN asked[p] \cup {n[p]} ELSE asked[p]]
    /\ drawn' = drawn \cup {n[p] : p \in connected}
    /\ lastPing' = [p \in Peer |-> IF p \in connected
                                   THEN [nonce |-> n[p], time |-> clock]
                                   ELSE lastPing[p]]
    /\ UNCHANGED <<clock, connected, wire, pongs, pings>>

-----------------------------------------------------------------------------
(***************************************************************************)
(* Remote ends.  A pong has a nonce that was read in a ping, or 0: late,   *)
(* out of turn or twice as it may be, it is not guessed.                   *)
(***************************************************************************)
Sends(p, command, nonce) ==
  /\ p \in connected
  /\ wire' = [wire EXCEPT ![p] = Append(@, [command |-> command, nonce |-> nonce])]

RemotePong(p) ==
  /\ Len(wire[p]) < MaxAhead
  /\ \E n \in asked[p] \cup {0} : Sends(p, "pong", n)
  /\ UNCHANGED <<clock, connected, handle, pongs, remoteVars, drawn, lastPing>>

RemotePing(p) ==
  /\ Len(pings[p]) < MaxPings[p]
  /\ \E n \in Nonce :
       /\ Sends(p, "ping", n)
       /\ pings' = [pings EXCEPT ![p] = Append(@, n)]
  /\ UNCHANGED <<clock, connected, handle, pongs, asked, drawn, lastPing>>

-----------------------------------------------------------------------------
(***************************************************************************)
(* handle_message().  Nothing is read before the version is set.           *)
(***************************************************************************)
Took(p, command) ==
  /\ p \in connected
  /\ handle[p].version # 0
  /\ wire[p] # <<>>
  /\ Head(wire[p]).command = command
  /\ wire' = [wire EXCEPT ![p] = Tail(@)]

(* Ping.decode(). *)
NonceRead(version, nonce) == IF version > NonceVersion THEN nonce ELSE 0

Answered(version) == version > NonceVersion

HandlePing_Mutant(p) ==
  LET version == handle[p].version
  IN  /\ Took(p, "ping")
      /\ pongs' = [pongs EXCEPT ![p] =
                     IF Answered(version)
                     THEN <<NonceRead(version, Head(wire[p]).nonce)>> \o @ ELSE @]
      /\ UNCHANGED <<clock, connected, handle, remoteVars, drawn, lastPing>>

HandlePing(p) ==
  LET version == handle[p].version
  IN  /\ Took(p, "ping")
      /\ pongs' = [pongs EXCEPT ![p] =
                     IF Answered(version)
                     THEN Append(@, NonceRead(version, Head(wire[p]).nonce)) ELSE @]
      /\ UNCHANGED <<clock, connected, handle, remoteVars, drawn, lastPing>>

(* The nonce is not cleared: ping_none, which is, is another field.         *)
Counts_Mutant(h, nonce) ==
  h.nonce # 0 /\ h.time # 0 /\ h.time < clock /\ clock < h.time + LatencyLimit

Counts(h, nonce) ==
  /\ h.nonce # 0 /\ h.time # 0
  /\ h.nonce = nonce
  /\ h.time < clock /\ clock < h.time + LatencyLimit

Average(h) ==
  LET delta == clock - h.time
  IN  IF h.latency = 0 THEN delta ELSE (delta + 3 * h.latency) \div 4

HandlePong(p) ==
  /\ Took(p, "pong")
  /\ handle' = [handle EXCEPT ![p].latency =
                  IF Counts(handle[p], Head(wire[p]).nonce) THEN Average(handle[p])
                                                            ELSE @]
  /\ UNCHANGED <<clock, connected, pongs, remoteVars, drawn, lastPing>>

Next ==
  \/ Tick
  \/ Poll
  \/ \E p \in Peer :
       \/ Connect(p)
       \/ SetVersion(p)
       \/ Disconnect(p)
       \/ RemotePong(p)
       \/ RemotePing(p)
       \/ HandlePing(p)
       \/ HandlePong(p)

Spec == Init /\ [][Next]_vars

-----------------------------------------------------------------------------
(***************************************************************************)
(* Safety.                                                                 *)
(***************************************************************************)
PingTypeOK ==
  /\ clock \in Time \ {0}
  /\ connected \subseteq Peer
  /\ handle \in [Peer -> PeerHandle]
  /\ wire \in [Peer -> Seq(Message)]
  /\ pongs \in [Peer -> Seq(Nonce \cup {0})]
  /\ asked \in [Peer -> SUBSET (Nonce \cup {0})]
  /\ pings \in [Peer -> Seq(Nonce)]
  /\ drawn \subseteq Nonce \cup {0}
  /\ lastPing \in [Peer -> Ping]

(* A handle remembers the last ping sent on its connection. *)
RemembersPing ==
  \A p \in Peer : /\ handle[p].nonce = lastPing[p].nonce
                  /\ handle[p].time = lastPing[p].time

(* No remote end is asked with the nonce of another one, and what it sends  *)
(* back it has been asked.                                                  *)
NoncesApart ==
  \A p, q \in Peer : p # q => (asked[p] \cap asked[q]) \subseteq {0}

EchoesOwn ==
  \A p \in Peer :
    /\ asked[p] \subseteq drawn
    /\ \A i \in DOMAIN wire[p] :
         wire[p][i].command = "pong" => wire[p][i].nonce \in asked[p] \cup {0}

(* There is no latency without a ping that had its nonce, and so none on a  *)
(* connection whose version is not settled, or too old; and none that is    *)
(* not below the limit.                                                     *)
MeasuredAfterVersion ==
  \A p \in Peer :
    /\ asked[p] # {} => handle[p].version > NonceVersion
    /\ handle[p].latency # 0 => handle[p].version > NonceVersion
    /\ handle[p].latency < LatencyLimit

(* All of it together, which is inductive: types, what a handle remembers,  *)
(* whose nonces are whose, and the versions at which latencies appear.      *)
PingInv ==
  /\ PingTypeOK
  /\ RemembersPing
  /\ NoncesApart
  /\ EchoesOwn
  /\ MeasuredAfterVersion

(* Of the pings ps the first n were taken: the others are the pings on the  *)
(* wire w, in order, each at its place.                                     *)
LeftOnWire(ps, w, n) ==
  \E place \in [(n + 1)..Len(ps) -> DOMAIN w] :
    /\ \A i, j \in DOMAIN place : i < j => place[i] < place[j]
    /\ \A i \in DOMAIN place :
         w[place[i]] = [command |-> "ping", nonce |-> ps[i]]
    /\ \A k \in DOMAIN w :
         w[k].command = "ping" => \E i \in DOMAIN place : place[i] = k

EchoOf(ps, w, gs, version) ==
  \E n \in 0..Len(ps) :
    /\ LeftOnWire(ps, w, n)
    /\ version = 0 => n = 0
    /\ gs = IF version > NonceVersion THEN SubSeq(ps, 1, n) ELSE <<>>

(* The pongs sent on a connection echo the pings taken from it, in order,   *)
(* with their nonces; they are only sent at versions that have them, and    *)
(* nothing is taken before there is a version.                              *)
PongsEcho ==
  \A p \in Peer : EchoOf(pings[p], wire[p], pongs[p], handle[p].version)

(* The latency of a connection changes only when a pong is taken that       *)
(* echoes the last ping of that very connection, whatever came twice or too *)
(* late, and however the clock was set; it then moves to, or towards, the   *)
(* time since that ping, and not past it.                                   *)
Between(x, a, b) == (a <= x /\ x <= b) \/ (b <= x /\ x <= a)

LatencyMeasured ==
  [][\A p \in connected \cap connected' :
       handle'[p].latency # handle[p].latency =>
         LET took == clock - lastPing[p].time
             old  == handle[p].latency
         IN  /\ lastPing[p].nonce \in asked[p] \ {0}
             /\ lastPing[p].time < clock /\ took < LatencyLimit
             /\ wire[p] # <<>>
             /\ Head(wire[p]) = [command |-> "pong", nonce |-> lastPing[p].nonce]
             /\ Between(handle'[p].latency, IF old = 0 THEN took ELSE old, took)]_vars
=============================================================================
