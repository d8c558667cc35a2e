------------------------- MODULE PingManager_proofs -------------------------
(***************************************************************************)
(* Proofs about pings and pongs, for any remote ends, nonces, versions and *)
(* clock: a latency is measured by the pong that echoes the last ping of   *)
(* its own connection, and by no other.                                    *)
(***************************************************************************)
EXTENDS PingManager, SequenceTheorems, TLAPS

(* What the types say of one peer. *)
LEMMA PeerFacts ==
  ASSUME PingTypeOK, NEW p \in Peer
  PROVE  /\ handle[p] \in PeerHandle
         /\ handle[p].version \in Nat /\ handle[p].version \in Version
         /\ handle[p].nonce \in Nonce \cup {0} /\ handle[p].time \in Time
         /\ handle[p].time \in Nat /\ handle[p].latency \in Nat
         /\ clock \in Nat \ {0} /\ clock \in Time
         /\ wire[p] \in Seq(Message) /\ pongs[p] \in Seq(Nonce \cup {0})
         /\ pings[p] \in Seq(Nonce) /\ asked[p] \subseteq Nonce \cup {0}
         /\ lastPing[p] \in Ping
  <1>1. /\ handle[p] \in PeerHandle
        /\ wire[p] \in Seq(Message) /\ pongs[p] \in Seq(Nonce \cup {0})
        /\ pings[p] \in Seq(Nonce) /\ asked[p] \subseteq Nonce \cup {0}
        /\ lastPing[p] \in Ping
        /\ clock \in Time \ {0}
    BY DEF PingTypeOK
  <1>2. /\ handle[p].version \in Version
        /\ handle[p].nonce \in Nonce \cup {0}
        /\ handle[p].time \in Time /\ handle[p].latency \in Nat
    BY <1>1 DEF PeerHandle
  <1>3. Version \subseteq Nat
    BY VersionAssumption
  <1>4. Time \subseteq Nat
    BY BoundsAssumption DEF Time
  <1> QED
    BY <1>1, <1>2, <1>3, <1>4

(* What setting the nonce and the time of a handle leaves in it. *)
LEMMA SetPingFields ==
  ASSUME NEW h \in PeerHandle, NEW n \in Nonce \cup {0}, clock \in Time
  PROVE  /\ SetPing(h, n) \in PeerHandle
         /\ SetPing(h, n).nonce = n /\ SetPing(h, n).time = clock
         /\ SetPing(h, n).version = h.version /\ SetPing(h, n).latency = h.latency
  <1> DEFINE g == [h EXCEPT !.nonce = n]
  <1>1. /\ g \in PeerHandle /\ g.nonce = n
        /\ g.version = h.version /\ g.latency = h.latency
    BY DEF PeerHandle
  <1>2. SetPing(h, n) = [g EXCEPT !.time = clock]
    BY DEF SetPing
  <1> HIDE DEF g
  <1> QED
    BY <1>1, <1>2 DEF PeerHandle

(* The first of what is on the wire, and the rest of it. *)
LEMMA WireHead ==
  ASSUME PingTypeOK, NEW p \in Peer, wire[p] # <<>>
  PROVE  /\ Head(wire[p]) \in Message /\ Tail(wire[p]) \in Seq(Message)
         /\ 1 \in DOMAIN wire[p] /\ Head(wire[p]) = wire[p][1]
         /\ \A i \in DOMAIN Tail(wire[p]) :
              i + 1 \in DOMAIN wire[p] /\ Tail(wire[p])[i] = wire[p][i + 1]
  <1>1. wire[p] \in Seq(Message)
    BY PeerFacts
  <1>2. Len(wire[p]) \in Nat \ {0} /\ DOMAIN wire[p] = 1..Len(wire[p])
    BY <1>1, EmptySeq, LenProperties
  <1>3. /\ Head(wire[p]) = wire[p][1] /\ Head(wire[p]) \in Message
        /\ Tail(wire[p]) \in Seq(Message) /\ Len(Tail(wire[p])) = Len(wire[p]) - 1
        /\ \A i \in 1..Len(Tail(wire[p])) : Tail(wire[p])[i] = wire[p][i + 1]
    BY <1>1, <1>2, HeadTailProperties
  <1>4. DOMAIN Tail(wire[p]) = 1..Len(Tail(wire[p]))
    BY <1>3, LenProperties
  <1> QED
    BY <1>2, <1>3, <1>4

(* A pong that counts was asked for on this connection, whose version is    *)
(* one in which pings have their nonce; the estimate it gives is below the  *)
(* limit, and between the old one and the time since the ping.              *)
LEMMA PongThatCounts ==
  ASSUME PingInv, NEW p \in Peer, Took(p, "pong"),
         Counts(handle[p], Head(wire[p]).nonce)
  PROVE  LET took == clock - lastPing[p].time
             old  == handle[p].latency
         IN  /\ lastPing[p].nonce \in asked[p] \ {0}
             /\ handle[p].version > NonceVersion
             /\ lastPing[p].time < clock /\ took < LatencyLimit
             /\ wire[p] # <<>>
             /\ Head(wire[p]) = [command |-> "pong", nonce |-> lastPing[p].nonce]
             /\ Average(handle[p]) \in Nat
             /\ Average(handle[p]) < LatencyLimit
             /\ Between(Average(handle[p]), IF old = 0 THEN took ELSE old, took)
  <1> DEFINE m == Head(wire[p])
             d == clock - handle[p].time
             old == handle[p].latency
  <1>1. PingTypeOK /\ RemembersPing /\ EchoesOwn /\ MeasuredAfterVersion
    BY DEF PingInv
  <1>2. wire[p] # <<>> /\ m.command = "pong"
    BY DEF Took
  <1>3. m \in Message /\ 1 \in DOMAIN wire[p] /\ m = wire[p][1]
    BY <1>1, <1>2, WireHead
  <1>4. /\ handle[p].nonce # 0 /\ handle[p].nonce = m.nonce
        /\ handle[p].time < clock /\ clock < handle[p].time + LatencyLimit
    BY DEF Counts
  <1>5. m.nonce \in asked[p] \cup {0}
    BY <1>1, <1>2, <1>3 DEF EchoesOwn
  <1>6. m.nonce \in asked[p] \ {0} /\ handle[p].version > NonceVersion
    BY <1>1, <1>4, <1>5 DEF MeasuredAfterVersion
  <1>7. lastPing[p].nonce = m.nonce /\ lastPing[p].time = handle[p].time
    BY <1>1, <1>4 DEF RemembersPing
  <1>8. m = [command |-> "pong", nonce |-> m.nonce]
    BY <1>2, <1>3 DEF Message
  <1>9. /\ clock \in Nat /\ handle[p].time \in Nat /\ old \in Nat /\ LatencyLimit \in Nat
        /\ d \in Nat /\ d < LatencyLimit /\ old < LatencyLimit
    BY <1>1, <1>4, PeerFacts, LimitAssumption DEF MeasuredAfterVersion
  <1>10. Average(handle[p]) = IF old = 0 THEN d ELSE (d + 3 * old) \div 4
    BY DEF Average
  <1> HIDE DEF d, old
  <1>11. /\ Average(handle[p]) \in Nat /\ Average(handle[p]) < LatencyLimit
         /\ Between(Average(handle[p]), IF old = 0 THEN d ELSE old, d)
    BY <1>9, <1>10 DEF Between
  <1> QED
    BY <1>2, <1>4, <1>6, <1>7, <1>8, <1>9, <1>11 DEF d, old

-----------------------------------------------------------------------------
(* A handle and a last ping have their types before there is any ping.     *)
LEMMA NewValues ==
  NewHandle \in PeerHandle /\ [nonce |-> 0, time |-> 0] \in Ping
  <1>1. 0 \in Time /\ 0 \in Version /\ 0 \in Nat
    BY BoundsAssumption, VersionAssumption DEF Time
  <1> QED
    BY <1>1 DEF NewHandle, PeerHandle, Ping

LEMMA PingInvInit == Init => PingInv
  <1> SUFFICES ASSUME Init PROVE PingInv
    OBVIOUS
  <1>1. PingTypeOK
    BY NewValues DEF Init, PingTypeOK
  <1>2. RemembersPing /\ NoncesApart /\ EchoesOwn
    BY DEF Init, NewHandle, RemembersPing, NoncesApart, EchoesOwn
  <1>3. MeasuredAfterVersion
    <2>1. \A p \in Peer : asked[p] = {} /\ handle[p].latency = 0
      BY DEF Init, NewHandle
    <2>2. 0 < LatencyLimit
      BY LimitAssumption
    <2> QED
      BY <2>1, <2>2 DEF MeasuredAfterVersion
  <1> QED
    BY <1>1, <1>2, <1>3 DEF PingInv

LEMMA ConnectStep ==
  ASSUME PingInv, NEW p \in Peer, Connect(p)
  PROVE  PingInv'
  BY DEF Connect, remoteVars, PingInv, PingTypeOK, RemembersPing, NoncesApart,
     EchoesOwn,
         MeasuredAfterVersion

LEMMA TickStep ==
  ASSUME PingInv, Tick
  PROVE  PingInv'
  BY DEF Tick, remoteVars, PingInv, PingTypeOK, RemembersPing, NoncesApart, EchoesOwn,
         MeasuredAfterVersion

(* Before the version is set there is neither a question nor a latency.    *)
LEMMA SetVersionStep ==
  ASSUME PingInv, NEW p \in Peer, SetVersion(p)
  PROVE  PingInv'
  <1>1. PICK v \in Version \ {0} : handle' = [handle EXCEPT ![p].version = v]
    BY DEF SetVersion
  <1>2. UNCHANGED <<clock, connected, wire, pongs, asked, pings, drawn, lastPing>>
    BY DEF SetVersion, remoteVars
  <1>3. PingTypeOK /\ RemembersPing /\ NoncesApart /\ EchoesOwn /\ MeasuredAfterVersion
    BY DEF PingInv
  <1>4. \A q \in Peer : /\ handle'[q].nonce = handle[q].nonce
                        /\ handle'[q].time = handle[q].time
                        /\ handle'[q].latency = handle[q].latency
                        /\ q # p => handle'[q] = handle[q]
    BY <1>1, <1>3 DEF PingTypeOK, PeerHandle
  <1>5. PingTypeOK'
    <2>1. handle' \in [Peer -> PeerHandle]
      BY <1>1, <1>3 DEF PingTypeOK, PeerHandle
    <2> QED
      BY <1>2, <1>3, <2>1 DEF PingTypeOK
  <1>6. RemembersPing' /\ NoncesApart' /\ EchoesOwn'
    BY <1>2, <1>3, <1>4 DEF RemembersPing, NoncesApart, EchoesOwn
  <1>7. MeasuredAfterVersion'
    <2>1. asked[p] = {} /\ handle[p].latency = 0
      <3>1. handle[p].version = 0
        BY DEF SetVersion
      <3>2. ~(0 > NonceVersion)
        BY LimitAssumption
      <3> QED
        BY <1>3, <3>1, <3>2 DEF MeasuredAfterVersion
    <2> QED
      BY <1>2, <1>3, <1>4, <2>1 DEF MeasuredAfterVersion
  <1> QED
    BY <1>5, <1>6, <1>7 DEF PingInv

LEMMA DisconnectStep ==
  ASSUME PingInv, NEW p \in Peer, Disconnect(p)
  PROVE  PingInv'
  <1>1. PingTypeOK /\ RemembersPing /\ NoncesApart /\ EchoesOwn /\ MeasuredAfterVersion
    BY DEF PingInv
  <1>2. /\ connected' = connected \ {p}
        /\ handle' = [handle EXCEPT ![p] = NewHandle]
        /\ wire' = [wire EXCEPT ![p] = <<>>] /\ pongs' = [pongs EXCEPT ![p] = <<>>]
        /\ asked' = [asked EXCEPT ![p] = {}] /\ pings' = [pings EXCEPT ![p] = <<>>]
        /\ lastPing' = [lastPing EXCEPT ![p] = [nonce |-> 0, time |-> 0]]
        /\ UNCHANGED <<clock, drawn>>
    BY DEF Disconnect
  <1>3. PingTypeOK'
    BY <1>1, <1>2, NewValues DEF PingTypeOK
  <1>4. RemembersPing' /\ NoncesApart' /\ EchoesOwn' /\ MeasuredAfterVersion'
    <2>1. /\ handle'[p] = NewHandle /\ lastPing'[p] = [nonce |-> 0, time |-> 0]
          /\ asked'[p] = {} /\ wire'[p] = <<>>
      BY <1>1, <1>2 DEF PingTypeOK
    <2>2. \A q \in Peer \ {p} : /\ handle'[q] = handle[q] /\ lastPing'[q] = lastPing[q]
                                /\ asked'[q] = asked[q] /\ wire'[q] = wire[q]
      BY <1>1, <1>2 DEF PingTypeOK
    <2>3. RemembersPing'
      BY <1>1, <2>1, <2>2 DEF RemembersPing, NewHandle
    <2>4. NoncesApart'
      BY <1>1, <2>1, <2>2 DEF NoncesApart
    <2>5. EchoesOwn'
      BY <1>1, <1>2, <2>1, <2>2 DEF EchoesOwn
    <2>6. MeasuredAfterVersion'
      BY <1>1, <2>1, <2>2, LimitAssumption DEF MeasuredAfterVersion, NewHandle
    <2> QED
      BY <2>3, <2>4, <2>5, <2>6
  <1> QED
    BY <1>3, <1>4 DEF PingInv

(* A nonce is drawn for one peer only, and was not drawn before.           *)
LEMMA PollStep ==
  ASSUME PingInv, Poll
  PROVE  PingInv'
  <1>1. PingTypeOK /\ RemembersPing /\ NoncesApart /\ EchoesOwn /\ MeasuredAfterVersion
    BY DEF PingInv
  <1>2. PICK n \in Draws :
          /\ handle' = [p \in Peer |-> IF p \in connected THEN SetPing(handle[p], n[p])
                                                          ELSE handle[p]]
          /\ asked' = [p \in Peer |->
                         IF p \in connected /\ HasNonce(handle[p].version)
                         THEN asked[p] \cup {n[p]} ELSE asked[p]]
          /\ drawn' = drawn \cup {n[p] : p \in connected}
          /\ lastPing' = [p \in Peer |-> IF p \in connected
                                         THEN [nonce |-> n[p], time |-> clock]
                                         ELSE lastPing[p]]
          /\ UNCHANGED <<clock, connected, wire, pongs, pings>>
    BY DEF Poll
  <1>3. /\ \A p \in connected : n[p] \in (Nonce \ drawn) \cup {0}
        /\ \A p, q \in connected : n[p] = n[q] /\ n[p] # 0 => p = q
    BY DEF Draws
  <1>4. connected \subseteq Peer
    BY <1>1 DEF PingTypeOK
  <1>5. \A p \in Peer :
          /\ handle'[p] \in PeerHandle
          /\ handle'[p].version = handle[p].version
          /\ handle'[p].latency = handle[p].latency
          /\ p \in connected => handle'[p].nonce = n[p] /\ handle'[p].time = clock
          /\ p \notin connected => handle'[p] = handle[p]
    <2> SUFFICES ASSUME NEW p \in Peer
                 PROVE  /\ handle'[p] \in PeerHandle
                        /\ handle'[p].version = handle[p].version
                        /\ handle'[p].latency = handle[p].latency
                        /\ p \in connected => handle'[p].nonce = n[p] /\ handle'[p].time = clock
                        /\ p \notin connected => handle'[p] = handle[p]
      OBVIOUS
    <2>1. handle[p] \in PeerHandle /\ clock \in Time
      BY <1>1, PeerFacts
    <2>2. CASE p \in connected
      <3>1. handle'[p] = SetPing(handle[p], n[p])
        BY <1>2, <2>2
      <3>2. n[p] \in Nonce \cup {0}
        BY <1>3, <2>2
      <3> QED
        BY <2>1, <2>2, <3>1, <3>2, SetPingFields
    <2>3. CASE p \notin connected
      BY <1>2, <2>1, <2>3
    <2> QED
      BY <2>2, <2>3
  <1>6. \A p \in Peer :
          /\ lastPing'[p] = IF p \in connected THEN [nonce |-> n[p], time |-> clock]
                                               ELSE lastPing[p]
          /\ asked'[p] = IF p \in connected /\ handle[p].version > NonceVersion
                         THEN asked[p] \cup {n[p]} ELSE asked[p]
    BY <1>2 DEF HasNonce
  <1>7. PingTypeOK'
    <2>1. handle' \in [Peer -> PeerHandle]
      BY <1>2, <1>5
    <2>2. asked' \in [Peer -> SUBSET (Nonce \cup {0})]
      <3>1. \A p \in Peer : asked'[p] \subseteq Nonce \cup {0}
        BY <1>1, <1>3, <1>6, PeerFacts
      <3> QED
        BY <1>2, <3>1
    <2>3. lastPing' \in [Peer -> Ping]
      <3>1. \A p \in Peer : lastPing'[p] \in Ping
        <4> SUFFICES ASSUME NEW p \in Peer PROVE lastPing'[p] \in Ping
          OBVIOUS
        <4>1. lastPing[p] \in Ping /\ clock \in Time
          BY <1>1, PeerFacts
        <4>2. p \in connected => n[p] \in Nonce \cup {0}
          BY <1>3
        <4>3. p \in connected => [nonce |-> n[p], time |-> clock] \in Ping
          BY <4>1, <4>2 DEF Ping
        <4> QED
          BY <1>6, <4>1, <4>3
      <3> QED
        BY <1>2, <3>1
    <2>4. drawn' \subseteq Nonce \cup {0}
      BY <1>1, <1>2, <1>3 DEF PingTypeOK
    <2> QED
      BY <1>1, <1>2, <2>1, <2>2, <2>3, <2>4 DEF PingTypeOK
  <1>8. RemembersPing'
    <2> SUFFICES ASSUME NEW p \in Peer
                 PROVE  /\ handle'[p].nonce = lastPing'[p].nonce
                        /\ handle'[p].time = lastPing'[p].time
      BY DEF RemembersPing
    <2>1. CASE p \in connected
      <3>1. lastPing'[p] = [nonce |-> n[p], time |-> clock]
        BY <1>6, <2>1
      <3>2. handle'[p].nonce = n[p] /\ handle'[p].time = clock
        BY <1>5, <2>1
      <3> QED
        BY <3>1, <3>2
    <2>2. CASE p \notin connected
      <3>1. handle'[p] = handle[p] /\ lastPing'[p] = lastPing[p]
        BY <1>5, <1>6, <2>2
      <3> QED
        BY <1>1, <3>1 DEF RemembersPing
    <2> QED
      BY <2>1, <2>2
  <1>9. \A p \in Peer : asked[p] \subseteq drawn
    BY <1>1 DEF EchoesOwn
  <1>10. NoncesApart'
    <2> SUFFICES ASSUME NEW p \in Peer, NEW q \in Peer, p # q,
                        NEW x \in asked'[p] \cap asked'[q], x # 0
                 PROVE  FALSE
      BY DEF NoncesApart
    <2>1. ASSUME NEW r \in Peer, x \in asked'[r]
          PROVE  x \in asked[r] \/ (r \in connected /\ x = n[r] /\ x \notin drawn)
      <3>1. x \in asked[r] \/ (r \in connected /\ x = n[r])
        BY <1>6, <2>1
      <3>2. r \in connected => n[r] \in (Nonce \ drawn) \cup {0}
        BY <1>3
      <3> QED
        BY <3>1, <3>2
    <2>2. ~(x \in asked[p] /\ x \in asked[q])
      BY <1>1 DEF NoncesApart
    <2> QED
      BY <1>3, <1>9, <2>1, <2>2
  <1>11. EchoesOwn'
    <2>1. \A p \in Peer : asked'[p] \subseteq drawn'
      BY <1>2, <1>6, <1>9
    <2>2. \A p \in Peer : asked[p] \subseteq asked'[p]
      BY <1>6
    <2> QED
      BY <1>1, <1>2, <2>1, <2>2 DEF EchoesOwn
  <1>12. MeasuredAfterVersion'
    <2> SUFFICES ASSUME NEW p \in Peer
                 PROVE  /\ asked'[p] # {} => handle'[p].version > NonceVersion
                        /\ handle'[p].latency # 0 => handle'[p].version > NonceVersion
                        /\ handle'[p].latency < LatencyLimit
      BY DEF MeasuredAfterVersion
    <2>1. handle'[p].version = handle[p].version /\ handle'[p].latency = handle[p].latency
      BY <1>5
    <2>2. asked'[p] # {} => asked[p] # {} \/ handle[p].version > NonceVersion
      BY <1>6
    <2> QED
      BY <1>1, <2>1, <2>2 DEF MeasuredAfterVersion
  <1> QED
    BY <1>7, <1>8, <1>10, <1>11, <1>12 DEF PingInv

(* What a remote end puts on the wire. *)
LEMMA SendsStep ==
  ASSUME PingInv, NEW p \in Peer, NEW command \in {"ping", "pong"},
         NEW nonce \in Nonce \cup {0}, Sends(p, command, nonce),
         command = "pong" => nonce \in asked[p] \cup {0},
         pings' \in [Peer -> Seq(Nonce)],
         UNCHANGED <<clock, connected, handle, pongs, asked, drawn, lastPing>>
  PROVE  PingInv'
  <1> DEFINE m == [command |-> command, nonce |-> nonce]
  <1>1. PingTypeOK /\ RemembersPing /\ NoncesApart /\ EchoesOwn /\ MeasuredAfterVersion
    BY DEF PingInv
  <1>2. m \in Message /\ wire[p] \in Seq(Message)
    BY <1>1, PeerFacts DEF Message
  <1>3. wire' = [wire EXCEPT ![p] = Append(@, m)]
    BY DEF Sends
  <1>4. /\ Append(wire[p], m) \in Seq(Message)
        /\ \A i \in DOMAIN Append(wire[p], m) :
             \/ i \in DOMAIN wire[p] /\ Append(wire[p], m)[i] = wire[p][i]
             \/ Append(wire[p], m)[i] = m
    <2>1. /\ Append(wire[p], m) \in Seq(Message)
          /\ Len(Append(wire[p], m)) = Len(wire[p]) + 1
          /\ \A i \in 1..Len(wire[p]) : Append(wire[p], m)[i] = wire[p][i]
          /\ Append(wire[p], m)[Len(wire[p]) + 1] = m
      BY <1>2, AppendProperties
    <2>2. /\ Len(wire[p]) \in Nat /\ DOMAIN wire[p] = 1..Len(wire[p])
          /\ DOMAIN Append(wire[p], m) = 1..(Len(wire[p]) + 1)
      BY <1>2, <2>1, LenProperties
    <2> HIDE DEF m
    <2> QED
      BY <2>1, <2>2
  <1>5. /\ wire'[p] = Append(wire[p], m)
        /\ \A q \in Peer \ {p} : wire'[q] = wire[q]
    BY <1>1, <1>3 DEF PingTypeOK
  <1> HIDE DEF m
  <1>6. PingTypeOK'
    BY <1>1, <1>3, <1>4 DEF PingTypeOK
  <1>7. RemembersPing' /\ NoncesApart' /\ MeasuredAfterVersion'
    BY <1>1 DEF RemembersPing, NoncesApart, MeasuredAfterVersion
  <1>8. EchoesOwn'
    <2>1. m.command = "pong" => m.nonce \in asked[p] \cup {0}
      BY DEF m
    <2>2. ASSUME NEW q \in Peer, NEW i \in DOMAIN wire'[q], wire'[q][i].command = "pong"
          PROVE  wire'[q][i].nonce \in asked[q] \cup {0}
      <3>1. CASE q = p
        BY <1>1, <1>4, <1>5, <2>1, <2>2, <3>1 DEF EchoesOwn
      <3>2. CASE q # p
        BY <1>1, <1>5, <2>2, <3>2 DEF EchoesOwn
      <3> QED
        BY <3>1, <3>2
    <2> QED
      BY <1>1, <2>2 DEF EchoesOwn
  <1> QED
    BY <1>6, <1>7, <1>8 DEF PingInv

LEMMA RemotePongStep ==
  ASSUME PingInv, NEW p \in Peer, RemotePong(p)
  PROVE  PingInv'
  <1>1. PICK n \in asked[p] \cup {0} : Sends(p, "pong", n)
    BY DEF RemotePong
  <1>2. n \in Nonce \cup {0} /\ pings \in [Peer -> Seq(Nonce)]
    BY PeerFacts DEF PingInv, PingTypeOK
  <1>3. UNCHANGED <<clock, connected, handle, pongs, asked, pings, drawn, lastPing>>
    BY DEF RemotePong, remoteVars
  <1> QED
    BY <1>1, <1>2, <1>3, SendsStep

LEMMA RemotePingStep ==
  ASSUME PingInv, NEW p \in Peer, RemotePing(p)
  PROVE  PingInv'
  <1>1. PICK n \in Nonce :
          Sends(p, "ping", n) /\ pings' = [pings EXCEPT ![p] = Append(@, n)]
    BY DEF RemotePing
  <1>2. pings' \in [Peer -> Seq(Nonce)]
    <2>1. pings \in [Peer -> Seq(Nonce)] /\ pings[p] \in Seq(Nonce)
      BY PeerFacts DEF PingInv, PingTypeOK
    <2>2. Append(pings[p], n) \in Seq(Nonce)
      BY <2>1, AppendProperties
    <2> QED
      BY <1>1, <2>1, <2>2
  <1>3. UNCHANGED <<clock, connected, handle, pongs, asked, drawn, lastPing>>
    BY DEF RemotePing
  <1> QED
    BY <1>1, <1>2, <1>3, SendsStep

(* What taking a message leaves on the wire. *)
LEMMA TookWire ==
  ASSUME PingTypeOK, EchoesOwn, NEW p \in Peer, NEW command, Took(p, command)
  PROVE  /\ wire' \in [Peer -> Seq(Message)]
         /\ \A q \in Peer : \A i \in DOMAIN wire'[q] :
              wire'[q][i].command = "pong" => wire'[q][i].nonce \in asked[q] \cup {0}
  <1>1. wire[p] # <<>> /\ wire' = [wire EXCEPT ![p] = Tail(@)]
    BY DEF Took
  <1>2. /\ Tail(wire[p]) \in Seq(Message)
        /\ \A i \in DOMAIN Tail(wire[p]) :
             i + 1 \in DOMAIN wire[p] /\ Tail(wire[p])[i] = wire[p][i + 1]
    BY <1>1, WireHead
  <1>3. wire \in [Peer -> Seq(Message)]
    BY DEF PingTypeOK
  <1>4. wire' \in [Peer -> Seq(Message)]
    BY <1>1, <1>2, <1>3
  <1>5. wire'[p] = Tail(wire[p]) /\ \A q \in Peer \ {p} : wire'[q] = wire[q]
    BY <1>1, <1>3
  <1>6. ASSUME NEW q \in Peer, NEW i \in DOMAIN wire'[q], wire'[q][i].command = "pong"
        PROVE  wire'[q][i].nonce \in asked[q] \cup {0}
    <2>1. CASE q = p
      <3>1. /\ i + 1 \in DOMAIN wire[p] /\ wire'[q][i] = wire[p][i + 1]
            /\ wire[p][i + 1].command = "pong"
        BY <1>2, <1>5, <1>6, <2>1
      <3> QED
        BY <2>1, <3>1 DEF EchoesOwn
    <2>2. CASE q # p
      BY <1>5, <1>6, <2>2 DEF EchoesOwn
    <2> QED
      BY <2>1, <2>2
  <1> QED
    BY <1>4, <1>6

LEMMA HandlePingStep ==
  ASSUME PingInv, NEW p \in Peer, HandlePing(p)
  PROVE  PingInv'
  <1>1. PingTypeOK /\ RemembersPing /\ NoncesApart /\ EchoesOwn /\ MeasuredAfterVersion
    BY DEF PingInv
  <1>2. /\ Took(p, "ping")
        /\ UNCHANGED <<clock, connected, handle, asked, pings, drawn, lastPing>>
    BY DEF HandlePing, remoteVars
  <1>3. pongs' \in [Peer -> Seq(Nonce \cup {0})]
    <2> DEFINE n == NonceRead(handle[p].version, Head(wire[p]).nonce)
    <2>1. Head(wire[p]) \in Message
      BY <1>1, <1>2, WireHead DEF Took
    <2>2. n \in Nonce \cup {0}
      BY <2>1 DEF NonceRead, Message
    <2>3. pongs \in [Peer -> Seq(Nonce \cup {0})] /\ pongs[p] \in Seq(Nonce \cup {0})
      BY <1>1, PeerFacts DEF PingTypeOK
    <2>4. pongs' = [pongs EXCEPT ![p] = IF Answered(handle[p].version)
                                        THEN Append(@, n) ELSE @]
      BY DEF HandlePing
    <2> HIDE DEF n
    <2>5. Append(pongs[p], n) \in Seq(Nonce \cup {0})
      BY <2>2, <2>3, AppendProperties
    <2> QED
      BY <2>3, <2>4, <2>5
  <1>4. PingTypeOK'
    BY <1>1, <1>2, <1>3, TookWire DEF PingTypeOK
  <1>5. EchoesOwn'
    BY <1>1, <1>2, TookWire DEF EchoesOwn
  <1>6. RemembersPing' /\ NoncesApart' /\ MeasuredAfterVersion'
    BY <1>1, <1>2 DEF RemembersPing, NoncesApart, MeasuredAfterVersion
  <1> QED
    BY <1>4, <1>5, <1>6 DEF PingInv

LEMMA HandlePongStep ==
  ASSUME PingInv, NEW p \in Peer, HandlePong(p)
  PROVE  PingInv'
  <1>1. PingTypeOK /\ RemembersPing /\ NoncesApart /\ EchoesOwn /\ MeasuredAfterVersion
    BY DEF PingInv
  <1> DEFINE counts == Counts(handle[p], Head(wire[p]).nonce)
             new == IF counts THEN Average(handle[p]) ELSE handle[p].latency
  <1>2. /\ Took(p, "pong")
        /\ handle' = [handle EXCEPT ![p].latency = new]
        /\ UNCHANGED <<clock, connected, pongs, asked, pings, drawn, lastPing>>
    BY <1>1 DEF HandlePong, remoteVars
  <1>3. /\ new \in Nat /\ new < LatencyLimit
        /\ new # 0 => handle[p].version > NonceVersion
    <2>1. CASE counts
      BY <1>2, <2>1, PongThatCounts
    <2>2. CASE ~counts
      BY <1>1, <2>2, PeerFacts DEF MeasuredAfterVersion
    <2> QED
      BY <2>1, <2>2
  <1> HIDE DEF new
  <1>4. \A q \in Peer : /\ handle'[q].nonce = handle[q].nonce
                        /\ handle'[q].time = handle[q].time
                        /\ handle'[q].version = handle[q].version
                        /\ handle'[q].latency = IF q = p THEN new ELSE handle[q].latency
    BY <1>1, <1>2 DEF PingTypeOK, PeerHandle
  <1>5. PingTypeOK'
    <2>1. handle' \in [Peer -> PeerHandle]
      BY <1>1, <1>2, <1>3 DEF PingTypeOK, PeerHandle
    <2> QED
      BY <1>1, <1>2, <2>1, TookWire DEF PingTypeOK
  <1>6. RemembersPing' /\ NoncesApart'
    BY <1>1, <1>2, <1>4 DEF RemembersPing, NoncesApart
  <1>7. EchoesOwn'
    BY <1>1, <1>2, TookWire DEF EchoesOwn
  <1>8. MeasuredAfterVersion'
    BY <1>1, <1>2, <1>3, <1>4 DEF MeasuredAfterVersion
  <1> QED
    BY <1>5, <1>6, <1>7, <1>8 DEF PingInv

LEMMA PingInvNext == PingInv /\ [Next]_vars => PingInv'
  <1>1. ASSUME PingInv, UNCHANGED vars PROVE PingInv'
    BY <1>1 DEF vars, PingInv, PingTypeOK, RemembersPing, NoncesApart, EchoesOwn,
                MeasuredAfterVersion
  <1> QED
    BY <1>1, ConnectStep, TickStep, SetVersionStep, DisconnectStep, PollStep,
       RemotePongStep, RemotePingStep, HandlePingStep, HandlePongStep DEF Next

-----------------------------------------------------------------------------
(* What a handle remembers is the last ping of its connection, no nonce is  *)
(* known to two remote ends, and no latency comes before a version that has *)
(* nonces, or is not below the limit.                                       *)
THEOREM PingInvariant == Spec => []PingInv
  BY PingInvInit, PingInvNext, PTL DEF Spec

(* The latency of a connection is changed by nothing but a pong that echoes *)
(* the last ping of that connection, in time, and then to or towards the    *)
(* time since that ping.                                                    *)
THEOREM LatencyIsMeasured == Spec => LatencyMeasured
  <1> DEFINE Measured(p) ==
        handle'[p].latency # handle[p].latency =>
         LET took == clock - lastPing[p].time
             old  == handle[p].latency
         IN  /\ lastPing[p].nonce \in asked[p] \ {0}
             /\ lastPing[p].time < clock /\ took < LatencyLimit
             /\ wire[p] # <<>>
             /\ Head(wire[p]) = [command |-> "pong", nonce |-> lastPing[p].nonce]
             /\ Between(handle'[p].latency, IF old = 0 THEN took ELSE old, took)
  <1>1. ASSUME PingInv, [Next]_vars, NEW p \in connected \cap connected'
        PROVE  Measured(p)
    <2>1. p \in Peer /\ PingTypeOK /\ handle \in [Peer -> PeerHandle]
      BY <1>1 DEF PingInv, PingTypeOK
    <2>2. CASE HandlePong(p)
      <3>1. handle'[p].latency = IF Counts(handle[p], Head(wire[p]).nonce)
                                 THEN Average(handle[p]) ELSE handle[p].latency
        BY <2>1, <2>2 DEF HandlePong, PeerHandle
      <3>2. Took(p, "pong")
        BY <2>2 DEF HandlePong
      <3> QED
        BY <1>1, <2>1, <3>1, <3>2, PongThatCounts
    <2>3. ASSUME ~HandlePong(p) PROVE handle'[p].latency = handle[p].latency
      <3>1. CASE Tick \/ UNCHANGED vars
        BY <3>1 DEF Tick, vars
      <3>2. CASE Poll
        <4>1. PICK n \in Draws :
                handle' = [q \in Peer |-> IF q \in connected THEN SetPing(handle[q], n[q])
                                                             ELSE handle[q]]
          BY <3>2 DEF Poll
        <4>2. handle'[p] = SetPing(handle[p], n[p])
          BY <1>1, <2>1, <4>1
        <4>3. n[p] \in Nonce \cup {0} /\ handle[p] \in PeerHandle /\ clock \in Time
          BY <1>1, <2>1, PeerFacts DEF Draws
        <4> QED
          BY <4>2, <4>3, SetPingFields
      <3>3. ASSUME NEW q \in Peer,
                   \/ Connect(q) \/ RemotePong(q) \/ RemotePing(q) \/ HandlePing(q)
            PROVE  handle'[p].latency = handle[p].latency
        BY <3>3 DEF Connect, RemotePong, RemotePing, HandlePing
      <3>4. ASSUME NEW q \in Peer, SetVersion(q)
            PROVE  handle'[p].latency = handle[p].latency
        BY <2>1, <3>4 DEF SetVersion, PeerHandle
      <3>5. ASSUME NEW q \in Peer, Disconnect(q)
            PROVE  handle'[p].latency = handle[p].latency
        <4>1. q # p
          BY <1>1, <3>5 DEF Disconnect
        <4> QED
          BY <2>1, <3>5, <4>1 DEF Disconnect
      <3>6. ASSUME NEW q \in Peer, HandlePong(q)
            PROVE  handle'[p].latency = handle[p].latency
        <4>1. q # p
          BY <2>3, <3>6
        <4> QED
          BY <2>1, <3>6, <4>1 DEF HandlePong
      <3> QED
        BY <1>1, <3>1, <3>2, <3>3, <3>4, <3>5, <3>6 DEF Next
    <2> QED
      BY <2>2, <2>3
  <1>2. PingInv /\ [Next]_vars => [\A p \in connected \cap connected' : Measured(p)]_vars
    BY <1>1
  <1> QED
    BY PingInvariant, <1>2, PTL DEF Spec, LatencyMeasured

-----------------------------------------------------------------------------
(***************************************************************************)
(* Pongs.                                                                  *)
(***************************************************************************)
(* A function that says where the pings after the first n are. *)
Places(ps, w, n, place) ==
  /\ place \in [(n + 1)..Len(ps) -> DOMAIN w]
  /\ \A i, j \in DOMAIN place : i < j => place[i] < place[j]
  /\ \A i \in DOMAIN place : w[place[i]] = [command |-> "ping", nonce |-> ps[i]]
  /\ \A k \in DOMAIN w : w[k].command = "ping" => \E i \in DOMAIN place : place[i] = k

LEMMA LeftIsPlaces ==
  ASSUME NEW ps, NEW w, NEW n
  PROVE  LeftOnWire(ps, w, n) <=> \E place : Places(ps, w, n, place)
  BY DEF LeftOnWire, Places

(* A sequence with one more element. *)
LEMMA AppendElements ==
  ASSUME NEW S, NEW s \in Seq(S), NEW e \in S
  PROVE  /\ Append(s, e) \in Seq(S)
         /\ Len(s) \in Nat
         /\ Len(Append(s, e)) = Len(s) + 1
         /\ DOMAIN s = 1..Len(s)
         /\ DOMAIN Append(s, e) = 1..(Len(s) + 1)
         /\ \A i \in 1..Len(s) : Append(s, e)[i] = s[i]
         /\ Append(s, e)[Len(s) + 1] = e
  BY AppendProperties, LenProperties

(* A sequence without its first element. *)
LEMMA TailElements ==
  ASSUME NEW S, NEW s \in Seq(S), s # <<>>
  PROVE  /\ Head(s) \in S
         /\ Len(s) \in Nat \ {0}
         /\ DOMAIN s = 1..Len(s)
         /\ DOMAIN Tail(s) = 1..(Len(s) - 1)
         /\ \A i \in 1..(Len(s) - 1) : Tail(s)[i] = s[i + 1]
         /\ Head(s) = s[1]
  <1>1. Len(s) \in Nat \ {0} /\ DOMAIN s = 1..Len(s)
    BY EmptySeq, LenProperties
  <1>2. Tail(s) \in Seq(S) /\ Len(Tail(s)) = Len(s) - 1 /\ Head(s) \in S
    BY HeadTailProperties
  <1>3. DOMAIN Tail(s) = 1..(Len(s) - 1)
    BY <1>2, LenProperties
  <1>4. \A i \in 1..(Len(s) - 1) : Tail(s)[i] = s[i + 1]
    BY <1>1, HeadTailProperties
  <1> QED
    BY <1>1, <1>2, <1>3, <1>4

(* The first n elements, and one more. *)
LEMMA FirstOnes ==
  ASSUME NEW S, NEW s \in Seq(S)
  PROVE  /\ SubSeq(s, 1, 0) = <<>>
         /\ \A n \in 0..Len(s), e \in S : SubSeq(Append(s, e), 1, n) = SubSeq(s, 1, n)
         /\ \A n \in 0..(Len(s) - 1) :
              SubSeq(s, 1, n + 1) = Append(SubSeq(s, 1, n), s[n + 1])
  <1>1. Len(s) \in Nat /\ \A i \in 1..Len(s) : s[i] \in S
    BY LenProperties, ElementOfSeq
  <1>2. SubSeq(s, 1, 0) = <<>>
    OBVIOUS
  <1>3. ASSUME NEW n \in 0..Len(s), NEW e \in S
        PROVE  SubSeq(Append(s, e), 1, n) = SubSeq(s, 1, n)
    <2> DEFINE t == Append(s, e)
    <2>1. t \in Seq(S) /\ Len(t) = Len(s) + 1 /\ \A i \in 1..Len(s) : t[i] = s[i]
      BY AppendElements
    <2> HIDE DEF t
    <2>2. /\ SubSeq(t, 1, n) \in Seq(S) /\ Len(SubSeq(t, 1, n)) = n
          /\ \A i \in 1..n : SubSeq(t, 1, n)[i] = t[i]
      BY <1>1, <2>1
    <2>3. /\ SubSeq(s, 1, n) \in Seq(S) /\ Len(SubSeq(s, 1, n)) = n
          /\ \A i \in 1..n : SubSeq(s, 1, n)[i] = s[i]
      BY <1>1
    <2>4. \A i \in 1..n : SubSeq(t, 1, n)[i] = SubSeq(s, 1, n)[i]
      BY <1>1, <2>1, <2>2, <2>3
    <2>5. SubSeq(t, 1, n) = SubSeq(s, 1, n)
      BY <2>2, <2>3, <2>4, SeqEqual
    <2> QED
      BY <2>5 DEF t
  <1>4. ASSUME NEW n \in 0..(Len(s) - 1)
        PROVE  SubSeq(s, 1, n + 1) = Append(SubSeq(s, 1, n), s[n + 1])
    <2> DEFINE u == SubSeq(s, 1, n)
               t == SubSeq(s, 1, n + 1)
    <2>1. s[n + 1] \in S
      BY <1>1
    <2>2. u \in Seq(S) /\ Len(u) = n /\ \A i \in 1..n : u[i] = s[i]
      BY <1>1
    <2>3. t \in Seq(S) /\ Len(t) = n + 1 /\ \A i \in 1..(n + 1) : t[i] = s[i]
      BY <1>1
    <2> HIDE DEF t, u
    <2>4. /\ Append(u, s[n + 1]) \in Seq(S) /\ Len(Append(u, s[n + 1])) = n + 1
          /\ \A i \in 1..n : Append(u, s[n + 1])[i] = u[i]
          /\ Append(u, s[n + 1])[n + 1] = s[n + 1]
      BY <2>1, <2>2, AppendElements
    <2>5. \A i \in 1..(n + 1) : Append(u, s[n + 1])[i] = t[i]
      BY <2>2, <2>3, <2>4
    <2>6. Append(u, s[n + 1]) = t
      BY <2>3, <2>4, <2>5, SeqEqual
    <2> QED
      BY <2>6 DEF t, u
  <1> QED
    BY <1>2, <1>3, <1>4

(* A ping that is sent comes behind the others, *)
LEMMA PlacesPing ==
  ASSUME NEW ps \in Seq(Nonce), NEW w \in Seq(Message), NEW n \in 0..Len(ps), NEW e \in Nonce,
         LeftOnWire(ps, w, n)
  PROVE  LeftOnWire(Append(ps, e), Append(w, [command |-> "ping", nonce |-> e]), n)
  <1> DEFINE m == [command |-> "ping", nonce |-> e]
             qs == Append(ps, e)
             v == Append(w, m)
             L == Len(ps)
             W == Len(w)
  <1>1. m \in Message
    BY DEF Message
  <1>2. /\ L \in Nat /\ Len(qs) = L + 1
        /\ \A i \in 1..L : qs[i] = ps[i]
        /\ qs[L + 1] = e
    BY AppendElements
  <1>3. /\ W \in Nat /\ DOMAIN w = 1..W /\ DOMAIN v = 1..(W + 1)
        /\ \A k \in 1..W : v[k] = w[k]
        /\ v[W + 1] = m
    BY <1>1, AppendElements
  <1>4. PICK f : Places(ps, w, n, f)
    BY LeftIsPlaces
  <1>5. DOMAIN f = (n + 1)..L /\ \A i \in (n + 1)..L : f[i] \in 1..W
    BY <1>3, <1>4 DEF Places
  <1> DEFINE g == [i \in (n + 1)..(L + 1) |-> IF i = L + 1 THEN W + 1 ELSE f[i]]
  <1>0. n \in 0..L
    OBVIOUS
  <1> HIDE DEF qs, v, L, W, m
  <1>6. /\ DOMAIN g = (n + 1)..(L + 1)
        /\ g[L + 1] = W + 1
        /\ \A i \in (n + 1)..L : g[i] = f[i]
        /\ \A i \in (n + 1)..(L + 1) : i = L + 1 \/ i \in (n + 1)..L
    BY <1>0, <1>2
  <1>7. g \in [(n + 1)..Len(qs) -> DOMAIN v]
    BY <1>2, <1>3, <1>5
  <1> HIDE DEF g
  <1>8. ASSUME NEW i \in DOMAIN g, NEW j \in DOMAIN g, i < j PROVE g[i] < g[j]
    <2>1. i \in (n + 1)..L /\ g[i] = f[i] /\ f[i] \in 1..W
      BY <1>2, <1>5, <1>6, <1>8
    <2>2. CASE j = L + 1
      BY <1>3, <1>6, <2>1, <2>2
    <2>3. CASE j \in (n + 1)..L
      BY <1>4, <1>5, <1>6, <1>8, <2>1, <2>3 DEF Places
    <2> QED
      BY <1>6, <2>2, <2>3
  <1>9. ASSUME NEW i \in DOMAIN g PROVE v[g[i]] = [command |-> "ping", nonce |-> qs[i]]
    <2>1. CASE i = L + 1
      BY <1>2, <1>3, <1>6, <2>1 DEF m
    <2>2. CASE i \in (n + 1)..L
      <3>1. i \in 1..L /\ qs[i] = ps[i]
        BY <1>2, <2>2
      <3>2. w[f[i]] = [command |-> "ping", nonce |-> ps[i]]
        BY <1>4, <1>5, <2>2 DEF Places
      <3> QED
        BY <1>3, <1>5, <1>6, <2>2, <3>1, <3>2
    <2> QED
      BY <1>6, <2>1, <2>2
  <1>10. ASSUME NEW k \in DOMAIN v, v[k].command = "ping"
         PROVE  \E i \in DOMAIN g : g[i] = k
    <2>1. CASE k = W + 1
      <3>1. L + 1 \in DOMAIN g
        BY <1>0, <1>2, <1>6
      <3> QED
        BY <1>6, <2>1, <3>1
    <2>2. CASE k # W + 1
      <3>1. k \in DOMAIN w /\ w[k].command = "ping"
        BY <1>3, <1>10, <2>2
      <3>2. PICK i \in DOMAIN f : f[i] = k
        BY <1>4, <3>1 DEF Places
      <3>3. i \in (n + 1)..L /\ i \in DOMAIN g
        BY <1>2, <1>5, <1>6, <3>2
      <3> QED
        BY <1>6, <3>2, <3>3
    <2> QED
      BY <2>1, <2>2
  <1>11. Places(qs, v, n, g)
    BY <1>7, <1>8, <1>9, <1>10 DEF Places
  <1>12. LeftOnWire(qs, v, n)
    BY <1>11, LeftIsPlaces
  <1> QED
    BY <1>12 DEF qs, v, m

(* a pong changes nothing, *)
LEMMA PlacesPong ==
  ASSUME NEW ps, NEW w \in Seq(Message), NEW n, NEW m \in Message, m.command # "ping",
         LeftOnWire(ps, w, n)
  PROVE  LeftOnWire(ps, Append(w, m), n)
  <1> DEFINE v == Append(w, m)
             W == Len(w)
  <1>1. /\ W \in Nat /\ DOMAIN w = 1..W /\ DOMAIN v = 1..(W + 1)
        /\ \A k \in 1..W : v[k] = w[k]
        /\ v[W + 1] = m
    BY AppendElements
  <1> HIDE DEF v, W
  <1>2. PICK f : Places(ps, w, n, f)
    BY LeftIsPlaces
  <1>3. \A k \in DOMAIN v : v[k].command = "ping" => k \in DOMAIN w /\ v[k] = w[k]
    BY <1>1
  <1>4. \A k \in DOMAIN w : k \in DOMAIN v /\ v[k] = w[k]
    BY <1>1
  <1>5. /\ f \in [(n + 1)..Len(ps) -> DOMAIN w]
        /\ \A i \in DOMAIN f : f[i] \in DOMAIN w
    BY <1>2 DEF Places
  <1>6. f \in [(n + 1)..Len(ps) -> DOMAIN v]
    BY <1>4, <1>5
  <1>7. Places(ps, v, n, f)
    BY <1>2, <1>3, <1>4, <1>5, <1>6 DEF Places
  <1>8. LeftOnWire(ps, v, n)
    BY <1>7, LeftIsPlaces
  <1> QED
    BY <1>8 DEF v

(* and what is taken, if it is a ping, is the next. *)
LEMMA PlacesTaken ==
  ASSUME NEW ps, NEW w \in Seq(Message), w # <<>>, NEW n \in 0..Len(ps), Len(ps) \in Nat,
         LeftOnWire(ps, w, n)
  PROVE  /\ Head(w).command # "ping" => LeftOnWire(ps, Tail(w), n)
         /\ Head(w).command = "ping" => /\ n < Len(ps)
                                        /\ Head(w).nonce = ps[n + 1]
                                        /\ LeftOnWire(ps, Tail(w), n + 1)
  <1> DEFINE v == Tail(w)
             L == Len(ps)
             W == Len(w)
  <1>1. /\ W \in Nat \ {0} /\ DOMAIN w = 1..W /\ DOMAIN v = 1..(W - 1)
        /\ \A k \in 1..(W - 1) : v[k] = w[k + 1]
        /\ Head(w) = w[1]
    BY TailElements
  <1>2. PICK f : Places(ps, w, n, f)
    BY LeftIsPlaces
  <1> HIDE DEF v, L, W
  <1>3. /\ DOMAIN f = (n + 1)..L
        /\ \A i \in (n + 1)..L : f[i] \in 1..W
        /\ \A i, j \in (n + 1)..L : i < j => f[i] < f[j]
        /\ \A i \in (n + 1)..L : w[f[i]] = [command |-> "ping", nonce |-> ps[i]]
        /\ \A k \in 1..W : w[k].command = "ping" => \E i \in (n + 1)..L : f[i] = k
    BY <1>1, <1>2 DEF Places, L
  <1>4. L \in Nat /\ n \in 0..L
    BY DEF L
  (* The same places, one to the left, from one ping on. *)
  <1>5. ASSUME NEW b \in n..L, \A i \in (b + 1)..L : f[i] # 1,
               \A i \in (n + 1)..b : f[i] = 1
        PROVE  LeftOnWire(ps, v, b)
    <2> DEFINE g == [i \in (b + 1)..L |-> f[i] - 1]
    <2>1. \A i \in (b + 1)..L : i \in (n + 1)..L /\ f[i] \in 2..W /\ f[i] - 1 \in 1..(W - 1)
      BY <1>1, <1>3, <1>4, <1>5
    <2>2. DOMAIN g = (b + 1)..L /\ \A i \in (b + 1)..L : g[i] = f[i] - 1
      OBVIOUS
    <2>3. g \in [(b + 1)..Len(ps) -> DOMAIN v]
      BY <1>1, <2>1 DEF L
    <2> HIDE DEF g
    <2>4. \A i, j \in DOMAIN g : i < j => g[i] < g[j]
      <3> SUFFICES ASSUME NEW i \in (b + 1)..L, NEW j \in (b + 1)..L, i < j
                   PROVE  f[i] - 1 < f[j] - 1
        BY <2>2
      <3>1. f[i] < f[j] /\ f[i] \in 1..W /\ f[j] \in 1..W
        BY <1>3, <2>1
      <3> QED
        BY <1>1, <3>1
    <2>5. \A i \in DOMAIN g : v[g[i]] = [command |-> "ping", nonce |-> ps[i]]
      <3> SUFFICES ASSUME NEW i \in (b + 1)..L
                   PROVE  v[f[i] - 1] = [command |-> "ping", nonce |-> ps[i]]
        BY <2>2
      <3>1. f[i] - 1 \in 1..(W - 1) /\ (f[i] - 1) + 1 = f[i]
        BY <2>1
      <3>2. v[f[i] - 1] = w[f[i]]
        BY <1>1, <3>1
      <3> QED
        BY <1>3, <2>1, <3>2
    <2>6. ASSUME NEW k \in DOMAIN v, v[k].command = "ping"
          PROVE  \E i \in DOMAIN g : g[i] = k
      <3>1. k \in 1..(W - 1) /\ k + 1 \in 1..W /\ w[k + 1].command = "ping" /\ k + 1 # 1
        BY <1>1, <2>6
      <3>2. PICK i \in (n + 1)..L : f[i] = k + 1
        BY <1>3, <3>1
      <3>3. i \in (b + 1)..L
        BY <1>4, <1>5, <3>1, <3>2
      <3>4. g[i] = k
        BY <2>2, <3>1, <3>2, <3>3
      <3> QED
        BY <2>2, <3>3, <3>4
    <2>7. Places(ps, v, b, g)
      BY <2>3, <2>4, <2>5, <2>6 DEF Places
    <2> QED
      BY <2>7, LeftIsPlaces
  <1>6. ASSUME Head(w).command # "ping" PROVE LeftOnWire(ps, v, n)
    <2>1. ASSUME NEW i \in (n + 1)..L PROVE f[i] # 1
      <3>1. w[f[i]] = [command |-> "ping", nonce |-> ps[i]]
        BY <1>3
      <3>2. w[f[i]].command = "ping"
        BY <3>1
      <3> QED
        BY <1>1, <1>6, <3>2
    <2>2. n \in n..L /\ \A i \in (n + 1)..n : f[i] = 1
      BY <1>4
    <2> QED
      BY <1>5, <2>1, <2>2
  <1>7. ASSUME Head(w).command = "ping"
        PROVE  n < L /\ Head(w).nonce = ps[n + 1] /\ LeftOnWire(ps, v, n + 1)
    <2>1. 1 \in 1..W /\ w[1].command = "ping"
      BY <1>1, <1>7
    <2>2. PICK i \in (n + 1)..L : f[i] = 1
      BY <1>3, <2>1
    <2>3. n + 1 \in (n + 1)..L /\ n < L
      BY <1>4, <2>2
    <2>4. i = n + 1
      <3> SUFFICES ASSUME i # n + 1 PROVE FALSE
        OBVIOUS
      <3>1. n + 1 < i
        BY <1>4, <2>2
      <3>2. f[n + 1] < f[i] /\ f[n + 1] \in 1..W
        BY <1>3, <2>2, <2>3, <3>1
      <3> QED
        BY <1>1, <2>2, <3>2
    <2>5. Head(w).nonce = ps[n + 1]
      <3>1. w[1] = [command |-> "ping", nonce |-> ps[n + 1]]
        BY <1>3, <2>2, <2>4
      <3> QED
        BY <1>1, <3>1
    <2>6. \A j \in ((n + 1) + 1)..L : f[j] # 1
      <3> SUFFICES ASSUME NEW j \in ((n + 1) + 1)..L PROVE f[j] # 1
        OBVIOUS
      <3>1. j \in (n + 1)..L /\ n + 1 < j
        BY <1>4
      <3>2. f[n + 1] < f[j] /\ f[j] \in 1..W
        BY <1>3, <2>3, <3>1
      <3> QED
        BY <1>1, <2>2, <2>4, <3>2
    <2>7. n + 1 \in n..L /\ \A j \in (n + 1)..(n + 1) : f[j] = 1
      BY <1>4, <2>2, <2>3, <2>4
    <2>8. LeftOnWire(ps, v, n + 1)
      BY <1>5, <2>6, <2>7
    <2> QED
      BY <2>3, <2>5, <2>8
  <1> QED
    BY <1>6, <1>7 DEF v, L

-----------------------------------------------------------------------------
(* What the echo is under each operation. *)
LEMMA EchoStart == EchoOf(<<>>, <<>>, <<>>, 0)
  <1> DEFINE none == [i \in 1..0 |-> 0]
  <1>1. DOMAIN <<>> = {} /\ Len(<<>>) = 0 /\ 1..0 = {} /\ SubSeq(<<>>, 1, 0) = <<>>
    OBVIOUS
  <1>2. DOMAIN none = {} /\ none \in [(0 + 1)..0 -> {}]
    BY <1>1
  <1> HIDE DEF none
  <1>3. Places(<<>>, <<>>, 0, none)
    BY <1>1, <1>2 DEF Places
  <1>4. LeftOnWire(<<>>, <<>>, 0)
    BY <1>3, LeftIsPlaces
  <1>5. 0 \in 0..0 /\ (IF 0 > NonceVersion THEN SubSeq(<<>>, 1, 0) ELSE <<>>) = <<>>
    BY <1>1
  <1> QED
    BY <1>1, <1>4, <1>5 DEF EchoOf

LEMMA EchoVersion ==
  ASSUME NEW ps \in Seq(Nonce), NEW w, NEW gs, EchoOf(ps, w, gs, 0), NEW v \in Nat
  PROVE  EchoOf(ps, w, gs, v)
  <1>1. PICK n \in 0..Len(ps) :
          /\ LeftOnWire(ps, w, n) /\ n = 0
          /\ gs = IF 0 > NonceVersion THEN SubSeq(ps, 1, n) ELSE <<>>
    BY DEF EchoOf
  <1>2. gs = <<>> /\ SubSeq(ps, 1, n) = <<>>
    BY <1>1, FirstOnes, LimitAssumption
  <1>3. gs = IF v > NonceVersion THEN SubSeq(ps, 1, n) ELSE <<>>
    BY <1>2
  <1> QED
    BY <1>1, <1>3 DEF EchoOf

LEMMA EchoPing ==
  ASSUME NEW ps \in Seq(Nonce), NEW w \in Seq(Message), NEW gs, NEW v, NEW e \in Nonce,
         EchoOf(ps, w, gs, v)
  PROVE  EchoOf(Append(ps, e), Append(w, [command |-> "ping", nonce |-> e]), gs, v)
  <1>1. PICK n \in 0..Len(ps) :
          /\ LeftOnWire(ps, w, n) /\ (v = 0 => n = 0)
          /\ gs = IF v > NonceVersion THEN SubSeq(ps, 1, n) ELSE <<>>
    BY DEF EchoOf
  <1>2. LeftOnWire(Append(ps, e), Append(w, [command |-> "ping", nonce |-> e]), n)
    BY <1>1, PlacesPing
  <1>3. SubSeq(Append(ps, e), 1, n) = SubSeq(ps, 1, n)
    BY FirstOnes
  <1>4. n \in 0..Len(Append(ps, e))
    <2>1. Len(ps) \in Nat /\ Len(Append(ps, e)) = Len(ps) + 1
      BY AppendElements
    <2> QED
      BY <2>1
  <1>5. gs = IF v > NonceVersion THEN SubSeq(Append(ps, e), 1, n) ELSE <<>>
    BY <1>1, <1>3
  <1> QED
    BY <1>1, <1>2, <1>4, <1>5 DEF EchoOf

LEMMA EchoPong ==
  ASSUME NEW ps, NEW w \in Seq(Message), NEW gs, NEW v, NEW m \in Message,
         m.command # "ping", EchoOf(ps, w, gs, v)
  PROVE  EchoOf(ps, Append(w, m), gs, v)
  BY PlacesPong DEF EchoOf

(* A message is taken: a ping is answered, in a version that has pongs.     *)
LEMMA EchoTaken ==
  ASSUME NEW ps \in Seq(Nonce), NEW w \in Seq(Message), w # <<>>, NEW gs, NEW v \in Nat,
         v # 0, EchoOf(ps, w, gs, v)
  PROVE  EchoOf(ps, Tail(w),
                IF Head(w).command = "ping" /\ v > NonceVersion
                THEN Append(gs, Head(w).nonce) ELSE gs, v)
  <1>0. Len(ps) \in Nat
    BY LenProperties
  <1>1. PICK n \in 0..Len(ps) :
          /\ LeftOnWire(ps, w, n)
          /\ gs = IF v > NonceVersion THEN SubSeq(ps, 1, n) ELSE <<>>
    BY DEF EchoOf
  <1>2. CASE Head(w).command # "ping"
    <2>1. LeftOnWire(ps, Tail(w), n)
      BY <1>0, <1>1, <1>2, PlacesTaken
    <2>2. EchoOf(ps, Tail(w), gs, v)
      BY <1>1, <2>1 DEF EchoOf
    <2> QED
      BY <1>2, <2>2
  <1>3. CASE Head(w).command = "ping"
    <2> DEFINE hs == IF v > NonceVersion THEN Append(gs, Head(w).nonce) ELSE gs
    <2>1. /\ n < Len(ps) /\ Head(w).nonce = ps[n + 1]
          /\ LeftOnWire(ps, Tail(w), n + 1)
      BY <1>0, <1>1, <1>3, PlacesTaken
    <2>2. n + 1 \in 0..Len(ps) /\ n \in 0..(Len(ps) - 1)
      BY <1>0, <2>1
    <2>3. SubSeq(ps, 1, n + 1) = Append(SubSeq(ps, 1, n), ps[n + 1])
      BY <2>2, FirstOnes
    <2>4. hs = IF v > NonceVersion THEN SubSeq(ps, 1, n + 1) ELSE <<>>
      BY <1>1, <2>1, <2>3
    <2> HIDE DEF hs
    <2>5. EchoOf(ps, Tail(w), hs, v)
      BY <2>1, <2>2, <2>4 DEF EchoOf
    <2> QED
      BY <1>3, <2>5 DEF hs
  <1> QED
    BY <1>2, <1>3

LEMMA EchoInit == Init => PongsEcho
  <1> SUFFICES ASSUME Init, NEW p \in Peer
               PROVE  EchoOf(pings[p], wire[p], pongs[p], handle[p].version)
    BY DEF PongsEcho
  <1>1. pings[p] = <<>> /\ wire[p] = <<>> /\ pongs[p] = <<>> /\ handle[p].version = 0
    BY DEF Init, NewHandle
  <1> QED
    BY <1>1, EchoStart

(* What a step does on one connection. *)
LEMMA EchoNext ==
  ASSUME PingTypeOK, PongsEcho, [Next]_vars
  PROVE  PongsEcho'
  <1> DEFINE Echoed(q) == EchoOf(pings'[q], wire'[q], pongs'[q], handle'[q].version)
             Still(q) == /\ pings'[q] = pings[q] /\ wire'[q] = wire[q]
                         /\ pongs'[q] = pongs[q]
                         /\ handle'[q].version = handle[q].version
  <1> SUFFICES ASSUME NEW q \in Peer PROVE Echoed(q)
    BY DEF PongsEcho
  <1> DEFINE ps == pings[q]
             w == wire[q]
             gs == pongs[q]
             v == handle[q].version
  <1>1. /\ ps \in Seq(Nonce) /\ w \in Seq(Message) /\ v \in Nat
        /\ EchoOf(ps, w, gs, v)
    BY PeerFacts DEF PongsEcho
  <1>2. Still(q) => Echoed(q)
    BY <1>1
  <1>3. /\ pings \in [Peer -> Seq(Nonce)]
        /\ wire \in [Peer -> Seq(Message)]
        /\ pongs \in [Peer -> Seq(Nonce \cup {0})]
        /\ handle \in [Peer -> PeerHandle]
        /\ \A r \in Peer : handle[r] \in PeerHandle
    BY DEF PingTypeOK
  <1>4. CASE UNCHANGED vars \/ Tick
    BY <1>2, <1>4 DEF vars, Tick, remoteVars
  <1>5. CASE Poll
    <2>1. PICK n \in Draws :
            handle' = [p \in Peer |-> IF p \in connected THEN SetPing(handle[p], n[p])
                                                         ELSE handle[p]]
      BY <1>5 DEF Poll
    <2>2. UNCHANGED <<pings, wire, pongs>>
      BY <1>5 DEF Poll
    <2>3. \A h : SetPing(h, n[q]) = [[h EXCEPT !.nonce = n[q]] EXCEPT !.time = clock]
      BY DEF SetPing
    <2>4. \A h \in PeerHandle : SetPing(h, n[q]).version = h.version
      BY <2>3 DEF PeerHandle
    <2>5. handle'[q].version = handle[q].version
      BY <1>3, <2>1, <2>4
    <2> QED
      BY <1>2, <2>2, <2>5
  <1>6. ASSUME NEW p \in Peer, Connect(p) PROVE Echoed(q)
    BY <1>2, <1>6 DEF Connect, remoteVars
  <1>7. ASSUME NEW p \in Peer, SetVersion(p) PROVE Echoed(q)
    <2>1. PICK u \in Version \ {0} : handle' = [handle EXCEPT ![p].version = u]
      BY <1>7 DEF SetVersion
    <2>2. UNCHANGED <<pings, wire, pongs>> /\ handle[p].version = 0
      BY <1>7 DEF SetVersion, remoteVars
    <2>3. CASE q = p
      <3>1. handle'[q].version = u /\ u \in Nat
        BY <1>3, <2>1, <2>3, VersionAssumption DEF PeerHandle
      <3>2. EchoOf(ps, w, gs, u)
        BY <1>1, <2>2, <2>3, <3>1, EchoVersion
      <3> QED
        BY <2>2, <3>1, <3>2
    <2>4. CASE q # p
      BY <1>2, <1>3, <2>1, <2>2, <2>4
    <2> QED
      BY <2>3, <2>4
  <1>8. ASSUME NEW p \in Peer, Disconnect(p) PROVE Echoed(q)
    <2>1. CASE q = p
      <3>1. /\ pings'[q] = <<>> /\ wire'[q] = <<>> /\ pongs'[q] = <<>>
            /\ handle'[q].version = 0
        BY <1>3, <1>8, <2>1 DEF Disconnect, NewHandle
      <3> QED
        BY <3>1, EchoStart
    <2>2. CASE q # p
      BY <1>2, <1>3, <1>8, <2>2 DEF Disconnect
    <2> QED
      BY <2>1, <2>2
  <1>9. ASSUME NEW p \in Peer, RemotePong(p) PROVE Echoed(q)
    <2>1. PICK n \in asked[p] \cup {0} : Sends(p, "pong", n)
      BY <1>9 DEF RemotePong
    <2> DEFINE m == [command |-> "pong", nonce |-> n]
    <2>2. UNCHANGED <<pings, pongs, handle>>
      BY <1>9 DEF RemotePong, remoteVars
    <2>3. wire' = [wire EXCEPT ![p] = Append(@, m)]
      BY <2>1 DEF Sends
    <2>4. m \in Message /\ m.command # "ping"
      BY PeerFacts DEF Message
    <2> HIDE DEF m
    <2>5. CASE q = p
      <3>1. wire'[q] = Append(w, m)
        BY <1>3, <2>3, <2>5
      <3>2. EchoOf(ps, Append(w, m), gs, v)
        BY <1>1, <2>4, EchoPong
      <3> QED
        BY <2>2, <3>1, <3>2
    <2>6. CASE q # p
      BY <1>2, <1>3, <2>2, <2>3, <2>6
    <2> QED
      BY <2>5, <2>6
  <1>10. ASSUME NEW p \in Peer, RemotePing(p) PROVE Echoed(q)
    <2>1. PICK e \in Nonce :
            Sends(p, "ping", e) /\ pings' = [pings EXCEPT ![p] = Append(@, e)]
      BY <1>10 DEF RemotePing
    <2>2. UNCHANGED <<pongs, handle>>
      BY <1>10 DEF RemotePing
    <2>3. wire' = [wire EXCEPT ![p] = Append(@, [command |-> "ping", nonce |-> e])]
      BY <2>1 DEF Sends
    <2>4. CASE q = p
      <3>1. /\ wire'[q] = Append(w, [command |-> "ping", nonce |-> e])
            /\ pings'[q] = Append(ps, e)
        BY <1>3, <2>1, <2>3, <2>4
      <3>2. EchoOf(Append(ps, e), Append(w, [command |-> "ping", nonce |-> e]), gs, v)
        BY <1>1, EchoPing
      <3> QED
        BY <2>2, <3>1, <3>2
    <2>5. CASE q # p
      BY <1>2, <1>3, <2>1, <2>2, <2>3, <2>5
    <2> QED
      BY <2>4, <2>5
  <1>11. ASSUME NEW p \in Peer, HandlePing(p) PROVE Echoed(q)
    <2>1. /\ Took(p, "ping")
          /\ UNCHANGED <<pings, handle>>
          /\ pongs' = [pongs EXCEPT ![p] =
                         IF Answered(handle[p].version)
                         THEN Append(@, NonceRead(handle[p].version, Head(wire[p]).nonce))
                         ELSE @]
      BY <1>11 DEF HandlePing, remoteVars
    <2>2. /\ handle[p].version # 0 /\ wire[p] # <<>> /\ Head(wire[p]).command = "ping"
          /\ wire' = [wire EXCEPT ![p] = Tail(@)]
      BY <2>1 DEF Took
    <2>3. CASE q = p
      <3>1. /\ wire'[q] = Tail(w)
            /\ pongs'[q] = IF v > NonceVersion THEN Append(gs, Head(w).nonce) ELSE gs
        BY <1>3, <2>1, <2>2, <2>3 DEF Answered, NonceRead
      <3>2. EchoOf(ps, Tail(w),
                   IF Head(w).command = "ping" /\ v > NonceVersion
                   THEN Append(gs, Head(w).nonce) ELSE gs, v)
        BY <1>1, <2>2, <2>3, EchoTaken
      <3>3. EchoOf(ps, Tail(w), pongs'[q], v)
        BY <2>2, <2>3, <3>1, <3>2
      <3> QED
        BY <2>1, <3>1, <3>3
    <2>4. CASE q # p
      BY <1>2, <1>3, <2>1, <2>2, <2>4
    <2> QED
      BY <2>3, <2>4
  <1>12. ASSUME NEW p \in Peer, HandlePong(p) PROVE Echoed(q)
    <2> DEFINE new == IF Counts(handle[p], Head(wire[p]).nonce) THEN Average(handle[p])
                                                                ELSE handle[p].latency
    <2>1. /\ Took(p, "pong")
          /\ UNCHANGED <<pings, pongs>>
          /\ handle' = [handle EXCEPT ![p].latency = new]
      BY <1>3, <1>12 DEF HandlePong, remoteVars
    <2> HIDE DEF new
    <2>2. /\ handle[p].version # 0 /\ wire[p] # <<>> /\ Head(wire[p]).command = "pong"
          /\ wire' = [wire EXCEPT ![p] = Tail(@)]
      BY <2>1 DEF Took
    <2>3. handle'[q].version = handle[q].version
      BY <1>3, <2>1 DEF PeerHandle
    <2>4. CASE q = p
      <3>1. wire'[q] = Tail(w)
        BY <1>3, <2>2, <2>4
      <3>2. EchoOf(ps, Tail(w),
                   IF Head(w).command = "ping" /\ v > NonceVersion
                   THEN Append(gs, Head(w).nonce) ELSE gs, v)
        BY <1>1, <2>2, <2>4, EchoTaken
      <3>3. EchoOf(ps, Tail(w), gs, v)
        BY <2>2, <2>4, <3>2
      <3> QED
        BY <2>1, <2>3, <3>1, <3>3
    <2>5. CASE q # p
      BY <1>2, <1>3, <2>1, <2>2, <2>3, <2>5
    <2> QED
      BY <2>4, <2>5
  <1> QED
    BY <1>4, <1>5, <1>6, <1>7, <1>8, <1>9, <1>10, <1>11, <1>12 DEF Next

(* The pongs of a connection are the nonces of the pings taken from it, in  *)
(* order and each once, at the versions that have them; at others there are *)
(* none.                                                                    *)
THEOREM PongsEchoPings == Spec => []PongsEcho
  <1>1. PingInv => PingTypeOK
    BY DEF PingInv
  <1>2. PingTypeOK /\ PongsEcho /\ [Next]_vars => PongsEcho'
    BY EchoNext
  <1> QED
    BY <1>1, <1>2, EchoInit, PingInvariant, PTL DEF Spec
=============================================================================
