------------------------------ MODULE Messages ------------------------------
(***************************************************************************)
(* The messages of src/bitcoin/message.py as fields, one after the other,  *)
(* some of which depend on a version: when a message is encoded, on that   *)
(* of the connection; when it is decoded, on that, or on the one in the    *)
(* message itself.                                                         *)
(*                                                                         *)
(* The value of a field is a sequence: of its bytes, of the characters of  *)
(* a string, or of the one integer it is.                                  *)
(***************************************************************************)
EXTENDS ByteArrayCodec

CONSTANTS MinVersion,   \* 60000: PROTOCOL_MIN_VERSION; pings get a nonce after it
          RelayVersion, \* 70001: version messages have a relay flag from it on
          AddressSize   \* 16

CONSTANTS Sample,       \* messages of each kind
          Version       \* bound: the versions of connections, 0 before one is agreed

ASSUME VersionsAssumption == MinVersion \in Nat \ {0} /\ RelayVersion \in Nat /\ MinVersion < RelayVersion
ASSUME AddressAssumption  == AddressSize \in Nat
ASSUME VersionAssumption  == Version \subseteq Nat

Named(name, f) == <<name, f>>

NetworkAddress(services, address, port) ==
  << Named(services, Fixed(8, FALSE)),
     Named(address, Plain("bytes", AddressSize)),
     Named(port, [Fixed(2, FALSE) EXCEPT !.big = TRUE]) >>

(* "integers" is no message: it has a field for each get and put there is.  *)
Fields ==
  [version |->
     << Named("version", Fixed(4, TRUE)), Named("services", Fixed(8, TRUE)),
        Named("timestamp", Fixed(8, TRUE)) >>
     \o NetworkAddress("to_services", "to_address", "to_port")
     \o NetworkAddress("from_services", "from_address", "from_port")
     \o << Named("connect_id", Fixed(8, FALSE)), Named("client_name", Plain("string", 0)),
           Named("start_height", Fixed(4, TRUE)), Named("relay", Plain("bool", 1)) >>,
   verack  |-> <<>>,
   reject  |-> << Named("message", Plain("string", 0)), Named("ccode", Fixed(1, TRUE)),
                  Named("reason", Plain("string", 0)) >>,
   ping    |-> << Named("nonce", Fixed(8, FALSE)) >>,
   pong    |-> << Named("nonce", Fixed(8, FALSE)) >>,
   address |-> << Named("timestamp", Fixed(4, TRUE)) >>
               \o NetworkAddress("services", "address", "port"),
   integers |-> << Named("ubyte", Fixed(1, FALSE)), Named("ushort", Fixed(2, FALSE)),
                   Named("short", Fixed(2, TRUE)), Named("uint", Fixed(4, FALSE)),
                   Named("var_int", Plain("var_int", 0)) >>]

Kind == DOMAIN Fields

Names(kind) == {Fields[kind][k][1] : k \in DOMAIN Fields[kind]}

(* What the program gives a field: a string is shorter than can be counted. *)
IsValue(f, v) ==
  CASE f.form = "bytes"  -> v \in [1..f.width -> Byte]
    [] f.form = "string" -> v \in Seq(Byte) /\ Len(v) < Power(Radix, 8)
    [] OTHER             -> v \in Seq(Int) /\ Len(v) = 1

ASSUME SampleAssumption ==
  \A kind \in Kind : \A message \in Sample[kind] :
    \A f \in Range(Fields[kind]) : IsValue(f[2], message[f[1]])

Ascii(text) == \A k \in DOMAIN text : 2 * text[k] < Radix

-----------------------------------------------------------------------------
(***************************************************************************)
(* encode().  A string that is not ASCII raises EncodeError.               *)
(***************************************************************************)
Writes_Mutant(kind, version, name) ==
  CASE kind = "version" /\ name = "relay" -> version = 0 \/ version >= RelayVersion
    [] kind = "ping"                      -> version >= MinVersion
    [] kind = "address" /\ name = "timestamp" -> version # 0
    [] OTHER                              -> TRUE

Writes(kind, version, name) ==
  CASE kind = "version" /\ name = "relay" -> version = 0 \/ version >= RelayVersion
    [] kind = "ping"                      -> version > MinVersion
    [] kind = "address" /\ name = "timestamp" -> version # 0
    [] OTHER                              -> TRUE

Encodable(kind, message) ==
  \A k \in DOMAIN Fields[kind] :
    Fields[kind][k][2].form = "string" => Ascii(message[Fields[kind][k][1]])

Written(kind, version, message, f) ==
  IF Writes(kind, version, f[1]) THEN Put(f[2], message[f[1]]) ELSE <<>>

Encode(kind, version, message) ==
  LET upto[k \in 0..Len(Fields[kind])] ==
        IF k = 0 THEN <<>>
        ELSE upto[k - 1] \o Written(kind, version, message, Fields[kind][k])
  IN  upto[Len(Fields[kind])]

-----------------------------------------------------------------------------
(***************************************************************************)
(* decode().  What is not read keeps the value it was constructed with: a  *)
(* version message below the minimum is not read on at all.                *)
(***************************************************************************)
Default(f) == CASE f.form = "string" -> <<>>
                [] f.form = "bytes"  -> [i \in 1..f.width |-> 0]
                [] OTHER             -> <<0>>

New(kind) ==
  [name \in Names(kind) |->
     IF name = "relay" THEN <<1>>
     ELSE Default((CHOOSE f \in Range(Fields[kind]) : f[1] = name)[2])]

Reads(kind, version, sofar, name) ==
  CASE kind = "version" /\ name = "relay" ->
         sofar["version"][1] >= MinVersion /\ sofar["version"][1] >= RelayVersion
    [] kind = "version" /\ name \notin {"version", "relay"} ->
         sofar["version"][1] >= MinVersion
    [] kind = "ping"    -> version > MinVersion
    [] kind = "address" /\ name = "timestamp" -> version # 0
    [] OTHER            -> TRUE

(* Raised: DecoderEOF, or a string that is not ASCII. *)
ReadOn(kind, version, buf, sofar, f) ==
  LET got == Get(f[2], buf, sofar.i)
  IN  IF sofar.raised \/ ~Reads(kind, version, sofar.message, f[1]) THEN sofar
      ELSE [raised  |-> got.eof \/ (f[2].form = "string" /\ ~Ascii(got.value)),
            i       |-> got.i,
            message |-> [sofar.message EXCEPT ![f[1]] = got.value]]

Decode(kind, version, buf) ==
  LET upto[k \in 0..Len(Fields[kind])] ==
        IF k = 0 THEN [raised |-> FALSE, i |-> 0, message |-> New(kind)]
        ELSE ReadOn(kind, version, buf, upto[k - 1], Fields[kind][k])
  IN  upto[Len(Fields[kind])]

-----------------------------------------------------------------------------
(* A message is made, encoded at the version of one connection, and decoded *)
(* at that of another one: here and at the remote end.                      *)
VARIABLES stage,   \* how far it is
          kind, message,
          sentAt,  \* the version it was encoded at
          encoded, \* its bytes
          readAt,  \* the version it was decoded at
          read     \* what came of it

messageVars == <<stage, kind, message, sentAt, encoded, readAt, read>>

Nothing == [raised |-> FALSE, i |-> 0, message |-> <<>>]

MessageIdle ==
  /\ stage = "none" /\ kind = "verack" /\ message = <<>>
  /\ sentAt = 0 /\ encoded = <<>> /\ readAt = 0 /\ read = Nothing

MessageInit ==
  /\ stage = "made"
  /\ kind \in Kind
  /\ message \in Sample[kind]
  /\ sentAt = 0 /\ encoded = <<>> /\ readAt = 0 /\ read = Nothing

Refuse ==
  /\ stage = "made"
  /\ ~Encodable(kind, message)
  /\ stage' = "refused"
  /\ UNCHANGED <<kind, message, sentAt, encoded, readAt, read>>

Send ==
  /\ stage = "made"
  /\ Encodable(kind, message)
  /\ stage' = "sent"
  /\ sentAt' \in Version
  /\ encoded' = Encode(kind, sentAt', message)
  /\ UNCHANGED <<kind, message, readAt, read>>

Receive ==
  /\ stage = "sent"
  /\ stage' = "read"
  /\ readAt' \in Version
  /\ read' = Decode(kind, readAt', encoded)
  /\ UNCHANGED <<kind, message, sentAt, encoded>>

-----------------------------------------------------------------------------
(***************************************************************************)
(* Correctness.                                                            *)
(***************************************************************************)
(* Both ends mean the same fields.  The node sends its version message at   *)
(* version 0; a later one would have its relay flag only if the version of  *)
(* the connection allows, but be read by the version in the message.        *)
Claimed == Wrapped(message["version"][1], 4, TRUE)

Compatible ==
  CASE kind = "version" ->
         /\ Claimed >= MinVersion
         /\ sentAt = 0 \/ sentAt >= RelayVersion <=> Claimed >= RelayVersion
    [] kind = "ping"    -> sentAt > MinVersion <=> readAt > MinVersion
    [] kind = "address" -> sentAt = 0 <=> readAt = 0
    [] OTHER            -> TRUE

Dropped(name) ==
  \/ kind = "version" /\ name = "relay" /\ Claimed < RelayVersion
  \/ kind = "ping" /\ readAt <= MinVersion
  \/ kind = "address" /\ name = "timestamp" /\ readAt = 0

MeantBy(f) == Meant(f[2], message[f[1]])

(* What is encoded is decoded to what it means, to the last byte. *)
RoundTrip ==
  stage = "read" /\ Compatible =>
    /\ ~read.raised
    /\ read.i = Len(encoded)
    /\ \A f \in Range(Fields[kind]) :
         read.message[f[1]] = IF Dropped(f[1]) THEN New(kind)[f[1]] ELSE MeantBy(f)

(* Whatever the versions, and wherever the bytes end, a message is decoded  *)
(* to nothing else: a field is what was meant or is not read, and a message *)
(* cut short raises DecoderEOF, unless the rest of it is not looked at.     *)
NoGarbage ==
  stage = "read" /\ kind # "address" =>
    /\ ~read.raised =>
         \A f \in Range(Fields[kind]) :
           read.message[f[1]] \in {MeantBy(f), New(kind)[f[1]]}
    /\ \A n \in 0..(Len(encoded) - 1) :
         LET cut == Decode(kind, readAt, SubSeq(encoded, 1, n))
         IN  IF read.raised \/ n < read.i THEN cut.raised ELSE cut = read

MessagesRoundTrip == RoundTrip /\ NoGarbage
=============================================================================
