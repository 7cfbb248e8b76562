------------------------------ MODULE Framing -------------------------------
(***************************************************************************)
(* Messages over a TCP connection: sendCodec puts the length before each   *)
(* message, and LengthHeaderCodec::onMessage takes the messages out of the *)
(* input buffer again, however TCP cuts the bytes.                         *)
(*                                                                         *)
(* One direction of one connection.  The sender frames its messages, and   *)
(* may at any time write something else.  onMessage is called when bytes   *)
(* arrive; each turn of its loop is a step.                                *)
(***************************************************************************)
EXTENDS BufferMembers

CONSTANTS
  HeaderLen,   \* kHeaderLen
  MaxLen,      \* 65536
  Payload,     \* messages sent
  Garbage,     \* what a client may write that is not a frame
  MaxWritten   \* bound: bytes written when a client writes more

ASSUME HeaderAssumption == HeaderLen \in Nat \ {0} /\ HeaderLen <= CheapPrepend
ASSUME LengthAssumption == MaxLen \in Integer(HeaderLen)
ASSUME PayloadAssumption ==
  Payload \subseteq Seq(Byte) /\ \A m \in Payload : Len(m) \in Integer(HeaderLen)
ASSUME GarbageAssumption == Garbage \subseteq Seq(Byte)
ASSUME WrittenAssumption == MaxWritten \in Nat

VARIABLES
  sent,        \* the messages sent
  framed,      \* nothing but frames was written
  written,     \* history: all bytes written to the connection
  wire,        \* those that have not arrived
  input,       \* the connection's input buffer
  loop,        \* onMessage is in its while loop
  connection,  \* "connected", or "shutdown" was called
  dispatched   \* the messages messageCallback_ was called with

sender      == <<sent, framed, written>>
framingVars == <<sender, wire, input, loop, connection, dispatched>>

FramingTypeOK ==
  /\ sent \in Seq(Payload)
  /\ framed \in BOOLEAN
  /\ written \in Seq(Byte)
  /\ wire \in Seq(Byte)
  /\ Content(input) \in Seq(Byte)
  /\ loop \in BOOLEAN
  /\ connection \in {"connected", "shutdown"}
  /\ dispatched \in Seq(Seq(Byte))

FramingInit ==
  /\ sent = <<>>
  /\ framed = TRUE
  /\ written = <<>>
  /\ wire = <<>>
  /\ input = NewBuffer(InitialSize)
  /\ loop = FALSE
  /\ connection = "connected"
  /\ dispatched = <<>>

Write(bytes) ==
  /\ Len(written) <= MaxWritten
  /\ written' = written \o bytes
  /\ wire' = wire \o bytes
  /\ UNCHANGED <<input, loop, connection, dispatched>>

\* LengthHeaderCodec::send and sendCodec build the same bytes.
Frame(m) ==
  Content(prependInt(append(NewBuffer(InitialSize), m), HeaderLen, Len(m)))

\* A message of any length is sent, also one the receiver takes as invalid.
sendCodec(m) ==
  /\ Write(Frame(m))
  /\ sent' = Append(sent, m)
  /\ UNCHANGED framed

WriteGarbage(s) ==
  /\ Write(s)
  /\ framed' = FALSE
  /\ UNCHANGED sent

\* Some of the bytes under way arrive.
Arrive ==
  /\ ~loop
  /\ \E n \in 1 .. Len(wire) :
       /\ input' = append(input, SubSeq(wire, 1, n))
       /\ wire' = SubSeq(wire, n + 1, Len(wire))
  /\ loop' = TRUE
  /\ UNCHANGED <<sender, connection, dispatched>>

HasHeader == readableBytes(input) >= HeaderLen

Length == peekInt(input, HeaderLen)

InvalidLength(len) == len > MaxLen \/ len < 0

\* onMessage returns after one message (mutation).
DispatchOnce ==
  /\ loop
  /\ HasHeader
  /\ ~InvalidLength(Length)
  /\ readableBytes(input) >= Length + HeaderLen
  /\ LET body == retrieve(input, HeaderLen)
     IN  /\ dispatched' = Append(dispatched, Front(body, Length))
         /\ input' = retrieve(body, Length)
  /\ loop' = FALSE
  /\ UNCHANGED <<sender, wire, connection>>

\* The message is retrieved with the buffer's header still before it (mutation).
DispatchUnretrieved ==
  /\ loop
  /\ HasHeader
  /\ ~InvalidLength(Length)
  /\ readableBytes(input) >= Length + HeaderLen
  /\ dispatched' = Append(dispatched, Front(retrieve(input, HeaderLen), Length))
  /\ input' = retrieve(input, Length)
  /\ UNCHANGED <<sender, wire, loop, connection>>

Dispatch ==
  /\ loop
  /\ HasHeader
  /\ ~InvalidLength(Length)
  /\ readableBytes(input) >= Length + HeaderLen
  /\ LET body == retrieve(input, HeaderLen)
     IN  /\ dispatched' = Append(dispatched, Front(body, Length))
         /\ input' = retrieve(body, Length)
  /\ UNCHANGED <<sender, wire, loop, connection>>

\* The invalid header is skipped (mutation).
InvalidSkips ==
  /\ loop
  /\ HasHeader
  /\ InvalidLength(Length)
  /\ connection' = "shutdown"
  /\ loop' = FALSE
  /\ input' = retrieve(input, HeaderLen)
  /\ UNCHANGED <<sender, wire, dispatched>>

\* The header stays where it is, and reading goes on.
Invalid ==
  /\ loop
  /\ HasHeader
  /\ InvalidLength(Length)
  /\ connection' = "shutdown"
  /\ loop' = FALSE
  /\ UNCHANGED <<sender, wire, input, dispatched>>

\* The loop ends until more bytes arrive.
Incomplete ==
  /\ loop
  /\ HasHeader => /\ ~InvalidLength(Length)
                  /\ readableBytes(input) < Length + HeaderLen
  /\ loop' = FALSE
  /\ UNCHANGED <<sender, wire, input, connection, dispatched>>

onMessage == Dispatch \/ Invalid \/ Incomplete

FramingNext ==
  \/ \E m \in Payload : sendCodec(m)
  \/ \E s \in Garbage : WriteGarbage(s)
  \/ Arrive
  \/ onMessage

\* TCP delivers what was written, and the event loop calls onMessage.
FramingFairness == WF_framingVars(Arrive) /\ WF_framingVars(onMessage)

FramingSpec == FramingInit /\ [][FramingNext]_framingVars /\ FramingFairness

-----------------------------------------------------------------------------
(* Properties *)

\* Messages as they are on the wire.
Frames(messages) ==
  LET bytes[k \in 0 .. Len(messages)] ==
        IF k = 0 THEN <<>>
        ELSE bytes[k - 1] \o hostToNetwork(HeaderLen, Len(messages[k]))
                          \o messages[k]
  IN  bytes[Len(messages)]

\* Each byte is in one of the messages dispatched, in its order, or still in
\* the buffer or under way.
BytesConserved == Frames(dispatched) \o Content(input) \o wire = written

\* What is dispatched of a client that only sends frames is what it sent: the
\* same messages, in their order, none left out and none that the boundaries
\* of another one make up.
DispatchedAsSent ==
  framed =>
    /\ Len(dispatched) <= Len(sent)
    /\ \A k \in DOMAIN dispatched : dispatched[k] = sent[k]

\* However TCP cuts what a client writes, onMessage neither loses nor repeats a
\* byte of it, whatever it is, nor reads other messages in it than were sent.
StreamConserved == BytesConserved /\ DispatchedAsSent

\* After an invalid length nothing is dispatched, though shutdown only closes
\* the other direction and what the client still sends goes on arriving.
NothingAfterInvalid ==
  [][connection = "shutdown" => UNCHANGED dispatched]_framingVars

\* A message of a client that only sends frames is dispatched unless it or one
\* before it is too long.
AllDispatched ==
  \A k \in 1 .. MaxWritten :
    ( /\ framed
      /\ k \in DOMAIN sent
      /\ \A j \in DOMAIN sent : j <= k => Len(sent[j]) <= MaxLen )
      ~> (k \in DOMAIN sent \cap DOMAIN dispatched /\ dispatched[k] = sent[k])
=============================================================================
