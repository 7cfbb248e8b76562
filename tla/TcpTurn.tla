------------------------------ MODULE TcpTurn -------------------------------
(***************************************************************************)
(* The TCP relay.  The first chunk of bytes the relay reads from a new     *)
(* connection is taken as its id; the addresses of two connections with    *)
(* one id are a pair, and every later chunk of one is sent to the other.   *)
(*                                                                         *)
(* TCP keeps the order of a connection's bytes and nothing else, so a      *)
(* chunk is any part of what was sent and not yet read: ids and data are   *)
(* sequences of symbols, cut anywhere.  The tables are by address, and a   *)
(* client may connect again from an address it used before.               *)
(*                                                                         *)
(* Operators marked "(mutation)" are altered forms of the definition that  *)
(* follows them; no specification uses them.                               *)
(***************************************************************************)
EXTENDS Integers, Sequences, FiniteSets

CONSTANTS
  Conn,      \* the connections the relay accepts in its life
  Addr,      \* addresses of clients
  NoConn,    \* no entry in addrToConn
  NoAddr,    \* no entry in a map, or the empty string of a new one
  Streams,   \* what a client may send over a connection
  NoLogin,   \* the text "nologin"
  HasLogin   \* the text "haslogin"

Pieces(s) == {SubSeq(s, i, j) : i \in 1 .. Len(s), j \in 1 .. Len(s)} \ {<<>>}

\* What one read may return: any part of a stream.
Chunk == UNION {Pieces(s) : s \in Streams}

\* Bytes a connection receives: the connection and position they came from.
Received == [from : Conn, pos : Nat]

NoName == <<NoLogin>>
Known  == <<HasLogin>>

ASSUME ConnAssumption   == NoConn \notin Conn
ASSUME AddrAssumption   == NoAddr \notin Addr
ASSUME StreamAssumption == \A s \in Streams : s \in Seq(UNION {{s[i] : i \in DOMAIN s}})
ASSUME NameAssumption   == NoLogin # HasLogin

VARIABLES
  status,      \* a connection is "new", "up" or "down"
  addrOf,      \* conn->peerAddress()
  stream,      \* all its client sends
  read,        \* how much of that the relay has read
  name,        \* conn->name()
  addrToConn,  \* the latest connection of an address; never erased
  idMap,       \* the two addresses registered under an id
  turnMap,     \* where an address is relayed to
  received,    \* what was sent to a connection
  brought      \* history: the ids brought from each address

clients == <<status, addrOf, stream>>
tables  == <<idMap, turnMap>>
vars    == <<clients, read, name, addrToConn, tables, received, brought>>

TypeOK ==
  /\ status \in [Conn -> {"new", "up", "down"}]
  /\ addrOf \in [Conn -> Addr \cup {NoAddr}]
  /\ \A c \in Conn : status[c] # "new" => addrOf[c] \in Addr
  /\ stream \in [Conn -> Streams \cup {<<>>}]
  /\ read \in [Conn -> Nat]
  /\ \A c \in Conn : read[c] <= Len(stream[c])
  /\ \A c \in Conn : status[c] = "new" => stream[c] = <<>>
  /\ name \in [Conn -> Chunk \cup {NoName, Known}]
  /\ addrToConn \in [Addr -> Conn \cup {NoConn}]
  /\ idMap \in [Chunk -> [first  : Addr \cup {NoAddr},
                          second : Addr \cup {NoAddr}]]
  /\ turnMap \in [Addr -> Addr \cup {NoAddr}]
  /\ received \in [Conn -> Seq(Received)]
  /\ brought \in [Addr -> SUBSET Chunk]

Init ==
  /\ status = [c \in Conn |-> "new"]
  /\ addrOf = [c \in Conn |-> NoAddr]
  /\ stream = [c \in Conn |-> <<>>]
  /\ read = [c \in Conn |-> 0]
  /\ name = [c \in Conn |-> NoName]
  /\ addrToConn = [a \in Addr |-> NoConn]
  /\ idMap = [i \in Chunk |-> [first |-> NoAddr, second |-> NoAddr]]
  /\ turnMap = [a \in Addr |-> NoAddr]
  /\ received = [c \in Conn |-> <<>>]
  /\ brought = [a \in Addr |-> {}]

-----------------------------------------------------------------------------
(* onConnection *)

\* An address seen before has to bring its id again (mutation).
NameOfNewAlways(a) == NoName

\* An address seen before is taken as logged in, whatever its connection did.
NameOfNew(a) == IF addrToConn[a] = NoConn THEN NoName ELSE Known

\* Two connections are never open at one time from one address.
Free(a) == \A c \in Conn : status[c] = "up" => addrOf[c] # a

Accept(c, a, s) ==
  /\ status[c] = "new"
  /\ Free(a)
  /\ status' = [status EXCEPT ![c] = "up"]
  /\ addrOf' = [addrOf EXCEPT ![c] = a]
  /\ stream' = [stream EXCEPT ![c] = s]
  /\ name' = [name EXCEPT ![c] = NameOfNew(a)]
  /\ addrToConn' = [addrToConn EXCEPT ![a] = c]
  /\ UNCHANGED <<read, tables, received, brought>>

\* The entry of a closed connection is removed (mutation).
CloseErases(c) ==
  /\ status[c] = "up"
  /\ status' = [status EXCEPT ![c] = "down"]
  /\ addrToConn' = [addrToConn EXCEPT ![addrOf[c]] = NoConn]
  /\ UNCHANGED <<addrOf, stream, read, name, tables, received, brought>>

\* What the client sent and the relay has not read may be lost with it.
Close(c) ==
  /\ status[c] = "up"
  /\ status' = [status EXCEPT ![c] = "down"]
  /\ UNCHANGED <<addrOf, stream, read, name, addrToConn, tables, received,
                 brought>>

-----------------------------------------------------------------------------
(* onMessage *)

\* The n symbols after those already read from c are the chunk msg.
Reads(c, n, msg) ==
  /\ status[c] = "up"
  /\ n \in 1 .. Len(stream[c]) - read[c]
  /\ msg = SubSeq(stream[c], read[c] + 1, read[c] + n)
  /\ read' = [read EXCEPT ![c] = @ + n]

\* The name of c becomes what it brings as its id.
Brings(c, msg) ==
  /\ name[c] = NoName
  /\ name' = [name EXCEPT ![c] = msg]
  /\ brought' = [brought EXCEPT ![addrOf[c]] = @ \cup {msg}]

BringFirst(c, n, msg) ==
  /\ Reads(c, n, msg)
  /\ Brings(c, msg)
  /\ idMap[msg].first = NoAddr
  /\ idMap' = [idMap EXCEPT ![msg].first = addrOf[c]]
  /\ UNCHANGED <<clients, addrToConn, turnMap, received>>

\* Only the client that comes second gets a route (mutation).
PairedOneWay(a, b) == [turnMap EXCEPT ![a] = b]

Paired(a, b) == [turnMap EXCEPT ![a] = b, ![b] = a]

\* The peer is the second of an id that begins like this one (mutation).
BringSecondPrefix(c, n, msg) ==
  /\ Reads(c, n, msg)
  /\ Brings(c, msg)
  /\ idMap[msg].first # NoAddr
  /\ idMap' = [idMap EXCEPT ![msg].second = addrOf[c]]
  /\ \E i \in Chunk : /\ Head(i) = Head(msg)
                      /\ idMap[i].first # NoAddr
                      /\ turnMap' = Paired(addrOf[c], idMap[i].first)
  /\ UNCHANGED <<clients, addrToConn, received>>

\* Whoever was second before keeps its route to the first.
BringSecond(c, n, msg) ==
  /\ Reads(c, n, msg)
  /\ Brings(c, msg)
  /\ idMap[msg].first # NoAddr
  /\ idMap' = [idMap EXCEPT ![msg].second = addrOf[c]]
  /\ turnMap' = Paired(addrOf[c], idMap[msg].first)
  /\ UNCHANGED <<clients, addrToConn, received>>

Peer(c) == addrToConn[turnMap[addrOf[c]]]

\* Only the first symbol of a chunk is sent on (mutation).
RelayedHead(c, n) == [i \in {1} |-> [from |-> c, pos |-> read[c] + 1]]

Relayed(c, n) == [i \in 1 .. n |-> [from |-> c, pos |-> read[c] + i]]

\* send drops what goes to a connection that is down.
RelayData(c, n, msg) ==
  /\ Reads(c, n, msg)
  /\ name[c] # NoName
  /\ turnMap[addrOf[c]] # NoAddr
  /\ received' = IF Peer(c) \in Conn /\ status[Peer(c)] = "up"
                 THEN [received EXCEPT ![Peer(c)] = @ \o Relayed(c, n)]
                 ELSE received
  /\ UNCHANGED <<clients, name, addrToConn, tables, brought>>

\* "no peer"
DropData(c, n, msg) ==
  /\ Reads(c, n, msg)
  /\ name[c] # NoName
  /\ turnMap[addrOf[c]] = NoAddr
  /\ UNCHANGED <<clients, name, addrToConn, tables, received, brought>>

OnMessage(c, n, msg) ==
  \/ BringFirst(c, n, msg)
  \/ BringSecond(c, n, msg)
  \/ RelayData(c, n, msg)
  \/ DropData(c, n, msg)

Next ==
  \E c \in Conn :
    \/ \E a \in Addr, s \in Streams : Accept(c, a, s)
    \/ Close(c)
    \/ \E n \in 1 .. Len(stream[c]) :
         OnMessage(c, n, SubSeq(stream[c], read[c] + 1, read[c] + n))

Spec == Init /\ [][Next]_vars

-----------------------------------------------------------------------------
(* Properties *)

\* An address that sent the text "nologin" for its id is still asked for one.
AskedAgain(a) == NoName \in brought[a]

\* A route leads to an address the relay has had a connection from:
\* onMessage looks it up with operator[] and calls send on what it finds.
RoutesLeadToConnections ==
  \A a \in Addr :
    turnMap[a] # NoAddr => addrToConn[turnMap[a]] # NoConn

\* An address brings one id in the relay's life, even if it connects again:
\* the second time addrToConnMap has it and its connection is "haslogin".
OneIdPerAddress ==
  \A a \in Addr : AskedAgain(a) \/ Cardinality(brought[a]) <= 1

\* Data goes from an address only to one that brought the same id, for all
\* the routes that idMap and turnMap no longer hold together.
DataStaysWithinId ==
  \A c \in Conn : \A k \in DOMAIN received[c] :
    brought[addrOf[c]] \cap brought[addrOf[received[c][k].from]] # {}

\* A route is one-way only when a third address brought the id of the pair:
\* it takes the place of the second, which goes on sending to the first.
OneWayOnlyIfDisplaced ==
  \A a, b \in Addr :
    (turnMap[a] = b /\ turnMap[b] # a) =>
      \/ AskedAgain(a) \/ AskedAgain(b)
      \/ \E d \in Addr \ {a, b} : brought[a] \cap brought[b] \cap brought[d] # {}

\* What a connection receives of another is one piece of what that one sent,
\* without gaps or repeats, however the reads cut it.
StreamFidelity ==
  \A c \in Conn : \A k, l \in DOMAIN received[c] :
    ( /\ k < l
      /\ received[c][k].from = received[c][l].from
      /\ \A m \in k + 1 .. l - 1 : received[c][m].from # received[c][k].from )
    => \/ received[c][l].pos = received[c][k].pos + 1
       \/ \E a \in Addr : AskedAgain(a)
=============================================================================
