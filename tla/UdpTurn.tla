------------------------------ MODULE UdpTurn -------------------------------
(***************************************************************************)
(* The UDP relay: turnUDP's loop with acceptUdp and handleRead, and the    *)
(* threads that run waitAnswer.                                            *)
(*                                                                         *)
(* A client sends "id:<id>" to the listening socket.  Two clients with one *)
(* id are a pair; each gets a socket of the relay connected to it.  A      *)
(* thread repeats "turn OK" to both until both have sent "OK"; from then   *)
(* on what a client sends is relayed to its peer.                          *)
(*                                                                         *)
(* The loop is one thread and a handler runs to its end, but the kernel    *)
(* queues datagrams and the waiters run meanwhile, so acceptUdp is split   *)
(* where they can tell: the pairing, the bind, the connect.                *)
(*                                                                         *)
(* Operators marked "(mutation)" are altered forms of the definition that  *)
(* follows them; no specification uses them.                               *)
(***************************************************************************)
EXTENDS Integers, Sequences, FiniteSets

CONSTANTS
  Id,          \* what clients put after "id:"
  Addr,        \* addresses of clients
  NoAddr,      \* the zero sockaddr_in, or no entry in a map
  MaxSockets,  \* descriptors left for the sockets of clients
  MaxThreads,  \* threads the process may create; none is ever joined
  MaxQueued    \* bound: datagrams waiting when a client sends another

Body == Id \cup {"OK", "data", "empty"}

Datagram == [from : Addr, body : Body]

\* from is the client a datagram is relayed for, NoAddr for the relay's own.
Message == [to : Addr, from : Addr \cup {NoAddr},
            body : Body \cup {"accept OK", "turn OK"}]

Listen == 0
Client == 1 .. MaxSockets

ASSUME AddrAssumption  == NoAddr \notin Addr
ASSUME IdAssumption    == Id \cap {"OK", "data", "empty"} = {}
ASSUME LimitAssumption == MaxSockets \in Nat /\ MaxThreads \in Nat
ASSUME QueueAssumption == MaxQueued \in Nat

VARIABLES
  idMap,       \* the two addresses registered under an id
  turnMap,     \* where an address is relayed to
  sockSession, \* sockSessionMap: no entry, or its field hasAnswer
  queue,       \* the datagrams waiting in a socket
  opened,      \* sockets 1 .. opened exist; none is ever closed
  peerOf,      \* the address a socket is connected to
  stage,       \* the loop "wait"s, or acceptUdp is about to "open", "connect"
  opening,     \* the address acceptUdp opens a socket for
  waiter,      \* the waitAnswer thread of an id and its local peer1, peer2
  inflight,    \* clients with a "turn OK", or the "OK" it causes, under way
  process,     \* "running", "exited" by exit(1), "corrupted" by a data race
  out          \* the datagrams sent by the last step

tables  == <<idMap, turnMap>>
sockets == <<opened, peerOf>>
loop    == <<stage, opening>>
vars    == <<tables, sockSession, queue, sockets, loop, waiter, inflight,
             process, out>>

TypeOK ==
  /\ idMap \in [Id -> [first : Addr \cup {NoAddr}, second : Addr \cup {NoAddr}]]
  /\ turnMap \in [Addr -> Addr \cup {NoAddr}]
  /\ sockSession \in [Addr -> {"absent", "unanswered", "answered"}]
  /\ queue \in [{Listen} \cup Client -> Seq(Datagram)]
  /\ opened \in 0 .. MaxSockets
  /\ peerOf \in [Client -> Addr \cup {NoAddr}]
  /\ stage \in {"wait", "open", "connect"}
  /\ opening \in Addr \cup {NoAddr}
  /\ waiter \in [Id -> [pc : {"none", "start", "test", "first", "second", "done"},
                        peer1 : Addr \cup {NoAddr},
                        peer2 : Addr \cup {NoAddr}]]
  /\ inflight \in SUBSET Addr
  /\ process \in {"running", "exited", "corrupted"}
  /\ out \in SUBSET Message

Init ==
  /\ idMap = [i \in Id |-> [first |-> NoAddr, second |-> NoAddr]]
  /\ turnMap = [a \in Addr |-> NoAddr]
  /\ sockSession = [a \in Addr |-> "absent"]
  /\ queue = [s \in {Listen} \cup Client |-> <<>>]
  /\ opened = 0
  /\ peerOf = [s \in Client |-> NoAddr]
  /\ stage = "wait"
  /\ opening = NoAddr
  /\ waiter = [i \in Id |-> [pc |-> "none", peer1 |-> NoAddr, peer2 |-> NoAddr]]
  /\ inflight = {}
  /\ process = "running"
  /\ out = {}

Running == process = "running"

-----------------------------------------------------------------------------
(* acceptUdp *)

\* The loop has a datagram to read from socket s.
Readable(s) ==
  /\ Running
  /\ stage = "wait"
  /\ queue[s] # <<>>

Consume(s) == queue' = [queue EXCEPT ![s] = Tail(@)]

\* The listening socket holds a request of address a for id i.
Requests(a, i) ==
  /\ Readable(Listen)
  /\ Head(queue[Listen]) = [from |-> a, body |-> i]

AcceptOK(a) == [to |-> a, from |-> NoAddr, body |-> "accept OK"]

\* acceptUdp goes on to open a socket for a.
GoesOn(a) ==
  /\ Consume(Listen)
  /\ stage' = "open"
  /\ opening' = a
  /\ out' = {AcceptOK(a)}
  /\ UNCHANGED <<sockSession, sockets, inflight, process>>

\* "turn OK" is sent at once, before there is a peer (mutation).
AcceptFirstTold(a, i) ==
  /\ Requests(a, i)
  /\ idMap[i].first = NoAddr
  /\ idMap' = [idMap EXCEPT ![i].first = a]
  /\ Consume(Listen)
  /\ stage' = "open"
  /\ opening' = a
  /\ inflight' = inflight \cup {a}
  /\ out' = {AcceptOK(a), [to |-> a, from |-> NoAddr, body |-> "turn OK"]}
  /\ UNCHANGED <<turnMap, sockSession, sockets, waiter, process>>

AcceptFirst(a, i) ==
  /\ Requests(a, i)
  /\ idMap[i].first = NoAddr
  /\ idMap' = [idMap EXCEPT ![i].first = a]
  /\ GoesOn(a)
  /\ UNCHANGED <<turnMap, waiter>>

\* The address is not compared with the first one (mutation).
MayJoinItself(a, i) ==
  /\ idMap[i].first # NoAddr
  /\ idMap[i].second = NoAddr

\* A third client replaces the second (mutation).
MayJoinAnyPair(a, i) == idMap[i].first \notin {NoAddr, a}

\* The client itself, and a third one, are refused.
MayJoin(a, i) ==
  /\ idMap[i].first \notin {NoAddr, a}
  /\ idMap[i].second = NoAddr

\* Only the client that comes second gets a route (mutation).
PairedOneWay(a, b) == [turnMap EXCEPT ![a] = b]

\* The address's older entry is overwritten if it is in another pair.
Paired(a, b) == [turnMap EXCEPT ![a] = b, ![b] = a]

\* The result of pthread_create is not looked at.
ThreadsLeft == Cardinality({i \in Id : waiter[i].pc # "none"}) < MaxThreads

AcceptSecond(a, i) ==
  /\ Requests(a, i)
  /\ MayJoin(a, i)
  /\ idMap' = [idMap EXCEPT ![i].second = a]
  /\ turnMap' = Paired(a, idMap[i].first)
  /\ waiter' = IF ThreadsLeft THEN [waiter EXCEPT ![i].pc = "start"]
                              ELSE waiter
  /\ GoesOn(a)

\* A refused request goes on to the socket (mutation).
RefuseGoesOn ==
  /\ Readable(Listen)
  /\ \A i \in Id :
       Head(queue[Listen]).body = i =>
         /\ idMap[i].first # NoAddr
         /\ ~MayJoin(Head(queue[Listen]).from, i)
  /\ GoesOn(Head(queue[Listen]).from)
  /\ UNCHANGED <<tables, waiter>>

\* What is no id, or is refused, is dropped.
Refuse ==
  /\ Readable(Listen)
  /\ \A i \in Id :
       Head(queue[Listen]).body = i =>
         /\ idMap[i].first # NoAddr
         /\ ~MayJoin(Head(queue[Listen]).from, i)
  /\ Consume(Listen)
  /\ out' = {}
  /\ UNCHANGED <<tables, sockSession, sockets, loop, waiter, inflight, process>>

\* A socket that is bound shares the port with the listening one.
OpenSocket ==
  /\ Running
  /\ stage = "open"
  /\ IF opened = MaxSockets
       THEN process' = "exited" /\ UNCHANGED <<opened, stage>>
       ELSE opened' = opened + 1 /\ stage' = "connect" /\ UNCHANGED process
  /\ out' = {}
  /\ UNCHANGED <<tables, sockSession, queue, peerOf, opening, waiter, inflight>>

\* From here on the socket receives what its client sends, and is polled.
ConnectSocket ==
  /\ Running
  /\ stage = "connect"
  /\ peerOf' = [peerOf EXCEPT ![opened] = opening]
  /\ stage' = "wait"
  /\ opening' = NoAddr
  /\ out' = {}
  /\ UNCHANGED <<tables, sockSession, queue, opened, waiter, inflight, process>>

-----------------------------------------------------------------------------
(* handleRead *)

\* operator[] makes an entry for an address that has none.
Touched(S) ==
  [a \in Addr |-> IF a \in S /\ sockSession[a] = "absent" THEN "unanswered"
                                                          ELSE sockSession[a]]

Answered(a) == sockSession[a] = "answered"

\* The first "OK" of a client is its answer.
ReadAnswer(d) ==
  /\ ~Answered(d.from)
  /\ d.body = "OK"
  /\ sockSession' = [sockSession EXCEPT ![d.from] = "answered"]
  /\ out' = {}

\* Anything else before it is swallowed.
Swallow(d) ==
  /\ ~Answered(d.from)
  /\ d.body # "OK"
  /\ sockSession' = Touched({d.from})
  /\ out' = {}

\* After it everything but an empty datagram is relayed, "OK" included.
Relay(d) ==
  /\ Answered(d.from)
  /\ d.body # "empty"
  /\ turnMap[d.from] # NoAddr
  /\ out' = {[to |-> turnMap[d.from], from |-> d.from, body |-> d.body]}
  /\ UNCHANGED sockSession

DropUnrouted(d) ==
  /\ Answered(d.from)
  /\ d.body = "empty" \/ turnMap[d.from] = NoAddr
  /\ out' = {}
  /\ UNCHANGED sockSession

\* The sender is looked up: it need not be the socket's peer, as the socket
\* may have been given datagrams of others before it was connected.
HandleRead(s) ==
  /\ Readable(s)
  /\ LET d == Head(queue[s])
     IN  ReadAnswer(d) \/ Swallow(d) \/ Relay(d) \/ DropUnrouted(d)
  /\ Consume(s)
  /\ UNCHANGED <<tables, sockets, loop, waiter, inflight, process>>

-----------------------------------------------------------------------------
(* waitAnswer, one thread for each pair *)

Goto(i, pc) == waiter' = [waiter EXCEPT ![i].pc = pc]

StartWaiter(i) ==
  /\ Running
  /\ waiter[i].pc = "start"
  /\ waiter' = [waiter EXCEPT ![i] = [pc    |-> "test",
                                      peer1 |-> idMap[i].first,
                                      peer2 |-> idMap[i].second]]
  /\ out' = {}
  /\ UNCHANGED <<tables, sockSession, queue, sockets, loop, inflight, process>>

\* The entries the next step of a waiter looks up.  The second peer is tested
\* only if the first has answered.
LooksUp(i) ==
  LET w == waiter[i]
  IN  (IF w.pc \in {"test", "first"} THEN {w.peer1} ELSE {})
        \cup (IF w.pc = "second" \/ (w.pc = "test" /\ Answered(w.peer1))
                THEN {w.peer2} ELSE {})

\* One answer is enough (mutation).
TestOneAnswer(i) ==
  /\ Running
  /\ waiter[i].pc = "test"
  /\ sockSession' = Touched(LooksUp(i))
  /\ Goto(i, IF Answered(waiter[i].peer1) \/ Answered(waiter[i].peer2)
               THEN "done" ELSE "first")
  /\ out' = {}
  /\ UNCHANGED <<tables, queue, sockets, loop, inflight, process>>

TestAnswers(i) ==
  /\ Running
  /\ waiter[i].pc = "test"
  /\ sockSession' = Touched(LooksUp(i))
  /\ Goto(i, IF Answered(waiter[i].peer1) /\ Answered(waiter[i].peer2)
               THEN "done" ELSE "first")
  /\ out' = {}
  /\ UNCHANGED <<tables, queue, sockets, loop, inflight, process>>

\* "turn OK" is sent to a peer that has not answered.
Remind(a) ==
  /\ sockSession' = Touched({a})
  /\ out' = IF Answered(a) THEN {}
            ELSE {[to |-> a, from |-> NoAddr, body |-> "turn OK"]}
  /\ inflight' = IF Answered(a) THEN inflight ELSE inflight \cup {a}
  /\ UNCHANGED <<tables, queue, sockets, loop, process>>

RemindFirst(i) ==
  /\ Running
  /\ waiter[i].pc = "first"
  /\ Remind(waiter[i].peer1)
  /\ Goto(i, "second")

\* The thread asks once (mutation).
RemindSecondOnce(i) ==
  /\ Running
  /\ waiter[i].pc = "second"
  /\ Remind(waiter[i].peer2)
  /\ Goto(i, "done")

RemindSecond(i) ==
  /\ Running
  /\ waiter[i].pc = "second"
  /\ Remind(waiter[i].peer2)
  /\ Goto(i, "test")

Waiter(i) ==
  StartWaiter(i) \/ TestAnswers(i) \/ RemindFirst(i) \/ RemindSecond(i)

-----------------------------------------------------------------------------
(***************************************************************************)
(* The maps have no lock.  Two threads that use one map at the same time,  *)
(* one of them to make an entry, leave the process in an undefined state.  *)
(* Otherwise their steps take place in some order, as the actions above.   *)
(***************************************************************************)
New(S) == {a \in S : sockSession[a] = "absent"}

\* Two uses of sockSessionMap, given by the entries they look up.
Conflict(S, T) == S # {} /\ T # {} /\ New(S \cup T) # {}

LoopReads(s) == IF Readable(s) THEN {Head(queue[s]).from} ELSE {}

DataRace ==
  /\ Running
  /\ \E i \in Id :
       \/ \E s \in Client : Conflict(LooksUp(i), LoopReads(s))
       \/ \E j \in Id \ {i} : Conflict(LooksUp(i), LooksUp(j))
       \/ /\ waiter[i].pc = "start"
          /\ \E a \in Addr, j \in Id : Requests(a, j) /\ idMap[j].first = NoAddr
  /\ process' = "corrupted"
  /\ out' = {}
  /\ UNCHANGED <<tables, sockSession, queue, sockets, loop, waiter, inflight>>

-----------------------------------------------------------------------------
(* The network and the clients *)

HasRoom ==
  Cardinality(UNION {{s} \X DOMAIN queue[s] : s \in {Listen} \cup Client})
    < MaxQueued

\* A socket connected to the sender comes first.  Otherwise SO_REUSEPORT
\* shares the port among the listening socket and one not yet connected.
Targets(a) ==
  LET own == {s \in 1 .. opened : peerOf[s] = a}
  IN  IF own # {} THEN own
      ELSE {Listen} \cup {s \in 1 .. opened : peerOf[s] = NoAddr}

Arrives(a, b) ==
  \E s \in Targets(a) :
    queue' = [queue EXCEPT ![s] = Append(@, [from |-> a, body |-> b])]

Waiting(a, b) ==
  \E s \in {Listen} \cup Client : \E k \in DOMAIN queue[s] :
    queue[s][k] = [from |-> a, body |-> b]

\* Anything a client sends, and sends again.
Send(a, b) ==
  /\ Running
  /\ HasRoom
  /\ Arrives(a, b)
  /\ out' = {}
  /\ UNCHANGED <<tables, sockSession, sockets, loop, waiter, inflight, process>>

\* A "turn OK" reaches its client and the "OK" reaches the relay; either may
\* have been repeated by the network, and be under way once more.  One answer
\* of a client waits to be read at a time, besides the MaxQueued datagrams.
AnswerTurnOK(a) ==
  /\ Running
  /\ a \in inflight
  /\ ~Waiting(a, "OK")
  /\ Arrives(a, "OK")
  /\ inflight' \in {inflight, inflight \ {a}}
  /\ out' = {}
  /\ UNCHANGED <<tables, sockSession, sockets, loop, waiter, process>>

Lose(a) ==
  /\ Running
  /\ a \in inflight
  /\ inflight' = inflight \ {a}
  /\ out' = {}
  /\ UNCHANGED <<tables, sockSession, queue, sockets, loop, waiter, process>>

-----------------------------------------------------------------------------
Accept(a, i) == AcceptFirst(a, i) \/ AcceptSecond(a, i)

Server ==
  \/ \E a \in Addr, i \in Id : Accept(a, i)
  \/ Refuse \/ OpenSocket \/ ConnectSocket
  \/ \E s \in Client : HandleRead(s)
  \/ \E i \in Id : Waiter(i)
  \/ DataRace

Network == \E a \in Addr : AnswerTurnOK(a) \/ Lose(a)

Next == Server \/ Network \/ \E a \in Addr, b \in Body : Send(a, b)

Spec == Init /\ [][Next]_vars

(***************************************************************************)
(* The relay among clients that keep to the protocol: a client does not    *)
(* bring a second id while it is registered, or about to be, under another *)
(* one, and sends "OK" in answer to "turn OK" only.  What it sends is      *)
(* still repeated, lost, and read at any later moment.                     *)
(***************************************************************************)
Ends(i) == {idMap[i].first, idMap[i].second} \ {NoAddr}

Brings(a) == {i \in Id : a \in Ends(i) \/ Waiting(a, i)}

Register(a, i) == Brings(a) \subseteq {i} /\ Send(a, i)

ClientNext ==
  \/ Server \/ Network
  \/ \E a \in Addr : Send(a, "data") \/ Send(a, "empty")
  \/ \E a \in Addr, i \in Id : Register(a, i)

ClientSpec == Init /\ [][ClientNext]_vars

\* The loop polls every socket and reads what is there; a waiter sleeps only
\* 200 ms; and of the "turn OK"s repeated to a client some get through.
Fairness ==
  /\ WF_vars(Refuse \/ \E a \in Addr, i \in Id : Accept(a, i))
  /\ WF_vars(OpenSocket) /\ WF_vars(ConnectSocket)
  /\ \A s \in Client : WF_vars(HandleRead(s))
  /\ \A i \in Id : WF_vars(Waiter(i))
  /\ \A a \in Addr : SF_vars(AnswerTurnOK(a))

FairSpec == ClientSpec /\ Fairness

-----------------------------------------------------------------------------
(* Properties of the relay among any clients *)

\* The table of ids is a rendezvous: whatever is repeated, reordered or sent
\* by a third client, the two ends of an id are two clients, each set once and
\* never changed, so what waitAnswer reads later is what was paired.
Meeting == INSTANCE Rendezvous WITH pair <- idMap

RendezvousSpec == Meeting!Spec

IsPair(a, b) == a # b /\ \E i \in Id : {a, b} = {idMap[i].first, idMap[i].second}

\* What a client sends is relayed only after it has answered, and only to a
\* client that came with the same id, never back to itself, even if a socket
\* read it that belongs to another client (handleRead, acceptUdp).
RelayedWithinPair ==
  \A m \in out : m.from # NoAddr => IsPair(m.from, m.to) /\ Answered(m.from)

Registrations ==
  {r \in Id \X {"first", "second"} : idMap[r[1]][r[2]] # NoAddr}

\* One socket is spent for each registered end and none for a request that is
\* refused or repeated; every registered client has a socket of its own, or
\* gets it now; so exit(1), which stops the control server too, needs more
\* registrations than there are descriptors (acceptUdp).
SocketsAccounted ==
  /\ opened + (IF stage = "open" THEN 1 ELSE 0) = Cardinality(Registrations)
  /\ \A i \in Id : \A a \in Ends(i) :
       a = opening \/ \E s \in Client : peerOf[s] = a
  /\ process = "exited" => Cardinality(Registrations) > MaxSockets

\* A pair has its thread, unless no more can be created; the thread works on
\* the pair as it is, and ends only when both have answered (waitAnswer).
WaitersServePairs ==
  \A i \in Id :
    LET w == waiter[i]
    IN  /\ w.pc # "none" => idMap[i].second # NoAddr
        /\ w.pc \notin {"none", "start"} =>
             w.peer1 = idMap[i].first /\ w.peer2 = idMap[i].second
        /\ w.pc = "done" => Answered(w.peer1) /\ Answered(w.peer2)
        /\ idMap[i].second # NoAddr /\ w.pc = "none" => ~ThreadsLeft

\* The inductive invariant behind the last but one and WaitersServePairs: a
\* pair has two ends, and every route is one of a pair, for pairs are final.
PairsOfTwo ==
  \A i \in Id : idMap[i].second # NoAddr =>
    idMap[i].first \notin {NoAddr, idMap[i].second}

RoutesWithinPairs ==
  \A a \in Addr : turnMap[a] # NoAddr => IsPair(a, turnMap[a])

SafeInv ==
  /\ TypeOK
  /\ PairsOfTwo
  /\ RoutesWithinPairs
  /\ WaitersServePairs
  /\ RelayedWithinPair

-----------------------------------------------------------------------------
(* Properties of the relay among clients that keep to the protocol *)

\* The relay's routes are the pairs, in both directions: no client sends to a
\* peer whose own data goes elsewhere (turnMap in acceptUdp).
RoutesArePairs ==
  \A a \in Addr, b \in Addr : turnMap[a] = b <=> IsPair(a, b)

\* A client whose answer was read has a route, so nothing it sends from then
\* on is dropped for want of a peer, and it is not among the swallowed.
AnsweredHaveRoute == \A a \in Addr : Answered(a) => turnMap[a] # NoAddr

\* The inductive invariant behind them.  A client brings one id at a time, so
\* that a route is never overwritten; and who has a "turn OK" or its answer
\* under way was paired.
OneIdEach == \A a \in Addr : \A i, j \in Brings(a) : i = j

ToldHaveRoute ==
  \A a \in Addr : a \in inflight \/ Waiting(a, "OK") => turnMap[a] # NoAddr

ClientInv ==
  /\ SafeInv
  /\ OneIdEach
  /\ RoutesArePairs
  /\ ToldHaveRoute
  /\ AnsweredHaveRoute

\* A pair with a thread ends up answered on both sides, though answers are lost
\* and the first may be read by acceptUdp, which drops it: the thread repeats
\* its question (waitAnswer).  What may prevent it is the end of the process.
HandshakeCompletes ==
  \A i \in Id :
    waiter[i].pc # "none" ~> ~Running \/ \A a \in Ends(i) : Answered(a)
=============================================================================
