---------------------------- MODULE UdpTurnProofs ----------------------------
(***************************************************************************)
(* Theorems about UdpTurn, for every value of its constants: the type      *)
(* invariant, the refinement of Rendezvous, the relaying inside pairs, the *)
(* work of the waiters and the accounting of sockets among any clients,    *)
(* the routes among clients that keep to the protocol.                     *)
(***************************************************************************)
EXTENDS UdpTurn, FiniteSetTheorems, TLAPS

-----------------------------------------------------------------------------
(* What the operators return *)

\* What a socket holds is what clients send.
LEMMA HeadType ==
  ASSUME TypeOK, NEW s \in {Listen} \cup Client, queue[s] # <<>>
  PROVE  /\ Head(queue[s]) \in Datagram
         /\ Head(queue[s]).from \in Addr
         /\ Head(queue[s]).body \in Body
<1>1. queue[s] \in Seq(Datagram)
  BY DEF TypeOK
<1>2. Head(queue[s]) \in Datagram
  BY <1>1
<1> QED
  BY <1>2 DEF Datagram

\* Reading a socket leaves datagrams of the same kind.
LEMMA ConsumeType ==
  ASSUME TypeOK, NEW s \in {Listen} \cup Client, queue[s] # <<>>, Consume(s)
  PROVE  queue' \in [{Listen} \cup Client -> Seq(Datagram)]
<1>1. queue[s] \in Seq(Datagram)
  BY DEF TypeOK
<1>2. Tail(queue[s]) \in Seq(Datagram)
  BY <1>1
<1> QED
  BY <1>2 DEF Consume, TypeOK

\* So does the arrival of a datagram.
LEMMA ArrivesType ==
  ASSUME TypeOK, NEW a \in Addr, NEW b \in Body, Arrives(a, b)
  PROVE  queue' \in [{Listen} \cup Client -> Seq(Datagram)]
<1>1. PICK s \in Targets(a) :
        queue' = [queue EXCEPT ![s] = Append(@, [from |-> a, body |-> b])]
  BY DEF Arrives
<1>2. s \in {Listen} \cup Client
  BY LimitAssumption DEF Targets, TypeOK, Listen, Client
<1>3. [from |-> a, body |-> b] \in Datagram
  BY DEF Datagram
<1>4. queue[s] \in Seq(Datagram)
  BY <1>2 DEF TypeOK
<1>5. Append(queue[s], [from |-> a, body |-> b]) \in Seq(Datagram)
  BY <1>3, <1>4
<1> QED
  BY <1>1, <1>2, <1>5 DEF TypeOK

\* What the relay sends on its own behalf.
LEMMA OwnMessage ==
  ASSUME NEW a \in Addr, NEW b \in {"accept OK", "turn OK"}
  PROVE  [to |-> a, from |-> NoAddr, body |-> b] \in Message
BY DEF Message

\* A lookup makes an entry or changes nothing.
LEMMA TouchedType ==
  ASSUME TypeOK, NEW S
  PROVE  /\ Touched(S) \in [Addr -> {"absent", "unanswered", "answered"}]
         /\ \A a \in Addr : Touched(S)[a] = "answered" <=> Answered(a)
BY DEF Touched, Answered, TypeOK

-----------------------------------------------------------------------------
(* Type correctness *)

\* The rows of the two tables keep their types.
LEMMA IdMapType ==
  ASSUME TypeOK, NEW i \in Id, NEW a \in Addr
  PROVE  /\ [idMap EXCEPT ![i].first = a]
              \in [Id -> [first : Addr \cup {NoAddr}, second : Addr \cup {NoAddr}]]
         /\ [idMap EXCEPT ![i].second = a]
              \in [Id -> [first : Addr \cup {NoAddr}, second : Addr \cup {NoAddr}]]
BY DEF TypeOK

LEMMA GotoType ==
  ASSUME TypeOK, NEW i \in Id,
         NEW pc \in {"none", "start", "test", "first", "second", "done"}
  PROVE  [waiter EXCEPT ![i].pc = pc]
           \in [Id -> [pc : {"none", "start", "test", "first", "second", "done"},
                       peer1 : Addr \cup {NoAddr},
                       peer2 : Addr \cup {NoAddr}]]
BY DEF TypeOK

LEMMA AcceptType ==
  ASSUME TypeOK, NEW a \in Addr, NEW i \in Id, Accept(a, i)
  PROVE  TypeOK'
<1>1. Requests(a, i)
  BY DEF Accept, AcceptFirst, AcceptSecond
<1>2. GoesOn(a)
  BY DEF Accept, AcceptFirst, AcceptSecond
<1>3. queue' \in [{Listen} \cup Client -> Seq(Datagram)]
  BY <1>1, <1>2, ConsumeType DEF Requests, Readable, GoesOn
<1>4. out' \in SUBSET Message
  <2>1. AcceptOK(a) \in Message
    BY OwnMessage DEF AcceptOK
  <2> QED
    BY <1>2, <2>1 DEF GoesOn
<1>5. CASE AcceptFirst(a, i)
  <2>1. idMap' \in [Id -> [first : Addr \cup {NoAddr}, second : Addr \cup {NoAddr}]]
    BY <1>5, IdMapType DEF AcceptFirst
  <2>2. UNCHANGED <<turnMap, waiter>>
    BY <1>5 DEF AcceptFirst
  <2> QED
    BY <1>2, <1>3, <1>4, <2>1, <2>2 DEF GoesOn, TypeOK, sockets
<1>6. CASE AcceptSecond(a, i)
  <2>1. idMap[i].first \in Addr
    BY <1>6 DEF AcceptSecond, MayJoin, TypeOK
  <2>2. turnMap' \in [Addr -> Addr \cup {NoAddr}]
    BY <1>6, <2>1 DEF AcceptSecond, Paired, TypeOK
  <2>3. waiter' \in [Id -> [pc : {"none", "start", "test", "first", "second", "done"},
                            peer1 : Addr \cup {NoAddr},
                            peer2 : Addr \cup {NoAddr}]]
    BY <1>6, GotoType DEF AcceptSecond, TypeOK
  <2>4. idMap' \in [Id -> [first : Addr \cup {NoAddr}, second : Addr \cup {NoAddr}]]
    BY <1>6, IdMapType DEF AcceptSecond
  <2> QED
    BY <1>2, <1>3, <1>4, <2>2, <2>3, <2>4 DEF GoesOn, TypeOK, sockets
<1> QED
  BY <1>5, <1>6 DEF Accept

LEMMA HandleReadType ==
  ASSUME TypeOK, NEW s \in Client, HandleRead(s)
  PROVE  TypeOK'
<1> DEFINE d == Head(queue[s])
<1>1. queue[s] # <<>>
  BY DEF HandleRead, Readable
<1>2. d.from \in Addr /\ d.body \in Body
  BY <1>1, HeadType
<1>3. queue' \in [{Listen} \cup Client -> Seq(Datagram)]
  BY <1>1, ConsumeType DEF HandleRead
<1>4. sockSession' \in [Addr -> {"absent", "unanswered", "answered"}]
  <2>1. CASE ReadAnswer(d)
    BY <1>2, <2>1 DEF ReadAnswer, TypeOK
  <2>2. CASE Swallow(d)
    BY <2>2, TouchedType DEF Swallow
  <2>3. CASE Relay(d) \/ DropUnrouted(d)
    BY <2>3 DEF Relay, DropUnrouted, TypeOK
  <2> QED
    BY <2>1, <2>2, <2>3 DEF HandleRead
<1>5. out' \in SUBSET Message
  <2>1. CASE Relay(d)
    <3>1. turnMap[d.from] \in Addr
      BY <1>2, <2>1 DEF Relay, TypeOK
    <3>2. [to |-> turnMap[d.from], from |-> d.from, body |-> d.body] \in Message
      BY <1>2, <3>1 DEF Message
    <3> QED
      BY <2>1, <3>2 DEF Relay
  <2> QED
    BY <2>1 DEF HandleRead, ReadAnswer, Swallow, DropUnrouted
<1> QED
  BY <1>3, <1>4, <1>5 DEF HandleRead, TypeOK, tables, sockets, loop

LEMMA RemindType ==
  ASSUME TypeOK, NEW a \in Addr \cup {NoAddr}, a # NoAddr, Remind(a)
  PROVE  /\ sockSession' \in [Addr -> {"absent", "unanswered", "answered"}]
         /\ inflight' \in SUBSET Addr
         /\ out' \in SUBSET Message
<1>1. a \in Addr
  OBVIOUS
<1>2. [to |-> a, from |-> NoAddr, body |-> "turn OK"] \in Message
  BY <1>1 DEF Message
<1>3. out' \in SUBSET Message
  BY <1>2 DEF Remind
<1>4. inflight' \in SUBSET Addr
  BY <1>1 DEF Remind, TypeOK
<1>5. sockSession' \in [Addr -> {"absent", "unanswered", "answered"}]
  BY TouchedType DEF Remind
<1> QED
  BY <1>3, <1>4, <1>5

\* A waiter past its start works on two addresses.
LEMMA WaiterPeers ==
  ASSUME SafeInv, NEW i \in Id, waiter[i].pc \notin {"none", "start"}
  PROVE  waiter[i].peer1 \in Addr /\ waiter[i].peer2 \in Addr
<1>1. waiter[i].peer1 = idMap[i].first /\ waiter[i].peer2 = idMap[i].second
  BY DEF SafeInv, WaitersServePairs
<1>2. idMap[i].second # NoAddr /\ idMap[i].first # NoAddr
  BY DEF SafeInv, WaitersServePairs, PairsOfTwo
<1> QED
  BY <1>1, <1>2 DEF SafeInv, TypeOK

LEMMA WaiterType ==
  ASSUME SafeInv, NEW i \in Id, Waiter(i)
  PROVE  TypeOK'
<1>0. TypeOK
  BY DEF SafeInv
<1>1. CASE StartWaiter(i)
  <2>1. idMap[i].first \in Addr \cup {NoAddr} /\ idMap[i].second \in Addr \cup {NoAddr}
    BY <1>0 DEF TypeOK
  <2>2. waiter' \in [Id -> [pc : {"none", "start", "test", "first", "second", "done"},
                            peer1 : Addr \cup {NoAddr},
                            peer2 : Addr \cup {NoAddr}]]
    BY <1>0, <1>1, <2>1 DEF StartWaiter, TypeOK
  <2> QED
    BY <1>0, <1>1, <2>2 DEF StartWaiter, TypeOK, tables, sockets, loop
<1>2. CASE TestAnswers(i)
  <2>1. waiter' \in [Id -> [pc : {"none", "start", "test", "first", "second", "done"},
                            peer1 : Addr \cup {NoAddr},
                            peer2 : Addr \cup {NoAddr}]]
    BY <1>0, <1>2, GotoType DEF TestAnswers, Goto
  <2>2. sockSession' \in [Addr -> {"absent", "unanswered", "answered"}]
    BY <1>0, <1>2, TouchedType DEF TestAnswers
  <2> QED
    BY <1>0, <1>2, <2>1, <2>2 DEF TestAnswers, TypeOK, tables, sockets, loop
<1>3. CASE RemindFirst(i) \/ RemindSecond(i)
  <2>1. PICK a \in Addr : Remind(a)
    BY <1>3, WaiterPeers DEF RemindFirst, RemindSecond
  <2>2. waiter' \in [Id -> [pc : {"none", "start", "test", "first", "second", "done"},
                            peer1 : Addr \cup {NoAddr},
                            peer2 : Addr \cup {NoAddr}]]
    <3>1. CASE RemindFirst(i)
      BY <1>0, <3>1, GotoType DEF RemindFirst, Goto
    <3>2. CASE RemindSecond(i)
      BY <1>0, <3>2, GotoType DEF RemindSecond, Goto
    <3> QED
      BY <1>3, <3>1, <3>2
  <2>3. process' = process
    BY <2>1 DEF Remind
  <2>4. a # NoAddr
    BY AddrAssumption
  <2>5. /\ sockSession' \in [Addr -> {"absent", "unanswered", "answered"}]
        /\ inflight' \in SUBSET Addr
        /\ out' \in SUBSET Message
    BY <1>0, <2>1, <2>4, RemindType
  <2> QED
    BY <1>0, <2>1, <2>2, <2>5 DEF Remind, TypeOK, tables, sockets, loop
<1> QED
  BY <1>1, <1>2, <1>3 DEF Waiter

LEMMA TypeStep ==
  SafeInv /\ [Next]_vars => TypeOK'
<1> SUFFICES ASSUME SafeInv, [Next]_vars PROVE TypeOK'
  OBVIOUS
<1>0. TypeOK
  BY DEF SafeInv
<1>1. ASSUME NEW a \in Addr, NEW i \in Id, Accept(a, i) PROVE TypeOK'
  BY <1>0, <1>1, AcceptType
<1>2. CASE Refuse
  <2>1. queue' \in [{Listen} \cup Client -> Seq(Datagram)]
    BY <1>0, <1>2, ConsumeType DEF Refuse, Readable
  <2> QED
    BY <1>0, <1>2, <2>1 DEF Refuse, TypeOK, tables, sockets, loop
<1>3. CASE OpenSocket
  <2>1. opened' \in 0 .. MaxSockets
    BY <1>0, <1>3, LimitAssumption DEF OpenSocket, TypeOK
  <2> QED
    <3>1. process' \in {"running", "exited", "corrupted"}
      BY <1>0, <1>3 DEF OpenSocket, TypeOK
    <3>2. stage' \in {"wait", "open", "connect"}
      BY <1>0, <1>3 DEF OpenSocket, TypeOK
    <3>3. out' \in SUBSET Message
      BY <1>3 DEF OpenSocket
    <3>4. UNCHANGED <<idMap, turnMap, sockSession, queue, peerOf, opening,
                      waiter, inflight>>
      BY <1>3 DEF OpenSocket, tables
    <3> QED
      BY <1>0, <2>1, <3>1, <3>2, <3>3, <3>4 DEF TypeOK
<1>4. CASE ConnectSocket
  BY <1>0, <1>4 DEF ConnectSocket, TypeOK, tables
<1>5. ASSUME NEW s \in Client, HandleRead(s) PROVE TypeOK'
  BY <1>0, <1>5, HandleReadType
<1>6. ASSUME NEW i \in Id, Waiter(i) PROVE TypeOK'
  BY <1>6, WaiterType
<1>7. CASE DataRace
  BY <1>0, <1>7 DEF DataRace, TypeOK, tables, sockets, loop
<1>8. ASSUME NEW a \in Addr, AnswerTurnOK(a) PROVE TypeOK'
  <2>1. queue' \in [{Listen} \cup Client -> Seq(Datagram)]
    BY <1>0, <1>8, ArrivesType DEF AnswerTurnOK, Body
  <2>2. inflight' \in SUBSET Addr
    BY <1>0, <1>8 DEF AnswerTurnOK, TypeOK
  <2> QED
    BY <1>0, <1>8, <2>1, <2>2 DEF AnswerTurnOK, TypeOK, tables, sockets, loop
<1>9. ASSUME NEW a \in Addr, Lose(a) PROVE TypeOK'
  BY <1>0, <1>9 DEF Lose, TypeOK, tables, sockets, loop
<1>10. ASSUME NEW a \in Addr, NEW b \in Body, Send(a, b) PROVE TypeOK'
  <2>1. queue' \in [{Listen} \cup Client -> Seq(Datagram)]
    BY <1>0, <1>10, ArrivesType DEF Send
  <2> QED
    BY <1>0, <1>10, <2>1 DEF Send, TypeOK, tables, sockets, loop
<1>11. CASE UNCHANGED vars
  BY <1>0, <1>11 DEF vars, TypeOK, tables, sockets, loop
<1> QED
  BY <1>1, <1>2, <1>3, <1>4, <1>5, <1>6, <1>7, <1>8, <1>9, <1>10, <1>11
     DEF Next, Server, Network

LEMMA TypeInit ==
  Init => TypeOK
BY LimitAssumption DEF Init, TypeOK

-----------------------------------------------------------------------------
(* Pairs *)

\* Once answered, always answered.
LEMMA AnswersStay ==
  ASSUME SafeInv, [Next]_vars, NEW a \in Addr, Answered(a)
  PROVE  Answered(a)'
<1>0. TypeOK
  BY DEF SafeInv
<1>1. ASSUME NEW S, sockSession' = Touched(S) PROVE Answered(a)'
  BY <1>0, <1>1, TouchedType DEF Answered
<1>2. CASE UNCHANGED sockSession
  BY <1>2 DEF Answered
<1>3. ASSUME NEW b \in Addr, NEW i \in Id, Accept(b, i) PROVE Answered(a)'
  BY <1>2, <1>3 DEF Accept, AcceptFirst, AcceptSecond, GoesOn
<1>4. ASSUME NEW s \in Client, HandleRead(s) PROVE Answered(a)'
  <2>1. CASE ReadAnswer(Head(queue[s]))
    BY <1>0, <2>1 DEF ReadAnswer, Answered, TypeOK
  <2>2. CASE Swallow(Head(queue[s]))
    BY <1>1, <2>2 DEF Swallow
  <2>3. CASE Relay(Head(queue[s])) \/ DropUnrouted(Head(queue[s]))
    BY <1>2, <2>3 DEF Relay, DropUnrouted
  <2> QED
    BY <1>4, <2>1, <2>2, <2>3 DEF HandleRead
<1>5. ASSUME NEW i \in Id, Waiter(i) PROVE Answered(a)'
  <2>1. CASE StartWaiter(i)
    BY <1>2, <2>1 DEF StartWaiter
  <2>2. CASE TestAnswers(i)
    BY <1>1, <2>2 DEF TestAnswers
  <2>3. CASE RemindFirst(i) \/ RemindSecond(i)
    BY <1>1, <2>3 DEF RemindFirst, RemindSecond, Remind
  <2> QED
    BY <1>5, <2>1, <2>2, <2>3 DEF Waiter
<1>6. CASE \/ Refuse \/ OpenSocket \/ ConnectSocket \/ DataRace \/ Network
           \/ \E b \in Addr, c \in Body : Send(b, c)
           \/ UNCHANGED vars
  BY <1>2, <1>6 DEF Refuse, OpenSocket, ConnectSocket, DataRace, Network,
                    AnswerTurnOK, Lose, Send, vars
<1> QED
  BY <1>3, <1>4, <1>5, <1>6 DEF Next, Server

\* The end of a pair that is set stays, and a set end is not set again.
LEMMA PairsStay ==
  ASSUME SafeInv, [Next]_vars, NEW i \in Id
  PROVE  /\ idMap[i].first # NoAddr => idMap'[i].first = idMap[i].first
         /\ idMap[i].second # NoAddr => idMap'[i] = idMap[i]
<1>0. TypeOK
  BY DEF SafeInv
<1>1. CASE UNCHANGED idMap
  BY <1>1
<1>2. ASSUME NEW a \in Addr, NEW j \in Id, AcceptFirst(a, j)
      PROVE  /\ idMap[i].first # NoAddr => idMap'[i].first = idMap[i].first
             /\ idMap[i].second # NoAddr => idMap'[i] = idMap[i]
  <2>1. idMap[j].first = NoAddr /\ idMap[j].second = NoAddr
    BY <1>2 DEF AcceptFirst, SafeInv, PairsOfTwo
  <2>2. i # j => idMap'[i] = idMap[i]
    BY <1>0, <1>2 DEF AcceptFirst, TypeOK
  <2> QED
    BY <2>1, <2>2
<1>3. ASSUME NEW a \in Addr, NEW j \in Id, AcceptSecond(a, j)
      PROVE  /\ idMap[i].first # NoAddr => idMap'[i].first = idMap[i].first
             /\ idMap[i].second # NoAddr => idMap'[i] = idMap[i]
  <2>1. idMap[j].second = NoAddr
    BY <1>3 DEF AcceptSecond, MayJoin
  <2>2. i # j => idMap'[i] = idMap[i]
    BY <1>0, <1>3 DEF AcceptSecond, TypeOK
  <2>3. idMap'[j].first = idMap[j].first
    BY <1>0, <1>3 DEF AcceptSecond, TypeOK
  <2> QED
    BY <2>1, <2>2, <2>3
<1>4. ASSUME NEW j \in Id, Waiter(j) PROVE UNCHANGED idMap
  BY <1>4 DEF Waiter, StartWaiter, TestAnswers, RemindFirst, RemindSecond,
              Remind, tables
<1>5. CASE \/ Refuse \/ OpenSocket \/ ConnectSocket \/ DataRace \/ Network
           \/ \E s \in Client : HandleRead(s)
           \/ \E b \in Addr, c \in Body : Send(b, c)
           \/ UNCHANGED vars
  BY <1>1, <1>5 DEF Refuse, OpenSocket, ConnectSocket, DataRace, Network,
                    HandleRead, AnswerTurnOK, Lose, Send, vars, tables
<1> QED
  BY <1>1, <1>2, <1>3, <1>4, <1>5 DEF Next, Server, Accept

\* So a pair stays a pair.
LEMMA IsPairStays ==
  ASSUME SafeInv, [Next]_vars, NEW a \in Addr, NEW b \in Addr, IsPair(a, b)
  PROVE  IsPair(a, b)'
<1>1. PICK i \in Id : {a, b} = {idMap[i].first, idMap[i].second}
  BY DEF IsPair
<1>2. idMap[i].second # NoAddr
  BY <1>1, AddrAssumption
<1>3. idMap'[i] = idMap[i]
  BY <1>2, PairsStay
<1> QED
  BY <1>1, <1>3 DEF IsPair

\* A thread that exists goes on existing, and its pair and locals stay.
LEMMA QuietWaiters ==
  ASSUME SafeInv, [Next]_vars, UNCHANGED <<idMap, waiter>>
  PROVE  WaitersServePairs'
<1> SUFFICES ASSUME NEW i \in Id
             PROVE  /\ waiter[i].pc # "none" => idMap[i].second # NoAddr
                    /\ waiter[i].pc \notin {"none", "start"} =>
                         /\ waiter[i].peer1 = idMap[i].first
                         /\ waiter[i].peer2 = idMap[i].second
                    /\ waiter[i].pc = "done" =>
                         Answered(waiter[i].peer1)' /\ Answered(waiter[i].peer2)'
                    /\ idMap[i].second # NoAddr /\ waiter[i].pc = "none" =>
                         ~ThreadsLeft'
  BY DEF WaitersServePairs
<1>1. waiter[i].pc = "done" =>
        Answered(waiter[i].peer1)' /\ Answered(waiter[i].peer2)'
  <2> SUFFICES ASSUME waiter[i].pc = "done"
               PROVE  Answered(waiter[i].peer1)' /\ Answered(waiter[i].peer2)'
    OBVIOUS
  <2>1. waiter[i].peer1 \in Addr /\ waiter[i].peer2 \in Addr
    BY WaiterPeers
  <2>2. Answered(waiter[i].peer1) /\ Answered(waiter[i].peer2)
    BY DEF SafeInv, WaitersServePairs
  <2>3. sockSession'[waiter[i].peer1] = "answered"
    BY <2>1, <2>2, AnswersStay DEF Answered
  <2>4. sockSession'[waiter[i].peer2] = "answered"
    BY <2>1, <2>2, AnswersStay DEF Answered
  <2> QED
    BY <2>3, <2>4 DEF Answered
<1>2. ThreadsLeft' <=> ThreadsLeft
  BY DEF ThreadsLeft
<1> QED
  BY <1>1, <1>2 DEF SafeInv, WaitersServePairs

\* A pair that is completed gets its thread if there is one to be had.
LEMMA AcceptWaiters ==
  ASSUME SafeInv, [Next]_vars, NEW a \in Addr, NEW j \in Id, AcceptSecond(a, j)
  PROVE  WaitersServePairs'
<1> DEFINE threads == {i \in Id : waiter[i].pc # "none"}
<1>0. TypeOK /\ WaitersServePairs
  BY DEF SafeInv
<1>1. idMap[j].second = NoAddr
  BY DEF AcceptSecond, MayJoin
<1>2. waiter[j].pc = "none"
  BY <1>0, <1>1 DEF WaitersServePairs
<1>3. idMap'[j].second = a /\ a # NoAddr
  BY <1>0, AddrAssumption DEF AcceptSecond, TypeOK
<1>4. \A i \in Id \ {j} : idMap'[i] = idMap[i]
  BY <1>0 DEF AcceptSecond, TypeOK
<1>5. UNCHANGED sockSession
  BY DEF AcceptSecond, GoesOn
<1>6. CASE ThreadsLeft
  <2>1. waiter' = [waiter EXCEPT ![j].pc = "start"]
    BY <1>6 DEF AcceptSecond
  <2>2. waiter'[j].pc = "start"
    BY <1>0, <2>1 DEF TypeOK
  <2>3. \A i \in Id \ {j} : waiter'[i] = waiter[i]
    BY <1>0, <2>1 DEF TypeOK
  <2>4. \A i \in Id \ {j} : idMap[i].second # NoAddr => waiter[i].pc # "none"
    BY <1>0, <1>6 DEF WaitersServePairs
  <2> QED
    BY <1>0, <1>3, <1>4, <1>5, <2>2, <2>3, <2>4 DEF WaitersServePairs, Answered
<1>7. CASE ~ThreadsLeft
  <2>1. UNCHANGED waiter
    BY <1>7 DEF AcceptSecond
  <2>2. ~ThreadsLeft'
    BY <1>7, <2>1 DEF ThreadsLeft
  <2>3. \A i \in Id : waiter[i].pc # "none" => i # j
    BY <1>2
  <2> QED
    BY <1>0, <1>2, <1>4, <1>5, <2>1, <2>2, <2>3 DEF WaitersServePairs, Answered
<1> QED
  BY <1>6, <1>7

\* A client that waits under an id has no thread yet.
LEMMA AcceptFirstWaiters ==
  ASSUME SafeInv, [Next]_vars, NEW a \in Addr, NEW j \in Id, AcceptFirst(a, j)
  PROVE  WaitersServePairs'
<1>0. TypeOK /\ WaitersServePairs /\ PairsOfTwo
  BY DEF SafeInv
<1>1. idMap[j].second = NoAddr
  BY <1>0 DEF AcceptFirst, PairsOfTwo
<1>2. waiter[j].pc = "none"
  BY <1>0, <1>1 DEF WaitersServePairs
<1>3. idMap'[j].second = NoAddr
  BY <1>0, <1>1 DEF AcceptFirst, TypeOK
<1>4. \A i \in Id \ {j} : idMap'[i] = idMap[i]
  BY <1>0 DEF AcceptFirst, TypeOK
<1>5. UNCHANGED <<sockSession, waiter>>
  BY DEF AcceptFirst, GoesOn
<1>6. ThreadsLeft' <=> ThreadsLeft
  BY <1>5 DEF ThreadsLeft
<1> QED
  BY <1>0, <1>2, <1>3, <1>4, <1>5, <1>6 DEF WaitersServePairs, Answered

\* A thread reads its pair once, and ends when both have answered.
LEMMA WaiterWaiters ==
  ASSUME SafeInv, [Next]_vars, NEW j \in Id, Waiter(j)
  PROVE  WaitersServePairs'
<1>0. TypeOK /\ WaitersServePairs
  BY DEF SafeInv
<1>1. UNCHANGED idMap
  BY DEF Waiter, StartWaiter, TestAnswers, RemindFirst, RemindSecond, Remind,
         tables
<1>2. \A i \in Id \ {j} : waiter'[i] = waiter[i]
  BY <1>0 DEF Waiter, StartWaiter, TestAnswers, RemindFirst, RemindSecond, Goto,
              TypeOK
<1>3. waiter[j].pc # "none" /\ waiter'[j].pc # "none"
  <2>1. CASE StartWaiter(j)
    BY <1>0, <2>1 DEF StartWaiter, TypeOK
  <2>2. CASE TestAnswers(j)
    BY <1>0, <2>2 DEF TestAnswers, Goto, TypeOK
  <2>3. CASE RemindFirst(j) \/ RemindSecond(j)
    BY <1>0, <2>3 DEF RemindFirst, RemindSecond, Goto, TypeOK
  <2> QED
    BY <2>1, <2>2, <2>3 DEF Waiter
<1>4. {i \in Id : waiter'[i].pc # "none"} = {i \in Id : waiter[i].pc # "none"}
  BY <1>2, <1>3
<1>5. ThreadsLeft' <=> ThreadsLeft
  BY <1>4 DEF ThreadsLeft
<1>6. idMap[j].second # NoAddr
  BY <1>0, <1>3 DEF WaitersServePairs
<1>7. \/ waiter'[j].pc = "start"
      \/ /\ waiter'[j].peer1 = idMap[j].first
         /\ waiter'[j].peer2 = idMap[j].second
  <2>1. CASE StartWaiter(j)
    BY <1>0, <2>1 DEF StartWaiter, TypeOK
  <2>2. CASE TestAnswers(j)
    BY <1>0, <2>2 DEF TestAnswers, Goto, TypeOK, WaitersServePairs
  <2>3. CASE RemindFirst(j)
    BY <1>0, <2>3 DEF RemindFirst, Goto, TypeOK, WaitersServePairs
  <2>4. CASE RemindSecond(j)
    BY <1>0, <2>4 DEF RemindSecond, Goto, TypeOK, WaitersServePairs
  <2> QED
    BY <2>1, <2>2, <2>3, <2>4 DEF Waiter
<1>8. waiter'[j].pc = "done" =>
        /\ sockSession'[waiter'[j].peer1] = "answered"
        /\ sockSession'[waiter'[j].peer2] = "answered"
  <2> SUFFICES ASSUME waiter'[j].pc = "done"
               PROVE  /\ sockSession'[waiter'[j].peer1] = "answered"
                      /\ sockSession'[waiter'[j].peer2] = "answered"
    OBVIOUS
  <2>1. TestAnswers(j)
    BY <1>0 DEF Waiter, StartWaiter, RemindFirst, RemindSecond, Goto, TypeOK
  <2>2. Answered(waiter[j].peer1) /\ Answered(waiter[j].peer2)
    BY <1>0, <2>1 DEF TestAnswers, Goto, TypeOK
  <2>3. waiter'[j].peer1 = waiter[j].peer1 /\ waiter'[j].peer2 = waiter[j].peer2
    BY <1>0, <2>1 DEF TestAnswers, Goto, TypeOK
  <2>4. waiter[j].peer1 \in Addr /\ waiter[j].peer2 \in Addr
    BY <2>1, WaiterPeers DEF TestAnswers
  <2>5. sockSession'[waiter[j].peer1] = "answered"
    BY <2>2, <2>4, AnswersStay DEF Answered
  <2>6. sockSession'[waiter[j].peer2] = "answered"
    BY <2>2, <2>4, AnswersStay DEF Answered
  <2> QED
    BY <2>3, <2>5, <2>6
<1>9. \A i \in Id \ {j} : waiter[i].pc = "done" =>
        /\ sockSession'[waiter[i].peer1] = "answered"
        /\ sockSession'[waiter[i].peer2] = "answered"
  <2> SUFFICES ASSUME NEW i \in Id, waiter[i].pc = "done"
               PROVE  /\ sockSession'[waiter[i].peer1] = "answered"
                      /\ sockSession'[waiter[i].peer2] = "answered"
    OBVIOUS
  <2>1. waiter[i].peer1 \in Addr /\ waiter[i].peer2 \in Addr
    BY WaiterPeers
  <2>2. Answered(waiter[i].peer1) /\ Answered(waiter[i].peer2)
    BY <1>0 DEF WaitersServePairs
  <2>3. sockSession'[waiter[i].peer1] = "answered"
    BY <2>1, <2>2, AnswersStay DEF Answered
  <2>4. sockSession'[waiter[i].peer2] = "answered"
    BY <2>1, <2>2, AnswersStay DEF Answered
  <2> QED
    BY <2>3, <2>4
<1> SUFFICES ASSUME NEW i \in Id
             PROVE  /\ waiter'[i].pc # "none" => idMap'[i].second # NoAddr
                    /\ waiter'[i].pc \notin {"none", "start"} =>
                         /\ waiter'[i].peer1 = idMap'[i].first
                         /\ waiter'[i].peer2 = idMap'[i].second
                    /\ waiter'[i].pc = "done" =>
                         /\ sockSession'[waiter'[i].peer1] = "answered"
                         /\ sockSession'[waiter'[i].peer2] = "answered"
                    /\ idMap'[i].second # NoAddr /\ waiter'[i].pc = "none" =>
                         ~ThreadsLeft'
  BY DEF WaitersServePairs, Answered
<1>10. CASE i = j
  BY <1>1, <1>3, <1>6, <1>7, <1>8, <1>10
<1>11. CASE i # j
  BY <1>0, <1>1, <1>2, <1>5, <1>9, <1>11 DEF WaitersServePairs
<1> QED
  BY <1>10, <1>11

\* Which parts of the state a step may change.
LEMMA Changes ==
  ASSUME [Next]_vars
  PROVE  \/ \E a \in Addr, i \in Id : AcceptFirst(a, i) \/ AcceptSecond(a, i)
         \/ UNCHANGED <<idMap, turnMap, waiter>>
         \/ /\ UNCHANGED <<idMap, turnMap>>
            /\ \E i \in Id : Waiter(i)
<1>1. ASSUME NEW i \in Id, Waiter(i) PROVE UNCHANGED <<idMap, turnMap>>
  BY <1>1 DEF Waiter, StartWaiter, TestAnswers, RemindFirst, RemindSecond,
              Remind, tables
<1>2. CASE \/ Refuse \/ OpenSocket \/ ConnectSocket \/ DataRace \/ Network
           \/ \E s \in Client : HandleRead(s)
           \/ \E b \in Addr, c \in Body : Send(b, c)
           \/ UNCHANGED vars
  BY <1>2 DEF Refuse, OpenSocket, ConnectSocket, DataRace, Network,
              HandleRead, AnswerTurnOK, Lose, Send, vars, tables
<1> QED
  BY <1>1, <1>2 DEF Next, Server, Accept

\* Only a second client completes a pair, and it is not the first.
LEMMA PairsOfTwoStep ==
  ASSUME SafeInv, [Next]_vars
  PROVE  PairsOfTwo'
<1>0. TypeOK /\ PairsOfTwo
  BY DEF SafeInv
<1>1. ASSUME NEW a \in Addr, NEW i \in Id, AcceptFirst(a, i) PROVE PairsOfTwo'
  <2>1. idMap[i].second = NoAddr
    BY <1>0, <1>1 DEF AcceptFirst, PairsOfTwo
  <2>2. idMap'[i].second = NoAddr
    BY <1>0, <1>1, <2>1 DEF AcceptFirst, TypeOK
  <2>3. \A j \in Id \ {i} : idMap'[j] = idMap[j]
    BY <1>0, <1>1 DEF AcceptFirst, TypeOK
  <2> QED
    BY <1>0, <2>2, <2>3 DEF PairsOfTwo
<1>2. ASSUME NEW a \in Addr, NEW i \in Id, AcceptSecond(a, i) PROVE PairsOfTwo'
  <2>1. idMap[i].first \notin {NoAddr, a}
    BY <1>2 DEF AcceptSecond, MayJoin
  <2>2. idMap'[i].second = a /\ idMap'[i].first = idMap[i].first
    BY <1>0, <1>2 DEF AcceptSecond, TypeOK
  <2>3. \A j \in Id \ {i} : idMap'[j] = idMap[j]
    BY <1>0, <1>2 DEF AcceptSecond, TypeOK
  <2> QED
    BY <1>0, <2>1, <2>2, <2>3 DEF PairsOfTwo
<1>3. CASE UNCHANGED idMap
  BY <1>0, <1>3 DEF PairsOfTwo
<1> QED
  BY <1>1, <1>2, <1>3, Changes

\* Routes are made by a pairing only, one for each direction.
LEMMA RoutesStep ==
  ASSUME SafeInv, [Next]_vars
  PROVE  RoutesWithinPairs'
<1>0. TypeOK /\ RoutesWithinPairs
  BY DEF SafeInv
<1>1. ASSUME NEW c \in Addr, turnMap'[c] = turnMap[c], turnMap'[c] # NoAddr
      PROVE  /\ c # turnMap'[c]
             /\ \E j \in Id : {c, turnMap'[c]} = {idMap'[j].first, idMap'[j].second}
  <2>1. turnMap[c] \in Addr
    BY <1>0, <1>1 DEF TypeOK
  <2>2. IsPair(c, turnMap[c])
    BY <1>0, <1>1 DEF RoutesWithinPairs
  <2>3. PICK i \in Id : {c, turnMap[c]} = {idMap[i].first, idMap[i].second}
    BY <2>2 DEF IsPair
  <2>4. idMap'[i] = idMap[i]
    BY <2>1, <2>3, PairsStay, AddrAssumption
  <2> QED
    BY <1>1, <2>2, <2>3, <2>4 DEF IsPair
<1>2. ASSUME NEW a \in Addr, NEW i \in Id, AcceptSecond(a, i)
      PROVE  RoutesWithinPairs'
  <2> DEFINE b == idMap[i].first
  <2>1. b \in Addr /\ a # b
    BY <1>0, <1>2 DEF AcceptSecond, MayJoin, TypeOK
  <2>2. idMap'[i].second = a /\ idMap'[i].first = b
    BY <1>0, <1>2 DEF AcceptSecond, TypeOK
  <2>3. turnMap' = [turnMap EXCEPT ![a] = b, ![b] = a]
    BY <1>2 DEF AcceptSecond, Paired
  <2>4. turnMap'[a] = b /\ turnMap'[b] = a
    BY <1>0, <2>1, <2>3 DEF TypeOK
  <2>5. \A c \in Addr \ {a, b} : turnMap'[c] = turnMap[c]
    BY <1>0, <2>3 DEF TypeOK
  <2>6. \A c \in Addr : turnMap'[c] # NoAddr =>
          /\ c # turnMap'[c]
          /\ \E j \in Id : {c, turnMap'[c]} = {idMap'[j].first, idMap'[j].second}
    <3> SUFFICES ASSUME NEW c \in Addr, turnMap'[c] # NoAddr
                 PROVE  /\ c # turnMap'[c]
                        /\ \E j \in Id : {c, turnMap'[c]}
                                          = {idMap'[j].first, idMap'[j].second}
      OBVIOUS
    <3>1. CASE c \in {a, b}
      BY <2>1, <2>2, <2>4, <3>1
    <3>2. CASE c \notin {a, b}
      <4>1. turnMap'[c] = turnMap[c]
        BY <2>5, <3>2
      <4> QED
        BY <1>1, <4>1
    <3> QED
      BY <3>1, <3>2
  <2> QED
    BY <2>6 DEF RoutesWithinPairs, IsPair
<1>3. CASE UNCHANGED turnMap
  BY <1>1, <1>3 DEF RoutesWithinPairs, IsPair
<1>4. ASSUME NEW a \in Addr, NEW i \in Id, AcceptFirst(a, i) PROVE UNCHANGED turnMap
  BY <1>4 DEF AcceptFirst
<1> QED
  BY <1>2, <1>3, <1>4, Changes

\* A relayed datagram follows the sender's route.
LEMMA RelayedStep ==
  ASSUME SafeInv, [Next]_vars
  PROVE  RelayedWithinPair'
<1>0. TypeOK /\ RoutesWithinPairs /\ RelayedWithinPair
  BY DEF SafeInv
<1>1. ASSUME \A m \in out' : m.from = NoAddr PROVE RelayedWithinPair'
  BY <1>1 DEF RelayedWithinPair, IsPair, Answered
<1>2. ASSUME NEW a \in Addr, NEW i \in Id, Accept(a, i) PROVE RelayedWithinPair'
  <2>1. out' = {AcceptOK(a)}
    BY <1>2 DEF Accept, AcceptFirst, AcceptSecond, GoesOn
  <2>2. AcceptOK(a).from = NoAddr
    BY DEF AcceptOK
  <2>3. \A m \in out' : m.from = NoAddr
    BY <2>1, <2>2
  <2> QED
    BY <1>1, <2>3
<1>3. ASSUME NEW i \in Id, Waiter(i) PROVE RelayedWithinPair'
  <2>1. ASSUME NEW a, Remind(a) PROVE \A n \in out' : n.from = NoAddr
    <3> DEFINE m == [to |-> a, from |-> NoAddr, body |-> "turn OK"]
    <3>1. m.from = NoAddr
      OBVIOUS
    <3>2. out' \subseteq {m}
      BY <2>1 DEF Remind
    <3> HIDE DEF m
    <3> QED
      BY <3>1, <3>2
  <2>2. CASE out' = {}
    BY <1>1, <2>2
  <2>3. CASE StartWaiter(i) \/ TestAnswers(i)
    BY <2>2, <2>3 DEF StartWaiter, TestAnswers
  <2>4. CASE RemindFirst(i) \/ RemindSecond(i)
    BY <1>1, <2>1, <2>4 DEF RemindFirst, RemindSecond
  <2> QED
    BY <1>3, <2>3, <2>4 DEF Waiter
<1>4. ASSUME NEW s \in Client, HandleRead(s) PROVE RelayedWithinPair'
  <2> DEFINE d == Head(queue[s])
  <2>1. CASE Relay(d)
    <3>1. d.from \in Addr
      BY <1>0, <1>4, HeadType DEF HandleRead, Readable
    <3>2. IsPair(d.from, turnMap[d.from]) /\ Answered(d.from)
      BY <1>0, <2>1, <3>1 DEF Relay, RoutesWithinPairs
    <3>3. UNCHANGED <<idMap, sockSession>>
      BY <1>4, <2>1 DEF HandleRead, Relay, tables
    <3>4. out' = {[to |-> turnMap[d.from], from |-> d.from, body |-> d.body]}
      BY <2>1 DEF Relay
    <3> QED
      BY <3>2, <3>3, <3>4 DEF RelayedWithinPair, IsPair, Answered
  <2>2. CASE ReadAnswer(d) \/ Swallow(d) \/ DropUnrouted(d)
    BY <1>1, <2>2 DEF ReadAnswer, Swallow, DropUnrouted
  <2> QED
    BY <1>4, <2>1, <2>2 DEF HandleRead
<1>5. CASE \/ Refuse \/ OpenSocket \/ ConnectSocket \/ DataRace \/ Network
           \/ \E b \in Addr, c \in Body : Send(b, c)
  BY <1>1, <1>5 DEF Refuse, OpenSocket, ConnectSocket, DataRace, Network,
                    AnswerTurnOK, Lose, Send
<1>6. CASE UNCHANGED vars
  BY <1>0, <1>6 DEF RelayedWithinPair, IsPair, Answered, vars, tables
<1> QED
  BY <1>2, <1>3, <1>4, <1>5, <1>6 DEF Next, Server

-----------------------------------------------------------------------------
(* Theorems *)

LEMMA SafeStep ==
  SafeInv /\ [Next]_vars => SafeInv'
<1> SUFFICES ASSUME SafeInv, [Next]_vars PROVE SafeInv'
  OBVIOUS
<1>1. WaitersServePairs'
  <2>1. ASSUME NEW a \in Addr, NEW i \in Id, AcceptFirst(a, i)
        PROVE  WaitersServePairs'
    BY <2>1, AcceptFirstWaiters
  <2>2. CASE UNCHANGED <<idMap, turnMap, waiter>>
    BY <2>2, QuietWaiters
  <2> QED
    BY <2>1, <2>2, AcceptWaiters, WaiterWaiters, Changes
<1> QED
  BY <1>1, TypeStep, PairsOfTwoStep, RoutesStep, RelayedStep DEF SafeInv

\* The inductive invariant of the relay among any clients: pairs have two
\* ends and are final, routes and relayed datagrams stay inside them, and
\* every waiter serves its pair (acceptUdp, handleRead, waitAnswer).
THEOREM SafeInvariant ==
  Spec => []SafeInv
<1>1. Init => SafeInv
  <2> SUFFICES ASSUME Init PROVE SafeInv
    OBVIOUS
  <2>1. PairsOfTwo /\ RoutesWithinPairs /\ RelayedWithinPair
    BY DEF Init, PairsOfTwo, RoutesWithinPairs, RelayedWithinPair
  <2>2. WaitersServePairs
    BY DEF Init, WaitersServePairs
  <2> QED
    BY <2>1, <2>2, TypeInit DEF SafeInv
<1> QED
  BY <1>1, SafeStep, PTL DEF Spec

\* Every variable of the relay keeps its type, whatever clients send.
THEOREM TypeCorrect ==
  Spec => []TypeOK
BY SafeInvariant, PTL DEF SafeInv

\* Whatever clients send, data crosses only between the two clients of an id,
\* after the sender has answered (handleRead, acceptUdp).
THEOREM RelaysInsidePairs ==
  Spec => []RelayedWithinPair
BY SafeInvariant, PTL DEF SafeInv

\* Every thread works on the pair it was made for and ends only when both have
\* answered (waitAnswer).
THEOREM WaitersAlwaysServe ==
  Spec => []WaitersServePairs
BY SafeInvariant, PTL DEF SafeInv

LEMMA RendezvousStep ==
  SafeInv /\ [Next]_vars => [Meeting!Next]_idMap
<1> SUFFICES ASSUME SafeInv, [Next]_vars PROVE [Meeting!Next]_idMap
  OBVIOUS
<1>1. ASSUME NEW a \in Addr, NEW i \in Id, AcceptFirst(a, i) PROVE Meeting!Next
  BY <1>1 DEF AcceptFirst, Meeting!Next, Meeting!Wait
<1>2. ASSUME NEW a \in Addr, NEW i \in Id, AcceptSecond(a, i) PROVE Meeting!Next
  BY <1>2 DEF AcceptSecond, MayJoin, Meeting!Next, Meeting!Join
<1> QED
  BY <1>1, <1>2, Changes

\* The relay implements Rendezvous: an id is waited under by one client, then
\* completed by another, then final (idMap in acceptUdp).
THEOREM RendezvousRefined ==
  Spec => RendezvousSpec
<1>1. Init => Meeting!Init
  BY DEF Init, Meeting!Init
<1> QED
  BY <1>1, RendezvousStep, SafeInvariant, PTL DEF Spec, RendezvousSpec, Meeting!Spec

-----------------------------------------------------------------------------
(* Descriptors are spent on registrations only *)

\* The inductive invariant behind SocketsAccounted: a socket is connected once,
\* to the address acceptUdp holds meanwhile, and the process exits only there.
SocketInv ==
  /\ IsFiniteSet(Registrations)
  /\ SocketsAccounted
  /\ stage = "wait" => opening = NoAddr
  /\ stage = "connect" => opened >= 1 /\ peerOf[opened] = NoAddr
  /\ \A s \in Client : s > opened => peerOf[s] = NoAddr
  /\ process = "exited" => stage = "open" /\ opened = MaxSockets

\* Nothing changes for steps that register nobody and leave acceptUdp alone.
LEMMA SocketsUntouched ==
  ASSUME SocketInv, UNCHANGED <<idMap, sockets, loop>>,
         process' \in {process, "corrupted"}
  PROVE  SocketInv'
<1>1. Registrations' = Registrations
  BY DEF Registrations
<1>2. \A i \in Id : Ends(i)' = Ends(i)
  BY DEF Ends
<1>3. SocketsAccounted'
  BY <1>1, <1>2 DEF SocketInv, SocketsAccounted, sockets, loop
<1> QED
  BY <1>1, <1>3 DEF SocketInv, sockets, loop

\* A registration counts once, and the address it is for gets the socket.
LEMMA RegisteredOnce ==
  ASSUME TypeOK, SocketInv, NEW a \in Addr, NEW i \in Id,
         NEW e \in {"first", "second"},
         idMap[i][e] = NoAddr, idMap' = [idMap EXCEPT ![i][e] = a],
         stage = "wait", stage' = "open", opening' = a,
         UNCHANGED <<sockets, process>>
  PROVE  SocketInv'
<1>1. Registrations' = Registrations \cup {<<i, e>>} /\ <<i, e>> \notin Registrations
  BY AddrAssumption DEF Registrations, TypeOK
<1>2. /\ IsFiniteSet(Registrations')
      /\ Cardinality(Registrations') = Cardinality(Registrations) + 1
  BY <1>1, FS_AddElement DEF SocketInv
<1>3. \A j \in Id : Ends(j)' \subseteq Ends(j) \cup {a}
  BY DEF Ends, TypeOK
<1>4. /\ opened' = opened /\ peerOf' = peerOf /\ process' = process
      /\ opening = NoAddr /\ opened \in Nat
  BY LimitAssumption DEF sockets, SocketInv, TypeOK
<1>5. SocketsAccounted'
  <2>1. opened' + (IF stage' = "open" THEN 1 ELSE 0) = Cardinality(Registrations')
    BY <1>2, <1>4 DEF SocketInv, SocketsAccounted
  <2>2. ASSUME NEW j \in Id, NEW b \in Ends(j)'
        PROVE  b = opening' \/ \E s \in Client : peerOf'[s] = b
    <3>1. b = a \/ (b \in Ends(j) /\ b # NoAddr)
      BY <1>3, <2>2 DEF Ends
    <3> QED
      BY <1>4, <3>1 DEF SocketInv, SocketsAccounted
  <2>3. process # "exited"
    BY DEF SocketInv
  <2> QED
    BY <1>4, <2>1, <2>2, <2>3 DEF SocketsAccounted
<1> QED
  BY <1>2, <1>4, <1>5 DEF SocketInv

LEMMA OpenSocketStep ==
  ASSUME TypeOK, SocketInv, OpenSocket
  PROVE  SocketInv'
<1>1. Registrations' = Registrations
  BY DEF OpenSocket, tables, Registrations
<1>2. \A i \in Id : Ends(i)' = Ends(i)
  BY DEF OpenSocket, tables, Ends
<1>3. /\ opened \in 0 .. MaxSockets /\ MaxSockets \in Nat
      /\ opened + 1 = Cardinality(Registrations)
      /\ opening' = opening /\ peerOf' = peerOf /\ stage = "open"
  BY LimitAssumption DEF OpenSocket, TypeOK, SocketInv, SocketsAccounted
<1>4. CASE opened = MaxSockets
  BY <1>1, <1>2, <1>3, <1>4 DEF OpenSocket, SocketInv, SocketsAccounted
<1>5. CASE opened # MaxSockets
  <2>1. opened + 1 \in Client /\ opened' = opened + 1 /\ stage' = "connect"
    BY <1>3, <1>5 DEF OpenSocket, Client
  <2>2. process' = "running"
    BY <1>5 DEF OpenSocket, Running
  <2>3. SocketsAccounted'
    BY <1>1, <1>2, <1>3, <2>1, <2>2 DEF SocketInv, SocketsAccounted
  <2> QED
    BY <1>1, <1>3, <2>1, <2>2, <2>3 DEF SocketInv, Client
<1> QED
  BY <1>4, <1>5

LEMMA ConnectSocketStep ==
  ASSUME TypeOK, SocketInv, ConnectSocket
  PROVE  SocketInv'
<1>1. Registrations' = Registrations
  BY DEF ConnectSocket, tables, Registrations
<1>2. \A i \in Id : Ends(i)' = Ends(i)
  BY DEF ConnectSocket, tables, Ends
<1>3. /\ opened \in Client /\ opened' = opened /\ stage = "connect"
      /\ stage' = "wait" /\ opening' = NoAddr /\ process' = "running"
      /\ peerOf' = [peerOf EXCEPT ![opened] = opening]
  BY LimitAssumption DEF ConnectSocket, Running, TypeOK, SocketInv, Client
<1>4. ASSUME NEW i \in Id, NEW a \in Ends(i)
      PROVE  \E s \in Client : peerOf'[s] = a
  <2>1. CASE a = opening
    BY <1>3, <2>1 DEF TypeOK
  <2>2. CASE a # opening
    <3>1. PICK s \in Client : peerOf[s] = a
      BY <2>2 DEF SocketInv, SocketsAccounted
    <3>2. s # opened
      BY <1>3, <1>4, <3>1 DEF SocketInv, Ends
    <3> QED
      BY <1>3, <3>1, <3>2 DEF TypeOK
  <2> QED
    BY <2>1, <2>2
<1>5. SocketsAccounted'
  BY <1>1, <1>2, <1>3, <1>4 DEF SocketInv, SocketsAccounted
<1>6. \A s \in Client : s > opened => peerOf'[s] = NoAddr
  BY <1>3 DEF SocketInv, TypeOK, Client
<1> QED
  BY <1>1, <1>3, <1>5, <1>6 DEF SocketInv

LEMMA SocketStep ==
  TypeOK /\ SocketInv /\ [Next]_vars => SocketInv'
<1> SUFFICES ASSUME TypeOK, SocketInv, [Next]_vars PROVE SocketInv'
  OBVIOUS
<1>1. ASSUME NEW a \in Addr, NEW i \in Id, AcceptFirst(a, i) PROVE SocketInv'
  BY <1>1, RegisteredOnce DEF AcceptFirst, Requests, Readable, GoesOn
<1>2. ASSUME NEW a \in Addr, NEW i \in Id, AcceptSecond(a, i) PROVE SocketInv'
  BY <1>2, RegisteredOnce
     DEF AcceptSecond, Requests, Readable, MayJoin, GoesOn
<1>3. CASE Refuse
  BY <1>3, SocketsUntouched DEF Refuse, tables
<1>4. ASSUME NEW s \in Client, HandleRead(s) PROVE SocketInv'
  BY <1>4, SocketsUntouched DEF HandleRead, tables
<1>5. ASSUME NEW i \in Id, Waiter(i) PROVE SocketInv'
  BY <1>5, SocketsUntouched
     DEF Waiter, StartWaiter, TestAnswers, RemindFirst, RemindSecond, Remind, tables
<1>6. CASE DataRace
  BY <1>6, SocketsUntouched DEF DataRace, tables
<1>7. CASE Network
  BY <1>7, SocketsUntouched DEF Network, AnswerTurnOK, Lose, tables
<1>8. ASSUME NEW a \in Addr, NEW b \in Body, Send(a, b) PROVE SocketInv'
  BY <1>8, SocketsUntouched DEF Send, tables
<1>9. CASE UNCHANGED vars
  BY <1>9, SocketsUntouched DEF vars, tables
<1> QED
  BY <1>1, <1>2, <1>3, <1>4, <1>5, <1>6, <1>7, <1>8, <1>9, OpenSocketStep,
     ConnectSocketStep DEF Next, Server, Accept

\* Whatever clients send, and however often, a descriptor is spent for each
\* registered end of an id and for nothing else, so exit(1) needs more
\* registrations than there are descriptors (acceptUdp).
THEOREM SocketsAlwaysAccounted ==
  Spec => []SocketsAccounted
<1>1. Init => SocketInv
  <2> SUFFICES ASSUME Init PROVE SocketInv
    OBVIOUS
  <2>1. Registrations = {}
    BY DEF Init, Registrations
  <2>2. IsFiniteSet({}) /\ Cardinality({}) = 0
    BY FS_EmptySet
  <2>3. \A i \in Id : Ends(i) = {}
    BY DEF Init, Ends
  <2>4. SocketsAccounted
    BY <2>1, <2>2, <2>3 DEF Init, SocketsAccounted
  <2> QED
    BY <2>1, <2>2, <2>4 DEF Init, SocketInv
<1>2. SocketInv => SocketsAccounted
  BY DEF SocketInv
<1> QED
  BY <1>1, <1>2, SocketStep, TypeCorrect, PTL DEF Spec

-----------------------------------------------------------------------------
(* Clients that keep to the protocol: the routes are the pairs, and
   whoever has answered has one *)

(* What waits in the sockets *)

\* Reading a socket brings nothing new.
LEMMA ConsumeWaiting ==
  ASSUME TypeOK, NEW s \in {Listen} \cup Client, queue[s] # <<>>, Consume(s),
         NEW a, NEW b, Waiting(a, b)'
  PROVE  Waiting(a, b)
<1>1. PICK t \in {Listen} \cup Client :
        \E k \in DOMAIN queue'[t] : queue'[t][k] = [from |-> a, body |-> b]
  BY DEF Waiting
<1>0. PICK k \in DOMAIN queue'[t] : queue'[t][k] = [from |-> a, body |-> b]
  BY <1>1
<1>2. CASE t # s
  BY <1>1, <1>2 DEF Consume, TypeOK, Waiting
<1>3. CASE t = s
  <2>1. queue[s] \in Seq(Datagram)
    BY DEF TypeOK
  <2>2. queue'[s] = Tail(queue[s])
    BY DEF Consume, TypeOK
  <2>3. k \in 1 .. Len(Tail(queue[s]))
    BY <1>0, <1>3, <2>1, <2>2
  <2>4. k + 1 \in DOMAIN queue[s] /\ queue[s][k + 1] = Tail(queue[s])[k]
    BY <2>1, <2>3
  <2> QED
    BY <1>0, <1>3, <2>2, <2>4 DEF Waiting
<1> QED
  BY <1>2, <1>3

\* The arrival of a datagram brings that datagram.
LEMMA ArrivesWaiting ==
  ASSUME TypeOK, NEW c \in Addr, NEW d \in Body, Arrives(c, d),
         NEW a, NEW b, Waiting(a, b)'
  PROVE  Waiting(a, b) \/ (a = c /\ b = d)
<1> DEFINE new == [from |-> c, body |-> d]
<1>1. PICK s \in Targets(c) : queue' = [queue EXCEPT ![s] = Append(@, new)]
  BY DEF Arrives
<1>2. PICK t \in {Listen} \cup Client :
        \E k \in DOMAIN queue'[t] : queue'[t][k] = [from |-> a, body |-> b]
  BY DEF Waiting
<1>0. PICK k \in DOMAIN queue'[t] : queue'[t][k] = [from |-> a, body |-> b]
  BY <1>2
<1>3. CASE t # s
  BY <1>1, <1>2, <1>3 DEF TypeOK, Waiting
<1>4. CASE t = s
  <2>1. queue[t] \in Seq(Datagram)
    BY DEF TypeOK
  <2>2. queue'[t] = Append(queue[t], new)
    BY <1>1, <1>4 DEF TypeOK
  <2>3. k \in 1 .. Len(queue[t]) + 1
    BY <1>0, <2>1, <2>2
  <2>4. CASE k \in 1 .. Len(queue[t])
    <3>1. queue[t][k] = [from |-> a, body |-> b]
      BY <1>0, <2>1, <2>2, <2>4
    <3> QED
      BY <2>1, <2>4, <3>1 DEF Waiting
  <2>5. CASE k = Len(queue[t]) + 1
    <3>1. new = [from |-> a, body |-> b]
      BY <1>0, <2>1, <2>2, <2>5
    <3> QED
      BY <3>1
  <2> QED
    BY <2>3, <2>4, <2>5
<1> QED
  BY <1>3, <1>4

\* What is at the head of a socket is waiting.
LEMMA HeadWaits ==
  ASSUME TypeOK, NEW s \in {Listen} \cup Client, queue[s] # <<>>
  PROVE  Waiting(Head(queue[s]).from, Head(queue[s]).body)
<1>1. queue[s] \in Seq(Datagram)
  BY DEF TypeOK
<1>2. 1 \in DOMAIN queue[s] /\ queue[s][1] = Head(queue[s])
  BY <1>1
<1>3. Head(queue[s]) = [from |-> Head(queue[s]).from, body |-> Head(queue[s]).body]
  <2>1. \A d \in Datagram : d = [from |-> d.from, body |-> d.body]
    BY DEF Datagram
  <2> QED
    BY <2>1, HeadType
<1> QED
  BY <1>2, <1>3 DEF Waiting

LEMMA ClientStepIsStep ==
  [ClientNext]_vars => [Next]_vars
BY DEF ClientNext, Next, Register, Body

-----------------------------------------------------------------------------
(* One id for each client *)

\* A request that is accepted was waiting.
LEMMA RequestWaits ==
  ASSUME TypeOK, NEW a, NEW i, Requests(a, i)
  PROVE  Waiting(a, i) /\ queue[Listen] # <<>>
<1>1. queue[Listen] # <<>>
  BY DEF Requests, Readable
<1>2. Head(queue[Listen]).from = a /\ Head(queue[Listen]).body = i
  BY DEF Requests
<1> QED
  BY <1>1, <1>2, HeadWaits

\* What waits after a step waited before, or a client has just sent it.
LEMMA WaitingStep ==
  ASSUME ClientInv, [ClientNext]_vars, NEW a \in Addr, NEW b \in Body,
         Waiting(a, b)'
  PROVE  \/ Waiting(a, b)
         \/ b = "OK" /\ a \in inflight
         \/ b \in {"data", "empty"}
         \/ b \in Id /\ Register(a, b)
<1>0. TypeOK
  BY DEF ClientInv, SafeInv
<1>1. CASE UNCHANGED queue
  BY <1>1 DEF Waiting
<1>2. ASSUME NEW s \in {Listen} \cup Client, queue[s] # <<>>, Consume(s)
      PROVE  Waiting(a, b)
  BY <1>0, <1>2, ConsumeWaiting
<1>3. ASSUME NEW c \in Addr, NEW i \in Id, Accept(c, i) PROVE Waiting(a, b)
  BY <1>2, <1>3
     DEF Accept, AcceptFirst, AcceptSecond, Requests, Readable, GoesOn
<1>4. CASE Refuse
  BY <1>2, <1>4 DEF Refuse, Readable
<1>5. ASSUME NEW s \in Client, HandleRead(s) PROVE Waiting(a, b)
  BY <1>2, <1>5 DEF HandleRead, Readable
<1>6. ASSUME NEW i \in Id, Waiter(i) PROVE UNCHANGED queue
  BY <1>6 DEF Waiter, StartWaiter, TestAnswers, RemindFirst, RemindSecond, Remind
<1>7. CASE OpenSocket \/ ConnectSocket \/ DataRace \/ UNCHANGED vars
  BY <1>1, <1>7 DEF OpenSocket, ConnectSocket, DataRace, vars
<1>8. ASSUME NEW c \in Addr, AnswerTurnOK(c)
      PROVE  Waiting(a, b) \/ (b = "OK" /\ a \in inflight)
  BY <1>0, <1>8, ArrivesWaiting DEF AnswerTurnOK, Body
<1>9. ASSUME NEW c \in Addr, Lose(c) PROVE UNCHANGED queue
  BY <1>9 DEF Lose
<1>10. ASSUME NEW c \in Addr, Send(c, "data") \/ Send(c, "empty")
       PROVE  Waiting(a, b) \/ b \in {"data", "empty"}
  BY <1>0, <1>10, ArrivesWaiting DEF Send, Body
<1>11. ASSUME NEW c \in Addr, NEW i \in Id, Register(c, i)
       PROVE  Waiting(a, b) \/ (b \in Id /\ Register(a, b))
  BY <1>0, <1>11, ArrivesWaiting DEF Register, Send, Body
<1> QED
  BY <1>1, <1>3, <1>4, <1>5, <1>6, <1>7, <1>8, <1>9, <1>10, <1>11
     DEF ClientNext, Server, Network

\* Who is an end after a step was one before, or is accepted now.
LEMMA EndsStep ==
  ASSUME ClientInv, [ClientNext]_vars, NEW a \in Addr, NEW i \in Id, a \in Ends(i)'
  PROVE  a \in Ends(i) \/ Waiting(a, i)
<1>0. TypeOK
  BY DEF ClientInv, SafeInv
<1>1. [Next]_vars
  BY ClientStepIsStep
<1>2. CASE UNCHANGED idMap
  BY <1>2 DEF Ends
<1>3. ASSUME NEW c \in Addr, NEW j \in Id, AcceptFirst(c, j)
      PROVE  a \in Ends(i) \/ Waiting(a, i)
  <2>1. Waiting(c, j)
    BY <1>0, <1>3, RequestWaits DEF AcceptFirst
  <2>2. idMap' = [idMap EXCEPT ![j].first = c]
    BY <1>3 DEF AcceptFirst
  <2>3. idMap'[j].first = c /\ idMap'[j].second = idMap[j].second
    BY <1>0, <2>2 DEF TypeOK
  <2>4. i # j => idMap'[i] = idMap[i]
    BY <1>0, <2>2 DEF TypeOK
  <2> QED
    BY <2>1, <2>3, <2>4 DEF Ends
<1>4. ASSUME NEW c \in Addr, NEW j \in Id, AcceptSecond(c, j)
      PROVE  a \in Ends(i) \/ Waiting(a, i)
  <2>1. Waiting(c, j)
    BY <1>0, <1>4, RequestWaits DEF AcceptSecond
  <2>2. idMap' = [idMap EXCEPT ![j].second = c]
    BY <1>4 DEF AcceptSecond
  <2>3. idMap'[j].second = c /\ idMap'[j].first = idMap[j].first
    BY <1>0, <2>2 DEF TypeOK
  <2>4. i # j => idMap'[i] = idMap[i]
    BY <1>0, <2>2 DEF TypeOK
  <2> QED
    BY <2>1, <2>3, <2>4 DEF Ends
<1> QED
  BY <1>1, <1>2, <1>3, <1>4, Changes

\* So only Register lets a client bring an id, and it checks the others.
LEMMA OneIdStep ==
  ASSUME ClientInv, [ClientNext]_vars
  PROVE  OneIdEach'
<1> SUFFICES ASSUME NEW a \in Addr, NEW i \in Brings(a)', NEW j \in Brings(a)'
             PROVE  i = j
  BY DEF OneIdEach
<1>1. i \in Id /\ j \in Id
  BY DEF Brings
<1>2. \A k \in Id : k \notin {"OK", "data", "empty"} /\ k \in Body
  BY IdAssumption DEF Body
<1>3. ASSUME NEW k \in Brings(a)' PROVE k \in Brings(a) \/ Register(a, k)
  <2>1. k \in Id
    BY DEF Brings
  <2>2. a \in Ends(k)' \/ Waiting(a, k)'
    BY DEF Brings
  <2>3. CASE a \in Ends(k)'
    BY <2>1, <2>3, EndsStep DEF Brings
  <2>4. CASE Waiting(a, k)'
    BY <1>2, <2>1, <2>4, WaitingStep DEF Brings
  <2> QED
    BY <2>2, <2>3, <2>4
<1>4. ASSUME NEW k \in Id, Register(a, k), NEW l \in Brings(a)' PROVE l = k
  <2>1. Brings(a) \subseteq {k}
    BY <1>4 DEF Register
  <2>2. l \in Id
    BY DEF Brings
  <2>3. UNCHANGED idMap /\ Arrives(a, k)
    BY <1>4 DEF Register, Send, tables
  <2>4. CASE a \in Ends(l)'
    BY <2>1, <2>2, <2>3, <2>4 DEF Ends, Brings
  <2>5. CASE Waiting(a, l)'
    <3>1. Waiting(a, l) \/ l = k
      BY <1>2, <2>2, <2>3, <2>5, ArrivesWaiting DEF ClientInv, SafeInv
    <3> QED
      BY <2>1, <2>2, <3>1 DEF Brings
  <2> QED
    BY <2>4, <2>5 DEF Brings
<1>5. CASE i \in Brings(a) /\ j \in Brings(a)
  BY <1>5 DEF ClientInv, OneIdEach
<1> QED
  BY <1>1, <1>3, <1>4, <1>5

-----------------------------------------------------------------------------
(* Routes *)

\* A client about to complete a pair, and the one that waits, have no route:
\* each of them brings this id only, and its pair is not complete.
LEMMA NoOlderPair ==
  ASSUME ClientInv, NEW a \in Addr, NEW i \in Brings(a),
         idMap[i].second = NoAddr, NEW b \in Addr
  PROVE  ~IsPair(a, b) /\ ~IsPair(b, a)
<1> SUFFICES ASSUME NEW j \in Id, {a, b} = {idMap[j].first, idMap[j].second}
             PROVE  FALSE
  BY DEF IsPair
<1>1. a \in Ends(j)
  BY AddrAssumption DEF Ends
<1>2. j \in Brings(a)
  BY <1>1 DEF Brings
<1>3. j = i
  BY <1>2 DEF ClientInv, OneIdEach
<1> QED
  BY <1>3, AddrAssumption

LEMMA ClientRoutesStep ==
  ASSUME ClientInv, [ClientNext]_vars
  PROVE  RoutesArePairs'
<1>0. TypeOK /\ RoutesArePairs /\ SafeInv /\ PairsOfTwo
  BY DEF ClientInv, SafeInv
<1>1. CASE UNCHANGED <<idMap, turnMap>>
  BY <1>0, <1>1 DEF RoutesArePairs, IsPair
<1>2. ASSUME NEW c \in Addr, NEW i \in Id, AcceptFirst(c, i) PROVE RoutesArePairs'
  <2>1. idMap' = [idMap EXCEPT ![i].first = c] /\ UNCHANGED turnMap
    BY <1>2 DEF AcceptFirst
  <2>2. idMap[i].first = NoAddr /\ idMap[i].second = NoAddr
    BY <1>0, <1>2 DEF AcceptFirst, PairsOfTwo
  <2>3. idMap'[i].second = NoAddr
    BY <1>0, <2>1, <2>2 DEF TypeOK
  <2>4. \A j \in Id \ {i} : idMap'[j] = idMap[j]
    BY <1>0, <2>1 DEF TypeOK
  <2>5. ASSUME NEW a \in Addr, NEW b \in Addr
        PROVE  turnMap'[a] = b <=> IsPair(a, b)'
    <3>1. IsPair(a, b)' <=> IsPair(a, b)
      <4> DEFINE Was(j) == {a, b} = {idMap[j].first, idMap[j].second}
                 Is(j)  == {a, b} = {idMap'[j].first, idMap'[j].second}
      <4>1. \A j \in Id : Was(j) <=> Is(j)
        <5> SUFFICES ASSUME NEW j \in Id PROVE Was(j) <=> Is(j)
          OBVIOUS
        <5>1. CASE j = i
          <6>1. idMap[j].second \notin {a, b} /\ idMap'[j].second \notin {a, b}
            BY <2>2, <2>3, <5>1, AddrAssumption
          <6> QED
            BY <6>1
        <5>2. CASE j # i
          BY <2>4, <5>2
        <5> QED
          BY <5>1, <5>2
      <4>2. IsPair(a, b) <=> a # b /\ \E j \in Id : Was(j)
        BY DEF IsPair
      <4>3. IsPair(a, b)' <=> a # b /\ \E j \in Id : Is(j)
        BY DEF IsPair
      <4> HIDE DEF Was, Is
      <4> QED
        BY <4>1, <4>2, <4>3
    <3>2. turnMap[a] = b <=> IsPair(a, b)
      BY <1>0 DEF RoutesArePairs
    <3> QED
      BY <2>1, <3>1, <3>2
  <2> QED
    BY <2>5 DEF RoutesArePairs
<1>3. ASSUME NEW c \in Addr, NEW i \in Id, AcceptSecond(c, i) PROVE RoutesArePairs'
  <2> DEFINE f == idMap[i].first
  <2>1. f \in Addr /\ f # c /\ idMap[i].second = NoAddr
    BY <1>0, <1>3 DEF AcceptSecond, MayJoin, TypeOK
  <2>2. idMap' = [idMap EXCEPT ![i].second = c]
    BY <1>3 DEF AcceptSecond
  <2>3. idMap'[i].first = f /\ idMap'[i].second = c
    BY <1>0, <2>2 DEF TypeOK
  <2>4. \A j \in Id \ {i} : idMap'[j] = idMap[j]
    BY <1>0, <2>2 DEF TypeOK
  <2>5. turnMap' = [turnMap EXCEPT ![c] = f, ![f] = c]
    BY <1>3 DEF AcceptSecond, Paired
  <2>6. turnMap'[c] = f /\ turnMap'[f] = c
    BY <1>0, <2>1, <2>5 DEF TypeOK
  <2>7. \A a \in Addr \ {c, f} : turnMap'[a] = turnMap[a]
    BY <1>0, <2>5 DEF TypeOK
  <2>8. i \in Brings(c) /\ i \in Brings(f)
    <3>1. Waiting(c, i)
      BY <1>0, <1>3, RequestWaits DEF AcceptSecond
    <3>2. f \in Ends(i)
      BY <2>1, AddrAssumption DEF Ends
    <3> QED
      BY <3>1, <3>2 DEF Brings
  <2>9. \A b \in Addr : /\ ~IsPair(c, b) /\ ~IsPair(b, c)
                        /\ ~IsPair(f, b) /\ ~IsPair(b, f)
    BY <2>1, <2>8, NoOlderPair
  <2>10. ASSUME NEW a \in Addr, NEW b \in Addr
         PROVE  IsPair(a, b)' <=> IsPair(a, b) \/ {a, b} = {c, f}
    <3>1. {c, f} = {idMap'[i].first, idMap'[i].second}
      BY <2>3
    <3>2. {a, b} # {idMap[i].first, idMap[i].second}
      BY <2>1, AddrAssumption
    <3>3. (\E j \in Id : {a, b} = {idMap'[j].first, idMap'[j].second})
            <=> \/ \E j \in Id : {a, b} = {idMap[j].first, idMap[j].second}
                \/ {a, b} = {c, f}
      BY <2>4, <3>1, <3>2
    <3>4. {a, b} = {c, f} => a # b
      BY <2>1
    <3> QED
      BY <3>3, <3>4 DEF IsPair
  <2>11. ASSUME NEW a \in Addr, NEW b \in Addr
         PROVE  turnMap'[a] = b <=> IsPair(a, b)'
    <3>1. CASE a = c
      <4>1. ~IsPair(a, b)
        BY <2>9, <3>1
      <4>2. {a, b} = {c, f} <=> b = f
        BY <2>1, <3>1
      <4> QED
        BY <2>6, <2>10, <3>1, <4>1, <4>2
    <3>2. CASE a = f
      <4>1. ~IsPair(a, b)
        BY <2>9, <3>2
      <4>2. {a, b} = {c, f} <=> b = c
        BY <2>1, <3>2
      <4> QED
        BY <2>6, <2>10, <3>2, <4>1, <4>2
    <3>3. CASE a \notin {c, f}
      <4>1. {a, b} # {c, f}
        BY <3>3
      <4>2. turnMap[a] = b <=> IsPair(a, b)
        BY <1>0 DEF RoutesArePairs
      <4> QED
        BY <2>7, <2>10, <3>3, <4>1, <4>2
    <3> QED
      BY <3>1, <3>2, <3>3
  <2> QED
    BY <2>11 DEF RoutesArePairs
<1> QED
  BY <1>1, <1>2, <1>3, ClientStepIsStep, Changes

\* A route that exists goes on existing.
LEMMA RouteStays ==
  ASSUME ClientInv, [ClientNext]_vars, NEW a \in Addr, turnMap[a] # NoAddr
  PROVE  turnMap'[a] # NoAddr
<1>0. TypeOK /\ RoutesArePairs /\ SafeInv
  BY DEF ClientInv, SafeInv
<1>1. turnMap[a] \in Addr
  BY <1>0 DEF TypeOK
<1> DEFINE b == turnMap[a]
<1>2. IsPair(a, b)
  BY <1>0, <1>1 DEF RoutesArePairs
<1>3. PICK c \in Addr : c = b
  BY <1>1
<1>4. IsPair(a, c)'
  BY <1>0, <1>2, <1>3, ClientStepIsStep, IsPairStays
<1>5. turnMap'[a] = c
  BY <1>4, ClientRoutesStep DEF RoutesArePairs
<1> QED
  BY <1>5, AddrAssumption

\* A waiter reminds the two ends of a pair.
LEMMA PeersHaveRoute ==
  ASSUME ClientInv, NEW i \in Id, waiter[i].pc \notin {"none", "start"}
  PROVE  turnMap[waiter[i].peer1] # NoAddr /\ turnMap[waiter[i].peer2] # NoAddr
<1> DEFINE f == waiter[i].peer1  s == waiter[i].peer2
<1>1. f \in Addr /\ s \in Addr
  BY WaiterPeers DEF ClientInv
<1>2. f = idMap[i].first /\ s = idMap[i].second /\ f # s
  BY <1>1, AddrAssumption DEF ClientInv, SafeInv, WaitersServePairs, PairsOfTwo
<1>3. IsPair(f, s) /\ IsPair(s, f)
  BY <1>2 DEF IsPair
<1>4. turnMap[f] = s /\ turnMap[s] = f
  BY <1>1, <1>3 DEF ClientInv, RoutesArePairs
<1> QED
  BY <1>1, <1>4, AddrAssumption

\* Only a client with a route is reminded, so only such a client answers.
LEMMA ToldStep ==
  ASSUME ClientInv, [ClientNext]_vars
  PROVE  ToldHaveRoute'
<1>0. TypeOK /\ ToldHaveRoute
  BY DEF ClientInv, SafeInv
<1> SUFFICES ASSUME NEW a \in Addr, a \in inflight' \/ Waiting(a, "OK")'
             PROVE  turnMap'[a] # NoAddr
  BY DEF ToldHaveRoute
<1> SUFFICES turnMap[a] # NoAddr
  BY RouteStays
<1>1. CASE a \in inflight
  BY <1>0, <1>1 DEF ToldHaveRoute
<1>2. CASE Waiting(a, "OK")'
  <2>1. "OK" \in Body /\ "OK" \notin Id /\ "OK" \notin {"data", "empty"}
    BY IdAssumption DEF Body
  <2>2. Waiting(a, "OK") \/ a \in inflight
    BY <1>2, <2>1, WaitingStep
  <2> QED
    BY <1>0, <2>2 DEF ToldHaveRoute
<1>3. CASE a \in inflight' /\ a \notin inflight
  <2>1. PICK i \in Id : RemindFirst(i) \/ RemindSecond(i)
    <3>1. ASSUME NEW i \in Id, Waiter(i) PROVE RemindFirst(i) \/ RemindSecond(i)
      BY <1>3, <3>1 DEF Waiter, StartWaiter, TestAnswers
    <3>2. ~(\E c \in Addr, i \in Id : Accept(c, i))
      BY <1>3 DEF Accept, AcceptFirst, AcceptSecond, GoesOn
    <3>3. ~(\/ Refuse \/ OpenSocket \/ ConnectSocket \/ DataRace \/ Network
            \/ \E s \in Client : HandleRead(s)
            \/ \E c \in Addr : Send(c, "data") \/ Send(c, "empty")
            \/ \E c \in Addr, i \in Id : Register(c, i)
            \/ UNCHANGED vars)
      BY <1>3 DEF Refuse, OpenSocket, ConnectSocket, DataRace, Network,
                  HandleRead, AnswerTurnOK, Lose, Register, Send, vars
    <3> QED
      BY <3>1, <3>2, <3>3 DEF ClientNext, Server
  <2>2. a \in {waiter[i].peer1, waiter[i].peer2}
    BY <1>3, <2>1 DEF RemindFirst, RemindSecond, Remind
  <2>3. waiter[i].pc \notin {"none", "start"}
    BY <2>1 DEF RemindFirst, RemindSecond
  <2> QED
    BY <2>2, <2>3, PeersHaveRoute
<1> QED
  BY <1>1, <1>2, <1>3

\* So only a client with a route has an answer read.
LEMMA AnsweredStep ==
  ASSUME ClientInv, [ClientNext]_vars
  PROVE  AnsweredHaveRoute'
<1>0. TypeOK /\ ToldHaveRoute /\ AnsweredHaveRoute
  BY DEF ClientInv, SafeInv
<1> SUFFICES ASSUME NEW a \in Addr, Answered(a)'
             PROVE  turnMap'[a] # NoAddr
  BY DEF AnsweredHaveRoute
<1> SUFFICES turnMap[a] # NoAddr
  BY RouteStays
<1>1. CASE Answered(a)
  BY <1>0, <1>1 DEF AnsweredHaveRoute
<1>2. CASE ~Answered(a)
  <2>1. sockSession'[a] = "answered" /\ sockSession[a] # "answered"
    BY <1>2 DEF Answered
  <2>2. ASSUME NEW S PROVE sockSession' # Touched(S)
    BY <1>0, <1>2, <2>1, TouchedType
  <2>3. sockSession' # sockSession
    BY <2>1
  <2>4. PICK s \in Client : HandleRead(s)
    <3>1. ASSUME NEW i \in Id PROVE ~Waiter(i)
      BY <2>2, <2>3 DEF Waiter, StartWaiter, TestAnswers, RemindFirst,
                        RemindSecond, Remind
    <3>2. ~(\E c \in Addr, i \in Id : Accept(c, i))
      BY <2>3 DEF Accept, AcceptFirst, AcceptSecond, GoesOn
    <3>3. ~(\/ Refuse \/ OpenSocket \/ ConnectSocket \/ DataRace \/ Network
            \/ \E c \in Addr : Send(c, "data") \/ Send(c, "empty")
            \/ \E c \in Addr, i \in Id : Register(c, i)
            \/ UNCHANGED vars)
      BY <2>3 DEF Refuse, OpenSocket, ConnectSocket, DataRace, Network,
                  AnswerTurnOK, Lose, Register, Send, vars
    <3> QED
      BY <3>1, <3>2, <3>3 DEF ClientNext, Server
  <2>5. ReadAnswer(Head(queue[s]))
    BY <2>2, <2>3, <2>4 DEF HandleRead, Swallow, Relay, DropUnrouted
  <2>6. queue[s] # <<>>
    BY <2>4 DEF HandleRead, Readable
  <2>7. Head(queue[s]).from \in Addr
    BY <1>0, <2>6, HeadType
  <2>8. Head(queue[s]).from = a
    BY <1>0, <2>1, <2>5, <2>7 DEF ReadAnswer, TypeOK
  <2>9. Head(queue[s]).body = "OK"
    BY <2>5 DEF ReadAnswer
  <2>10. Waiting(a, "OK")
    BY <1>0, <2>6, <2>8, <2>9, HeadWaits
  <2> QED
    BY <1>0, <2>10 DEF ToldHaveRoute
<1> QED
  BY <1>1, <1>2

-----------------------------------------------------------------------------
(* Theorems *)

\* The inductive invariant of the relay among clients that keep to the
\* protocol: one id each, routes that are the pairs, and no "turn OK" or answer
\* of a client that has no route (acceptUdp, handleRead, waitAnswer).
THEOREM ClientInvariant ==
  ClientSpec => []ClientInv
<1>1. Init => ClientInv
  <2> SUFFICES ASSUME Init PROVE ClientInv
    OBVIOUS
  <2>1. SafeInv
    <3>1. PairsOfTwo /\ RoutesWithinPairs /\ RelayedWithinPair /\ WaitersServePairs
      BY DEF Init, PairsOfTwo, RoutesWithinPairs, RelayedWithinPair,
             WaitersServePairs
    <3> QED
      BY <3>1, TypeInit DEF SafeInv
  <2>2. \A a, b : ~Waiting(a, b)
    BY DEF Init, Waiting
  <2>3. \A i \in Id : Ends(i) = {}
    BY DEF Init, Ends
  <2>4. OneIdEach
    BY <2>2, <2>3 DEF OneIdEach, Brings
  <2>5. RoutesArePairs
    BY AddrAssumption DEF Init, RoutesArePairs, IsPair
  <2>6. ToldHaveRoute /\ AnsweredHaveRoute
    BY <2>2 DEF Init, ToldHaveRoute, AnsweredHaveRoute, Answered
  <2> QED
    BY <2>1, <2>4, <2>5, <2>6 DEF ClientInv
<1>2. ClientInv /\ [ClientNext]_vars => ClientInv'
  <2> SUFFICES ASSUME ClientInv, [ClientNext]_vars PROVE ClientInv'
    OBVIOUS
  <2>1. SafeInv'
    BY ClientStepIsStep, SafeStep DEF ClientInv
  <2> QED
    BY <2>1, OneIdStep, ClientRoutesStep, ToldStep, AnsweredStep DEF ClientInv
<1> QED
  BY <1>1, <1>2, PTL DEF ClientSpec

\* Among such clients the routes are the pairs, in both directions, whatever is
\* repeated, lost or read late (turnMap in acceptUdp).
THEOREM RoutesAlwaysPairs ==
  ClientSpec => []RoutesArePairs
BY ClientInvariant, PTL DEF ClientInv

\* Among such clients whoever has an answer read has a route, so none of its
\* data is dropped for want of a peer (handleRead).
THEOREM AnsweredAlwaysRouted ==
  ClientSpec => []AnsweredHaveRoute
BY ClientInvariant, PTL DEF ClientInv
=============================================================================
