# natTraverseCentreMuduo: a verification project

The repository is the server side of a NAT traversal (hole punching) system.
One process runs three services:

- a **control server** (TCP port 2007, `CentreServer.cc`) where clients log in,
  ask for a peer, report what a NAT detection found, and are told which
  addresses to try ("traverse");
- a **UDP relay** (port 1234, `UdpTurnServer.cpp`) that joins two clients that
  name the same relay id, when no direct path works;
- a **TCP relay** (`TcpTurnServer.cc`) that does the same for TCP.

`main.cpp` starts the UDP relay in a thread of its own and runs both TCP
services on one muduo event loop.

## Inventory

| Part | State | Operations | What is hard |
|---|---|---|---|
| `CentreServer` | `nameToConnMap` (name to connection), `connMap` (client, peer to `Session`), per connection the name (`setName`) and `heartBeatCnt`, the id counter of `getUniqueID` | `onConnection` up and down; `onMessage`: login, heartBeat, see, list, respond/detect; `checkHeartBeat` every 5 s | handlers of many clients in any order; tables keyed by a name that outlives or loses its connection; `operator[]` on absent keys; stale answers |
| traverse plan (inside `onMessage`) | the two sessions of a pair | which candidates, port windows and relay ids each peer gets, or who must report its ports first | branches duplicated for each direction; port arithmetic at the ends of the range; unequal component counts |
| UDP relay | `idMap`, `turnMap`, `sockSessionMap`, one connected socket per client, one `waitAnswer` thread per pair | `acceptUdp` (id datagrams), `handleRead` (answers and data), `waitAnswer` (repeats "turn OK" until both answered) | lost, repeated and reordered datagrams; maps shared by threads without a lock; sockets never closed |
| TCP relay | `addrToConnMap`, `idMap`, `turnMap`, the connection's name | `onConnection`, `onMessage` | the first chunk of a byte stream is taken for the id; addresses used again; nothing is erased |
| `LengthHeaderCodec` | the connection's input buffer | `onMessage` | frames cut and joined anywhere; an invalid length |
| muduo `Buffer`, `Endian`, `BufferOutputStream` | bytes, `readerIndex_`, `writerIndex_` | append, prepend, retrieve, makeSpace | index arithmetic over any sequence of calls |
| muduo `StringPiece`, `LogStream` | a pointer and a length; a cursor | views cut and compared; pieces and numbers appended | prefixes, embedded NULs; the room left as an `int` cast to a `size_t` |
| muduo `MutexLock`, `Condition`, blocking queues | the pthread mutex, `holder_`, the queue | `put`, `take`, `size` and the like | wakeups that come for nothing, or go to the wrong thread; `holder_` set apart from the mutex |
| muduo `Singleton`, `ThreadLocal`, `ThreadLocalSingleton` | `ponce_`, `value_`; the keys and `t_value_` of a thread | first use, `exit()`, `~ThreadLocal` and `~Deleter`, the exit of a thread | destructors in any order that use other objects; keys deleted before their threads exit |
| muduo `AtomicIntegerT`, `WeakCallback` | an integer; the use count of an object | `incrementAndGet`, `getAndSet`; a call | what is computed after the atomic access; an owner that lets go during a call |
| generated `RpcMessage` | `_has_bits_`, numbers, pointers to strings | the accessors of its fields | strings that change owners, and the one string all unset fields share |
| muduo event loop, TCP connections | external: only headers and static libraries are in the tree | | handlers run one at a time on the loop's thread |
| `client.py`, `getInterface` | none | a socket smoke test; an `ioctl` lookup | |

How they interact: the control server's loop calls `onConnection`, the codec's
`onMessage` (which calls `CentreServer::onMessage` for each frame) and the timer
`checkHeartBeat`, one at a time. The control server never calls the relays; they
are joined through the clients, who are told relay ids by "traverse" and bring
them to the relays. `CentreServer` and the codec work on the `Buffer` of each
connection; the muduo classes of the last rows are the library's public headers,
which the static libraries of the tree are built from.

What makes each part correct:

- control server: a name has one holder; a registration is lost only by its
  bearer's disconnect or by silence; answers do not outlive the client that gave
  them; a pair is told to traverse together; vanished clients are collected;
- plan: the outcome does not depend on who answers last; candidates are the
  peer's; windows contain the peer's ports; both ends get the same fresh ids;
- UDP relay: a pair is set once, data crosses only inside a pair, both ends are
  eventually told and their answers collected;
- TCP relay: the same, and no byte of one pair reaches another;
- codec: what is dispatched is what was sent, whole and in order, however it is
  cut; buffer: it is a queue of bytes with two ends, and the assertions of
  `Buffer.h` hold in any sequence of calls;
- queues: FIFO, never above their capacity, and nobody waits for what is there;
- objects made on first use: made once, destroyed once, not used afterwards, and
  forgotten only where pthreads has no destructor left to call;
- the whole: a relay pairs the two clients of one traverse and no others.

## Modules

| Module | What it is |
|---|---|
| `TraversePlan` | pure operators: the decision `onMessage` takes when both peers have answered (`Method`, `PortHolder`, `Plan` and the parts of a checklist) |
| `MCTraversePlan` | one round over a bounded set of sessions, and the properties of the plan |
| `CentreServer` | the control server as a state machine, its properties, and the specification with orderly clients |
| `NameRegistry` | the abstract specification of the name table; `CentreServer` implements it |
| `MCCentreServer` | values for the constants of `CentreServer` |
| `CentreServerProofs` | TLAPS proofs about `CentreServer`: types, refinement, the tables among orderly clients, the counting behind evictions |
| `TraversePlanProofs` | TLAPS proofs about the plan, for any addresses, ports and number of components |
| `UdpTurn` | the UDP relay: its loop, its threads, the sockets, the network and the clients |
| `Rendezvous` | the abstract specification of the table of ids; `UdpTurn` implements it |
| `MCUdpTurn` | values for the constants of `UdpTurn` |
| `UdpTurnProofs` | TLAPS proofs about `UdpTurn` among any clients (types, pairs, relaying, threads, sockets, refinement) and among clients that keep to the protocol |
| `TcpTurn`, `MCTcpTurn` | the TCP relay: connections, addresses used again, streams cut anywhere |
| `TcpTurnProofs` | TLAPS proofs about `TcpTurn`, for any streams and addresses: routes, ids, and the order of the bytes |
| `NetworkOrder` | integers as bytes in network order |
| `BufferMembers` | the members of `Buffer` as operators on a record |
| `Buffer` | a buffer and any legal sequence of calls, and of a `BufferOutputStream` on it |
| `ByteQueue` | the abstract specification of a buffer; `Buffer` implements it |
| `Framing` | one direction of a connection: `sendCodec`, TCP, `LengthHeaderCodec::onMessage` on a `BufferMembers` buffer |
| `BufferProofs` | TLAPS proofs about `Buffer` and `Framing`, for any sizes, integers and messages; induction over numbers, and lemmas about bytes and sequences |
| `StringPiece`, `LogStream`, `RpcMessage` | views of strings; the buffer of a log line; the fields of an RPC |
| `TextProofs` | TLAPS proofs about these three |
| `MCStreams` | `Buffer`, `Framing` and the three of the row above in one model: a behaviour is one of one part |
| `BlockingQueues` | mutex, condition variables and both queues, step by step |
| `FifoQueue` | the abstract specification of a queue; `BlockingQueues` implements it |
| `Singletons`, `AtomicInteger`, `WeakCallback` | objects made on first use; an integer shared by threads; calls of an object nobody keeps alive |
| `ThreadProofs` | TLAPS proofs about `BlockingQueues` and these three, for any threads |
| `MCThreads` | the four modules of threads in one model |
| `NatTraverse`, `MCNatTraverse` | the program as a whole: `getUniqueID`, clients that carry ids, the relay as `Rendezvous`, and restarts |
| `NatTraverseProofs` | TLAPS proofs about `NatTraverse` |

Operators marked "(mutation)" are altered forms of the definition that follows
them; no specification uses them. They show that each property depends on the
code: with the mutated form in its place, the property fails.

### CentreServer

`nameToConn`, `session` (`connMap`), `connName` (the name given by `setName`),
`beat` (`heartBeatCnt`) and `nextId` (`static_addition`) are the code's state.
`status` is the connection's life, `running` is false once a null connection has
been dereferenced or memory misused, and `out` holds the commands the last
handler sent. `silent`, `logins`, `answers` and the field `by` of a session are
history variables that no handler reads, except as bounds.

Each handler is one action, because the loop's thread runs them one at a time:
`Accept` and `Close` are `onConnection`; `Login`, `HeartBeat`, `See`, `List` and
`RespondDetect` are the branches of `onMessage`; `CheckHeartBeat` is the timer.
`RespondDetect` has one disjunct for each way a detect answer ends: `AwaitPeer`
(the peer has not answered), `AskPort` ("getPort" and `goto end`),
`SendTraverse`, and `Overrun` (a vector read past its end stops the process).

Points where the model keeps a behaviour of the code a reader may not expect:

- a refused login still renames the connection (`setName` comes first), and its
  close then erases the rightful owner's registration;
- `Close` erases by name, not by connection;
- a null entry made by `nameToConnMap[peer]` kills the process, after the first
  of the two traverse commands has been sent;
- a self-session is erased twice; both a crash and survival are possible;
- the counter is incremented once per registered name of a connection, in the
  order of the names, and is reset by a heart beat only. Its value at accept is
  what the constructor of `TcpConnection` leaves (`InitialBeats`), since the
  header gives no initialiser and the constructor is not in the tree;
- `gottenPort` is never reset while a session exists;
- sessions of an evicted client stay.

`Spec` puts no restriction on clients. `OrderlySpec` is the same server among
clients that log in once with a free name before they answer, answer about
others with an agreed number of components, and send heart beats in time; they
still disconnect, return on a new connection, and answer in any order. The
crash-free properties hold only there: in `Spec` the process does stop, as the
hazards in `PROJECT.json` describe.

### TraversePlan

A session is the record `connMap[u][p]` keeps. NAT types are names, an ip is a
sequence of fields of which a netmask keeps a prefix, a checklist is a sequence
of addresses with its window (`len`, `step`, `index`), hint and relay id. A port
parsed with `%d` into a `uint16_t` writes past it; `clobbered` is the choice of
outcomes (u's reflexive port survives, or is zeroed by the read that follows).

`WindowsReachPeer` compares the spray of each component with the port observed
for that component, for both commands, and names where the code misses it:

- a spray is laid around the port of the first component for every component, so
  it misses a port outside the radius of 200 of that one;
- no spray starts below port 1024;
- if u's reflexive port was lost when it was read (what `-g` makes of the
  overlapping reads), p is told a spray from the floor on;
- the upper end is not clamped, so a spray around a port above 65336 names ports
  that do not exist.

### UdpTurn

`idMap`, `turnMap` and `sockSession` (`sockSessionMap`; of `UDPSession` only
`hasAnswer`, as nothing reads the counter) are the relay's maps. `opened` and
`peerOf` are the sockets `acceptUdp` opens, `queue` what the kernel holds for
each, `waiter` the `waitAnswer` threads with their local copies, `stage` and
`opening` the place where `acceptUdp` is. `process` tells a running process from
one that called `exit(1)` or was corrupted by a data race. `inflight` and `out`
are the network's and the last step's datagrams.

`AcceptFirst`, `AcceptSecond` and `Refuse` are the three ways `acceptUdp` treats
a datagram of the listening socket; `OpenSocket` and `ConnectSocket` are the rest
of it, steps of their own because datagrams arrive and the new thread runs in
between. `HandleRead` is `handleRead` with a disjunct for each outcome;
`StartWaiter`, `TestAnswers`, `RemindFirst` and `RemindSecond` are `waitAnswer`.

Points where the model keeps what a reader may not expect:

- until its socket is connected, a client's datagrams go to the listening
  socket, where an "OK" is no id and is dropped, or to any socket that is bound
  and not connected, because `SO_REUSEPORT` shares the port;
- a client's "OK" after its first is data and is relayed;
- sockets are never closed and threads never joined: `exit(1)` follows when no
  descriptor is left, and no thread is made, silently, when none can be;
- the maps have no lock. `DataRace` is enabled whenever two threads are about to
  use one map and one of them would insert, and it ends the defined behaviour of
  the process; without it the two steps happen in either order. The flag
  `hasAnswer` alone, a byte, is read and written without such an effect. The
  functions that end without `return` are harmless in the build as
  `CMakeLists.txt` configures it (`-g`, no optimisation), as no caller uses
  their value.

A datagram is an id, "OK", data or empty. One that is neither "id:..." nor
"OK" is "data", and the sender's address is known from `recvfrom`. `accept OK`
is sent and nobody waits for it.

`Spec` lets any client send anything at any time. `ClientSpec` has clients that
bring one id at a time and send "OK" only in answer to "turn OK"; datagrams are
still lost, repeated and read late.

### TcpTurn

The three maps and the connection's name are the code's state; `addrToConn` is
never erased. A stream is what a client sends over a connection, a sequence of
symbols, and `OnMessage` reads any next piece of it, because
`retrieveAllAsString` returns whatever TCP has delivered. `BringFirst`,
`BringSecond`, `RelayData` and `DropData` are the four ways through
`onMessage`; `Accept` and `Close` are `onConnection`, whose `else` closes
nothing but the connection. `received` tells each connection's bytes by the
connection and position they came from, and `brought` is a history variable: the
ids an address brought.

Points where the model keeps what a reader may not expect:

- an id cut by TCP is a shorter id, and its rest is data; an id followed at once
  by data is a longer id;
- an address that connects again is "haslogin" and its first chunk is data for
  the pair it was in;
- an id that is the text "nologin" leaves its connection asked again, which the
  properties except (`AskedAgain`);
- a third address with an id takes the place of the second, whose route stays.

### Buffer and Framing

A buffer is the record of its array (bytes of a small radix, its size) and the
two indices. `BufferMembers` has its member functions, `Buffer` the calls a
caller may make: no more is retrieved than there is, as the assertions demand.
While a `BufferOutputStream` is open the buffer is only written to through it;
`window` is what `Next` handed out and the serializer may still give back.
`shrink`, with the `swap` it ends in, is one step. Bytes outside the two indices
stay in the array, so a step that showed them would change the content.

`Framing` writes frames with the same operators. A turn of the loop of
`onMessage` is a step: `Dispatch`, `Invalid` or `Incomplete`. A client may write
bytes that are no frame (`Garbage`). An invalid length is left in the buffer and
`shutdown` closes only the other direction, so bytes go on arriving and
`onMessage` goes on being called.

### BlockingQueues

`pc` is where a thread is in `put`, `take` or `size`; `owner` is the pthread
mutex, `holder` is `holder_`, and each is set in a step of its own, as in
`MutexLock`. `CondWait` enters the wait and releases the mutex at once;
`Signal` wakes some waiter, if there is one; `WakesAnyway` is a spurious wakeup.
`bounded` tells the two classes apart, and a full circular buffer drops its
oldest item silently, as `boost::circular_buffer` does.

### Singletons, AtomicInteger, WeakCallback, StringPiece, LogStream, RpcMessage

Small modules with one action for each member function, or for each of its
accesses to shared memory: `pthread_once` is entered, run and left; an atomic
access is a step apart from what is computed from it; `weak_ptr::lock` is one
access, and the destruction of the object comes a step after the last reference
is dropped. The atomic access wraps around; the addition after it overflows, and
is undefined, where it finds the highest value, so what such a call returns is
no ticket.

At its exit a thread passes over its keys, in any order (`ComesTo`), and a key
that is set has its destructor called. While that runs (`dying`), the thread may
use every kind of object, as the destructor of `T` is code of the program, in the
last pass too. `DestroyLocal` and `DestroyLocalInstance` end a destructor;
`PassesAgain` is the next of at most `MaxRounds` passes
(`PTHREAD_DESTRUCTOR_ITERATIONS`), begun if a key was set again. `DeletesKey` is
`~ThreadLocal` and `~Deleter`, after which pthreads calls no destructor for the
key. So two kinds of object are forgotten, and `ObjectsAccounted` names them: one
whose key was deleted, and one made in the last pass after it had come to its
key. A `ThreadLocal` is not used after it is destroyed, and that a deleted key may
be given out again by `pthread_key_create` is left out.
 In `StringPiece` the comparisons are operators, checked
for every two views of one memory. `LogStream` keeps only the cursor, and
`RpcMessage` the owner and the text of each string.

### NatTraverse

`getUniqueID` is one step; its two parts, the time and the counter, are texts
put side by side. The relay is taken by its promise, `Rendezvous`, which
`UdpTurn` implements; a restart empties it and the counter, and clients keep
their ids. Nothing is assumed of the clock: it may stand still, go on or be set
back (`Tick`), and a restart may take no time. So ids do repeat, and
`PairsAreTraverses` names when: a process reads the same time as an earlier one
at the same value of the counter, as after a restart within a second; or two
times have unequal numbers of digits, so that time and counter of one are the
text of the other (`time()` has ten digits from 2001 to 2286, so this takes a
clock set outside of these years).
Apart from these a relay pairs the two clients of one traverse.

## Runs

| Run | Specification | Question | Bounds |
|---|---|---|---|
| `plan` | `MCTraversePlan!Spec` | are both traverse commands right for every pair of NAT types, in either order of answers? | all nine types for u and eight for p, one or two components, four ports for u and three for p, another for each component: below and near the floor 1024, within and beyond the radius of 200 of each other, and near 65535; same or other NAT, netmask and subnet |
| `registry` | `Spec` | who holds a name, and why is it lost? | two connections, two names and "nologin", two logins each, the code's limit of 5 checks, counters that start at 0 or 3 |
| `sessions` | `Spec` | do the session tables stay consistent under any answers? | two connections, one login and one answer each, answers with unequal components, no NAT type, or a prediction; every check evicts |
| `orderly` | `OrderlySpec` | do orderly clients get right answers and no crash? | three connections, two names, two answers each, relay ids enough for every round; a limit of 0, so a check that evicts nobody happens only when nobody is registered |
| `collect` | `FairSpec` | is every vanished connection collected? | two connections, two logins each, no answers |
| `udp_any` | `UdpTurn!Spec` | do pairs, relayed data, sockets and threads stay consistent whatever clients send? | three addresses, two ids, three sockets, one thread, one datagram waiting besides an answer of each client |
| `udp_clients` | `ClientSpec` | are the routes the pairs, and is every client that answered routed? | three addresses, two ids, four sockets, two threads, two datagrams waiting besides the answers |
| `udp_handshake` | `FairSpec` | do both clients of a pair end up answered? | two addresses, one id, two datagrams waiting besides the answers |
| `tcp_turn` | `TcpTurn!Spec` | where do bytes go, however TCP cuts them and addresses come back? | four connections, three addresses, two streams: an id and two symbols of data, and the text "nologin" before an id |
| `streams` | `MCStreams!Spec` | is a buffer a queue of bytes, is each message sent dispatched once, as it was and in order, are views compared as their texts, does a log line stay in its buffer, do strings have one owner? | radix 2, `kCheapPrepend` 3, an array of 2 that grows to 6, integers of 1 and 2 bytes; headers of 3 bits, messages up to one longer than allowed, and two pieces of garbage; five bytes with two NULs; a log buffer of 20; three strings |
| `threads` | `MCThreads!Spec` | are the queues FIFO without lost wakeups, objects destroyed once and which are forgotten, tickets distinct, callbacks safe? | three producers, three consumers, one observer, capacity 2, five items; two threads, four objects, two passes over the keys; an integer of four values; three owners and three callers |
| `nat_traverse` | `NatTraverse!Spec` | does a relay pair just the clients of one traverse? | three clients, two traverses of up to two ids, three values of the clock in any order, of one and two binary digits, one restart |

Why the bounds suffice. Every table of the server is keyed by names and relates
at most two of them at a time, so two names and "nologin" give every pair,
including a client with itself. Two connections per name give every takeover; a
third lets a client return under a name while its old peer stays. Two logins
give the name a connection leaves behind, and two answers give the request for
ports followed by the prediction. `BeatLimit` is 5 where heart beats are the
question and small elsewhere. An orderly check changes counters only, which no
property of the `orderly` run reads; the theorems about them hold for every limit.

In the relay an id has two ends, so three addresses give a pair and the client
that comes too late, or that waits under a second id. Three sockets for up to
four registrations of two ids make the process exit; one thread for two pairs
leaves one without, and two threads work at once in `udp_clients`. One waiting
datagram is enough for a request that arrives between the pairing and the
connect, since the loop is at any stage when it arrives; two give an order on
one socket and across two.

In the TCP relay three addresses give a pair and who displaces it, and the fourth
connection lets any of them come back. The base of numbers, the widths and
`kCheapPrepend` matter only to each other: an array of 2 behind a prefix of 3
grows, and is moved to the front, within a few calls. A header of 3 bits has the
sign, lengths up to the limit of 2, and longer ones. Two waiters of each kind
besides the thread that runs are what a lost wakeup takes, and a capacity of 2
lets a queue be neither full nor empty. Two passes over two keys let a destructor
set a key before and after its pass has come to it, in a pass that is not the last
and in the last; four objects are the two kinds of a thread, each made anew, or
those of two threads. The times 1, 2 and 3 in binary have one and two digits and
one process makes three ids, so both ways in which two ids are one text occur; two
traverses are all that a pair can mix up.

The type invariants of `CentreServer`, `UdpTurn`, `TcpTurn`, `BlockingQueues` and
`NatTraverse` are theorems, so the runs do not repeat them.
`NameRegistry` is checked as the property `RegistrySpec` with
`holder <- nameToConn`. Deadlock checking is off where a crash, or the end of
the single round of the plan, stops the system.

Fairness of the control server: only `WF(CheckHeartBeat)`, in `FairSpec`. `runEvery(5, ...)` puts the
check on the loop's timer for as long as the process runs, whatever clients do.
No client action is fair.

Fairness of the UDP relay: weak for each handler of the loop, since `epoll` keeps
reporting a socket that has something to read and takes ready sockets in turn;
weak for each `waitAnswer` thread, which only sleeps 200 ms between its rounds;
strong for the arrival of a client's answer, which says that of the "turn OK"s
that are sent again and again not all are lost. A client that is gone is not
fair in this sense, and its thread then never ends. Nothing is assumed of what
else clients send, nor of `DataRace` and `exit(1)`, which the property excepts.

Fairness of a connection: weak for `Arrive`, since TCP delivers what was written
as long as the connection lives, and for `onMessage`, which the event loop calls
when bytes arrive and which runs to its end. Nothing is assumed of the sender.

## Proofs

`CentreServerProofs` proves, for every value of the constants (any finite set of
names, any connections, answers, limits):

- `TypeCorrect`: `Spec => []TypeOK`.
- `RegistryRefined`: `Spec => RegistrySpec`. Each step maps to `Claim`, to
  `Release`, or to a stutter; the type invariant is all that is needed.
- `ForgottenTogether`: `Spec => NoOneSidedForgetting`. Only `Close` removes a
  session, and an answer never stores the absence of one.
- `OrderlyInvariant`: `OrderlySpec => []OrderlyInv`, hence `RegistryAlwaysExact`,
  `SessionsAlwaysOwned` and `NeverCrashes`. `RegistryExact`, `SessionsOwned` and
  `NoCrash` are not inductive
  alone. That a first login renames nobody needs "no login, no name"; that an
  answer is not stored under "nologin" needs nothing registered under it; that a
  close erases nothing twice needs "no session with oneself"; and that no vector
  is overrun needs all sessions to have the agreed number of components.
  The argument against a null connection is then short: a peer whose session is
  found is registered, by `SessionsOwned`, and the client itself is, by
  `RegistryExact`.

- `RightClientsAlways`: `OrderlySpec => []RightClientsTold`. The commands of a
  step are derived from `OrderlyInv` before it: both ends of a pair that has
  answered are registered under the connection that answered.

- `LossAlwaysExplained`: `Spec => LossExplained`, from the invariant `BeatInv`: a
  connection has at most as many names as it sent logins, and its counter is at
  most that number times the checks since its last heart beat. A check adds one
  to the counter per name, hence the product. The history variable `silent`
  saturates above the limit, where one login is enough.

`TraversePlanProofs` proves `RoleSymmetryHolds` (`Spec => []RoleSymmetric` of
`MCTraversePlan`, for any constants) from lemmas that mirror each operator of
`TraversePlan`. The other three properties of the plan rest on `RoundInv`: all components of a client
are behind one NAT, both report as many components, and what is told is the plan
of the two sessions. `CandidatesOfPeer` and `WindowsAlwaysReach` are shown for what
u is told and carried over to p by the mirror lemmas. The second rests on
`SprayContainsObserved` and `SprayInRange`, which say for any port what a spray
laid around it covers and where it ends, and for p's command has the case of the
lost port besides. `RelayIdsAlwaysShared` counts the ids for any number of
components.

`UdpTurnProofs` proves, for any sets of ids and addresses and any limits,
`SafeInvariant`: `Spec => []SafeInv`. `TypeOK` alone is not inductive, since a
thread reminds the addresses it copied, which must be known to be two real ones:
that is `WaitersServePairs`, which needs that a complete pair has two ends
(`PairsOfTwo`) and is final (lemma `PairsStay`). `RelayedWithinPair` follows one
step after `RoutesWithinPairs`: a route is only made by a pairing, and as pairs
are final it stays one of a pair, even when an address that uses two ids has
it overwritten. From it come `TypeCorrect`, `RelaysInsidePairs`,
`WaitersAlwaysServe`, and `RendezvousRefined` by mapping each step.
`SocketsAlwaysAccounted` needs `SocketInv` besides: a registration makes the loop
open one socket, which is connected once, to the address the loop holds, so that
`opened` and the number of registrations grow together.

For clients that keep to the protocol it proves `ClientInvariant`: `ClientSpec => []ClientInv`, hence
`RoutesAlwaysPairs` and `AnsweredAlwaysRouted`. The key is `OneIdEach`: the ids a
client is registered under or has a request waiting for are at most one. Only a
client's own request adds to them (lemmas `WaitingStep`, `EndsStep`), so a
pairing never overwrites a route. Whoever is reminded is an end of a pair, so
whoever has an answer under way, or read, has a route.

`TcpTurnProofs` proves, for any connections, addresses and streams, the
invariant `IInv`. `DataStaysWithinId` is not inductive: it needs that a route
joins addresses which brought one id (`Routes`, from `Owners`), that the tables
agree on who has connected (`Agree`), and that of the connections of an address
at most one may still bring an id (`Bringers`), which is what "haslogin" is for.
From it come `TypeCorrect`, `RoutesFindConnections`, `OneIdForEachAddress`,
`DataWithinId` and `OneWayOnlyByDisplacement`. `StreamsFaithful` needs a second
invariant: the last byte a connection has of another is the last one read from
that one, or nothing of it will ever reach the connection again (`UpToDate`). An
address that comes back on a new connection, or whose route is given to a third
address, ends a piece of the stream there; why it never begins anew is that
an address brings one id only.

`ThreadProofs` proves, for any number of threads and any capacity,
`HolderAlwaysOwner`, `FifoRefined` and `NobodyEverStuck`. The invariant of
`QueueInvariant` says which threads can have
the mutex at which step (`MutexHeld`, `HolderInside`), that the front a consumer
read is still the front when it pops it (`FrontRead`), and that the queue stays
within its capacity and the items within the bound (`Room`), so that the
circular buffer never drops an item. For `NobodyEverStuck` it is strengthened
(`Awake`): while a consumer waits, there are at least as many threads awake that
will take an item or notify a consumer as there are items, and while a producer
waits, as many that will fill a free place or notify a producer as there are
free places. One notification for each item is enough because of this count,
also when a thread that was not notified takes the item first.

Of the other modules of threads it proves `AlwaysRunsOnLiveObject` (the use count
is the number of threads that have a reference, and of those that dropped theirs
only one can be on its way to the destructor), `ObjectsAlwaysAccounted` (each
object has one place it is held at, its key, the destructor called with it,
`t_value_` or `value_`, and `t_value_` is that of its key or its destructor unless
the key was deleted, so what a destructor deletes is held by nobody else; a thread
that is gone has a key set only if it made all its passes) and
`TicketsAlwaysDistinct` (the tickets of one epoch are the values the integer went
through, of which there are `2 * Size`, so that no two are equal as long as it is
not incremented more often).

`BufferProofs` proves the properties of the buffer and of the framing, for bytes of
any even radix, arrays and messages of any size. `Content` is a sequence; what each
member does to it is a lemma of its own (`append`, `retrieve`, `makeSpace` and so
on), and `AssertionsAlwaysHold`, `BufferRefinesQueue` and `IntegersAlwaysSurvive` follow
from these and `BufferInv`: the indices are in order, and what a serializer has in
hand comes after what there was when its stream was opened. That an integer
survives is shown by induction over its width: the bytes are its remainder modulo
a power of the radix, and the sign is told from half that power. Of the framing,
`NeverDispatchesAfterInvalid` comes from `FramingInv`, which conserves every byte
whatever the client writes. `StreamAlwaysConserved` also says that frames have one
reading: `SentInv` has what was written as the frames of what was sent, of which
those dispatched are the first, so what is at the front of the buffer is the
next one, or a beginning of it.

The library's induction theorems take a predicate as their parameter and cannot be
used; `BufferProofs` therefore proves induction for a set of numbers (`NatInd`),
from the theorem that the order of finite sets is well-founded.

`TextProofs` proves `CursorAlwaysInside` (the room left is never negative, so its cast to a
`size_t` does not change it), `StringsAlwaysOwnedOnce`, and `ComparisonsAlwaysAgree`:
from what `memcmp` returns, `compare` is the order of the texts, of which each
operator is a case, for any two views of any memory.

`NatTraverseProofs` proves `IdsTellTraverses` and `PairsOfTraverses` for any
clients, counters, clock and restarts. Two texts whose times have equally many
digits are equal only if their times and counters are (`TextUnique`). The rounds of one process
have additions of their own (`RoundsApart`), because the counter is beyond every one
that was used (`Counted`); so two rounds share an id only across a restart, with
the same time and addition, or by times of unequal lengths: that is `IdsDiffer`.
Whoever holds an id was in a round that has it (`HeldOfRounds`) and a pair is of two
clients that hold its id (`PairsHold`), which gives `PairsAreTraverses`.

The assumptions used are the `ASSUME`s of the modules; TLC evaluates them in every
run of the MC modules that extend these. The ones that say more than that
constants are distinct or of their type: in the plan, ports are at most 65535;
producers, consumers, owners
and callers are finitely many; the radix is even, so that half the codes are
negative; messages and `MaxLen` fit the header, which is no longer than the
prefix of the buffer; a log buffer is shorter than a `size_t` counts and longer
than a number; memory ends in a NUL; a number has one text.

Some hazards of the code are not excluded by any property because they happen:
a refused login that takes a name with it, a client that was evicted and is still
answered, a session of a client that left, a port lost when it was read, an id
made twice across a restart. Where a property meets one it names it as an
exception and excludes everything else; the `note` of each hazard in `PROJECT.json`
says which it is, and which properties are of orderly clients only.

Every invariant and action property of the runs, and each refinement, is a
theorem. Only model-checked are the three liveness properties, which are out of
the prover's reach: `GoneAreCollected`, `HandshakeCompletes` and `AllDispatched`.

## Plan

In this order:

1. done: `TraversePlan`, `CentreServer`, `NameRegistry` and the proofs above.
2. done: `UdpTurn`, with the data races of its maps, `Rendezvous` and the proofs
   above.
3. done: `TcpTurn` and its proofs; `Buffer`, `ByteQueue` and `Framing`;
   `NatTraverse`, the composition through the clients, and its proofs.
4. done: the classes of muduo whose code is in headers: the blocking queues with
   proofs, singletons, atomic integer, weak callback, string piece, log stream,
   and the fields of an RPC message.
5. done: theorems for all safety properties of all modules.
6. open: the parts of the liveness arguments that are about single steps (what a
   check, a reminder or a turn of the loop brings nearer), as theorems about the
   measures that decrease; rounds of a pair as a history variable, once a document
   says what the answers and predictions of an earlier round are worth.

## Not modelled

- the text of JSON messages and log lines; a message that does not parse or has
  an unknown command changes nothing;
- exceptions of the JSON library on values of a wrong type;
- code under `#if 0` and in comments, `sendUdpTurnCmd` and `sendTraverseCmd`
  (never called), and the fields of `Session` nothing reads;
- the sockets and the event loop of muduo, whose sources are not in the tree;
- `getInterface` and `client.py`;
- the HTTP, RPC channel, curl, resolver, inspector, thread pool, logging back
  end, file and time headers of muduo: the program does not use them, and but for
  getters and wrappers of one library call they declare code that is not in the
  tree;
- `Condition::waitForSeconds` and `notifyAll`, which the queues do not call;
  merging, swapping and serialising an RPC message, which are in `rpc.pb.cc`;
  the C++98 branch of `WeakCallback.h`.
