---------------------------- MODULE CentreServer ----------------------------
(***************************************************************************)
(* The control server: login, heart beat, see, list and the "detect"       *)
(* answers of CentreServer::onMessage, the connection callback, and the    *)
(* check of the heart beats that a timer runs every five seconds.          *)
(*                                                                         *)
(* One event loop thread runs every handler, so a handler is one step.     *)
(* What may happen in any order is the handlers: clients connect, send any *)
(* command in any order, lose their connection, and fall silent.           *)
(*                                                                         *)
(* A message that does not parse, has no "cmd" or an unknown one changes   *)
(* nothing and is not an action.  Which candidates a traverse lists is in  *)
(* TraversePlan; here a session keeps only what decides the control.       *)
(***************************************************************************)
EXTENDS TraversePlan, FiniteSets

CONSTANTS
  Conn,          \* connections; a client that connects again uses another one
  NoConn,        \* no entry in nameToConnMap
  Name,          \* login names, as integers in the order std::map keeps them
  NoLogin,       \* the name "nologin" that onConnection gives a connection
  NoSession,     \* no entry in connMap
  Answers,       \* what a client may report about a peer
  Comps,         \* the number of components orderly clients report
  InitialBeats,  \* values TcpConnection may leave in heartBeatCnt
  BeatLimit,     \* a count above it evicts; 5 in the code
  SilentCap,     \* bound: where the history variable silent saturates
  MaxLogins,     \* bound: logins sent over one connection
  MaxAnswers,    \* bound: answers sent over one connection
  MaxIds         \* bound: relay ids handed out

User == Name \cup {NoLogin}

Answer == [nat : NatType, comps : Nat, len : BOOLEAN]

\* by is a history field: the connection whose answer the session keeps.
Session == [nat : NatType, comps : Nat, got : BOOLEAN, by : Conn]

ASSUME ConnAssumption    == NoConn \notin Conn
ASSUME NameAssumption    == IsFiniteSet(Name) /\ User \subseteq Int
ASSUME LoginAssumption   == NoLogin \notin Name
ASSUME SessionAssumption == NoSession \notin Session
ASSUME AnswerAssumption  == Answers \subseteq Answer
ASSUME CompsAssumption   == Comps \in Nat \ {0}
ASSUME BeatAssumption    == BeatLimit \in Nat /\ InitialBeats \subseteq Int
ASSUME BoundAssumption   ==
  /\ SilentCap \in Nat /\ SilentCap > BeatLimit
  /\ MaxLogins \in Nat /\ MaxAnswers \in Nat /\ MaxIds \in Nat

VARIABLES
  status,      \* a connection is "new", "up" or "down"
  connName,    \* TcpConnection::name_ as setName leaves it
  beat,        \* TcpConnection::heartBeatCnt
  nameToConn,  \* nameToConnMap
  session,     \* connMap: session[u][p] is what u answered about p
  nextId,      \* static_addition, the counter of getUniqueID
  running,     \* FALSE once the process has crashed
  out,         \* the commands sent by the last step
  silent,      \* history: checks since the last heart beat of a connection
  logins,      \* history: logins of a connection
  answers      \* history: answers of a connection

clients == <<status, connName, beat>>
history == <<silent, logins, answers>>
vars    == <<clients, nameToConn, session, nextId, running, out, history>>

\* The commands a step may send to a connection.
Message ==
  [to : Conn, cmd : {"login", "see"}, ok : BOOLEAN]
    \cup [to : Conn, cmd : {"list"}, users : SUBSET User]
    \cup [to : Conn, cmd : {"detect", "getPort"}, peer : User]
    \cup [to : Conn, cmd : {"traverse"}, peer : User, id : Nat]

TypeOK ==
  /\ status \in [Conn -> {"new", "up", "down"}]
  /\ connName \in [Conn -> User]
  /\ beat \in [Conn -> Int]
  /\ nameToConn \in [User -> Conn \cup {NoConn}]
  /\ session \in [User -> [User -> Session \cup {NoSession}]]
  /\ nextId \in Nat
  /\ running \in BOOLEAN
  /\ out \in SUBSET Message
  /\ silent \in [Conn -> 0 .. SilentCap]
  /\ logins \in [Conn -> Nat]
  /\ answers \in [Conn -> Nat]

Init ==
  /\ status = [c \in Conn |-> "new"]
  /\ connName = [c \in Conn |-> NoLogin]
  /\ beat = [c \in Conn |-> 0]
  /\ nameToConn = [n \in User |-> NoConn]
  /\ session = [u \in User |-> [p \in User |-> NoSession]]
  /\ nextId = 0
  /\ running = TRUE
  /\ out = {}
  /\ silent = [c \in Conn |-> SilentCap]
  /\ logins = [c \in Conn |-> 0]
  /\ answers = [c \in Conn |-> 0]

-----------------------------------------------------------------------------
(* Connections *)

\* The counter is left as the constructor left it: only a heart beat sets it.
Accept(c) ==
  /\ running
  /\ status[c] = "new"
  /\ status' = [status EXCEPT ![c] = "up"]
  /\ connName' = [connName EXCEPT ![c] = NoLogin]
  /\ \E b \in InitialBeats : beat' = [beat EXCEPT ![c] = b]
  /\ out' = {}
  /\ UNCHANGED <<nameToConn, session, nextId, running, history>>

\* The loop forgets only n's own half of each pair (mutation).
ForgottenHalf(n) == [session EXCEPT ![n] = [p \in User |-> NoSession]]

\* Only what others reported about n is forgotten (mutation).
ForgottenByOthers(n) ==
  [u \in User |-> [p \in User |->
     IF p = n /\ session[n][u] # NoSession THEN NoSession ELSE session[u][p]]]

\* The loop is left out (mutation).
ForgottenNothing(n) == session

\* What n reported, and what was reported about n by those n reported about.
Forgotten(n) ==
  [u \in User |-> [p \in User |->
     IF u = n \/ (p = n /\ session[n][u] # NoSession)
       THEN NoSession ELSE session[u][p]]]

\* The erase from nameToConnMap is left out (mutation).
StillRegistered(n) == nameToConn

Deregistered(n) == [nameToConn EXCEPT ![n] = NoConn]

(***************************************************************************)
(* The connection's name is erased from both tables, whoever holds it.     *)
(* The loop erases connMap[x][n] and then the iterator to connMap[n][x]:   *)
(* for x = n that is one element twice, which may end the process.         *)
(***************************************************************************)
Close(c) ==
  LET n == connName[c]
  IN  /\ running
      /\ status[c] = "up"
      /\ status' = [status EXCEPT ![c] = "down"]
      /\ IF n = NoLogin
           THEN UNCHANGED <<nameToConn, session, running>>
           ELSE /\ session' = Forgotten(n)
                /\ nameToConn' = Deregistered(n)
                /\ IF session[n][n] # NoSession
                     THEN running' \in BOOLEAN ELSE UNCHANGED running
      /\ out' = {}
      /\ UNCHANGED <<connName, beat, nextId, history>>

-----------------------------------------------------------------------------
(* Commands *)

Receives(c) == running /\ status[c] = "up"

Registered(n) == nameToConn[n] # NoConn

\* A second login takes the name over (mutation).
LoginOverwrites(c, n) ==
  /\ Receives(c)
  /\ logins[c] < MaxLogins
  /\ connName' = [connName EXCEPT ![c] = n]
  /\ nameToConn' = [nameToConn EXCEPT ![n] = c]
  /\ out' = {[to |-> c, cmd |-> "login", ok |-> TRUE]}
  /\ logins' = [logins EXCEPT ![c] = @ + 1]
  /\ UNCHANGED <<status, beat, session, nextId, running, silent, answers>>

\* The connection takes the name even when the login fails.
Login(c, n) ==
  /\ Receives(c)
  /\ logins[c] < MaxLogins
  /\ connName' = [connName EXCEPT ![c] = n]
  /\ nameToConn' = IF Registered(n) THEN nameToConn
                                    ELSE [nameToConn EXCEPT ![n] = c]
  /\ out' = {[to |-> c, cmd |-> "login", ok |-> ~Registered(n)]}
  /\ logins' = [logins EXCEPT ![c] = @ + 1]
  /\ UNCHANGED <<status, beat, session, nextId, running, silent, answers>>

HeartBeat(c) ==
  /\ Receives(c)
  /\ beat' = [beat EXCEPT ![c] = 0]
  /\ silent' = [silent EXCEPT ![c] = 0]
  /\ out' = {}
  /\ UNCHANGED <<status, connName, nameToConn, session, nextId, running,
                 logins, answers>>

\* Both ends are told to detect; nothing is stored, and no login is needed.
See(c, p) ==
  /\ Receives(c)
  /\ out' =
       IF Registered(p)
         THEN {[to |-> c, cmd |-> "see", ok |-> TRUE],
               [to |-> c, cmd |-> "detect", peer |-> p],
               [to |-> nameToConn[p], cmd |-> "detect", peer |-> connName[c]]}
         ELSE {[to |-> c, cmd |-> "see", ok |-> FALSE]}
  /\ UNCHANGED <<clients, nameToConn, session, nextId, running, history>>

List(c) ==
  /\ Receives(c)
  /\ out' = {[to |-> c, cmd |-> "list",
              users |-> {n \in User : Registered(n)}]}
  /\ UNCHANGED <<clients, nameToConn, session, nextId, running, history>>

-----------------------------------------------------------------------------
(* Answers to "detect" *)

\* gottenPort is set by an answer with a prediction and never reset.
Reported(c, p, a) ==
  LET old == session[connName[c]][p]
  IN  [nat   |-> a.nat,
       comps |-> a.comps,
       got   |-> \/ a.len /\ a.comps > 0
                 \/ old # NoSession /\ old.got,
       by    |-> c]

Stored(c, p, a) ==
  [session EXCEPT ![connName[c]][p] = Reported(c, p, a)]

\* The part every answer of c about p runs.
StoreAnswer(c, p, a) ==
  /\ Receives(c)
  /\ answers[c] < MaxAnswers
  /\ session' = Stored(c, p, a)
  /\ answers' = [answers EXCEPT ![c] = @ + 1]
  /\ UNCHANGED <<clients, nameToConn, silent, logins>>

\* p has answered about c's name (in the table c's answer is already in).
PeerAnswered(c, p, a) ==
  LET ps == Stored(c, p, a)[p][connName[c]]
  IN  ps # NoSession /\ ps.nat # Unset

\* The command goes to the side whose ports are known (mutation).
AskedNameSwapped(c, p, a) ==
  LET u == connName[c]
      holder == PortHolder(Stored(c, p, a)[u][p], Stored(c, p, a)[p][u])
  IN  {n \in {u, p} : \/ holder = "u" /\ n = p
                      \/ holder = "p" /\ n = u}

\* The name whose client must report its ports first, if there is one.
AskedName(c, p, a) ==
  LET u == connName[c]
      holder == PortHolder(Stored(c, p, a)[u][p], Stored(c, p, a)[p][u])
  IN  {n \in {u, p} : \/ holder = "u" /\ n = u
                      \/ holder = "p" /\ n = p}

\* Components are indexed by c's count, and component 0 is always read.
ReadsPastEnd(c, p, a) ==
  LET theirs == Stored(c, p, a)[p][connName[c]].comps
  IN  a.comps = 0 \/ theirs = 0 \/ a.comps > theirs

\* The first of the two answers.
AwaitPeer(c, p, a) ==
  /\ StoreAnswer(c, p, a)
  /\ ~PeerAnswered(c, p, a)
  /\ out' = {}
  /\ UNCHANGED <<nextId, running>>

(***************************************************************************)
(* The second answer, when one side must report its ports first.  The      *)
(* command goes to whoever is registered under the name; operator[] makes  *)
(* a null entry for a name that is not registered, and the process dies.   *)
(***************************************************************************)
AskPort(c, p, a) ==
  /\ StoreAnswer(c, p, a)
  /\ PeerAnswered(c, p, a)
  /\ \E n \in AskedName(c, p, a) :
       LET other == IF n = p THEN connName[c] ELSE p
       IN  /\ running' = Registered(n)
           /\ out' = IF Registered(n)
                       THEN {[to |-> nameToConn[n], cmd |-> "getPort",
                              peer |-> other]}
                       ELSE {}
  /\ UNCHANGED nextId

(***************************************************************************)
(* The second answer, when nothing is missing: c is told first, then the   *)
(* connection registered under p; without one the process dies in between. *)
(***************************************************************************)
SendTraverse(c, p, a) ==
  /\ StoreAnswer(c, p, a)
  /\ PeerAnswered(c, p, a)
  /\ AskedName(c, p, a) = {}
  /\ nextId + IdsUsed(a.comps) <= MaxIds
  /\ nextId' = nextId + IdsUsed(a.comps)
  /\ running' = Registered(p)
  /\ out' =
       {[to |-> c, cmd |-> "traverse", peer |-> p, id |-> nextId]}
         \cup (IF Registered(p)
                 THEN {[to |-> nameToConn[p], cmd |-> "traverse",
                        peer |-> connName[c], id |-> nextId]}
                 ELSE {})

\* The second answer, when reading past a vector's end ends the process.
Overrun(c, p, a) ==
  /\ StoreAnswer(c, p, a)
  /\ PeerAnswered(c, p, a)
  /\ ReadsPastEnd(c, p, a)
  /\ running' = FALSE
  /\ out' = {}
  /\ UNCHANGED nextId

RespondDetect(c, p, a) ==
  \/ AwaitPeer(c, p, a)
  \/ AskPort(c, p, a)
  \/ SendTraverse(c, p, a)
  \/ Overrun(c, p, a)

-----------------------------------------------------------------------------
(* The timer *)

\* The loop does not count for connections that are down (mutation).
NamesOfUp(c) == {n \in User : nameToConn[n] = c /\ status[c] = "up"}

NamesOf(c) == {n \in User : nameToConn[n] = c}

\* The loop increments a connection's counter once for each of its names.
BeatAt(n) ==
  LET c == nameToConn[n]
  IN  beat[c] + Cardinality({m \in NamesOf(c) : m <= n})

\* One check too early (mutation).
EvictedEarly == {n \in User : Registered(n) /\ BeatAt(n) >= BeatLimit}

Evicted == {n \in User : Registered(n) /\ BeatAt(n) > BeatLimit}

\* An evicted client keeps its name, its sessions and its connection.
CheckHeartBeat ==
  /\ running
  /\ nameToConn' = [n \in User |-> IF n \in Evicted THEN NoConn
                                                    ELSE nameToConn[n]]
  /\ beat' = [c \in Conn |-> beat[c] + Cardinality(NamesOf(c))]
  /\ silent' = [c \in Conn |-> IF silent[c] < SilentCap THEN silent[c] + 1
                                                        ELSE SilentCap]
  /\ out' = {}
  /\ UNCHANGED <<status, connName, session, nextId, running, logins, answers>>

-----------------------------------------------------------------------------
Next ==
  \/ \E c \in Conn : Accept(c) \/ Close(c) \/ HeartBeat(c) \/ List(c)
  \/ \E c \in Conn, n \in User : Login(c, n) \/ See(c, n)
  \/ \E c \in Conn, p \in User, a \in Answers : RespondDetect(c, p, a)
  \/ CheckHeartBeat

Spec == Init /\ [][Next]_vars

\* runEvery(5, checkHeartBeat): the loop runs the timer for ever.
FairSpec == Spec /\ WF_vars(CheckHeartBeat)

(***************************************************************************)
(* The server among clients that keep to the protocol of client.py: they   *)
(* log in once, with a name nobody uses, before they answer; they answer   *)
(* about others, all with the same components; and they send heart beats   *)
(* in time.  They still disconnect and answer at any moment.               *)
(***************************************************************************)
Free(n) ==
  /\ ~Registered(n)
  /\ \A d \in Conn : status[d] = "up" => connName[d] # n

OrderlyLogin(c, n) == logins[c] = 0 /\ Free(n) /\ Login(c, n)

OrderlyAnswer(c, p, a) ==
  /\ connName[c] # NoLogin
  /\ p # connName[c]
  /\ a.comps = Comps
  /\ RespondDetect(c, p, a)

OrderlyCheck == Evicted = {} /\ CheckHeartBeat

OrderlyNext ==
  \/ \E c \in Conn : Accept(c) \/ Close(c) \/ HeartBeat(c) \/ List(c)
  \/ \E c \in Conn, n \in Name : OrderlyLogin(c, n) \/ See(c, n)
  \/ \E c \in Conn, p \in Name, a \in Answers : OrderlyAnswer(c, p, a)
  \/ OrderlyCheck

OrderlySpec == Init /\ [][OrderlyNext]_vars

-----------------------------------------------------------------------------
(* Properties of the server among any clients *)

\* A name never passes from one connection to another in one step: a second
\* login is refused, and only a close or an eviction frees a name (onMessage
\* "login", onConnection, checkHeartBeat).
Registry == INSTANCE NameRegistry
  WITH Name <- User, holder <- nameToConn

RegistrySpec == Registry!Spec

\* When u's session about p is dropped, p's session about u is dropped with
\* it, so no later answer of u is joined with what p reported to the u that
\* left (the loop over connMap[name] in onConnection).
NoOneSidedForgetting ==
  [][\A u, p \in User :
       session[u][p] # NoSession /\ session'[u][p] = NoSession
         => session'[p][u] = NoSession]_vars

\* A registration that is lost is lost because a connection that carries the
\* name closed, or because its connection was silent for so many checks that,
\* with one count per name it logged in under, they exceed the limit: a client
\* that logged in once survives BeatLimit checks whatever it did before
\* (checkHeartBeat, the heartBeat command, the erase in onConnection).
LossExplained ==
  [][\A n \in User :
       Registered(n) /\ nameToConn'[n] = NoConn
         => \/ \E c \in Conn : /\ connName[c] = n
                               /\ status[c] = "up" /\ status'[c] = "down"
            \/ silent'[nameToConn[n]] * logins[nameToConn[n]] > BeatLimit]_vars

\* A connection that is gone does not keep a name for ever, even a name it
\* logged in under before its last one, which its close leaves registered
\* (checkHeartBeat is what collects it).
GoneAreCollected ==
  \A n \in User, c \in Conn :
    nameToConn[n] = c /\ status[c] = "down"
      ~> nameToConn[n] # c \/ ~running

-----------------------------------------------------------------------------
(* Properties of the server among orderly clients *)

\* The table of names says exactly who is online under which name: no stale
\* entry survives a disconnect, and nobody online is missing.
RegistryExact ==
  \A n \in Name, c \in Conn :
    nameToConn[n] = c <=> status[c] = "up" /\ connName[c] = n

\* Every session kept was reported by the connection now registered under its
\* name: an answer never outlives the connection that gave it.
SessionsOwned ==
  \A u, p \in User :
    session[u][p] # NoSession => /\ Registered(u)
                                 /\ session[u][p].by = nameToConn[u]

\* No null connection is ever sent to and no element erased or read that is
\* not there: the process survives every interleaving of the clients.
NoCrash == running

\* The inductive invariant behind them.  A client that has not logged in has no
\* name, and no session is about oneself or has other components than agreed:
\* so a login never renames a registered client, and no answer reads past an
\* end or is stored under "nologin".
OrderlyInv ==
  /\ TypeOK
  /\ NoCrash
  /\ RegistryExact
  /\ nameToConn[NoLogin] = NoConn
  /\ \A c \in Conn : logins[c] = 0 => connName[c] = NoLogin
  /\ SessionsOwned
  /\ \A u \in User : session[u][u] = NoSession
  /\ \A u, p \in User : session[u][p] # NoSession => session[u][p].comps = Comps

\* Whoever is told to traverse or to report ports has answered about that very
\* peer over that connection; a traverse reaches both ends with one relay id;
\* ports are asked only of a SymInc client that has not reported them.
RightClientsTold ==
  \A m \in out :
    m.cmd \in {"traverse", "getPort"} =>
      LET mine == session[connName[m.to]][m.peer]
      IN  /\ mine # NoSession
          /\ mine.by = m.to
          /\ m.cmd = "getPort" => mine.nat = "SymInc" /\ ~mine.got
          /\ m.cmd = "traverse" =>
               \E k \in out : /\ k.cmd = "traverse" /\ k.id = m.id
                              /\ connName[k.to] = m.peer
                              /\ k.peer = connName[m.to]
=============================================================================
