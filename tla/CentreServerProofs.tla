------------------------- MODULE CentreServerProofs -------------------------
(***************************************************************************)
(* Theorems about CentreServer, for every value of its constants: the type *)
(* invariant, the refinement of NameRegistry and why a registration is     *)
(* lost among any clients, and the safety of the tables among orderly ones.*)
(***************************************************************************)
EXTENDS CentreServer, FiniteSetTheorems, TLAPS

-----------------------------------------------------------------------------
(* What the operators return *)

\* A name registry entry is a connection or nobody, and a set of names is
\* finite, so the number of names of a connection is a number.
LEMMA NamesCounted ==
  ASSUME NEW S \in SUBSET User
  PROVE  Cardinality(S) \in Nat
<1>1. IsFiniteSet(User)
  BY NameAssumption, FS_Union, FS_Singleton DEF User
<1>2. IsFiniteSet(S)
  BY <1>1, FS_Subset
<1> QED
  BY <1>2, FS_CardinalityType

\* What a client reports is stored as a session, never as the absence of one.
LEMMA ReportedIsSession ==
  ASSUME TypeOK, NEW c \in Conn, NEW p \in User, NEW a \in Answers
  PROVE  Reported(c, p, a) \in Session /\ Reported(c, p, a) # NoSession
<1>1. a.nat \in NatType /\ a.comps \in Nat /\ a.len \in BOOLEAN
  BY AnswerAssumption DEF Answer
<1>2. session[connName[c]][p] \in Session \cup {NoSession}
  BY DEF TypeOK
<1>3. Reported(c, p, a).got \in BOOLEAN
  BY <1>1, <1>2 DEF Reported, Session
<1>4. Reported(c, p, a) \in Session
  BY <1>1, <1>3 DEF Reported, Session
<1> QED
  BY <1>4, SessionAssumption

\* Storing an answer leaves a table of sessions.
LEMMA StoredType ==
  ASSUME TypeOK, NEW c \in Conn, NEW p \in User, NEW a \in Answers
  PROVE  Stored(c, p, a) \in [User -> [User -> Session \cup {NoSession}]]
BY ReportedIsSession DEF Stored, TypeOK

\* Forgetting a name leaves a table of sessions.
LEMMA ForgottenType ==
  ASSUME TypeOK, NEW n \in User
  PROVE  Forgotten(n) \in [User -> [User -> Session \cup {NoSession}]]
BY DEF Forgotten, TypeOK

\* One answer consumes at least one relay id.
LEMMA IdsUsedType ==
  ASSUME NEW a \in Answers
  PROVE  IdsUsed(a.comps) \in Nat \ {0}
BY AnswerAssumption DEF IdsUsed, Answer

-----------------------------------------------------------------------------
(* Type correctness *)

\* What every branch of an answer keeps typed.
LEMMA StoreAnswerType ==
  ASSUME TypeOK, NEW c \in Conn, NEW p \in User, NEW a \in Answers,
         StoreAnswer(c, p, a)
  PROVE  /\ session' \in [User -> [User -> Session \cup {NoSession}]]
         /\ answers' \in [Conn -> Nat]
         /\ status' \in [Conn -> {"new", "up", "down"}]
         /\ connName' \in [Conn -> User]
         /\ beat' \in [Conn -> Int]
         /\ nameToConn' \in [User -> Conn \cup {NoConn}]
         /\ silent' \in [Conn -> 0 .. SilentCap]
         /\ logins' \in [Conn -> Nat]
BY StoredType DEF StoreAnswer, TypeOK, clients

LEMMA RespondDetectType ==
  ASSUME TypeOK, NEW c \in Conn, NEW p \in User, NEW a \in Answers,
         RespondDetect(c, p, a)
  PROVE  TypeOK'
<1>1. StoreAnswer(c, p, a)
  BY DEF RespondDetect, AwaitPeer, AskPort, SendTraverse, Overrun
<1>2. connName[c] \in User
  BY DEF TypeOK
<1>3. SUFFICES nextId' \in Nat /\ running' \in BOOLEAN /\ out' \in SUBSET Message
  BY <1>1, StoreAnswerType DEF TypeOK
<1>4. CASE AwaitPeer(c, p, a)
  BY <1>4 DEF AwaitPeer, TypeOK
<1>5. CASE AskPort(c, p, a)
  <2>1. PICK n \in AskedName(c, p, a) :
          LET other == IF n = p THEN connName[c] ELSE p
          IN  /\ running' = Registered(n)
              /\ out' = IF Registered(n)
                          THEN {[to |-> nameToConn[n], cmd |-> "getPort",
                                 peer |-> other]}
                          ELSE {}
    BY <1>5 DEF AskPort
  <2>2. n \in User
    BY <1>2 DEF AskedName
  <2>3. Registered(n) => nameToConn[n] \in Conn
    BY <2>2 DEF Registered, TypeOK
  <2>4. running' \in BOOLEAN
    BY <2>1 DEF Registered
  <2>5. out' \in SUBSET Message
    BY <1>2, <2>1, <2>3 DEF Message
  <2> QED
    BY <1>5, <2>4, <2>5 DEF AskPort, TypeOK
<1>6. CASE SendTraverse(c, p, a)
  <2>1. nextId' \in Nat
    BY <1>6, IdsUsedType DEF SendTraverse, TypeOK
  <2>2. Registered(p) => nameToConn[p] \in Conn
    BY DEF Registered, TypeOK
  <2>3. nextId \in Nat
    BY DEF TypeOK
  <2>4. out' \in SUBSET Message
    BY <1>2, <1>6, <2>2, <2>3 DEF SendTraverse, Message
  <2> QED
    BY <1>6, <2>1, <2>4 DEF SendTraverse, Registered
<1>7. CASE Overrun(c, p, a)
  BY <1>7 DEF Overrun, TypeOK
<1> QED
  BY <1>4, <1>5, <1>6, <1>7 DEF RespondDetect

LEMMA TypeStep ==
  TypeOK /\ [Next]_vars => TypeOK'
<1> SUFFICES ASSUME TypeOK, [Next]_vars PROVE TypeOK'
  OBVIOUS
<1>0. SilentCap \in Nat
  BY BoundAssumption
<1>1. ASSUME NEW c \in Conn, Accept(c) PROVE TypeOK'
  BY <1>1, BeatAssumption DEF Accept, TypeOK, history, User
<1>2. ASSUME NEW c \in Conn, Close(c) PROVE TypeOK'
  <2>1. connName[c] \in User
    BY DEF TypeOK
  <2>2. session' \in [User -> [User -> Session \cup {NoSession}]]
    BY <1>2, <2>1, ForgottenType DEF Close, TypeOK
  <2>3. nameToConn' \in [User -> Conn \cup {NoConn}]
    BY <1>2, <2>1 DEF Close, Deregistered, TypeOK
  <2>4. running' \in BOOLEAN
    BY <1>2 DEF Close, TypeOK
  <2> QED
    BY <1>2, <2>2, <2>3, <2>4 DEF Close, TypeOK, history
<1>3. ASSUME NEW c \in Conn, HeartBeat(c) PROVE TypeOK'
  BY <1>0, <1>3 DEF HeartBeat, TypeOK
<1>4. ASSUME NEW c \in Conn, List(c) PROVE TypeOK'
  <2>1. out' \in SUBSET Message
    BY <1>4 DEF List, Message
  <2> QED
    BY <1>4, <2>1 DEF List, TypeOK, clients, history
<1>5. ASSUME NEW c \in Conn, NEW n \in User, Login(c, n) PROVE TypeOK'
  <2>1. out' \in SUBSET Message
    BY <1>5 DEF Login, Message, Registered
  <2>2. nameToConn' \in [User -> Conn \cup {NoConn}]
    BY <1>5 DEF Login, TypeOK
  <2> QED
    BY <1>5, <2>1, <2>2 DEF Login, TypeOK
<1>6. ASSUME NEW c \in Conn, NEW p \in User, See(c, p) PROVE TypeOK'
  <2>1. connName[c] \in User
    BY DEF TypeOK
  <2>2. Registered(p) => nameToConn[p] \in Conn
    BY DEF Registered, TypeOK
  <2>3. out' \in SUBSET Message
    BY <1>6, <2>1, <2>2 DEF See, Message
  <2> QED
    BY <1>6, <2>3 DEF See, TypeOK, clients, history
<1>7. ASSUME NEW c \in Conn, NEW p \in User, NEW a \in Answers,
             RespondDetect(c, p, a)
      PROVE  TypeOK'
  BY <1>7, RespondDetectType
<1>8. CASE CheckHeartBeat
  <2>1. \A c \in Conn : Cardinality(NamesOf(c)) \in Nat
    BY NamesCounted DEF NamesOf
  <2>2. beat' \in [Conn -> Int]
    BY <1>8, <2>1 DEF CheckHeartBeat, TypeOK
  <2>3. silent' \in [Conn -> 0 .. SilentCap]
    BY <1>0, <1>8 DEF CheckHeartBeat, TypeOK
  <2>4. nameToConn' \in [User -> Conn \cup {NoConn}]
    BY <1>8 DEF CheckHeartBeat, TypeOK
  <2> QED
    BY <1>8, <2>2, <2>3, <2>4 DEF CheckHeartBeat, TypeOK
<1>9. CASE UNCHANGED vars
  BY <1>9 DEF vars, clients, history, TypeOK
<1> QED
  BY <1>1, <1>2, <1>3, <1>4, <1>5, <1>6, <1>7, <1>8, <1>9 DEF Next

\* Every variable of the server keeps its type under any clients.
THEOREM TypeCorrect ==
  Spec => []TypeOK
<1>1. Init => TypeOK
  BY BoundAssumption DEF Init, TypeOK, User
<1> QED
  BY <1>1, TypeStep, PTL DEF Spec

-----------------------------------------------------------------------------
(* Refinement of NameRegistry *)

\* Steps that leave nameToConnMap alone are stutters of the registry; a login
\* that succeeds claims a name; a close or a check of heart beats releases.
LEMMA RegistryStep ==
  TypeOK /\ [Next]_vars => [Registry!Next]_nameToConn
<1> SUFFICES ASSUME TypeOK, [Next]_vars, nameToConn' # nameToConn
             PROVE  Registry!Next
  OBVIOUS
<1>1. ASSUME NEW c \in Conn, Accept(c) \/ HeartBeat(c) \/ List(c) PROVE FALSE
  BY <1>1 DEF Accept, HeartBeat, List
<1>2. ASSUME NEW c \in Conn, Close(c) PROVE Registry!Next
  <2> DEFINE n == connName[c]
  <2>1. n \in User
    BY DEF TypeOK
  <2>2. nameToConn' = [nameToConn EXCEPT ![n] = NoConn]
    BY <1>2 DEF Close, Deregistered
  <2>3. Registry!Release({n})
    BY <2>1, <2>2 DEF Registry!Release, TypeOK
  <2> QED
    BY <2>1, <2>3 DEF Registry!Next
<1>3. ASSUME NEW c \in Conn, NEW n \in User, Login(c, n) PROVE Registry!Next
  <2>1. Registry!Claim(n, c)
    BY <1>3 DEF Login, Registered, Registry!Claim
  <2> QED
    BY <2>1 DEF Registry!Next
<1>4. ASSUME NEW c \in Conn, NEW p \in User, See(c, p) PROVE FALSE
  BY <1>4 DEF See
<1>5. ASSUME NEW c \in Conn, NEW p \in User, NEW a \in Answers,
             RespondDetect(c, p, a)
      PROVE  FALSE
  BY <1>5 DEF RespondDetect, AwaitPeer, AskPort, SendTraverse, Overrun,
              StoreAnswer
<1>6. CASE CheckHeartBeat
  <2>1. Evicted \in SUBSET User
    BY DEF Evicted
  <2>2. Registry!Release(Evicted)
    BY <1>6 DEF CheckHeartBeat, Registry!Release
  <2> QED
    BY <2>1, <2>2 DEF Registry!Next
<1>7. CASE UNCHANGED vars
  BY <1>7 DEF vars
<1> QED
  BY <1>1, <1>2, <1>3, <1>4, <1>5, <1>6, <1>7 DEF Next

\* Whatever clients do, a name passes from one connection to another only
\* through being free: the server implements NameRegistry.
THEOREM RegistryRefined ==
  Spec => RegistrySpec
<1>1. Init => Registry!Init
  BY DEF Init, Registry!Init
<1> QED
  BY <1>1, RegistryStep, TypeCorrect, PTL DEF Spec, RegistrySpec, Registry!Spec

-----------------------------------------------------------------------------
(* Both halves of a pair are forgotten together *)

\* Only the close of a connection removes a session.
LEMMA ForgettingStep ==
  ASSUME TypeOK, [Next]_vars, NEW u \in User, NEW p \in User,
         session[u][p] # NoSession, session'[u][p] = NoSession
  PROVE  session'[p][u] = NoSession
<1>1. ASSUME NEW c \in Conn, Close(c) PROVE session'[p][u] = NoSession
  <2>1. connName[c] \in User
    BY DEF TypeOK
  <2>2. session' = Forgotten(connName[c])
    BY <1>1 DEF Close
  <2> QED
    BY <2>1, <2>2 DEF Forgotten
<1>2. ASSUME NEW c \in Conn, NEW q \in User, NEW a \in Answers,
             RespondDetect(c, q, a)
      PROVE  FALSE
  <2>1. session' = Stored(c, q, a)
    BY <1>2 DEF RespondDetect, AwaitPeer, AskPort, SendTraverse, Overrun,
                StoreAnswer
  <2>2. connName[c] \in User
    BY DEF TypeOK
  <2> QED
    BY <2>1, <2>2, ReportedIsSession DEF Stored, TypeOK
<1>3. ASSUME session' = session PROVE FALSE
  BY <1>3
<1> QED
  BY <1>1, <1>2, <1>3
  DEF Next, Accept, HeartBeat, List, Login, See, CheckHeartBeat, vars

\* A client's answer about a peer never goes without the peer's answer about
\* the client going with it, whatever clients do.
THEOREM ForgottenTogether ==
  Spec => NoOneSidedForgetting
<1>1. TypeOK /\ [Next]_vars =>
        [\A u, p \in User :
           session[u][p] # NoSession /\ session'[u][p] = NoSession
             => session'[p][u] = NoSession]_vars
  BY ForgettingStep
<1> QED
  BY <1>1, TypeCorrect, PTL DEF Spec, NoOneSidedForgetting

-----------------------------------------------------------------------------
(* The tables among orderly clients *)

\* An orderly step is a step.
LEMMA OrderlyIsNext ==
  [OrderlyNext]_vars => [Next]_vars
BY DEF OrderlyNext, OrderlyLogin, OrderlyAnswer, OrderlyCheck, Next, User

\* A client that answers is registered, under its own connection; so is the
\* peer, if it has answered; and nothing is read past its end.
LEMMA BothRegistered ==
  ASSUME OrderlyInv, NEW c \in Conn, NEW p \in Name, NEW a \in Answers,
         Receives(c), connName[c] # NoLogin, p # connName[c], a.comps = Comps
  PROVE  /\ connName[c] \in Name
         /\ nameToConn[connName[c]] = c
         /\ PeerAnswered(c, p, a) =>
              /\ Registered(p)
              /\ session[p][connName[c]] # NoSession
              /\ Stored(c, p, a)[p][connName[c]] = session[p][connName[c]]
              /\ ~ReadsPastEnd(c, p, a)
<1> DEFINE u == connName[c]
<1>1. u \in Name /\ u \in User /\ p \in User
  BY DEF OrderlyInv, TypeOK, User
<1>2. nameToConn[u] = c
  BY <1>1 DEF OrderlyInv, RegistryExact, Receives
<1>3. Stored(c, p, a)[p][u] = session[p][u]
  BY <1>1 DEF Stored, OrderlyInv, TypeOK
<1>4. ASSUME PeerAnswered(c, p, a)
      PROVE  /\ Registered(p)
             /\ session[p][u] # NoSession
             /\ ~ReadsPastEnd(c, p, a)
  <2>1. session[p][u] # NoSession
    BY <1>3, <1>4 DEF PeerAnswered
  <2>2. Registered(p) /\ session[p][u].comps = Comps
    BY <1>1, <2>1 DEF OrderlyInv, SessionsOwned
  <2> QED
    BY <1>3, <2>1, <2>2, CompsAssumption DEF ReadsPastEnd
<1> QED
  BY <1>1, <1>2, <1>3, <1>4

\* An answer of an orderly client keeps the invariant.
LEMMA OrderlyAnswerKeeps ==
  ASSUME OrderlyInv, NEW c \in Conn, NEW p \in Name, NEW a \in Answers,
         OrderlyAnswer(c, p, a)
  PROVE  OrderlyInv'
<1> DEFINE u == connName[c]
<1>1. /\ StoreAnswer(c, p, a) /\ u # NoLogin /\ p # u /\ a.comps = Comps
      /\ RespondDetect(c, p, a)
  BY DEF OrderlyAnswer, RespondDetect, AwaitPeer, AskPort, SendTraverse, Overrun
<1>2. u \in User /\ p \in User /\ TypeOK
  BY DEF OrderlyInv, TypeOK, User
<1>3. TypeOK'
  BY <1>1, <1>2, RespondDetectType
<1>4. /\ Receives(c) /\ session' = Stored(c, p, a)
      /\ UNCHANGED <<status, connName, nameToConn, logins>>
  BY <1>1 DEF StoreAnswer, clients
<1>5. u \in Name /\ nameToConn[u] = c
  BY <1>1, <1>4, BothRegistered
<1>6. PeerAnswered(c, p, a) => Registered(p) /\ ~ReadsPastEnd(c, p, a)
  BY <1>1, <1>4, BothRegistered
<1>7. Registered(u)
  BY <1>5, ConnAssumption DEF Registered
<1>8. NoCrash'
  <2>1. CASE AwaitPeer(c, p, a)
    BY <2>1 DEF AwaitPeer, OrderlyInv, NoCrash
  <2>2. CASE AskPort(c, p, a)
    <3>1. PICK n \in AskedName(c, p, a) : running' = Registered(n)
      BY <2>2 DEF AskPort
    <3>2. n = u \/ n = p
      BY DEF AskedName
    <3> QED
      BY <1>6, <1>7, <2>2, <3>1, <3>2 DEF AskPort, NoCrash
  <2>3. CASE SendTraverse(c, p, a)
    BY <1>6, <2>3 DEF SendTraverse, NoCrash
  <2>4. CASE Overrun(c, p, a)
    BY <1>6, <2>4 DEF Overrun
  <2> QED
    BY <1>1, <2>1, <2>2, <2>3, <2>4 DEF RespondDetect
<1>9. RegistryExact' /\ (nameToConn[NoLogin] = NoConn)'
      /\ (\A d \in Conn : logins[d] = 0 => connName[d] = NoLogin)'
  BY <1>4 DEF OrderlyInv, RegistryExact
<1>10. \A v, q \in User :
         session'[v][q] = IF v = u /\ q = p THEN Reported(c, p, a)
                                            ELSE session[v][q]
  BY <1>2, <1>4 DEF Stored, TypeOK
<1>11. Reported(c, p, a).by = c /\ Reported(c, p, a).comps = Comps
  BY <1>1 DEF Reported
<1>12. SessionsOwned'
  BY <1>4, <1>5, <1>7, <1>10, <1>11 DEF OrderlyInv, SessionsOwned, Registered
<1>13. (\A v \in User : session[v][v] = NoSession)'
  BY <1>1, <1>10 DEF OrderlyInv
<1>14. (\A v, q \in User :
          session[v][q] # NoSession => session[v][q].comps = Comps)'
  BY <1>10, <1>11 DEF OrderlyInv
<1> QED
  BY <1>3, <1>8, <1>9, <1>12, <1>13, <1>14 DEF OrderlyInv

\* A disconnect keeps the invariant: the name erased is the connection's own.
LEMMA OrderlyCloseKeeps ==
  ASSUME OrderlyInv, NEW c \in Conn, Close(c), TypeOK'
  PROVE  OrderlyInv'
<1> DEFINE n == connName[c]
<1>1. n \in User /\ status[c] = "up" /\ TypeOK
  BY DEF OrderlyInv, TypeOK, Close
<1>2. UNCHANGED <<connName, logins>> /\ status' = [status EXCEPT ![c] = "down"]
  BY DEF Close, history
<1>3. CASE n = NoLogin
  <2>1. UNCHANGED <<nameToConn, session, running>>
    BY <1>3 DEF Close
  <2>2. RegistryExact'
    BY <1>1, <1>2, <1>3, <2>1, LoginAssumption
    DEF OrderlyInv, RegistryExact, TypeOK
  <2> QED
    BY <1>2, <2>1, <2>2 DEF OrderlyInv, NoCrash, SessionsOwned, Registered
<1>4. CASE n # NoLogin
  <2>1. n \in Name /\ nameToConn[n] = c
    BY <1>1, <1>4 DEF OrderlyInv, RegistryExact, User
  <2>2. /\ session' = Forgotten(n)
        /\ nameToConn' = [nameToConn EXCEPT ![n] = NoConn]
        /\ running'
    BY <1>1, <1>4 DEF Close, Deregistered, OrderlyInv, NoCrash
  <2>3. RegistryExact'
    BY <1>1, <1>2, <2>1, <2>2, ConnAssumption
    DEF OrderlyInv, RegistryExact, TypeOK, User
  <2>4. (nameToConn[NoLogin] = NoConn)'
    BY <1>1, <2>2 DEF OrderlyInv, TypeOK, User
  <2>5. \A u, p \in User :
          session'[u][p] # NoSession => u # n /\ session'[u][p] = session[u][p]
    BY <2>2 DEF Forgotten
  <2>6. \A u \in User : u # n => nameToConn'[u] = nameToConn[u]
    BY <1>1, <2>2 DEF TypeOK
  <2>7. SessionsOwned'
    BY <2>5, <2>6 DEF OrderlyInv, SessionsOwned, Registered
  <2>8. (\A u \in User : session[u][u] = NoSession)'
    BY <2>5 DEF OrderlyInv
  <2>9. (\A u, p \in User :
           session[u][p] # NoSession => session[u][p].comps = Comps)'
    BY <2>5 DEF OrderlyInv
  <2> QED
    BY <1>2, <2>2, <2>3, <2>4, <2>7, <2>8, <2>9 DEF OrderlyInv, NoCrash
<1> QED
  BY <1>3, <1>4

\* A first login, with a name that is free, keeps the invariant.
LEMMA OrderlyLoginKeeps ==
  ASSUME OrderlyInv, NEW c \in Conn, NEW n \in Name, OrderlyLogin(c, n), TypeOK'
  PROVE  OrderlyInv'
<1>1. /\ Login(c, n) /\ logins[c] = 0 /\ ~Registered(n) /\ n \in User /\ TypeOK
      /\ \A d \in Conn : status[d] = "up" => connName[d] # n
  BY DEF OrderlyLogin, Free, OrderlyInv, User
<1>2. /\ connName' = [connName EXCEPT ![c] = n]
      /\ nameToConn' = [nameToConn EXCEPT ![n] = c]
      /\ logins' = [logins EXCEPT ![c] = @ + 1]
      /\ UNCHANGED <<status, session, running>>
      /\ status[c] = "up" /\ connName[c] = NoLogin
  BY <1>1 DEF Login, Receives, OrderlyInv
<1>3. RegistryExact'
  BY <1>1, <1>2, ConnAssumption, LoginAssumption
  DEF OrderlyInv, RegistryExact, TypeOK, User
<1>4. (nameToConn[NoLogin] = NoConn)'
  BY <1>1, <1>2, LoginAssumption DEF OrderlyInv, TypeOK, User
<1>5. (\A d \in Conn : logins[d] = 0 => connName[d] = NoLogin)'
  BY <1>1, <1>2 DEF OrderlyInv, TypeOK
<1>6. SessionsOwned'
  BY <1>1, <1>2 DEF OrderlyInv, SessionsOwned, Registered, TypeOK
<1> QED
  BY <1>2, <1>3, <1>4, <1>5, <1>6 DEF OrderlyInv, NoCrash

LEMMA OrderlyStep ==
  OrderlyInv /\ [OrderlyNext]_vars => OrderlyInv'
<1> SUFFICES ASSUME OrderlyInv, [OrderlyNext]_vars PROVE OrderlyInv'
  OBVIOUS
<1>1. TypeOK'
  BY OrderlyIsNext, TypeStep DEF OrderlyInv
<1>2. ASSUME NEW c \in Conn, Accept(c) PROVE OrderlyInv'
  <2>1. UNCHANGED <<nameToConn, session, running, logins>>
    BY <1>2 DEF Accept, history
  <2>2. RegistryExact'
    BY <1>2, <2>1, LoginAssumption
    DEF Accept, OrderlyInv, RegistryExact, TypeOK
  <2>3. (\A d \in Conn : logins[d] = 0 => connName[d] = NoLogin)'
    BY <1>2, <2>1 DEF Accept, OrderlyInv, TypeOK
  <2> QED
    BY <1>1, <2>1, <2>2, <2>3 DEF OrderlyInv, NoCrash, SessionsOwned, Registered
<1>3. ASSUME NEW c \in Conn, Close(c) PROVE OrderlyInv'
  BY <1>1, <1>3, OrderlyCloseKeeps
<1>4. ASSUME NEW c \in Conn, NEW n \in Name, OrderlyLogin(c, n)
      PROVE  OrderlyInv'
  BY <1>1, <1>4, OrderlyLoginKeeps
<1>5. ASSUME NEW c \in Conn, NEW p \in Name, NEW a \in Answers,
             OrderlyAnswer(c, p, a)
      PROVE  OrderlyInv'
  BY <1>5, OrderlyAnswerKeeps
<1>6. ASSUME UNCHANGED <<status, connName, nameToConn, session, running, logins>>
      PROVE  OrderlyInv'
  BY <1>1, <1>6 DEF OrderlyInv, NoCrash, RegistryExact, SessionsOwned, Registered
<1>7. ASSUME NEW c \in Conn, NEW p \in Name, HeartBeat(c) \/ List(c) \/ See(c, p)
      PROVE  OrderlyInv'
  BY <1>6, <1>7 DEF HeartBeat, List, See, clients, history
<1>8. CASE OrderlyCheck
  <2>1. nameToConn' = nameToConn
    BY <1>8 DEF OrderlyCheck, CheckHeartBeat, OrderlyInv, TypeOK
  <2> QED
    BY <1>6, <1>8, <2>1 DEF OrderlyCheck, CheckHeartBeat
<1>9. CASE UNCHANGED vars
  BY <1>6, <1>9 DEF vars, clients, history
<1>10. ASSUME NEW c \in Conn, HeartBeat(c) \/ List(c) PROVE OrderlyInv'
  BY <1>6, <1>10 DEF HeartBeat, List, clients, history
<1> QED
  BY <1>2, <1>3, <1>4, <1>5, <1>7, <1>8, <1>9, <1>10 DEF OrderlyNext

\* The inductive invariant of the control server among orderly clients, who
\* still disconnect, come back and answer in any order.
THEOREM OrderlyInvariant ==
  OrderlySpec => []OrderlyInv
<1>1. Init => OrderlyInv
  BY BoundAssumption, ConnAssumption, LoginAssumption
  DEF Init, OrderlyInv, TypeOK, NoCrash, RegistryExact, SessionsOwned,
      Registered, User
<1> QED
  BY <1>1, OrderlyStep, PTL DEF OrderlySpec

\* Among orderly clients the table of names holds the connections that are up
\* and have logged in, each under its own name, after any interleaving of
\* logins, closes and heart beat checks.
THEOREM RegistryAlwaysExact == OrderlySpec => []RegistryExact
<1>1. OrderlyInv => RegistryExact
  BY DEF OrderlyInv
<1> QED
  BY <1>1, OrderlyInvariant, PTL

\* Among orderly clients every stored session was reported by the connection
\* now registered under its client's name: no answer outlives its connection.
THEOREM SessionsAlwaysOwned == OrderlySpec => []SessionsOwned
<1>1. OrderlyInv => SessionsOwned
  BY DEF OrderlyInv
<1> QED
  BY <1>1, OrderlyInvariant, PTL

\* Among orderly clients no null connection is sent to, and no element erased
\* or read that is not there.
THEOREM NeverCrashes == OrderlySpec => []NoCrash
<1>1. OrderlyInv => NoCrash
  BY DEF OrderlyInv
<1> QED
  BY <1>1, OrderlyInvariant, PTL

-----------------------------------------------------------------------------
(* Commands reach the clients they are about *)

\* The commands of an answer go to the two clients of the pair, both
\* registered, both with a session about the other.
LEMMA RightClientsStep ==
  ASSUME OrderlyInv, RightClientsTold, [OrderlyNext]_vars
  PROVE  RightClientsTold'
<1>1. ASSUME \A m \in out' : m.cmd \notin {"traverse", "getPort"}
      PROVE  RightClientsTold'
  BY <1>1 DEF RightClientsTold
<1>2. ASSUME NEW c \in Conn, NEW p \in Name, NEW a \in Answers,
             OrderlyAnswer(c, p, a)
      PROVE  RightClientsTold'
  <2> DEFINE u == connName[c]
             us == session'[u][p]
             ps == session'[p][u]
  <2>1. /\ StoreAnswer(c, p, a) /\ u # NoLogin /\ p # u /\ a.comps = Comps
        /\ RespondDetect(c, p, a) /\ TypeOK
    BY <1>2 DEF OrderlyAnswer, RespondDetect, AwaitPeer, AskPort, SendTraverse,
                Overrun, OrderlyInv
  <2>2. /\ Receives(c) /\ session' = Stored(c, p, a)
        /\ UNCHANGED <<status, connName, nameToConn>>
    BY <2>1 DEF StoreAnswer, clients
  <2>3. u \in Name /\ nameToConn[u] = c /\ p \in User /\ u \in User
    BY <2>1, <2>2, BothRegistered DEF User
  <2>4. us = Reported(c, p, a) /\ us # NoSession /\ us.by = c
    BY <2>1, <2>2, <2>3, ReportedIsSession DEF Stored, Reported, TypeOK
  <2>5. ASSUME PeerAnswered(c, p, a)
        PROVE  /\ Registered(p) /\ nameToConn[p] \in Conn
               /\ connName[nameToConn[p]] = p
               /\ ps # NoSession /\ ps.by = nameToConn[p]
    <3>1. Registered(p) /\ session[p][u] # NoSession /\ ps = session[p][u]
      BY <2>1, <2>2, <2>5, BothRegistered
    <3>2. nameToConn[p] \in Conn
      BY <2>1, <2>3, <3>1 DEF TypeOK, Registered
    <3>3. connName[nameToConn[p]] = p
      BY <3>2 DEF OrderlyInv, RegistryExact
    <3>4. ps.by = nameToConn[p]
      BY <2>3, <3>1 DEF OrderlyInv, SessionsOwned
    <3> QED
      BY <3>1, <3>2, <3>3, <3>4
  <2>6. CASE out' = {}
    BY <2>6 DEF RightClientsTold
  <2>7. CASE AskPort(c, p, a) /\ out' # {}
    <3>1. PICK n \in AskedName(c, p, a) :
            LET other == IF n = p THEN u ELSE p
            IN  out' = {[to |-> nameToConn[n], cmd |-> "getPort", peer |-> other]}
      BY <2>7 DEF AskPort
    <3>2. PeerAnswered(c, p, a)
      BY <2>7 DEF AskPort
    <3>3. CASE n = u
      <4>1. PortHolder(us, ps) = "u"
        BY <2>1, <2>2, <3>3 DEF AskedName
      <4>2. us.nat = "SymInc" /\ ~us.got
        BY <4>1 DEF PortHolder, Method
      <4>3. out' = {[to |-> c, cmd |-> "getPort", peer |-> p]}
        BY <2>1, <2>3, <3>1, <3>3
      <4> QED
        BY <2>2, <2>4, <4>2, <4>3 DEF RightClientsTold
    <3>4. CASE n = p
      <4>1. PortHolder(us, ps) = "p"
        BY <2>1, <2>2, <3>4 DEF AskedName
      <4>2. ps.nat = "SymInc" /\ ~ps.got
        BY <4>1 DEF PortHolder, Method
      <4>3. out' = {[to |-> nameToConn[p], cmd |-> "getPort", peer |-> u]}
        BY <3>1, <3>4
      <4> QED
        BY <2>2, <2>5, <3>2, <4>2, <4>3 DEF RightClientsTold
    <3> QED
      BY <3>3, <3>4 DEF AskedName
  <2>8. CASE SendTraverse(c, p, a)
    <3> DEFINE toU == [to |-> c, cmd |-> "traverse", peer |-> p, id |-> nextId]
               toP == [to |-> nameToConn[p], cmd |-> "traverse",
                       peer |-> u, id |-> nextId]
    <3>1. PeerAnswered(c, p, a)
      BY <2>8 DEF SendTraverse
    <3>2. out' = {toU, toP}
      BY <2>5, <2>8, <3>1 DEF SendTraverse
    <3>3. connName'[toU.to] = u /\ connName'[toP.to] = p
      BY <2>2, <2>5, <3>1
    <3> QED
      BY <2>4, <2>5, <3>1, <3>2, <3>3 DEF RightClientsTold
  <2> QED
    BY <2>1, <2>6, <2>7, <2>8 DEF RespondDetect, AwaitPeer, Overrun
<1>3. CASE \E c \in Conn : Accept(c) \/ Close(c) \/ HeartBeat(c) \/ List(c)
  BY <1>1, <1>3 DEF Accept, Close, HeartBeat, List
<1>4. CASE \E c \in Conn, n \in Name : OrderlyLogin(c, n) \/ See(c, n)
  BY <1>1, <1>4 DEF OrderlyLogin, Login, See
<1>5. CASE OrderlyCheck
  BY <1>1, <1>5 DEF OrderlyCheck, CheckHeartBeat
<1>6. CASE UNCHANGED vars
  BY <1>6 DEF vars, clients, RightClientsTold
<1> QED
  BY <1>2, <1>3, <1>4, <1>5, <1>6 DEF OrderlyNext

\* Among orderly clients every traverse and every request for ports goes to a
\* client that answered about that peer, and a traverse goes to both.
THEOREM RightClientsAlways ==
  OrderlySpec => []RightClientsTold
<1>1. Init => RightClientsTold
  BY DEF Init, RightClientsTold
<1> QED
  BY <1>1, RightClientsStep, OrderlyInvariant, PTL DEF OrderlySpec

-----------------------------------------------------------------------------
(* Why a client loses its registration: the counting argument behind
   LossExplained, for any number of connections, names and logins *)

\* Products of counters that grow by one.
LEMMA Products ==
  ASSUME NEW x \in Nat, NEW y \in Nat
  PROVE  /\ x * y \in Nat
         /\ (x + 1) * y = x * y + y
         /\ x * (y + 1) = x * y + x
         /\ y >= 1 => x * y >= x
<1>1. y >= 1 => x * y >= x
  <2> SUFFICES ASSUME y >= 1 PROVE x * y >= x
    OBVIOUS
  <2>1. y - 1 \in Nat /\ x * y = x * (y - 1) + x
    OBVIOUS
  <2>2. x * (y - 1) >= 0
    BY <2>1
  <2> QED
    BY <2>1, <2>2
<1> QED
  BY <1>1

\* Sets of names are finite, and a part of one has no more elements.
LEMMA PartCounted ==
  ASSUME NEW S \in SUBSET User, NEW R \in SUBSET S
  PROVE  /\ Cardinality(R) \in Nat /\ Cardinality(S) \in Nat
         /\ Cardinality(R) <= Cardinality(S)
<1>1. IsFiniteSet(User)
  BY NameAssumption, FS_Union, FS_Singleton DEF User
<1>2. IsFiniteSet(S)
  BY <1>1, FS_Subset
<1>3. R \in SUBSET User
  OBVIOUS
<1> QED
  BY <1>2, <1>3, FS_Subset, NamesCounted

-----------------------------------------------------------------------------
\* A connection has no more names than it sent logins, and its counter is at
\* most one per name and check since its last heart beat.
BeatBound(c) ==
  /\ Cardinality(NamesOf(c)) <= logins[c]
  /\ status[c] = "new" => silent[c] = SilentCap
  /\ silent[c] < SilentCap => beat[c] <= silent[c] * logins[c]

BeatInv == \A c \in Conn : BeatBound(c)

\* When names are only taken away, a connection has no more than before.
LEMMA NamesShrink ==
  ASSUME NEW c \in Conn,
         \A n \in User : nameToConn'[n] \in {nameToConn[n], NoConn}
  PROVE  Cardinality(NamesOf(c))' <= Cardinality(NamesOf(c))
<1>1. NamesOf(c)' \in SUBSET NamesOf(c)
  BY ConnAssumption DEF NamesOf
<1>2. NamesOf(c) \in SUBSET User
  BY DEF NamesOf
<1> QED
  BY <1>1, <1>2, PartCounted

\* A login adds at most the one name.
LEMMA NamesGrowByOne ==
  ASSUME TypeOK, NEW c \in Conn, NEW d \in Conn, NEW n \in User, Login(d, n)
  PROVE  /\ c # d => Cardinality(NamesOf(c))' <= Cardinality(NamesOf(c))
         /\ c = d => Cardinality(NamesOf(c))' <= Cardinality(NamesOf(c)) + 1
<1>1. NamesOf(c) \in SUBSET User /\ NamesOf(c) \cup {n} \in SUBSET User
  BY DEF NamesOf
<1>2. \A m \in User : nameToConn'[m] = nameToConn[m] \/ (m = n /\ nameToConn'[m] = d)
  BY DEF Login, TypeOK
<1>3. CASE c # d
  <2>1. NamesOf(c)' \in SUBSET NamesOf(c)
    BY <1>2, <1>3 DEF NamesOf
  <2> QED
    BY <1>1, <1>3, <2>1, PartCounted
<1>4. CASE c = d
  <2>1. NamesOf(c)' \in SUBSET (NamesOf(c) \cup {n})
    BY <1>2 DEF NamesOf
  <2>2. IsFiniteSet(User)
    BY NameAssumption, FS_Union, FS_Singleton DEF User
  <2>3. IsFiniteSet(NamesOf(c))
    BY <1>1, <2>2, FS_Subset
  <2>4. Cardinality(NamesOf(c) \cup {n}) <= Cardinality(NamesOf(c)) + 1
    <3>1. Cardinality(NamesOf(c) \cup {n}) =
            IF n \in NamesOf(c) THEN Cardinality(NamesOf(c))
                                ELSE Cardinality(NamesOf(c)) + 1
      BY <2>3, FS_AddElement
    <3>2. Cardinality(NamesOf(c)) \in Nat
      BY <1>1, NamesCounted
    <3> QED
      BY <3>1, <3>2
  <2> QED
    BY <1>1, <1>4, <2>1, <2>4, PartCounted
<1> QED
  BY <1>3, <1>4

\* Steps that add no name and touch no counter keep the bound.
LEMMA BoundUntouched ==
  ASSUME TypeOK, NEW c \in Conn, BeatBound(c),
         \A n \in User : nameToConn'[n] \in {nameToConn[n], NoConn},
         status'[c] = "new" => status[c] = "new",
         beat'[c] = beat[c], silent'[c] = silent[c], logins'[c] = logins[c]
  PROVE  BeatBound(c)'
<1>1. Cardinality(NamesOf(c))' <= Cardinality(NamesOf(c))
  BY NamesShrink
<1>2. /\ Cardinality(NamesOf(c)) \in Nat /\ Cardinality(NamesOf(c))' \in Nat
      /\ logins[c] \in Nat
  BY NamesCounted DEF NamesOf, TypeOK
<1> QED
  BY <1>1, <1>2 DEF BeatBound

\* A check adds one per name to the counter and one to the silence.
LEMMA CheckKeepsBound ==
  ASSUME TypeOK, NEW c \in Conn, BeatBound(c), CheckHeartBeat
  PROVE  BeatBound(c)'
<1>1. /\ silent[c] \in Nat /\ SilentCap \in Nat /\ silent[c] <= SilentCap
      /\ logins[c] \in Nat /\ beat[c] \in Int
  BY BoundAssumption DEF TypeOK
<1>2. /\ beat'[c] = beat[c] + Cardinality(NamesOf(c))
      /\ silent'[c] = IF silent[c] < SilentCap THEN silent[c] + 1 ELSE SilentCap
      /\ status'[c] = status[c] /\ logins'[c] = logins[c]
  BY DEF CheckHeartBeat
<1>3. Cardinality(NamesOf(c)) \in Nat /\ Cardinality(NamesOf(c))' \in Nat
  BY NamesCounted DEF NamesOf
<1>4. Cardinality(NamesOf(c))' <= Cardinality(NamesOf(c))
  BY NamesShrink DEF CheckHeartBeat
<1>5. ASSUME silent'[c] < SilentCap PROVE beat'[c] <= silent'[c] * logins'[c]
  <2>1. silent[c] < SilentCap /\ silent'[c] = silent[c] + 1
    BY <1>1, <1>2, <1>5
  <2>2. beat[c] <= silent[c] * logins[c]
    BY <2>1 DEF BeatBound
  <2>3. (silent[c] + 1) * logins[c] = silent[c] * logins[c] + logins[c]
    BY <1>1, Products
  <2>4. Cardinality(NamesOf(c)) <= logins[c]
    BY DEF BeatBound
  <2>5. silent[c] * logins[c] \in Nat
    BY <1>1, Products
  <2> QED
    BY <1>1, <1>2, <1>3, <2>1, <2>2, <2>3, <2>4, <2>5
<1> QED
  BY <1>1, <1>2, <1>3, <1>4, <1>5 DEF BeatBound

\* A login adds at most one name and exactly one login.
LEMMA LoginKeepsBound ==
  ASSUME TypeOK, NEW c \in Conn, BeatBound(c),
         NEW d \in Conn, NEW n \in User, Login(d, n)
  PROVE  BeatBound(c)'
<1>1. /\ silent[c] \in Nat /\ SilentCap \in Nat /\ logins[c] \in Nat
      /\ beat[c] \in Int
  BY BoundAssumption DEF TypeOK
<1>2. /\ beat' = beat /\ silent' = silent /\ status' = status
      /\ logins'[c] = IF c = d THEN logins[c] + 1 ELSE logins[c]
  BY DEF Login, TypeOK
<1>3. Cardinality(NamesOf(c)) \in Nat /\ Cardinality(NamesOf(c))' \in Nat
  BY NamesCounted DEF NamesOf
<1>4. /\ c # d => Cardinality(NamesOf(c))' <= Cardinality(NamesOf(c))
      /\ c = d => Cardinality(NamesOf(c))' <= Cardinality(NamesOf(c)) + 1
  BY NamesGrowByOne
<1>5. Cardinality(NamesOf(c))' <= logins'[c]
  BY <1>1, <1>2, <1>3, <1>4 DEF BeatBound
<1>6. silent[c] * logins[c] \in Nat /\ silent[c] * logins'[c] >= silent[c] * logins[c]
  <2>1. /\ silent[c] * logins[c] \in Nat
        /\ silent[c] * (logins[c] + 1) = silent[c] * logins[c] + silent[c]
    BY <1>1, Products
  <2>2. CASE c = d
    <3>1. silent[c] * logins'[c] = silent[c] * logins[c] + silent[c]
      BY <1>2, <2>1, <2>2
    <3> QED
      BY <1>1, <2>1, <3>1
  <2>3. CASE c # d
    BY <1>2, <2>1, <2>3
  <2> QED
    BY <2>2, <2>3
<1>7. silent'[c] < SilentCap => beat'[c] <= silent'[c] * logins'[c]
  <2>1. silent[c] * logins'[c] \in Nat
    BY <1>1, <1>2, Products
  <2> QED
    BY <1>1, <1>2, <1>6, <2>1 DEF BeatBound
<1> QED
  BY <1>2, <1>5, <1>7 DEF BeatBound

LEMMA BeatStep ==
  TypeOK /\ BeatInv /\ [Next]_vars => BeatInv'
<1> SUFFICES ASSUME TypeOK, BeatInv, [Next]_vars, NEW c \in Conn
             PROVE  BeatBound(c)'
  BY DEF BeatInv
<1>1. BeatBound(c)
  BY DEF BeatInv
<1>2. ASSUME NEW d \in Conn, Accept(d) PROVE BeatBound(c)'
  <2>1. CASE d = c
    <3>1. silent'[c] = SilentCap
      BY <1>1, <1>2, <2>1 DEF Accept, BeatBound, history
    <3>2. nameToConn' = nameToConn /\ logins' = logins
      BY <1>2 DEF Accept, history
    <3>3. NamesOf(c)' = NamesOf(c)
      BY <3>2 DEF NamesOf
    <3> QED
      BY <1>1, <3>1, <3>2, <3>3, BoundAssumption DEF BeatBound
  <2>2. CASE d # c
    BY <1>1, <1>2, <2>2, BoundUntouched DEF Accept, history, TypeOK
  <2> QED
    BY <2>1, <2>2
<1>3. ASSUME NEW d \in Conn, Close(d) PROVE BeatBound(c)'
  <2>1. status'[c] = "new" => status[c] = "new"
    BY <1>3 DEF Close, TypeOK
  <2>2. \A n \in User : nameToConn'[n] \in {nameToConn[n], NoConn}
    BY <1>3 DEF Close, Deregistered, TypeOK
  <2> QED
    BY <1>1, <1>3, <2>1, <2>2, BoundUntouched DEF Close, history
<1>4. ASSUME NEW d \in Conn, HeartBeat(d) PROVE BeatBound(c)'
  <2>1. CASE d = c
    <3>1. /\ beat'[c] = 0 /\ silent'[c] = 0 /\ logins' = logins
          /\ status'[c] = "up"
      BY <1>4, <2>1 DEF HeartBeat, Receives, TypeOK
    <3>2. NamesOf(c)' = NamesOf(c)
      BY <1>4 DEF HeartBeat, NamesOf
    <3>3. 0 * logins[c] = 0
      BY DEF TypeOK
    <3> QED
      BY <1>1, <3>1, <3>2, <3>3 DEF BeatBound
  <2>2. CASE d # c
    BY <1>1, <1>4, <2>2, BoundUntouched DEF HeartBeat, TypeOK
  <2> QED
    BY <2>1, <2>2
<1>5. ASSUME NEW d \in Conn, NEW n \in User, Login(d, n) PROVE BeatBound(c)'
  BY <1>1, <1>5, LoginKeepsBound
<1>6. CASE CheckHeartBeat
  BY <1>1, <1>6, CheckKeepsBound
<1>7. ASSUME UNCHANGED <<status, beat, nameToConn, silent, logins>>
      PROVE  BeatBound(c)'
  BY <1>1, <1>7, BoundUntouched
<1>8. ASSUME NEW d \in Conn, NEW p \in User, List(d) \/ See(d, p)
      PROVE  BeatBound(c)'
  BY <1>7, <1>8 DEF List, See, clients, history
<1>9. ASSUME NEW d \in Conn, List(d) PROVE BeatBound(c)'
  BY <1>7, <1>9 DEF List, clients, history
<1>10. ASSUME NEW d \in Conn, NEW p \in User, NEW a \in Answers,
              RespondDetect(d, p, a)
       PROVE  BeatBound(c)'
  BY <1>7, <1>10 DEF RespondDetect, AwaitPeer, AskPort, SendTraverse, Overrun,
                     StoreAnswer, clients
<1>11. CASE UNCHANGED vars
  BY <1>7, <1>11 DEF vars, clients, history
<1> QED
  BY <1>2, <1>3, <1>4, <1>5, <1>6, <1>8, <1>10, <1>11, <1>9 DEF Next

\* The counter of every connection is bounded by its silence and its logins.
THEOREM BeatBounded ==
  Spec => []BeatInv
<1>1. Init => BeatInv
  <2> SUFFICES ASSUME Init, NEW c \in Conn PROVE BeatBound(c)
    BY DEF BeatInv
  <2>1. NamesOf(c) = {}
    BY ConnAssumption DEF Init, NamesOf
  <2> QED
    BY <2>1, FS_EmptySet, BoundAssumption DEF Init, BeatBound
<1> QED
  BY <1>1, BeatStep, TypeCorrect, PTL DEF Spec

-----------------------------------------------------------------------------
\* Whoever is evicted has been silent for long enough.
LEMMA EvictedWereSilent ==
  ASSUME TypeOK, BeatInv, CheckHeartBeat, NEW n \in Evicted
  PROVE  silent'[nameToConn[n]] * logins[nameToConn[n]] > BeatLimit
<1> DEFINE c == nameToConn[n]
           below == {m \in NamesOf(c) : m <= n}
<1>1. n \in User /\ c \in Conn /\ BeatAt(n) > BeatLimit
  BY DEF Evicted, Registered, TypeOK
<1>2. /\ silent[c] \in Nat /\ SilentCap \in Nat /\ silent[c] <= SilentCap
      /\ logins[c] \in Nat /\ beat[c] \in Int /\ BeatLimit \in Nat
      /\ SilentCap > BeatLimit
  BY <1>1, BoundAssumption, BeatAssumption DEF TypeOK
<1>3. /\ Cardinality(NamesOf(c)) <= logins[c]
      /\ silent[c] < SilentCap => beat[c] <= silent[c] * logins[c]
  BY <1>1 DEF BeatInv, BeatBound
<1>4. NamesOf(c) \in SUBSET User /\ below \in SUBSET NamesOf(c)
      /\ {n} \in SUBSET NamesOf(c)
  BY <1>1 DEF NamesOf
<1>5. /\ Cardinality(below) <= Cardinality(NamesOf(c))
      /\ Cardinality(below) \in Nat /\ Cardinality(NamesOf(c)) \in Nat
      /\ Cardinality({n}) <= Cardinality(NamesOf(c))
  BY <1>4, PartCounted
<1>6. logins[c] >= 1
  <2>1. Cardinality({n}) = 1
    BY FS_Singleton
  <2> QED
    BY <1>2, <1>3, <1>5, <2>1
<1>7. BeatAt(n) = beat[c] + Cardinality(below)
  BY DEF BeatAt
<1>8. silent'[c] = IF silent[c] < SilentCap THEN silent[c] + 1 ELSE SilentCap
  BY <1>1 DEF CheckHeartBeat
<1>9. CASE silent[c] < SilentCap
  <2>1. (silent[c] + 1) * logins[c] = silent[c] * logins[c] + logins[c]
        /\ silent[c] * logins[c] \in Nat
    BY <1>2, Products
  <2>2. BeatAt(n) <= silent[c] * logins[c] + logins[c]
    BY <1>2, <1>3, <1>5, <1>7, <1>9, <2>1
  <2>3. silent'[c] * logins[c] = silent[c] * logins[c] + logins[c]
    BY <1>8, <1>9, <2>1
  <2> QED
    BY <1>1, <1>2, <1>5, <1>7, <2>1, <2>2, <2>3
<1>10. CASE ~(silent[c] < SilentCap)
  <2>1. SilentCap * logins[c] >= SilentCap /\ SilentCap * logins[c] \in Nat
    BY <1>2, <1>6, Products
  <2> QED
    BY <1>2, <1>8, <1>10, <2>1
<1> QED
  BY <1>9, <1>10

\* A registration goes only with a connection that carries its name, or with a
\* connection that was silent for more checks than the limit allows its names.
THEOREM LossAlwaysExplained ==
  Spec => LossExplained
<1> DEFINE Explained(n) ==
      Registered(n) /\ nameToConn'[n] = NoConn
        => \/ \E c \in Conn : /\ connName[c] = n
                              /\ status[c] = "up" /\ status'[c] = "down"
           \/ silent'[nameToConn[n]] * logins[nameToConn[n]] > BeatLimit
<1>1. TypeOK /\ BeatInv /\ [Next]_vars => [\A n \in User : Explained(n)]_vars
  <2> SUFFICES ASSUME TypeOK, BeatInv, [Next]_vars, NEW n \in User,
                      Registered(n), nameToConn'[n] = NoConn
               PROVE  \/ \E c \in Conn : /\ connName[c] = n
                                         /\ status[c] = "up"
                                         /\ status'[c] = "down"
                      \/ silent'[nameToConn[n]] * logins[nameToConn[n]]
                           > BeatLimit
    OBVIOUS
  <2>1. ASSUME NEW c \in Conn, Close(c)
        PROVE  connName[c] = n /\ status[c] = "up" /\ status'[c] = "down"
    BY <2>1 DEF Close, Deregistered, Registered, TypeOK
  <2>2. ASSUME NEW c \in Conn, NEW m \in User, Login(c, m) PROVE FALSE
    BY <2>2, ConnAssumption DEF Login, Registered, TypeOK
  <2>3. ASSUME CheckHeartBeat
        PROVE  silent'[nameToConn[n]] * logins[nameToConn[n]] > BeatLimit
    <3>1. n \in Evicted
      BY <2>3 DEF CheckHeartBeat, Registered
    <3> QED
      BY <2>3, <3>1, EvictedWereSilent
  <2>4. ASSUME nameToConn' = nameToConn PROVE FALSE
    BY <2>4 DEF Registered
  <2> QED
    BY <2>1, <2>2, <2>3, <2>4
    DEF Next, Accept, HeartBeat, List, See, RespondDetect, AwaitPeer, AskPort,
        SendTraverse, Overrun, StoreAnswer, vars
<1> QED
  BY <1>1, BeatBounded, TypeCorrect, PTL DEF Spec, LossExplained
=============================================================================
