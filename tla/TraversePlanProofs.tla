------------------------- MODULE TraversePlanProofs -------------------------
(***************************************************************************)
(* The plan of a traverse, for any addresses, ports, counts of components  *)
(* and predictions: it does not depend on who answers last, and a window   *)
(* holds what the peer predicted or a spray that covers the port observed  *)
(* for the component, with the exceptions SprayReaches names.              *)
(***************************************************************************)
EXTENDS MCTraversePlan, SequenceTheorems, TLAPS

-----------------------------------------------------------------------------
(* The two directions of each branch *)

\* The method seen from the other side.
Mirrored(method) ==
  CASE method = "predict u" -> "predict p"
    [] method = "predict p" -> "predict u"
    [] method = "spray u"   -> "spray p"
    [] method = "spray p"   -> "spray u"
    [] OTHER                -> method

LEMMA MethodMirrored ==
  ASSUME NEW x, NEW y
  PROVE  Method(y, x) = Mirrored(Method(x, y))
BY DEF Method, Mirrored

\* The side that must report its ports first is the same client.
LEMMA HolderMirrored ==
  ASSUME NEW x, NEW y
  PROVE  PortHolder(x, y) = Other(PortHolder(y, x))
<1>1. Method(y, x) = Mirrored(Method(x, y))
  BY MethodMirrored
<1> QED
  BY <1>1 DEF PortHolder, Mirrored, Other

LEMMA HostWayMirrored ==
  ASSUME NEW x, NEW y
  PROVE  HostWay(x, y) <=> HostWay(y, x)
BY DEF HostWay

\* What x is told as the one who answers last is what it is told as the other.
LEMMA CommandMirrored ==
  ASSUME NEW x, NEW y, NEW n, Len(x.comps) = Len(y.comps)
  PROVE  ForU(x, y, n) = ForP(y, x, n, FALSE)
<1>1. Method(y, x) = Mirrored(Method(x, y))
  BY MethodMirrored
<1>2. ASSUME NEW i \in 1 .. Len(x.comps)
      PROVE  /\ HostPart(x, y, y, i) = HostPart(y, x, y, i)
             /\ GuessForU(x, y, i) = GuessForP(y, x, i, FALSE)
             /\ WindowForU(x, y, i) = WindowForP(y, x, i)
             /\ Hint(Method(x, y) = "spray u") = Hint(Method(y, x) = "spray p")
  <2>1. HostPart(x, y, y, i) = HostPart(y, x, y, i)
    BY HostWayMirrored DEF HostPart
  <2>2. GuessForU(x, y, i) = GuessForP(y, x, i, FALSE)
    BY <1>1 DEF GuessForU, GuessForP, Mirrored
  <2>3. WindowForU(x, y, i) = WindowForP(y, x, i)
    BY <1>1, <2>1 DEF WindowForU, WindowForP, Mirrored
  <2>4. Hint(Method(x, y) = "spray u") = Hint(Method(y, x) = "spray p")
    BY <1>1 DEF Hint, Mirrored
  <2> QED
    BY <2>1, <2>2, <2>3, <2>4
<1> QED
  BY <1>2 DEF ForU, ForP

-----------------------------------------------------------------------------
(* What the sessions of a round are *)

Address == [ip : Seq(Nat), port : Nat]

Report == [host : Address, reflex : Address, len : Nat, step : Nat]

\* All components of a client are behind one NAT.
Session ==
  {s \in [nat : NatType, got : BOOLEAN, mask : Nat, comps : Seq(Report)] :
     /\ Len(s.comps) >= 1
     /\ \A i \in 1 .. Len(s.comps) :
          s.comps[i].reflex.ip = s.comps[1].reflex.ip}

\* The inductive invariant of a round: both report as many components, and
\* what is told is the plan of the sessions as they are.
RoundInv ==
  /\ us \in Session /\ ps \in Session
  /\ Len(us.comps) = Len(ps.comps)
  /\ clobbered \in BOOLEAN
  /\ id \in Nat
  /\ told \subseteq {Plan(us, ps, id, clobbered)}

LEMMA SessionsAreSessions ==
  ASSUME NEW hostIPs \in SUBSET Seq(Nat), NEW reflexIPs \in SUBSET Seq(Nat),
         NEW ports \in SUBSET Nat,
         NEW masks \in SUBSET Nat, NEW nats \in SUBSET NatType
  PROVE  ClientSessions(hostIPs, reflexIPs, ports, masks, nats) \subseteq Session
<1> SUFFICES ASSUME NEW count \in 1 .. MaxComps,
                    NEW nat \in nats, NEW got \in BOOLEAN, NEW mask \in masks,
                    NEW hostIP \in hostIPs, NEW reflexIP \in reflexIPs,
                    NEW port \in Opened(count, ports)
             PROVE  [nat |-> nat, got |-> got, mask |-> mask,
                     comps |-> [i \in 1 .. count |->
                                  Component(hostIP, reflexIP, port[i], i)]] \in Session
  BY DEF ClientSessions
<1> DEFINE comps == [i \in 1 .. count |-> Component(hostIP, reflexIP, port[i], i)]
<1>1. count \in Nat /\ count >= 1
  BY CompsAssumption
<1>2. \A i \in 1 .. count : port[i] \in Nat
  BY DEF Opened
<1>3. ASSUME NEW i \in 1 .. count
      PROVE  /\ Component(hostIP, reflexIP, port[i], i) \in Report
             /\ Component(hostIP, reflexIP, port[i], i).reflex.ip = reflexIP
  <2>1. port[i] \in Nat /\ i \in Nat
    BY <1>1, <1>2
  <2>2. port[i] % 7 \in Nat /\ port[i] + i \in Nat
    BY <2>1
  <2>3. (port[i] % 7) + i \in Nat
    BY <2>1, <2>2
  <2> QED
    BY <2>1, <2>2, <2>3 DEF Component, Report, Address
<1>4. comps \in [1 .. count -> Report]
  BY <1>3
<1>5. \A i \in 1 .. count : comps[i].reflex.ip = reflexIP
  BY <1>3
<1> HIDE DEF comps
<1>6. comps \in Seq(Report) /\ Len(comps) = count
  BY <1>1, <1>4
<1>7. [nat |-> nat, got |-> got, mask |-> mask, comps |-> comps] \in Session
  <2>1. Len(comps) >= 1 /\ \A i \in 1 .. Len(comps) :
                            comps[i].reflex.ip = comps[1].reflex.ip
    BY <1>1, <1>5, <1>6
  <2>2. nat \in NatType /\ mask \in Nat
    OBVIOUS
  <2> DEFINE s == [nat |-> nat, got |-> got, mask |-> mask, comps |-> comps]
  <2>3. s \in [nat : NatType, got : BOOLEAN, mask : Nat, comps : Seq(Report)]
    BY <1>6, <2>2
  <2>4. s.comps = comps
    OBVIOUS
  <2> HIDE DEF s
  <2>5. s \in Session
    BY <2>1, <2>3, <2>4 DEF Session
  <2> QED
    BY <2>5 DEF s
<1> QED
  BY <1>7 DEF comps

LEMMA RoundStep ==
  RoundInv /\ [Next]_vars => RoundInv'
<1> SUFFICES ASSUME RoundInv, [Next]_vars PROVE RoundInv'
  OBVIOUS
<1>1. CASE Tell
  BY <1>1 DEF Tell, RoundInv
<1>2. CASE Ask
  <2>1. us' = [us EXCEPT !.got = us.got \/ PortHolder(us, ps) = "u"]
    BY <1>2 DEF Ask
  <2>2. ps' = [ps EXCEPT !.got = ps.got \/ PortHolder(us, ps) = "p"]
    BY <1>2 DEF Ask
  <2>3. us' \in Session /\ us'.comps = us.comps
    BY <2>1 DEF RoundInv, Session
  <2>4. ps' \in Session /\ ps'.comps = ps.comps
    BY <2>2 DEF RoundInv, Session
  <2> QED
    BY <1>2, <2>3, <2>4 DEF Ask, RoundInv
<1>3. CASE UNCHANGED vars
  BY <1>3 DEF vars, RoundInv
<1> QED
  BY <1>1, <1>2, <1>3 DEF Next

\* The inductive invariant of a round: what has been told is the plan of the
\* two sessions, for any addresses, ports and ids.
THEOREM RoundInvariant ==
  Spec => []RoundInv
<1>1. Init => RoundInv
  <2>1. /\ {<<1, 1>>} \in SUBSET Seq(Nat) /\ {<<7, 1>>} \in SUBSET Seq(Nat)
        /\ {<<1, 2>>, <<2, 2>>} \in SUBSET Seq(Nat)
        /\ {<<7, 1>>, <<8, 1>>} \in SUBSET Seq(Nat)
    OBVIOUS
  <2>2. UPorts \in SUBSET Nat /\ PPorts \in SUBSET Nat
    BY PortAssumption
  <2>3. /\ {1} \in SUBSET Nat /\ {0, 1} \in SUBSET Nat
        /\ NatType \in SUBSET NatType /\ NatType \ {Unset} \in SUBSET NatType
    OBVIOUS
  <2>4. ClientSessions({<<1, 1>>}, {<<7, 1>>}, UPorts, {1}, NatType) \subseteq Session
    BY <2>1, <2>2, <2>3, SessionsAreSessions
  <2>5. ClientSessions({<<1, 2>>, <<2, 2>>}, {<<7, 1>>, <<8, 1>>}, PPorts, {0, 1},
                       NatType \ {Unset}) \subseteq Session
    BY <2>1, <2>2, <2>3, SessionsAreSessions
  <2> QED
    BY <2>4, <2>5, IdAssumption DEF Init, USessions, PSessions, RoundInv
<1> QED
  BY <1>1, RoundStep, PTL DEF Spec

\* Whoever answers last, both clients are told the same.
THEOREM RoleSymmetryHolds ==
  Spec => []RoleSymmetric
<1>1. RoundInv => RoleSymmetric
  <2> SUFFICES ASSUME RoundInv PROVE RoleSymmetric
    OBVIOUS
  <2>1. PortHolder(us, ps) = Other(PortHolder(ps, us))
    BY HolderMirrored
  <2>2. ForU(us, ps, id) = ForP(ps, us, id, FALSE)
    BY CommandMirrored DEF RoundInv
  <2>3. ForP(us, ps, id, FALSE) = ForU(ps, us, id)
    BY CommandMirrored DEF RoundInv
  <2> QED
    BY <2>1, <2>2, <2>3 DEF RoleSymmetric
<1> QED
  BY <1>1, RoundInvariant, PTL

-----------------------------------------------------------------------------
\* A spray laid around any port covers every port from the floor of the sprays
\* on that is within the radius of it (the window of onMessage).
THEOREM SprayContainsObserved ==
  ASSUME NEW first \in Nat, NEW own \in Nat,
         own >= LowestPort, first - SprayRadius <= own, own < first + SprayRadius
  PROVE  /\ SprayBase(first) <= own
         /\ own < SprayBase(first) + SprayLen
BY DEF SprayBase, SprayLen, SprayRadius, LowestPort

\* It starts at the floor or above it, and ends within the range of ports unless
\* it is laid around a port near its top: the upper end is not clamped.
THEOREM SprayInRange ==
  ASSUME NEW first \in Nat
  PROVE  /\ SprayBase(first) >= LowestPort
         /\ \/ SprayBase(first) + SprayLen - 1 <= HighestPort
            \/ first + SprayRadius - 1 > HighestPort
BY DEF SprayBase, SprayLen, SprayRadius, LowestPort, HighestPort

-----------------------------------------------------------------------------
(* What a command tells *)

Optional(list, element) == list \in {<<>>, <<element>>}

Checklist(host, guess) == host \o guess \o <<Relay>>

\* A checklist is the host candidate, if any, the guess, if any, and the relay.
LEMMA Lists ==
  ASSUME NEW h, NEW g, NEW host, NEW guess,
         Optional(host, h), Optional(guess, g)
  PROVE  LET list == Checklist(host, guess)
         IN  /\ list[Len(list)] = Relay
             /\ Len(guess) = 1 => list[Len(host) + 1] = g
             /\ \A k \in 1 .. Len(list) - 1 : list[k] \in {h, g}
<1> DEFINE r    == Relay
<1>0. host \in {<<>>, <<h>>} /\ guess \in {<<>>, <<g>>}
  BY DEF Optional
<1> HIDE DEF r
<1> DEFINE S    == {h, g, r}
           init == host \o guess
           list == init \o <<r>>
<1>1. host \in Seq(S) /\ guess \in Seq(S) /\ <<r>> \in Seq(S)
  <2>1. <<>> \in Seq(S) /\ <<h>> \in Seq(S) /\ <<g>> \in Seq(S) /\ <<r>> \in Seq(S)
    OBVIOUS
  <2> HIDE DEF S
  <2> QED
    BY <1>0, <2>1
<1>a. Len(host) \in {0, 1} /\ \A k \in 1 .. Len(host) : host = <<h>> /\ host[k] = h
  <2>1. CASE host = <<>>
    BY <2>1
  <2>2. CASE host = <<h>>
    BY <2>2
  <2> QED
    BY <1>0, <2>1, <2>2
<1>b. Len(guess) \in {0, 1} /\ \A k \in 1 .. Len(guess) : guess = <<g>> /\ guess[k] = g
  <2>1. CASE guess = <<>>
    BY <2>1
  <2>2. CASE guess = <<g>>
    BY <2>2
  <2> QED
    BY <1>0, <2>1, <2>2
<1>c. Len(<<r>>) = 1 /\ <<r>>[1] = r
  OBVIOUS
<1>2. /\ Len(host) \in {0, 1} /\ \A k \in 1 .. Len(host) : host = <<h>> /\ host[k] = h
      /\ Len(guess) \in {0, 1} /\ \A k \in 1 .. Len(guess) : guess = <<g>> /\ guess[k] = g
      /\ Len(<<r>>) = 1 /\ <<r>>[1] = r
  BY <1>a, <1>b, <1>c, Zenon
<1> HIDE DEF S
<1>3. /\ init \in Seq(S) /\ Len(init) = Len(host) + Len(guess)
      /\ \A k \in 1 .. Len(init) :
           init[k] = IF k <= Len(host) THEN host[k] ELSE guess[k - Len(host)]
  BY <1>1, ConcatProperties
<1> HIDE DEF init
<1>4. /\ Len(list) = Len(init) + 1
      /\ \A k \in 1 .. Len(init) + 1 :
           list[k] = IF k <= Len(init) THEN init[k] ELSE <<r>>[k - Len(init)]
  BY <1>1, <1>2, <1>3, ConcatProperties
<1>5. Len(init) \in Nat /\ Len(host) \in Nat
  BY <1>2, <1>3
<1> HIDE DEF list
<1>6. list[Len(list)] = r
  BY <1>2, <1>4, <1>5
<1>7. Len(guess) = 1 => list[Len(host) + 1] = g
  BY <1>2, <1>3, <1>4, <1>5
<1>8. ASSUME NEW k \in 1 .. Len(list) - 1
      PROVE  list[k] \in {h, g}
  <2>1. k \in 1 .. Len(init) /\ list[k] = init[k]
    BY <1>4, <1>5
  <2>2. CASE k <= Len(host)
    BY <1>2, <1>3, <1>5, <2>1, <2>2
  <2>3. CASE k > Len(host)
    <3>1. k - Len(host) \in 1 .. Len(guess) /\ init[k] = guess[k - Len(host)]
      BY <1>2, <1>3, <1>5, <2>1, <2>3
    <3> QED
      BY <1>2, <2>1, <3>1
  <2> QED
    BY <1>5, <2>2, <2>3
<1> QED
  BY <1>6, <1>7, <1>8 DEF list, init, r, Checklist

\* The candidate p is told for component i of u, if any.
Guess(x, y, i, c) ==
  IF Method(x, y) = "spray u" THEN Sprayed(x, c) ELSE x.comps[i].reflex

\* The host and the guess a list holds, and the window around the guess, when
\* the component of the peer predicts len ports at this step, by this method.
Parts(host, guess, window, h, g, len, step, method) ==
  /\ host \in {<<>>, <<h>>}
  /\ guess \in {<<>>, <<g>>}
  /\ \/ /\ window = NoWindow
        /\ method # "spray u"
     \/ /\ method = "predict u"
        /\ guess = <<g>>
        /\ window.len = len /\ window.step = step
        /\ window.index = Len(host)
     \/ /\ method = "spray u"
        /\ guess = <<g>>
        /\ window.len = SprayLen /\ window.step = 1
        /\ window.index = Len(host)

\* The parts of what p is told about component i of u.
LEMMA PartsForP ==
  ASSUME NEW x, NEW y, NEW i, NEW c
  PROVE  Parts(HostPart(x, y, x, i), GuessForP(x, y, i, c), WindowForP(x, y, i),
               x.comps[i].host, Guess(x, y, i, c), x.comps[i].len, x.comps[i].step,
               Method(x, y))
<1> DEFINE host   == HostPart(x, y, x, i)
           guess  == GuessForP(x, y, i, c)
           window == WindowForP(x, y, i)
           h      == x.comps[i].host
           g      == Guess(x, y, i, c)
           len    == x.comps[i].len
           step   == x.comps[i].step
           method == Method(x, y)
<1>0. SUFFICES /\ host \in {<<>>, <<h>>}
               /\ guess \in {<<>>, <<g>>}
               /\ \/ /\ window = NoWindow
                     /\ method # "spray u"
                  \/ /\ method = "predict u"
                     /\ guess = <<g>>
                     /\ window.len = len /\ window.step = step
                     /\ window.index = Len(host)
                  \/ /\ method = "spray u"
                     /\ guess = <<g>>
                     /\ window.len = SprayLen /\ window.step = 1
                     /\ window.index = Len(host)
  <2> HIDE DEF host, guess, window, h, g, len, step, method
  <2>1. Parts(host, guess, window, h, g, len, step, method)
    BY DEF Parts
  <2> QED
    BY <2>1 DEF host, guess, window, h, g, len, step, method
<1>1. HostPart(x, y, x, i) \in {<<>>, <<x.comps[i].host>>}
  BY DEF HostPart
<1>2. CASE Method(x, y) = "predict u"
  <2>1. GuessForP(x, y, i, c) = <<Guess(x, y, i, c)>>
    BY <1>2 DEF GuessForP, Guess
  <2>2. WindowForP(x, y, i) = [len |-> x.comps[i].len, step |-> x.comps[i].step,
                               index |-> Len(HostPart(x, y, x, i))]
    BY <1>2 DEF WindowForP
  <2>3. /\ WindowForP(x, y, i).len = x.comps[i].len
        /\ WindowForP(x, y, i).step = x.comps[i].step
        /\ WindowForP(x, y, i).index = Len(HostPart(x, y, x, i))
    BY <2>2
  <2> QED
    BY <1>1, <1>2, <2>1, <2>3, Zenon
<1>3. CASE Method(x, y) = "spray u"
  <2>1. GuessForP(x, y, i, c) = <<Guess(x, y, i, c)>>
    BY <1>3 DEF GuessForP, Guess
  <2>2. WindowForP(x, y, i) = [len |-> SprayLen, step |-> 1,
                               index |-> Len(HostPart(x, y, x, i))]
    BY <1>3 DEF WindowForP
  <2>3. /\ WindowForP(x, y, i).len = SprayLen
        /\ WindowForP(x, y, i).step = 1
        /\ WindowForP(x, y, i).index = Len(HostPart(x, y, x, i))
    BY <2>2
  <2> QED
    BY <1>1, <1>3, <2>1, <2>3, Zenon
<1>4. CASE Method(x, y) \notin {"predict u", "spray u"}
  <2>1. GuessForP(x, y, i, c) \in {<<>>, <<Guess(x, y, i, c)>>}
    BY <1>4 DEF GuessForP, Guess
  <2>2. WindowForP(x, y, i) = NoWindow
    BY <1>4 DEF WindowForP
  <2> QED
    BY <1>1, <1>4, <2>1, <2>2
<1> QED
  BY <1>2, <1>3, <1>4

\* The spray at u reaches each of its components, but for the exceptions.
LEMMA SprayedReaches ==
  ASSUME NEW x \in Session, NEW i \in 1 .. Len(x.comps), NEW c \in BOOLEAN,
         NEW window, window.len = SprayLen
  PROVE  SprayReaches(Sprayed(x, c), window, x, i, c)
<1> DEFINE first == x.comps[1].reflex.port
           own   == x.comps[i].reflex.port
           read  == IF c THEN 0 ELSE first
           base  == SprayBase(read)
<1>1. x.comps[1] \in Report /\ x.comps[i] \in Report
  BY DEF Session
<1>2. first \in Nat /\ own \in Nat
  BY <1>1 DEF Report, Address
<1>3. Sprayed(x, c).port = base
  BY DEF Sprayed
<1> HIDE DEF first, own
<1>4. \/ base <= own /\ own < base + SprayLen
      \/ own < LowestPort
      \/ own < first - SprayRadius \/ own >= first + SprayRadius
      \/ c /\ base = LowestPort
  <2>1. CASE c
    BY <2>1 DEF SprayBase, SprayRadius, LowestPort
  <2>2. CASE ~c
    BY <1>2, <2>2, SprayContainsObserved DEF LowestPort, SprayRadius
  <2> QED
    BY <2>1, <2>2
<1>5. base + SprayLen - 1 <= HighestPort \/ first + SprayRadius - 1 > HighestPort
  <2>1. CASE c
    BY <2>1 DEF SprayBase, SprayRadius, LowestPort, SprayLen, HighestPort
  <2>2. CASE ~c
    BY <1>2, <2>2, SprayInRange
  <2> QED
    BY <2>1, <2>2
<1> HIDE DEF base
<1> QED
  BY <1>3, <1>4, <1>5 DEF SprayReaches, first, own

\* What a window around said must be for component i of x.
ReachesFor(window, said, x, i, c) ==
  /\ said.ip = x.comps[i].reflex.ip
  /\ \/ /\ said = x.comps[i].reflex
        /\ window.len = x.comps[i].len /\ window.step = x.comps[i].step
     \/ /\ window.len = SprayLen /\ window.step = 1
        /\ SprayReaches(said, window, x, i, c)

\* p is told addresses of u, and a window around its guess that reaches u.
LEMMA RightForP ==
  ASSUME NEW x \in Session, NEW y, NEW n, NEW c \in BOOLEAN
  PROVE  /\ AboutPeer(ForP(x, y, n, c), x)
         /\ WindowReaches(ForP(x, y, n, c), x, c)
<1> DEFINE command == ForP(x, y, n, c)
<1>1. DOMAIN command = 1 .. Len(x.comps)
  BY DEF ForP
<1>2. ASSUME NEW i \in 1 .. Len(x.comps)
      PROVE  /\ command[i].list[Len(command[i].list)] = Relay
             /\ \A address \in Candidates(command, i) :
                  \/ address \in {x.comps[i].host, x.comps[i].reflex}
                  \/ /\ command[i].window.len = SprayLen
                     /\ address.ip = x.comps[i].reflex.ip
             /\ command[i].window.len > 0 =>
                  ReachesFor(command[i].window,
                             command[i].list[command[i].window.index + 1], x, i, c)
  <2> DEFINE host   == HostPart(x, y, x, i)
             guess  == GuessForP(x, y, i, c)
             window == WindowForP(x, y, i)
             list   == Checklist(host, guess)
             h      == x.comps[i].host
             g      == Guess(x, y, i, c)
  <2>1. command[i].list = list /\ command[i].window = window
    BY DEF ForP, Checklist
  <2>2. /\ host \in {<<>>, <<h>>}
        /\ guess \in {<<>>, <<g>>}
        /\ \/ /\ window = NoWindow
              /\ Method(x, y) # "spray u"
           \/ /\ Method(x, y) = "predict u"
              /\ guess = <<g>>
              /\ window.len = x.comps[i].len /\ window.step = x.comps[i].step
              /\ window.index = Len(host)
           \/ /\ Method(x, y) = "spray u"
              /\ guess = <<g>>
              /\ window.len = SprayLen /\ window.step = 1
              /\ window.index = Len(host)
    <3>1. Parts(host, guess, window, h, g, x.comps[i].len, x.comps[i].step, Method(x, y))
      BY PartsForP
    <3> HIDE DEF host, guess, window, h, g
    <3> QED
      BY <3>1 DEF Parts
  <2> HIDE DEF host, guess, window, h, g
  <2>3. /\ list[Len(list)] = Relay
        /\ guess = <<g>> => list[Len(host) + 1] = g
        /\ \A k \in 1 .. Len(list) - 1 : list[k] \in {h, g}
    <3>1. Optional(host, h) /\ Optional(guess, g)
      BY <2>2 DEF Optional
    <3>2. guess = <<g>> => Len(guess) = 1
      OBVIOUS
    <3> QED
      BY <3>1, <3>2, Lists
  <2>4. Sprayed(x, c).ip = x.comps[i].reflex.ip
    BY DEF Sprayed, Session
  <2>5. window.len = SprayLen => SprayReaches(Sprayed(x, c), window, x, i, c)
    BY SprayedReaches
  <2>6. Candidates(command, i) \subseteq {h, g}
    BY <2>1, <2>3 DEF Candidates
  <2> HIDE DEF command, host, guess, window, list
  <2>7. \A address \in Candidates(command, i) :
          \/ address \in {h, x.comps[i].reflex}
          \/ window.len = SprayLen /\ address.ip = x.comps[i].reflex.ip
    <3>1. CASE Method(x, y) = "spray u"
      BY <2>2, <2>4, <2>6, <3>1 DEF Guess, g, h
    <3>2. CASE Method(x, y) # "spray u"
      BY <2>6, <3>2 DEF Guess, g, h
    <3> QED
      BY <3>1, <3>2
  <2>8. ASSUME window.len > 0
        PROVE  ReachesFor(window, list[window.index + 1], x, i, c)
    <3>1. window # NoWindow
      BY <2>8 DEF NoWindow
    <3>2. guess = <<g>> /\ window.index = Len(host)
      BY <2>2, <3>1
    <3>3. list[window.index + 1] = g
      BY <2>3, <3>2
    <3>4. CASE Method(x, y) = "spray u"
      <4>1. g = Sprayed(x, c)
        BY <3>4 DEF Guess, g
      <4>2. window.len = SprayLen /\ window.step = 1
        BY <2>2, <3>1, <3>4
      <4> QED
        BY <2>4, <2>5, <3>3, <4>1, <4>2 DEF ReachesFor
    <3>5. CASE Method(x, y) # "spray u"
      <4>1. g = x.comps[i].reflex
        BY <3>5 DEF Guess, g
      <4>2. window.len = x.comps[i].len /\ window.step = x.comps[i].step
        BY <2>2, <3>1, <3>5
      <4> QED
        BY <3>3, <4>1, <4>2 DEF ReachesFor
    <3> QED
      BY <3>4, <3>5
  <2> QED
    BY <2>1, <2>3, <2>7, <2>8 DEF h
<1> HIDE DEF command
<1>3. AboutPeer(command, x)
  BY <1>1, <1>2 DEF AboutPeer
<1>4. WindowReaches(command, x, c)
  BY <1>1, <1>2 DEF WindowReaches, ReachesFor
<1> QED
  BY <1>3, <1>4 DEF command

\* What u is told of p is what it would be told had p answered last.
LEMMA RightForU ==
  ASSUME NEW x \in Session, NEW y \in Session, NEW n,
         Len(x.comps) = Len(y.comps)
  PROVE  AboutPeer(ForU(x, y, n), y) /\ WindowReaches(ForU(x, y, n), y, FALSE)
<1>1. ForU(x, y, n) = ForP(y, x, n, FALSE)
  BY CommandMirrored
<1> QED
  BY <1>1, RightForP

\* Every candidate a client is told is its peer's own address for that
\* component, or a spray at the peer's NAT, for any addresses and methods.
THEOREM CandidatesOfPeer ==
  Spec => []OnlyPeerAddresses
<1>1. RoundInv => OnlyPeerAddresses
  <2> SUFFICES ASSUME RoundInv, NEW plan \in told
               PROVE  AboutPeer(plan.u, ps) /\ AboutPeer(plan.p, us)
    BY DEF OnlyPeerAddresses
  <2>1. plan.u = ForU(us, ps, id) /\ plan.p = ForP(us, ps, id, clobbered)
    BY DEF RoundInv, Plan
  <2> QED
    BY <2>1, RightForU, RightForP DEF RoundInv
<1> QED
  BY <1>1, RoundInvariant, PTL

\* For any addresses, ports and numbers of components, a window is at the
\* NAT of the peer and is what the peer predicted for that component or a spray
\* that covers the port opened for it; a spray misses only a port below the
\* floor, one away from the port of the first component, or, for p, one that
\* was lost when it was read, and passes the end of the range only near it.
THEOREM WindowsAlwaysReach ==
  Spec => []WindowsReachPeer
<1>1. RoundInv => WindowsReachPeer
  <2> SUFFICES ASSUME RoundInv, NEW plan \in told
               PROVE  /\ WindowReaches(plan.u, ps, FALSE)
                      /\ WindowReaches(plan.p, us, clobbered)
    BY DEF WindowsReachPeer
  <2>1. plan.u = ForU(us, ps, id) /\ plan.p = ForP(us, ps, id, clobbered)
    BY DEF RoundInv, Plan
  <2> QED
    BY <2>1, RightForU, RightForP DEF RoundInv
<1> QED
  BY <1>1, RoundInvariant, PTL

\* For any number of components the relay ids of a round are exactly those it
\* consumes, one for each component on both sides and one for TCP.
THEOREM RelayIdsAlwaysShared ==
  Spec => []RelayIdsShared
<1>1. RoundInv => RelayIdsShared
  <2> SUFFICES ASSUME RoundInv, NEW plan \in told
               PROVE  LET ids(command) == {command[i].id : i \in DOMAIN command}
                      IN  /\ \A i \in DOMAIN plan.u : plan.u[i].id = plan.p[i].id
                          /\ ids(plan.u) \cup {plan.tcpID} =
                               id .. id + IdsUsed(Len(us.comps)) - 1
                          /\ plan.tcpID \notin ids(plan.u)
    BY DEF RelayIdsShared
  <2> DEFINE n == Len(us.comps)
             ids == {plan.u[i].id : i \in DOMAIN plan.u}
  <2>0. /\ plan.u = ForU(us, ps, id) /\ plan.p = ForP(us, ps, id, clobbered)
        /\ plan.tcpID = id + n
    BY DEF RoundInv, Plan
  <2>1. /\ DOMAIN plan.u = 1 .. n
        /\ \A i \in 1 .. n : plan.u[i].id = id + i - 1 /\ plan.p[i].id = id + i - 1
        /\ plan.tcpID = id + n
    <3> DEFINE u == ForU(us, ps, id)
               p == ForP(us, ps, id, clobbered)
    <3>1. DOMAIN u = 1 .. n /\ \A i \in 1 .. n : u[i].id = id + i - 1
      BY DEF ForU
    <3>2. \A i \in 1 .. n : p[i].id = id + i - 1
      BY DEF ForP
    <3> HIDE DEF u, p, n
    <3> QED
      BY <2>0, <3>1, <3>2 DEF u, p
  <2>2. n \in Nat /\ id \in Nat
    <3>1. us \in Session /\ id \in Nat
      BY DEF RoundInv
    <3>2. us.comps \in Seq(Report)
      BY <3>1 DEF Session
    <3> QED
      BY <3>1, <3>2
  <2> HIDE DEF n
  <2>3. ids = {id + i - 1 : i \in 1 .. n}
    BY <2>1
  <2>4. ids = id .. id + n - 1
    <3>1. ASSUME NEW k \in id .. id + n - 1 PROVE k \in ids
      <4>1. k - id + 1 \in 1 .. n /\ k = id + (k - id + 1) - 1
        BY <2>2
      <4> QED
        BY <2>3, <4>1
    <3>2. ASSUME NEW k \in ids PROVE k \in id .. id + n - 1
      <4>1. PICK i \in 1 .. n : k = id + i - 1
        BY <2>3
      <4> QED
        BY <2>2, <4>1
    <3> QED
      BY <3>1, <3>2
  <2> HIDE DEF ids
  <2>5. ids \cup {id + n} = id .. id + (n + 1) - 1 /\ id + n \notin ids
    BY <2>2, <2>4
  <2> QED
    BY <2>1, <2>5 DEF IdsUsed, n, ids
<1> QED
  BY <1>1, RoundInvariant, PTL
=============================================================================
