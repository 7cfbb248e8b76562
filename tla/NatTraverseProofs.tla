------------------------- MODULE NatTraverseProofs --------------------------
(***************************************************************************)
(* Proofs about NatTraverse: no process gives an id twice, though            *)
(* getUniqueID puts the digits of two numbers side by side, and so a relay *)
(* pairs the two clients of one traverse, unless a time and an addition    *)
(* come again in a later process or the clock changes its number of digits.*)
(***************************************************************************)
EXTENDS NatTraverse, TLAPS

-----------------------------------------------------------------------------
(* Texts of ids *)

\* The elements of two sequences put side by side.
LEMMA SideBySide ==
  ASSUME NEW d \in Seq(Digit), NEW e \in Seq(Digit)
  PROVE  /\ d \o e \in Seq(Digit)
         /\ Len(d \o e) = Len(d) + Len(e)
         /\ \A k \in 1 .. Len(d) : (d \o e)[k] = d[k]
         /\ \A k \in 1 .. Len(e) : (d \o e)[Len(d) + k] = e[k]
  OBVIOUS

\* x consists of d and then e.
Begins(x, d, e) ==
  /\ Len(x) = Len(d) + Len(e)
  /\ \A k \in 1 .. Len(d) : x[k] = d[k]
  /\ \A k \in 1 .. Len(e) : x[Len(d) + k] = e[k]

\* The text of a time and an addition consists of the digits of the time and
\* then those of the addition.
LEMMA TextDigits ==
  ASSUME NEW t \in Time, NEW n \in 0 .. MaxIds
  PROVE  Begins(Text(t, n), Decimal[t], Decimal[n])
<1>1. Decimal[t] \in Seq(Digit) /\ Decimal[n] \in Seq(Digit)
  BY DecimalAssumption DEF Number
<1> QED
  BY <1>1, SideBySide DEF Text, Begins

\* Two sequences with the same length and elements are equal.
LEMMA SameElements ==
  ASSUME NEW s \in Seq(Digit), NEW r \in Seq(Digit), Len(s) = Len(r),
         \A k \in 1 .. Len(s) : s[k] = r[k]
  PROVE  s = r
  OBVIOUS

\* Sequences put side by side are told from each other when the first ones
\* are of one length.
LEMMA PartsUnique ==
  ASSUME NEW d \in Seq(Digit), NEW e \in Seq(Digit),
         NEW f \in Seq(Digit), NEW g \in Seq(Digit), NEW x,
         Len(d) = Len(f), Begins(x, d, e), Begins(x, f, g)
  PROVE  d = f /\ e = g
<1>1. d = f
  BY SameElements DEF Begins
<1>2. Len(e) = Len(g)
  BY DEF Begins
<1>3. \A k \in 1 .. Len(e) : e[k] = g[k]
  BY <1>2 DEF Begins
<1> QED
  BY <1>1, <1>2, <1>3, SameElements

\* Among times of as many digits, an id tells its time and its addition.
LEMMA TextUnique ==
  ASSUME NEW t \in Time, NEW n \in 0 .. MaxIds,
         NEW s \in Time, NEW m \in 0 .. MaxIds,
         Len(Decimal[t]) = Len(Decimal[s]),
         Text(t, n) = Text(s, m)
  PROVE  t = s /\ n = m
<1>1. t \in Number /\ n \in Number /\ s \in Number /\ m \in Number
  BY DEF Number
<1>2. /\ Decimal[t] \in Seq(Digit) /\ Decimal[n] \in Seq(Digit)
      /\ Decimal[s] \in Seq(Digit) /\ Decimal[m] \in Seq(Digit)
  BY <1>1, DecimalAssumption
<1>3. /\ Begins(Text(t, n), Decimal[t], Decimal[n])
      /\ Begins(Text(t, n), Decimal[s], Decimal[m])
  BY TextDigits
<1>4. Decimal[t] = Decimal[s] /\ Decimal[n] = Decimal[m]
  BY <1>2, <1>3, PartsUnique
<1> QED
  BY <1>1, <1>4, DecimalAssumption

-----------------------------------------------------------------------------
(* The inductive invariant *)

\* This process has used the additions below the next one.
Used(S) == \A s \in S : s.addition < addition

Counted ==
  /\ Used(stamps)
  /\ \A r \in rounds :
       r.process <= process /\ (r.process = process => Used(r.stamps))

\* The additions of two traverses of one process differ.
Apart(S, R) == \A s \in S, z \in R : s.addition # z.addition

RoundsApart ==
  /\ \A r \in rounds : r.process = process => Apart(r.stamps, stamps)
  /\ \A r, q \in rounds : r.process = q.process /\ r # q => Apart(r.stamps, q.stamps)

TwoClients(s) == \E u, p \in Client : u # p /\ s = {u, p}

Twos ==
  /\ serving = {} \/ TwoClients(serving)
  /\ \A r \in rounds : TwoClients(r.clients)

HeldOfRounds ==
  \A c \in Client : \A i \in held[c] :
    \E r \in rounds : c \in r.clients /\ \E s \in r.stamps : i = IdOf(s)

Meets(x, i) == x = NoClient \/ (x \in Client /\ i \in held[x])

PairsHold ==
  \A i \in Id :
    /\ Meets(pair[i].first, i) /\ Meets(pair[i].second, i)
    /\ pair[i].second # NoClient =>
         pair[i].first # NoClient /\ pair[i].first # pair[i].second

IInv ==
  /\ TypeOK
  /\ Counted
  /\ RoundsApart
  /\ Twos
  /\ HeldOfRounds
  /\ PairsHold

-----------------------------------------------------------------------------
(* The initial states *)

LEMMA InitIInv == ASSUME Init PROVE IInv
<1> USE DEF Init, Relay!Init
<1>1. TypeOK
  BY BoundAssumption DEF TypeOK
<1>2. Counted
  BY DEF Counted, Used
<1>3. RoundsApart /\ Twos /\ HeldOfRounds
  BY DEF RoundsApart, Twos, HeldOfRounds
<1>4. PairsHold
  BY DEF PairsHold, Meets
<1> QED
  BY <1>1, <1>2, <1>3, <1>4 DEF IInv

-----------------------------------------------------------------------------
(* The steps *)

LEMMA TypeStep == ASSUME TypeOK, Next PROVE TypeOK'
<1> USE DEF TypeOK
<1>1. ASSUME Tick PROVE TypeOK'
  BY <1>1 DEF Tick, server
<1>2. ASSUME NEW u \in Client, NEW p \in Client, NEW n \in 1 .. MaxRound,
             Traverse(u, p, n)
      PROVE  TypeOK'
  BY <1>2, BoundAssumption DEF Traverse
<1>3. ASSUME getUniqueID PROVE TypeOK'
  <2>1. addition \in 0 .. MaxIds /\ addition' \in 0 .. MaxIds /\ left' \in 0 .. MaxRound
    BY <1>3, BoundAssumption DEF getUniqueID
  <2>2. [time |-> now, addition |-> addition] \in Stamp
    BY <2>1 DEF Stamp
  <2> QED
    BY <1>3, <2>1, <2>2 DEF getUniqueID
<1>4. ASSUME SendTraverse PROVE TypeOK'
  <2>1. \A s \in stamps : IdOf(s) \in Id
    BY DEF Stamp, IdOf, Id
  <2>2. held' \in [Client -> SUBSET Id]
    BY <1>4, <2>1 DEF SendTraverse
  <2>3. rounds' \in SUBSET [clients : SUBSET Client, process : 1 .. MaxStarts,
                            stamps : SUBSET Stamp]
    BY <1>4 DEF SendTraverse
  <2> QED
    BY <1>4, <2>2, <2>3 DEF SendTraverse
<1>5. ASSUME NEW c \in Client, NEW i \in held[c], Bring(c, i) PROVE TypeOK'
  BY <1>5 DEF Bring, server, Relay!Wait, Relay!Join
<1>6. ASSUME Restart PROVE TypeOK'
  BY <1>6, BoundAssumption DEF Restart
<1> QED
  BY <1>1, <1>2, <1>3, <1>4, <1>5, <1>6 DEF Next

LEMMA CountedStep == ASSUME TypeOK, Counted, Next PROVE Counted'
<1> USE DEF Counted, Used
<1>0. addition \in Nat /\ process \in Nat
  BY BoundAssumption DEF TypeOK
<1>1. CASE UNCHANGED <<process, addition, rounds>> /\ stamps' \in {stamps, {}}
  BY <1>1
<1>2. ASSUME getUniqueID PROVE Counted'
  <2>1. \A S \in SUBSET Stamp : Used(S) => \A s \in S : s.addition < addition + 1
    BY <1>0 DEF Stamp
  <2>2. \A r \in rounds : r.stamps \in SUBSET Stamp
    BY DEF TypeOK
  <2>3. addition' = addition + 1 /\ process' = process /\ rounds' = rounds
    BY <1>2 DEF getUniqueID
  <2>4. \A s \in stamps' : s.addition < addition + 1
    BY <1>0, <1>2, <2>1 DEF getUniqueID, TypeOK
  <2> QED
    BY <2>1, <2>2, <2>3, <2>4
<1>3. ASSUME SendTraverse PROVE Counted'
  <2> DEFINE new == [clients |-> serving, process |-> process, stamps |-> stamps]
  <2>1. /\ rounds' = rounds \cup {new} /\ stamps' = {}
        /\ process' = process /\ addition' = addition
    BY <1>3 DEF SendTraverse
  <2>2. new.process <= process /\ Used(new.stamps)
    BY <1>0
  <2> HIDE DEF new
  <2> QED
    BY <2>1, <2>2
<1>4. ASSUME Restart PROVE Counted'
  <2>1. \A r \in rounds : r.process \in Nat
    BY BoundAssumption DEF TypeOK
  <2>2. \A r \in rounds : r.process < process + 1
    BY <1>0, <2>1
  <2>3. process' = process + 1 /\ rounds' = rounds /\ stamps' = {}
    BY <1>4 DEF Restart
  <2> QED
    BY <1>0, <2>1, <2>2, <2>3
<1> QED
  BY <1>1, <1>2, <1>3, <1>4 DEF Next, Tick, Traverse, Bring, server

\* The stamp that getUniqueID adds has an addition the process has not used.
LEMMA RoundsApartStep ==
  ASSUME TypeOK, Counted, RoundsApart, Next
  PROVE  RoundsApart'
<1> USE DEF RoundsApart, Apart
<1>1. CASE UNCHANGED <<process, rounds>> /\ stamps' \in {stamps, {}}
  BY <1>1
<1>2. ASSUME getUniqueID PROVE RoundsApart'
  <2>1. addition \in Nat
    BY DEF TypeOK
  <2>2. \A r \in rounds : \A s \in r.stamps : s.addition \in Nat
    BY DEF TypeOK, Stamp
  <2>3. \A r \in rounds : r.process = process => \A s \in r.stamps : s.addition # addition
    BY <2>1, <2>2 DEF Counted, Used
  <2> QED
    BY <1>2, <2>3 DEF getUniqueID
<1>3. ASSUME SendTraverse PROVE RoundsApart'
  <2> DEFINE new == [clients |-> serving, process |-> process, stamps |-> stamps]
  <2>1. rounds' = rounds \cup {new} /\ stamps' = {} /\ process' = process
    BY <1>3 DEF SendTraverse
  <2>2. \A r \in rounds : r.process = new.process =>
          Apart(r.stamps, new.stamps) /\ Apart(new.stamps, r.stamps)
    OBVIOUS
  <2> HIDE DEF new
  <2> QED
    BY <2>1, <2>2
<1>4. ASSUME Restart PROVE RoundsApart'
  BY <1>4 DEF Restart
<1> QED
  BY <1>1, <1>2, <1>3, <1>4 DEF Next, Tick, Traverse, Bring, server

LEMMA TwosStep == ASSUME Twos, Next PROVE Twos'
<1> USE DEF Twos
<1>1. CASE rounds' = rounds /\ serving' \in {serving, {}}
  BY <1>1
<1>2. ASSUME NEW u \in Client, NEW p \in Client, NEW n \in 1 .. MaxRound,
             Traverse(u, p, n)
      PROVE  Twos'
  BY <1>2 DEF Traverse, TwoClients
<1>3. ASSUME SendTraverse PROVE Twos'
  <2> DEFINE new == [clients |-> serving, process |-> process, stamps |-> stamps]
  <2>1. rounds' = rounds \cup {new} /\ serving' = {} /\ TwoClients(new.clients)
    BY <1>3 DEF SendTraverse
  <2> HIDE DEF new
  <2> QED
    BY <2>1
<1> QED
  BY <1>1, <1>2, <1>3 DEF Next, Tick, getUniqueID, Bring, Restart, server

LEMMA HeldStep == ASSUME TypeOK, HeldOfRounds, Next PROVE HeldOfRounds'
<1> USE DEF HeldOfRounds
<1>1. CASE rounds' = rounds /\ held' = held
  BY <1>1
<1>2. ASSUME SendTraverse PROVE HeldOfRounds'
  <2> DEFINE new == [clients |-> serving, process |-> process, stamps |-> stamps]
  <2>1. rounds' = rounds \cup {new}
    BY <1>2 DEF SendTraverse
  <2>2. \A c \in Client :
          held'[c] = IF c \in serving THEN held[c] \cup {IdOf(z) : z \in stamps} ELSE held[c]
    BY <1>2 DEF SendTraverse
  <2>3. new.stamps = stamps /\ new.clients = serving
    OBVIOUS
  <2> HIDE DEF new
  <2>4. SUFFICES ASSUME NEW c \in Client, NEW i \in held'[c]
                 PROVE  \E r \in rounds' :
                          c \in r.clients /\ \E z \in r.stamps : i = IdOf(z)
    BY DEF IdOf
  <2>5. CASE i \in held[c]
    BY <2>1, <2>5
  <2>6. CASE i \notin held[c]
    <3>0. c \in serving /\ \E z \in stamps : i = IdOf(z)
      <4>1. held'[c] = IF c \in serving THEN held[c] \cup {IdOf(z) : z \in stamps}
                       ELSE held[c]
        BY <2>2
      <4>2. c \in serving
        BY <4>1, <2>6
      <4>3. i \in {IdOf(z) : z \in stamps}
        BY <4>1, <4>2, <2>6
      <4> QED
        BY <4>2, <4>3
    <3>1. c \in new.clients /\ \E z \in new.stamps : i = IdOf(z)
      BY <3>0, <2>3
    <3>2. new \in rounds'
      BY <2>1
    <3> QED
      BY <3>1, <3>2
  <2> QED
    BY <2>5, <2>6
<1> QED
  BY <1>1, <1>2 DEF Next, Tick, Traverse, getUniqueID, Bring, Restart

LEMMA PairsStep == ASSUME TypeOK, PairsHold, Next PROVE PairsHold'
<1> USE DEF PairsHold, Meets
<1>1. CASE pair' = pair /\ \A c \in Client : held[c] \subseteq held'[c]
  BY <1>1
<1>2. ASSUME SendTraverse PROVE PairsHold'
  <2>1. \A c \in Client : held[c] \subseteq held'[c]
    BY <1>2 DEF SendTraverse, TypeOK
  <2> QED
    BY <1>1, <1>2, <2>1 DEF SendTraverse
<1>3. ASSUME NEW c \in Client, NEW i \in held[c], Bring(c, i) PROVE PairsHold'
  <2>1. held' = held /\ i \in Id /\ c # NoClient
    BY <1>3, ClientAssumption DEF Bring, TypeOK
  <2>2. CASE Relay!Wait(i, c)
    BY <2>1, <2>2 DEF TypeOK, Relay!Wait
  <2>3. CASE Relay!Join(i, c)
    BY <2>1, <2>3 DEF TypeOK, Relay!Join
  <2> QED
    BY <1>3, <2>2, <2>3 DEF Bring
<1>4. ASSUME Restart PROVE PairsHold'
  BY <1>4 DEF Restart
<1> QED
  BY <1>1, <1>2, <1>3, <1>4 DEF Next, Tick, Traverse, getUniqueID

-----------------------------------------------------------------------------
(* Theorems *)

\* The invariant holds in every state, for any clients, numbers of ids and
\* clock, through any restarts.
THEOREM Invariant == Spec => []IInv
<1>1. Init => IInv
  BY InitIInv
<1>2. IInv /\ [Next]_vars => IInv'
  <2> SUFFICES ASSUME IInv, [Next]_vars PROVE IInv'
    OBVIOUS
  <2>1. CASE Next
    BY <2>1, TypeStep, CountedStep, RoundsApartStep, TwosStep, HeldStep,
       PairsStep
       DEF IInv
  <2>2. CASE UNCHANGED vars
    BY <2>2
       DEF IInv, vars, server, TypeOK, Counted, Used, RoundsApart, Apart, Twos,
           HeldOfRounds, PairsHold, Meets
  <2> QED
    BY <2>1, <2>2
<1> QED
  BY <1>1, <1>2, PTL DEF Spec

\* Two traverses that were given one id are of two processes that read the
\* same time at the same addition, or their times have unequal numbers of
\* digits.  So a process never gives an id twice, however the clock is set,
\* while its times have as many digits.
IdsDiffer ==
  \A r, q \in rounds : \A s \in r.stamps, z \in q.stamps :
    IdOf(s) = IdOf(z) =>
      \/ s = z /\ (r = q \/ r.process # q.process)
      \/ Len(Decimal[s.time]) # Len(Decimal[z.time])

\* In every state the ids given out tell the traverses apart as IdsDiffer says
\* (getUniqueID, called in the last loop of onMessage).
THEOREM IdsTellTraverses == Spec => []IdsDiffer
<1>1. IInv => IdsDiffer
  <2> SUFFICES ASSUME IInv, NEW r \in rounds, NEW q \in rounds,
                      NEW s \in r.stamps, NEW z \in q.stamps,
                      IdOf(s) = IdOf(z),
                      Len(Decimal[s.time]) = Len(Decimal[z.time])
               PROVE  s = z /\ (r = q \/ r.process # q.process)
    BY DEF IdsDiffer
  <2>1. s \in Stamp /\ z \in Stamp
    BY DEF IInv, TypeOK
  <2>2. s.time = z.time /\ s.addition = z.addition
    BY <2>1, TextUnique DEF Stamp, IdOf
  <2>3. s = z
    BY <2>1, <2>2 DEF Stamp
  <2>4. r = q \/ r.process # q.process
    BY <2>2 DEF IInv, RoundsApart, Apart
  <2> QED
    BY <2>3, <2>4
<1> QED
  BY <1>1, Invariant, PTL

\* A relay that keeps its promise pairs the two clients of one traverse, in
\* whatever order and however late clients bring their ids; two clients of
\* different traverses meet only by an id that two processes made of the same
\* time and addition, or two times of unequal numbers of digits.
THEOREM PairsOfTraverses == Spec => []PairsAreTraverses
<1>1. IInv /\ IdsDiffer => PairsAreTraverses
  <2> SUFFICES ASSUME IInv, IdsDiffer, NEW i \in Id, pair[i].second # NoClient
               PROVE  \/ \E r \in rounds :
                           /\ r.clients = {pair[i].first, pair[i].second}
                           /\ \E s \in r.stamps : i = IdOf(s)
                      \/ \E r, q \in rounds :
                           /\ pair[i].first \in r.clients
                           /\ pair[i].second \in q.clients
                           /\ Reused(i, r, q)
    BY DEF PairsAreTraverses
  <2> DEFINE a == pair[i].first
             b == pair[i].second
  <2>1. a \in Client /\ b \in Client /\ a # b /\ i \in held[a] /\ i \in held[b]
    BY DEF IInv, PairsHold, Meets
  <2> HIDE DEF a, b
  <2>2. PICK r \in rounds : a \in r.clients /\ \E s \in r.stamps : i = IdOf(s)
    BY <2>1 DEF IInv, HeldOfRounds
  <2>3. PICK q \in rounds : b \in q.clients /\ \E s \in q.stamps : i = IdOf(s)
    BY <2>1 DEF IInv, HeldOfRounds
  <2>4. CASE r = q
    <3>1. TwoClients(r.clients)
      BY DEF IInv, Twos
    <3>2. r.clients = {a, b}
      BY <2>1, <2>2, <2>3, <2>4, <3>1 DEF TwoClients
    <3> QED
      BY <2>2, <3>2 DEF a, b
  <2>5. CASE r # q
    <3>1. PICK s \in r.stamps : i = IdOf(s)
      BY <2>2
    <3>2. PICK z \in q.stamps : i = IdOf(z)
      BY <2>3
    <3>3. \/ r.process # q.process /\ s = z
          \/ Len(Decimal[s.time]) # Len(Decimal[z.time])
      BY <2>5, <3>1, <3>2 DEF IdsDiffer
    <3>4. Reused(i, r, q)
      BY <3>1, <3>2, <3>3 DEF Reused
    <3> QED
      BY <2>2, <2>3, <3>4 DEF a, b
  <2> QED
    BY <2>4, <2>5
<1> QED
  BY <1>1, IdsTellTraverses, Invariant, PTL
=============================================================================
