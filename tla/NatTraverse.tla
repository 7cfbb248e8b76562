---------------------------- MODULE NatTraverse -----------------------------
(***************************************************************************)
(* The program as a whole: the control server makes ids with getUniqueID   *)
(* and gives each to the two clients of a traverse, who bring it to a      *)
(* relay of the same process.  The relay is taken by its promise,          *)
(* Rendezvous; clients keep to the protocol but may take any time, and may *)
(* bring ids of a process that has since been started anew.  The clock may *)
(* stand still, go on or be set, also while the process is restarted.      *)
(*                                                                         *)
(* Operators marked "(mutation)" are altered forms of the definition that  *)
(* follows them; no specification uses them.                               *)
(***************************************************************************)
EXTENDS Integers, Sequences, FiniteSets

CONSTANTS
  Client,
  NoClient,    \* no client came with an id
  Time,        \* what time() may return
  MaxIds,      \* bound: the ids one process makes
  MaxRound,    \* the most ids of one traverse: its components and one for TCP
  MaxRounds,   \* bound: traverses in all
  MaxStarts,   \* bound: how often the process is started
  Decimal      \* to_string of a number

ASSUME ClientAssumption == NoClient \notin Client
ASSUME BoundAssumption ==
  /\ MaxIds \in Nat /\ MaxRound \in Nat /\ MaxRounds \in Nat
  /\ MaxStarts \in Nat \ {0}

Digit == 0 .. 9

Number == Time \cup 0 .. MaxIds

\* A number has one text.
ASSUME DecimalAssumption ==
  /\ Time \subseteq Nat
  /\ Decimal \in [Number -> Seq(Digit)]
  /\ \A n, m \in Number : Decimal[n] = Decimal[m] => n = m

VARIABLES
  now,       \* time()
  process,   \* the number of this process
  addition,  \* static_addition
  serving,   \* the two clients of the traverse being answered, or {}
  left,      \* ids getUniqueID has still to make for it
  stamps,    \* time and addition of those it has made
  held,      \* ids a client was given
  pair,      \* idMap of the relay
  rounds     \* history: clients, process and stamps of all traverses

server == <<process, addition, serving, left, stamps>>
vars   == <<now, server, held, pair, rounds>>

\* No separator is put between the time and the addition.
Text(t, n) == Decimal[t] \o Decimal[n]

Id == {Text(t, n) : t \in Time, n \in 0 .. MaxIds}

Stamp == [time : Time, addition : 0 .. MaxIds]

IdOf(s) == Text(s.time, s.addition)

Relay == INSTANCE Rendezvous WITH Addr <- Client, NoAddr <- NoClient

TypeOK ==
  /\ now \in Time
  /\ process \in 1 .. MaxStarts
  /\ addition \in 0 .. MaxIds
  /\ serving \in SUBSET Client
  /\ left \in 0 .. MaxRound
  /\ stamps \in SUBSET Stamp
  /\ held \in [Client -> SUBSET Id]
  /\ pair \in [Id -> [first  : Client \cup {NoClient},
                      second : Client \cup {NoClient}]]
  /\ rounds \in SUBSET [clients : SUBSET Client, process : 1 .. MaxStarts,
                       stamps : SUBSET Stamp]

Init ==
  /\ now \in Time
  /\ process = 1
  /\ addition = 0
  /\ serving = {}
  /\ left = 0
  /\ stamps = {}
  /\ held = [c \in Client |-> {}]
  /\ Relay!Init
  /\ rounds = {}

\* Time passes, or the clock is set.
Tick ==
  /\ now' \in Time
  /\ UNCHANGED <<server, held, pair, rounds>>

-----------------------------------------------------------------------------
(* The control server *)

\* Both clients have answered; n is the number of ids they will be given.
Traverse(u, p, n) ==
  /\ serving = {}
  /\ u # p
  /\ Cardinality(rounds) < MaxRounds
  /\ serving' = {u, p}
  /\ left' = n
  /\ stamps' = {}
  /\ UNCHANGED <<now, process, addition, held, pair, rounds>>

\* The addition is not static (mutation).
getUniqueIDSame ==
  /\ left > 0
  /\ stamps' = stamps \cup {[time |-> now, addition |-> addition]}
  /\ left' = left - 1
  /\ UNCHANGED <<now, process, addition, serving, held, pair, rounds>>

getUniqueID ==
  /\ left > 0
  /\ addition < MaxIds
  /\ stamps' = stamps \cup {[time |-> now, addition |-> addition]}
  /\ addition' = addition + 1
  /\ left' = left - 1
  /\ UNCHANGED <<now, process, serving, held, pair, rounds>>

SendTraverse ==
  /\ serving # {}
  /\ left = 0
  /\ held' = [c \in Client |->
                IF c \in serving THEN held[c] \cup {IdOf(s) : s \in stamps} ELSE held[c]]
  /\ rounds' = rounds \cup
       {[clients |-> serving, process |-> process, stamps |-> stamps]}
  /\ serving' = {}
  /\ stamps' = {}
  /\ UNCHANGED <<now, process, addition, left, pair>>

-----------------------------------------------------------------------------
(* The clients, the relay and main *)

Bring(c, i) ==
  /\ i \in held[c]
  /\ Relay!Wait(i, c) \/ Relay!Join(i, c)
  /\ UNCHANGED <<now, server, held, rounds>>

\* The process ends and main starts both servers and the relay again, at
\* once or later: the addition and the tables are empty.
Restart ==
  /\ process < MaxStarts
  /\ process' = process + 1
  /\ addition' = 0
  /\ serving' = {}
  /\ left' = 0
  /\ stamps' = {}
  /\ pair' = [i \in Id |-> [first |-> NoClient, second |-> NoClient]]
  /\ UNCHANGED <<now, held, rounds>>

Next ==
  \/ Tick
  \/ \E u, p \in Client, n \in 1 .. MaxRound : Traverse(u, p, n)
  \/ getUniqueID
  \/ SendTraverse
  \/ \E c \in Client : \E i \in held[c] : Bring(c, i)
  \/ Restart

Spec == Init /\ [][Next]_vars

-----------------------------------------------------------------------------
(* Properties *)

\* Two traverses were given the id i: by two processes that read the same
\* time at the same addition, or at times with unequal numbers of digits.
Reused(i, r, q) ==
  \E s \in r.stamps, z \in q.stamps :
    /\ i = IdOf(s) /\ i = IdOf(z)
    /\ \/ r.process # q.process /\ s = z
       \/ Len(Decimal[s.time]) # Len(Decimal[z.time])

\* The two clients a relay pairs are the two of one traverse, in whatever
\* order and however late they bring its id, and however the clock is set:
\* but that a process started in a second its predecessor made ids in (or
\* for which the clock was set back to it) makes the same ids again, and that
\* a time with fewer digits may give the text of another.
PairsAreTraverses ==
  \A i \in Id :
    pair[i].second # NoClient =>
      \/ \E r \in rounds :
           /\ r.clients = {pair[i].first, pair[i].second}
           /\ \E s \in r.stamps : i = IdOf(s)
      \/ \E r, q \in rounds :
           pair[i].first \in r.clients /\ pair[i].second \in q.clients /\ Reused(i, r, q)
=============================================================================
