--------------------------- MODULE AtomicInteger ----------------------------
(***************************************************************************)
(* AtomicIntegerT, an integer of a fixed width that threads change without *)
(* a lock: each of its operations makes one atomic access and computes the *)
(* rest from the value that one returned.  Threads take tickets with       *)
(* incrementAndGet, and may start them anew with getAndSet.  The access     *)
(* wraps around; an addition after it that overflows is undefined.         *)
(*                                                                         *)
(* Operators marked "(mutation)" are altered forms of the definition that  *)
(* follows them; no specification uses them.                               *)
(***************************************************************************)
EXTENDS Integers, FiniteSets

CONSTANTS
  Counter,    \* the threads
  Size,       \* the integer has 2 * Size values
  MaxCalls    \* bound: accesses made in all

ASSUME SizeAssumption  == Size \in Nat \ {0}
ASSUME CallsAssumption == MaxCalls \in 0 .. 2 * Size

VARIABLES
  integer,   \* value_
  call,      \* the call a thread is in: "none", "increment" or "set"
  fetched,   \* what its atomic access returned
  epoch,     \* history: how often the integer was set
  epochOf,   \* history: the epoch of a thread's access
  tickets,   \* history: what incrementAndGet returned in which epoch,
             \* if it was defined
  calls,     \* accesses made
  issued     \* history: how many such results were returned

atomicVars == <<integer, call, fetched, epoch, epochOf, tickets, calls, issued>>

T == -Size .. Size - 1

AtomicTypeOK ==
  /\ integer \in T
  /\ call \in [Counter -> {"none", "increment", "set"}]
  /\ fetched \in [Counter -> T]
  /\ epoch \in 0 .. MaxCalls
  /\ epochOf \in [Counter -> 0 .. MaxCalls]
  /\ tickets \in SUBSET ((0 .. MaxCalls) \X T)
  /\ calls \in 0 .. MaxCalls
  /\ issued \in 0 .. MaxCalls

AtomicInit ==
  /\ integer = 0
  /\ call = [t \in Counter |-> "none"]
  /\ fetched = [t \in Counter |-> 0]
  /\ epoch = 0
  /\ epochOf = [t \in Counter |-> 0]
  /\ tickets = {}
  /\ calls = 0
  /\ issued = 0

\* __sync_fetch_and_add wraps around.
Wrap(x) == ((x + Size) % (2 * Size)) - Size

\* One atomic access leaves the integer x and returns what it was.
Access(t, op, x) ==
  /\ call[t] = "none"
  /\ calls < MaxCalls
  /\ calls' = calls + 1
  /\ call' = [call EXCEPT ![t] = op]
  /\ fetched' = [fetched EXCEPT ![t] = integer]
  /\ integer' = x
  /\ UNCHANGED <<tickets, issued>>

\* getAndAdd(1)
GetAndAdd(t) ==
  /\ Access(t, "increment", Wrap(integer + 1))
  /\ epochOf' = [epochOf EXCEPT ![t] = epoch]
  /\ UNCHANGED epoch

GetAndSet(t) ==
  /\ Access(t, "set", 0)
  /\ epoch' = epoch + 1
  /\ UNCHANGED epochOf

\* The integer is read again after the access (mutation).
AddAndGetAgain(t) == integer

AddAndGet(t) == fetched[t] + 1

Overflows(t) == fetched[t] = Size - 1

\* Where the addition overflows any number may be returned: no ticket is noted.
Return(t) ==
  /\ call[t] # "none"
  /\ call' = [call EXCEPT ![t] = "none"]
  /\ IF call[t] = "increment" /\ ~Overflows(t)
     THEN /\ tickets' = tickets \cup {<<epochOf[t], AddAndGet(t)>>}
          /\ issued' = issued + 1
     ELSE UNCHANGED <<tickets, issued>>
  /\ UNCHANGED <<integer, fetched, epoch, epochOf, calls>>

AtomicNext == \E t \in Counter : GetAndAdd(t) \/ GetAndSet(t) \/ Return(t)

AtomicSpec == AtomicInit /\ [][AtomicNext]_atomicVars

-----------------------------------------------------------------------------
(* Properties *)

\* Threads that increment at the same time get different numbers, until the
\* integer has taken all its values; but for the one that finds the highest
\* value, for which the addition is undefined.
TicketsDistinct == Cardinality(tickets) = issued
=============================================================================
