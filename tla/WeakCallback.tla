---------------------------- MODULE WeakCallback ----------------------------
(***************************************************************************)
(* A WeakCallback calls a member function of an object it does not keep    *)
(* alive.  The call first makes a shared_ptr of its weak_ptr, which fails  *)
(* once the object is gone, and lets go of it when the function returns.   *)
(* Owners drop their references in other threads at any moment; whoever    *)
(* drops the last destroys the object.                                     *)
(*                                                                         *)
(* Operators marked "(mutation)" are altered forms of the definition that  *)
(* follows them; no specification uses them.                               *)
(***************************************************************************)
EXTENDS Integers, FiniteSets

CONSTANTS
  Owner,    \* threads that hold a shared_ptr at first
  Caller    \* threads that call a copy of the callback

ASSUME CallerAssumption == Owner \cap Caller = {}
ASSUME FiniteAssumption == IsFiniteSet(Owner) /\ IsFiniteSet(Caller)

VARIABLES
  count,      \* the use count of the object
  object,     \* "alive" or "destroyed"
  step        \* what a thread does next with its reference

weakVars == <<count, object, step>>

\* A thread has a shared_ptr in "hold" and "run"; in "destroy" it has dropped
\* the last one.
WeakTypeOK ==
  /\ count \in 0 .. Cardinality(Owner \cup Caller)
  /\ object \in {"alive", "destroyed"}
  /\ step \in [Owner \cup Caller -> {"none", "hold", "run", "destroy"}]

WeakInit ==
  /\ count = Cardinality(Owner)
  /\ object = "alive"
  /\ step = [t \in Owner \cup Caller |-> IF t \in Owner THEN "hold" ELSE "none"]

\* The use count is looked at but not incremented (mutation).
LockRaw(t) ==
  /\ step[t] = "none"
  /\ count > 0
  /\ step' = [step EXCEPT ![t] = "run"]
  /\ UNCHANGED <<count, object>>

\* object_.lock() increments a count that is not zero, in one access.
LockObject(t) ==
  /\ step[t] = "none"
  /\ count > 0
  /\ count' = count + 1
  /\ step' = [step EXCEPT ![t] = "run"]
  /\ UNCHANGED object

\* The function of a caller has returned, or an owner is done.
Drop(t) ==
  /\ step[t] \in {"hold", "run"}
  /\ count > 0
  /\ count' = count - 1
  /\ step' = [step EXCEPT ![t] = IF count = 1 THEN "destroy" ELSE "none"]
  /\ UNCHANGED object

Destroy(t) ==
  /\ step[t] = "destroy"
  /\ object' = "destroyed"
  /\ step' = [step EXCEPT ![t] = "none"]
  /\ UNCHANGED count

WeakNext ==
  \/ \E t \in Caller : LockObject(t)
  \/ \E t \in Owner \cup Caller : Drop(t) \/ Destroy(t)

WeakSpec == WeakInit /\ [][WeakNext]_weakVars

-----------------------------------------------------------------------------
(* Properties *)

\* The function never runs on an object that is destroyed or about to be,
\* and no two threads destroy it.
RunsOnLiveObject ==
  \A t \in Owner \cup Caller :
    /\ step[t] \in {"hold", "run"} =>
         object = "alive" /\ \A u \in Owner \cup Caller : step[u] # "destroy"
    /\ step[t] = "destroy" =>
         object = "alive" /\ \A u \in (Owner \cup Caller) \ {t} : step[u] # "destroy"
=============================================================================
