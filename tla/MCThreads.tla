----------------------------- MODULE MCThreads ------------------------------
(***************************************************************************)
(* What threads share: the blocking queues, objects made on first use,     *)
(* atomic integers and weak callbacks.  None of them knows of another, so  *)
(* a behavior of the model is one of one of them, part says which, and the *)
(* values for producers are values for objects too, for their symmetry.    *)
(***************************************************************************)
EXTENDS BlockingQueues, Singletons, AtomicInteger, WeakCallback, TLC

CONSTANTS p1, p2, p3, c1, c2, c3, o, t1, t2, x

VARIABLE part

Init ==
  /\ part \in {"queue", "singleton", "atomic", "weak"}
  /\ QueueInit /\ SingletonInit /\ AtomicInit /\ WeakInit
  /\ part # "queue" => ~bounded

Next ==
  \/ /\ part = "queue" /\ QueueNext
     /\ UNCHANGED <<part, singletonVars, atomicVars, weakVars>>
  \/ /\ part = "singleton" /\ SingletonNext
     /\ UNCHANGED <<part, queueVars, atomicVars, weakVars>>
  \/ /\ part = "atomic" /\ AtomicNext
     /\ UNCHANGED <<part, queueVars, singletonVars, weakVars>>
  \/ /\ part = "weak" /\ WeakNext
     /\ UNCHANGED <<part, queueVars, singletonVars, atomicVars>>

Spec == Init /\ [][Next]_<<part, queueVars, singletonVars, atomicVars, weakVars>>

TypeOK == QueueTypeOK /\ SingletonTypeOK /\ AtomicTypeOK /\ WeakTypeOK

Symmetry ==
  Permutations({p1, p2, p3}) \cup Permutations({c1, c2, c3})
    \cup Permutations({t1, t2})
=============================================================================
