--------------------------- MODULE BlockingQueues ---------------------------
(***************************************************************************)
(* BlockingQueue and BoundedBlockingQueue with the mutex and the condition *)
(* variables they are built from.  A thread makes one call at a time; each *)
(* step is one call to pthreads or one statement on shared memory.         *)
(*                                                                         *)
(* MutexLock keeps two things: the pthread mutex and holder_, the thread   *)
(* that has it, for assertions.  They are set one after the other, and     *)
(* wait() clears holder_ before the mutex is released and sets it when it  *)
(* has been locked again.                                                  *)
(*                                                                         *)
(* Operators marked "(mutation)" are altered forms of the definition that  *)
(* follows them; no specification uses them.                               *)
(***************************************************************************)
EXTENDS Integers, Sequences, FiniteSets

CONSTANTS
  Producer,   \* threads that put
  Consumer,   \* threads that take
  Observer,   \* threads that ask for the size
  NoThread,   \* the mutex is free, holder_ is 0
  Capacity,   \* maxSize of a bounded queue
  MaxItems    \* bound: items put

Thread == Producer \cup Consumer \cup Observer

ASSUME ThreadAssumption ==
  /\ NoThread \notin Thread
  /\ IsFiniteSet(Producer) /\ IsFiniteSet(Consumer)
  /\ Producer \cap Consumer = {}
  /\ Observer \cap (Producer \cup Consumer) = {}
ASSUME BoundAssumption == Capacity \in Nat \ {0} /\ MaxItems \in Nat

VARIABLES
  bounded,   \* whether it is a BoundedBlockingQueue
  pc,        \* what a thread does next
  owner,     \* the thread that has the pthread mutex
  holder,    \* holder_
  queue,     \* queue_
  front,     \* what take() read from the front
  items,     \* the number of items put
  taken      \* history: the items taken

mutex     == <<owner, holder>>
queueVars == <<bounded, pc, mutex, queue, front, items, taken>>

\* Where a thread has the mutex.
Inside == {"assign", "body", "wait", "pop", "notify", "unassign", "unlock"}

QueueTypeOK ==
  /\ bounded \in BOOLEAN
  /\ pc \in [Thread -> {"idle", "lock", "waiting"} \cup Inside]
  /\ owner \in Thread \cup {NoThread}
  /\ holder \in Thread \cup {NoThread}
  /\ queue \in Seq(1 .. MaxItems)
  /\ front \in [Consumer -> 0 .. MaxItems]
  /\ items \in 0 .. MaxItems
  /\ taken \in Seq(1 .. MaxItems)

QueueInit ==
  /\ bounded \in BOOLEAN
  /\ pc = [t \in Thread |-> "idle"]
  /\ owner = NoThread
  /\ holder = NoThread
  /\ queue = <<>>
  /\ front = [t \in Consumer |-> 0]
  /\ items = 0
  /\ taken = <<>>

Goes(t, from, to) ==
  /\ pc[t] = from
  /\ pc' = [pc EXCEPT ![t] = to]

-----------------------------------------------------------------------------
(* MutexLock and Condition *)

\* Producers in a put() that has not added its item.
Putting ==
  {t \in Producer : pc[t] \in {"lock", "assign", "body", "wait", "waiting"}}

\* A thread calls put(), take() or size().
Call(t) ==
  /\ Goes(t, "idle", "lock")
  /\ t \in Producer => items + Cardinality(Putting) < MaxItems
  /\ UNCHANGED <<bounded, mutex, queue, front, items, taken>>

\* pthread_mutex_lock, at the beginning of a call or at the end of a wait.
Lock(t) ==
  /\ Goes(t, "lock", "assign")
  /\ owner = NoThread
  /\ owner' = t
  /\ UNCHANGED <<bounded, holder, queue, front, items, taken>>

AssignHolder(t) ==
  /\ Goes(t, "assign", "body")
  /\ holder' = t
  /\ UNCHANGED <<bounded, owner, queue, front, items, taken>>

\* wait() has no UnassignGuard (mutation).
WaitsAssigned(t) ==
  /\ Goes(t, "body", "wait")
  /\ UNCHANGED <<bounded, mutex, queue, front, items, taken>>

\* The UnassignGuard of wait().
Waits(t) ==
  /\ Goes(t, "body", "wait")
  /\ holder' = NoThread
  /\ UNCHANGED <<bounded, owner, queue, front, items, taken>>

\* pthread_cond_wait lets go of the mutex and waits in one step.
CondWait(t) ==
  /\ Goes(t, "wait", "waiting")
  /\ owner' = NoThread
  /\ UNCHANGED <<bounded, holder, queue, front, items, taken>>

\* A thread may wake without having been notified.
WakesAnyway(t) ==
  /\ Goes(t, "waiting", "lock")
  /\ UNCHANGED <<bounded, mutex, queue, front, items, taken>>

\* pthread_cond_signal wakes one of those that wait, if any does.
Signal(t, waiters) ==
  IF \E u \in waiters : pc[u] = "waiting"
  THEN \E u \in waiters :
         /\ pc[u] = "waiting"
         /\ pc' = [pc EXCEPT ![t] = "unassign", ![u] = "lock"]
  ELSE pc' = [pc EXCEPT ![t] = "unassign"]

UnassignHolder(t) ==
  /\ Goes(t, "unassign", "unlock")
  /\ holder' = NoThread
  /\ UNCHANGED <<bounded, owner, queue, front, items, taken>>

\* pthread_mutex_unlock
Unlock(t) ==
  /\ Goes(t, "unlock", "idle")
  /\ owner' = NoThread
  /\ UNCHANGED <<bounded, holder, queue, front, items, taken>>

-----------------------------------------------------------------------------
(* The queues *)

\* A queue with one item too many counts as full (mutation).
FullLate == bounded /\ Len(queue) > Capacity

Full == bounded /\ Len(queue) = Capacity

PutWaits(t) == Full /\ Waits(t)

\* A circular_buffer that is full loses its first item to a new one.
PushBack(x) ==
  IF bounded /\ Len(queue) = Capacity THEN Append(Tail(queue), x)
                                      ELSE Append(queue, x)

PutAdds(t) ==
  /\ ~Full
  /\ Goes(t, "body", "notify")
  /\ items' = items + 1
  /\ queue' = PushBack(items + 1)
  /\ UNCHANGED <<bounded, mutex, front, taken>>

PutNotifies(t) ==
  /\ pc[t] = "notify"
  /\ Signal(t, Consumer)
  /\ UNCHANGED <<bounded, mutex, queue, front, items, taken>>

TakeWaits(t) == queue = <<>> /\ Waits(t)

TakeReadsFront(t) ==
  /\ queue # <<>>
  /\ Goes(t, "body", "pop")
  /\ front' = [front EXCEPT ![t] = Head(queue)]
  /\ UNCHANGED <<bounded, mutex, queue, items, taken>>

TakePops(t) ==
  /\ Goes(t, "pop", IF bounded THEN "notify" ELSE "unassign")
  /\ queue' = Tail(queue)
  /\ taken' = Append(taken, front[t])
  /\ UNCHANGED <<bounded, mutex, front, items>>

\* notEmpty_ is notified in place of notFull_ (mutation).
TakeNotifiesEmpty(t) ==
  /\ pc[t] = "notify"
  /\ Signal(t, Consumer)
  /\ UNCHANGED <<bounded, mutex, queue, front, items, taken>>

TakeNotifies(t) ==
  /\ pc[t] = "notify"
  /\ Signal(t, Producer)
  /\ UNCHANGED <<bounded, mutex, queue, front, items, taken>>

\* size(), empty(), full() and capacity().
Observe(t) ==
  /\ Goes(t, "body", "unassign")
  /\ UNCHANGED <<bounded, mutex, queue, front, items, taken>>

isLockedByThisThread(t) == holder = t

QueueNext ==
  \/ \E t \in Thread : \/ Call(t) \/ Lock(t) \/ AssignHolder(t) \/ CondWait(t)
                       \/ WakesAnyway(t) \/ UnassignHolder(t) \/ Unlock(t)
  \/ \E t \in Producer : PutWaits(t) \/ PutAdds(t) \/ PutNotifies(t)
  \/ \E t \in Consumer : TakeWaits(t) \/ TakeReadsFront(t) \/ TakePops(t)
                         \/ TakeNotifies(t)
  \/ \E t \in Observer : Observe(t)

QueueSpec == QueueInit /\ [][QueueNext]_queueVars

-----------------------------------------------------------------------------
(* Properties *)

\* isLockedByThisThread() is true only in a thread that has the mutex, at any
\* moment and around any wait, though the two are set in separate steps.
HolderIsOwner == \A t \in Thread : isLockedByThisThread(t) => owner = t

\* However the threads interleave, the queue is a FIFO queue of its capacity.
Fifo == INSTANCE FifoQueue WITH
  Item    <- 1 .. MaxItems,
  content <- queue,
  limit   <- IF bounded THEN Capacity ELSE MaxItems,
  took    <- taken

FifoSpec == Fifo!Spec

\* No wakeup is lost: when all threads are out of the queue or wait, none of
\* them waits for what is there, an item to take or room to put one.
NobodyStuck ==
  (\A t \in Thread : pc[t] \in {"idle", "waiting"}) =>
    /\ (\E t \in Consumer : pc[t] = "waiting") => queue = <<>>
    /\ (\E t \in Producer : pc[t] = "waiting") => Full
=============================================================================
