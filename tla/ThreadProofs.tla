---------------------------- MODULE ThreadProofs ----------------------------
(***************************************************************************)
(* Theorems about what threads share, for any number of threads and any    *)
(* capacity.  The blocking queues: holder_ never names a thread without    *)
(* the mutex, both queues implement FifoQueue, and no wakeup is lost.      *)
(* Objects made on first use are accounted for, tickets from an atomic     *)
(* integer differ, and a weak callback runs on a live object only.         *)
(***************************************************************************)
EXTENDS BlockingQueues, Singletons, AtomicInteger, WeakCallback,
        FiniteSetTheorems, TLAPS

-----------------------------------------------------------------------------
(* The blocking queues *)

\* A thread that is about to use the queue, or is using it, has the mutex.
MutexHeld == \A t \in Thread : pc[t] \in Inside => owner = t

\* holder_ is set only between the steps that set and clear it.
HolderInside ==
  holder # NoThread =>
    owner = holder /\ pc[holder] \in {"body", "pop", "notify", "unassign"}

\* take() pops what it has read.
FrontRead ==
  \A t \in Consumer : pc[t] = "pop" => queue # <<>> /\ front[t] = Head(queue)

\* There is room for the items of all calls to put() that have begun.
Room ==
  /\ Len(queue) <= items
  /\ items + Cardinality(Putting) <= MaxItems
  /\ bounded => Len(queue) <= Capacity

QueueInv == QueueTypeOK /\ MutexHeld /\ HolderInside /\ FrontRead /\ Room

-----------------------------------------------------------------------------
(* The set of calls to put() *)

LEMMA PuttingFinite == IsFiniteSet(Putting)
  BY ThreadAssumption, FS_Subset DEF Putting

\* The number of calls does not grow with the set.
LEMMA PuttingShrinks ==
  ASSUME Putting' \subseteq Putting
  PROVE  /\ Cardinality(Putting) \in Nat
         /\ Cardinality(Putting') \in Nat
         /\ Cardinality(Putting') <= Cardinality(Putting)
  BY PuttingFinite, FS_Subset, FS_CardinalityType

LEMMA PuttingAdds ==
  ASSUME NEW t, Putting' \subseteq Putting \cup {t}
  PROVE  /\ Cardinality(Putting) \in Nat
         /\ Cardinality(Putting') \in Nat
         /\ Cardinality(Putting') <= Cardinality(Putting) + 1
<1>1. /\ IsFiniteSet(Putting \cup {t})
      /\ Cardinality(Putting \cup {t}) <= Cardinality(Putting) + 1
      /\ Cardinality(Putting) \in Nat
  BY PuttingFinite, FS_AddElement, FS_CardinalityType
<1> QED
  BY <1>1, FS_Subset, FS_CardinalityType

LEMMA PuttingRemoves ==
  ASSUME NEW t \in Putting, Putting' \subseteq Putting \ {t}
  PROVE  /\ Cardinality(Putting) \in Nat
         /\ Cardinality(Putting') \in Nat
         /\ Cardinality(Putting') <= Cardinality(Putting) - 1
<1>1. /\ IsFiniteSet(Putting \ {t})
      /\ Cardinality(Putting \ {t}) = Cardinality(Putting) - 1
      /\ Cardinality(Putting) \in Nat
  BY PuttingFinite, FS_RemoveElement, FS_CardinalityType
<1> QED
  BY <1>1, FS_Subset, FS_CardinalityType

\* The first element of a sequence, the rest, and one more element.
LEMMA Elements ==
  ASSUME NEW S, NEW q \in Seq(S)
  PROVE  /\ Len(q) \in Nat
         /\ \A x \in S : Append(q, x) \in Seq(S) /\ Len(Append(q, x)) = Len(q) + 1
         /\ q # <<>> => /\ Head(q) \in S
                        /\ Tail(q) \in Seq(S)
                        /\ Len(Tail(q)) = Len(q) - 1
  OBVIOUS

-----------------------------------------------------------------------------
(* The initial states *)

LEMMA InitQueueInv == ASSUME QueueInit PROVE QueueInv
<1> USE DEF QueueInit
<1>1. QueueTypeOK
  BY BoundAssumption DEF QueueTypeOK
<1>2. MutexHeld /\ HolderInside /\ FrontRead
  BY DEF MutexHeld, HolderInside, FrontRead, Thread, Inside
<1>3. Putting = {}
  BY DEF Putting, Thread
<1>4. Room
  BY <1>3, FS_EmptySet, BoundAssumption DEF Room
<1> QED
  BY <1>1, <1>2, <1>4 DEF QueueInv

-----------------------------------------------------------------------------
(* The steps *)

\* What every step does: one thread goes on, and pthread_cond_signal may send
\* one that waits back to the mutex.
LEMMA GoesType ==
  ASSUME QueueTypeOK, NEW t \in Thread, NEW from,
         NEW to \in {"idle", "lock", "waiting"} \cup Inside, Goes(t, from, to)
  PROVE  /\ pc' \in [Thread -> {"idle", "lock", "waiting"} \cup Inside]
         /\ pc[t] = from /\ pc'[t] = to
         /\ \A u \in Thread \ {t} : pc'[u] = pc[u]
  BY DEF QueueTypeOK, Goes

LEMMA SignalType ==
  ASSUME QueueTypeOK, NEW t \in Thread, NEW waiters \in SUBSET Thread,
         pc[t] = "notify", Signal(t, waiters)
  PROVE  /\ pc' \in [Thread -> {"idle", "lock", "waiting"} \cup Inside]
         /\ pc'[t] = "unassign"
         /\ \A u \in Thread \ {t} : \/ pc'[u] = pc[u]
                                    \/ pc[u] = "waiting" /\ pc'[u] = "lock"
<1>1. CASE pc' = [pc EXCEPT ![t] = "unassign"]
  BY <1>1 DEF QueueTypeOK, Inside
<1>2. CASE \E u \in waiters :
             pc[u] = "waiting" /\ pc' = [pc EXCEPT ![t] = "unassign", ![u] = "lock"]
  BY <1>2 DEF QueueTypeOK, Inside
<1> QED
  BY <1>1, <1>2 DEF Signal

\* The threads differ in what they do: their sets are disjoint.
LEMMA Threads ==
  /\ Producer \subseteq Thread /\ Consumer \subseteq Thread
  /\ Observer \subseteq Thread
  /\ NoThread \notin Thread
  /\ Producer \cap Consumer = {}
  BY ThreadAssumption DEF Thread

\* A step that leaves the queue and the numbers alone keeps the room, if it
\* begins no call.
LEMMA RoomKept ==
  ASSUME QueueInv, Putting' \subseteq Putting, UNCHANGED <<bounded, queue, items>>
  PROVE  Room'
  BY PuttingShrinks, BoundAssumption DEF QueueInv, Room, QueueTypeOK

LEMMA CallStep ==
  ASSUME QueueInv, NEW t \in Thread, Call(t)
  PROVE  QueueInv'
<1> USE DEF QueueInv
<1>1. /\ pc' \in [Thread -> {"idle", "lock", "waiting"} \cup Inside]
      /\ pc[t] = "idle" /\ pc'[t] = "lock"
      /\ \A u \in Thread \ {t} : pc'[u] = pc[u]
  BY GoesType DEF Call
<1>2. UNCHANGED <<bounded, owner, holder, queue, front, items, taken>>
  BY DEF Call, mutex
<1>3. QueueTypeOK'
  BY <1>1, <1>2 DEF QueueTypeOK
<1>4. MutexHeld'
  BY <1>1, <1>2 DEF MutexHeld, Inside
<1>5. HolderInside'
  BY <1>1, <1>2 DEF HolderInside, QueueTypeOK
<1>6. FrontRead'
  BY <1>1, <1>2, Threads DEF FrontRead
<1>7. Room'
  <2>1. CASE t \in Producer
    <3>1. items + Cardinality(Putting) < MaxItems
      BY <2>1 DEF Call
    <3>2. Putting' \subseteq Putting \cup {t}
      BY <1>1, Threads DEF Putting
    <3>3. /\ Cardinality(Putting) \in Nat /\ Cardinality(Putting') \in Nat
          /\ Cardinality(Putting') <= Cardinality(Putting) + 1
      BY <3>2, PuttingAdds
    <3>4. items \in Nat /\ items' = items
      BY <1>2 DEF QueueTypeOK
    <3>5. items' + Cardinality(Putting') <= MaxItems
      BY <3>1, <3>3, <3>4, BoundAssumption
    <3> QED
      BY <3>5, <1>2 DEF Room
  <2>2. CASE t \notin Producer
    <3>1. Putting' \subseteq Putting
      BY <2>2, <1>1, Threads DEF Putting
    <3> QED
      BY <3>1, <1>2, RoomKept
  <2> QED
    BY <2>1, <2>2
<1> QED
  BY <1>3, <1>4, <1>5, <1>6, <1>7

LEMMA LockStep ==
  ASSUME QueueInv, NEW t \in Thread, Lock(t)
  PROVE  QueueInv'
<1> USE DEF QueueInv
<1>1. /\ pc' \in [Thread -> {"idle", "lock", "waiting"} \cup Inside]
      /\ pc[t] = "lock" /\ pc'[t] = "assign"
      /\ \A u \in Thread \ {t} : pc'[u] = pc[u]
  BY GoesType DEF Lock, Inside
<1>2. /\ UNCHANGED <<bounded, holder, queue, front, items, taken>>
      /\ owner = NoThread /\ owner' = t
  BY DEF Lock
<1>3. QueueTypeOK'
  BY <1>1, <1>2 DEF QueueTypeOK
<1>4. MutexHeld'
  BY <1>1, <1>2, Threads DEF MutexHeld
<1>5. HolderInside'
  BY <1>2 DEF HolderInside
<1>6. FrontRead'
  BY <1>1, <1>2, Threads DEF FrontRead
<1>7. Putting' \subseteq Putting
  BY <1>1, Threads DEF Putting
<1> QED
  BY <1>2, <1>3, <1>4, <1>5, <1>6, <1>7, RoomKept

LEMMA AssignStep ==
  ASSUME QueueInv, NEW t \in Thread, AssignHolder(t)
  PROVE  QueueInv'
<1> USE DEF QueueInv
<1>1. /\ pc' \in [Thread -> {"idle", "lock", "waiting"} \cup Inside]
      /\ pc[t] = "assign" /\ pc'[t] = "body"
      /\ \A u \in Thread \ {t} : pc'[u] = pc[u]
  BY GoesType DEF AssignHolder, Inside
<1>2. UNCHANGED <<bounded, owner, queue, front, items, taken>> /\ holder' = t
  BY DEF AssignHolder
<1>3. QueueTypeOK'
  BY <1>1, <1>2 DEF QueueTypeOK
<1>4. MutexHeld'
  BY <1>1, <1>2 DEF MutexHeld, Inside
<1>5. HolderInside'
  BY <1>1, <1>2 DEF HolderInside, MutexHeld, Inside
<1>6. FrontRead'
  BY <1>1, <1>2, Threads DEF FrontRead
<1>7. Putting' \subseteq Putting
  BY <1>1, Threads DEF Putting
<1> QED
  BY <1>2, <1>3, <1>4, <1>5, <1>6, <1>7, RoomKept

LEMMA WaitsStep ==
  ASSUME QueueInv, NEW t \in Thread, Waits(t)
  PROVE  QueueInv'
<1> USE DEF QueueInv
<1>1. /\ pc' \in [Thread -> {"idle", "lock", "waiting"} \cup Inside]
      /\ pc[t] = "body" /\ pc'[t] = "wait"
      /\ \A u \in Thread \ {t} : pc'[u] = pc[u]
  BY GoesType DEF Waits, Inside
<1>2. UNCHANGED <<bounded, owner, queue, front, items, taken>> /\ holder' = NoThread
  BY DEF Waits
<1>3. QueueTypeOK'
  BY <1>1, <1>2 DEF QueueTypeOK
<1>4. MutexHeld'
  BY <1>1, <1>2 DEF MutexHeld, Inside
<1>5. HolderInside'
  BY <1>2 DEF HolderInside
<1>6. FrontRead'
  BY <1>1, <1>2, Threads DEF FrontRead
<1>7. Putting' \subseteq Putting
  BY <1>1, Threads DEF Putting
<1> QED
  BY <1>2, <1>3, <1>4, <1>5, <1>6, <1>7, RoomKept

LEMMA CondWaitStep ==
  ASSUME QueueInv, NEW t \in Thread, CondWait(t)
  PROVE  QueueInv'
<1> USE DEF QueueInv
<1>1. /\ pc' \in [Thread -> {"idle", "lock", "waiting"} \cup Inside]
      /\ pc[t] = "wait" /\ pc'[t] = "waiting"
      /\ \A u \in Thread \ {t} : pc'[u] = pc[u]
  BY GoesType DEF CondWait, Inside
<1>2. UNCHANGED <<bounded, holder, queue, front, items, taken>> /\ owner' = NoThread
  BY DEF CondWait
<1>3. owner = t
  BY <1>1 DEF MutexHeld, Inside
<1>4. QueueTypeOK'
  BY <1>1, <1>2 DEF QueueTypeOK
<1>5. MutexHeld'
  BY <1>1, <1>2, <1>3 DEF MutexHeld, Inside
<1>6. HolderInside'
  BY <1>1, <1>2, <1>3, Threads DEF HolderInside
<1>7. FrontRead'
  BY <1>1, <1>2, Threads DEF FrontRead
<1>8. Putting' \subseteq Putting
  BY <1>1, Threads DEF Putting
<1> QED
  BY <1>2, <1>4, <1>5, <1>6, <1>7, <1>8, RoomKept

LEMMA WakesStep ==
  ASSUME QueueInv, NEW t \in Thread, WakesAnyway(t)
  PROVE  QueueInv'
<1> USE DEF QueueInv
<1>1. /\ pc' \in [Thread -> {"idle", "lock", "waiting"} \cup Inside]
      /\ pc[t] = "waiting" /\ pc'[t] = "lock"
      /\ \A u \in Thread \ {t} : pc'[u] = pc[u]
  BY GoesType DEF WakesAnyway
<1>2. UNCHANGED <<bounded, owner, holder, queue, front, items, taken>>
  BY DEF WakesAnyway, mutex
<1>3. QueueTypeOK'
  BY <1>1, <1>2 DEF QueueTypeOK
<1>4. MutexHeld'
  BY <1>1, <1>2 DEF MutexHeld, Inside
<1>5. HolderInside'
  BY <1>1, <1>2 DEF HolderInside, QueueTypeOK
<1>6. FrontRead'
  BY <1>1, <1>2, Threads DEF FrontRead
<1>7. Putting' \subseteq Putting
  BY <1>1, Threads DEF Putting
<1> QED
  BY <1>2, <1>3, <1>4, <1>5, <1>6, <1>7, RoomKept

LEMMA UnassignStep ==
  ASSUME QueueInv, NEW t \in Thread, UnassignHolder(t)
  PROVE  QueueInv'
<1> USE DEF QueueInv
<1>1. /\ pc' \in [Thread -> {"idle", "lock", "waiting"} \cup Inside]
      /\ pc[t] = "unassign" /\ pc'[t] = "unlock"
      /\ \A u \in Thread \ {t} : pc'[u] = pc[u]
  BY GoesType DEF UnassignHolder, Inside
<1>2. UNCHANGED <<bounded, owner, queue, front, items, taken>> /\ holder' = NoThread
  BY DEF UnassignHolder
<1>3. QueueTypeOK'
  BY <1>1, <1>2 DEF QueueTypeOK
<1>4. MutexHeld'
  BY <1>1, <1>2 DEF MutexHeld, Inside
<1>5. HolderInside'
  BY <1>2 DEF HolderInside
<1>6. FrontRead'
  BY <1>1, <1>2, Threads DEF FrontRead
<1>7. Putting' \subseteq Putting
  BY <1>1, Threads DEF Putting
<1> QED
  BY <1>2, <1>3, <1>4, <1>5, <1>6, <1>7, RoomKept

LEMMA UnlockStep ==
  ASSUME QueueInv, NEW t \in Thread, Unlock(t)
  PROVE  QueueInv'
<1> USE DEF QueueInv
<1>1. /\ pc' \in [Thread -> {"idle", "lock", "waiting"} \cup Inside]
      /\ pc[t] = "unlock" /\ pc'[t] = "idle"
      /\ \A u \in Thread \ {t} : pc'[u] = pc[u]
  BY GoesType DEF Unlock
<1>2. UNCHANGED <<bounded, holder, queue, front, items, taken>> /\ owner' = NoThread
  BY DEF Unlock
<1>3. owner = t
  BY <1>1 DEF MutexHeld, Inside
<1>4. QueueTypeOK'
  BY <1>1, <1>2 DEF QueueTypeOK
<1>5. MutexHeld'
  BY <1>1, <1>2, <1>3 DEF MutexHeld, Inside
<1>6. HolderInside'
  BY <1>1, <1>2, <1>3, Threads DEF HolderInside
<1>7. FrontRead'
  BY <1>1, <1>2, Threads DEF FrontRead
<1>8. Putting' \subseteq Putting
  BY <1>1, Threads DEF Putting
<1> QED
  BY <1>2, <1>4, <1>5, <1>6, <1>7, <1>8, RoomKept

\* No other thread is inside.
LEMMA Alone ==
  ASSUME QueueInv, NEW t \in Thread, pc[t] \in Inside
  PROVE  owner = t /\ \A u \in Thread \ {t} : pc[u] \notin Inside
  BY DEF QueueInv, MutexHeld

LEMMA PutAddsStep ==
  ASSUME QueueInv, NEW t \in Producer, PutAdds(t)
  PROVE  /\ QueueInv'
         /\ queue' = Append(queue, items + 1) /\ items + 1 \in 1 .. MaxItems
         /\ bounded => Len(queue) < Capacity
         /\ Len(queue) < MaxItems
<1> USE DEF QueueInv
<1>1. /\ pc' \in [Thread -> {"idle", "lock", "waiting"} \cup Inside]
      /\ pc[t] = "body" /\ pc'[t] = "notify"
      /\ \A u \in Thread \ {t} : pc'[u] = pc[u]
  BY GoesType, Threads DEF PutAdds, Inside
<1>2. /\ UNCHANGED <<bounded, owner, holder, front, taken>>
      /\ items' = items + 1 /\ queue' = PushBack(items + 1) /\ ~Full
  BY DEF PutAdds, mutex
<1>3. queue' = Append(queue, items + 1)
  BY <1>2 DEF PushBack, Full
<1>4. /\ Cardinality(Putting) \in Nat /\ Cardinality(Putting') \in Nat
      /\ Cardinality(Putting') <= Cardinality(Putting) - 1
  <2>1. t \in Putting /\ Putting' \subseteq Putting \ {t}
    BY <1>1, Threads DEF Putting
  <2> QED
    BY <2>1, PuttingRemoves
<1>5. /\ items \in Nat /\ MaxItems \in Nat /\ items + 1 <= MaxItems
      /\ items' + Cardinality(Putting') <= MaxItems
  BY <1>2, <1>4, BoundAssumption DEF Room, QueueTypeOK
<1>6. /\ queue \in Seq(1 .. MaxItems) /\ Len(queue') = Len(queue) + 1
      /\ Len(queue) \in Nat
  BY <1>3, <1>5 DEF QueueTypeOK
<1>7. QueueTypeOK'
  <2>1. items + 1 \in 1 .. MaxItems /\ items' \in 0 .. MaxItems
    BY <1>2, <1>5
  <2>2. queue' \in Seq(1 .. MaxItems)
    BY <1>3, <1>6, <2>1, Elements
  <2> QED
    BY <1>1, <1>2, <2>1, <2>2 DEF QueueTypeOK
<1>8. MutexHeld'
  BY <1>1, <1>2 DEF MutexHeld, Inside
<1>9. HolderInside'
  BY <1>1, <1>2 DEF HolderInside, QueueTypeOK
<1>10. FrontRead'
  <2>1. \A u \in Consumer : u # t /\ u \in Thread
    BY Threads
  <2>2. \A u \in Consumer : pc'[u] # "pop"
    BY <2>1, <1>1, Alone, Threads DEF Inside
  <2> QED
    BY <2>2 DEF FrontRead
<1>11. bounded => Len(queue) < Capacity
  BY <1>2, <1>6, BoundAssumption DEF Room, Full
<1>12. Room' /\ Len(queue) < MaxItems
  BY <1>2, <1>5, <1>6, <1>11, BoundAssumption DEF Room
<1> QED
  BY <1>3, <1>5, <1>7, <1>8, <1>9, <1>10, <1>11, <1>12

\* pthread_cond_signal for any of the two conditions.
LEMMA NotifyStep ==
  ASSUME QueueInv, NEW t \in Thread, NEW waiters \in SUBSET Thread,
         pc[t] = "notify", Signal(t, waiters),
         UNCHANGED <<bounded, mutex, queue, front, items, taken>>
  PROVE  QueueInv'
<1> USE DEF QueueInv
<1>1. /\ pc' \in [Thread -> {"idle", "lock", "waiting"} \cup Inside]
      /\ pc'[t] = "unassign"
      /\ \A u \in Thread \ {t} : \/ pc'[u] = pc[u]
                                 \/ pc[u] = "waiting" /\ pc'[u] = "lock"
  BY SignalType
<1>2. UNCHANGED <<bounded, owner, holder, queue, front, items, taken>>
  BY DEF mutex
<1>3. QueueTypeOK'
  BY <1>1, <1>2 DEF QueueTypeOK
<1>4. MutexHeld'
  BY <1>1, <1>2 DEF MutexHeld, Inside
<1>5. HolderInside'
  BY <1>1, <1>2 DEF HolderInside, QueueTypeOK
<1>6. FrontRead'
  BY <1>1, <1>2, Threads DEF FrontRead
<1>7. Putting' \subseteq Putting
  BY <1>1, Threads DEF Putting
<1> QED
  BY <1>2, <1>3, <1>4, <1>5, <1>6, <1>7, RoomKept

LEMMA ReadsFrontStep ==
  ASSUME QueueInv, NEW t \in Consumer, TakeReadsFront(t)
  PROVE  QueueInv'
<1> USE DEF QueueInv
<1>1. /\ pc' \in [Thread -> {"idle", "lock", "waiting"} \cup Inside]
      /\ pc[t] = "body" /\ pc'[t] = "pop"
      /\ \A u \in Thread \ {t} : pc'[u] = pc[u]
  BY GoesType, Threads DEF TakeReadsFront, Inside
<1>2. /\ UNCHANGED <<bounded, owner, holder, queue, items, taken>>
      /\ queue # <<>> /\ front' = [front EXCEPT ![t] = Head(queue)]
  BY DEF TakeReadsFront, mutex
<1>3. Head(queue) \in 1 .. MaxItems
  <2>1. queue \in Seq(1 .. MaxItems)
    BY DEF QueueTypeOK
  <2> QED
    BY <1>2, <2>1, Elements
<1>4. front' \in [Consumer -> 0 .. MaxItems]
  BY <1>2, <1>3, BoundAssumption DEF QueueTypeOK
<1>5. QueueTypeOK'
  BY <1>1, <1>2, <1>4 DEF QueueTypeOK
<1>6. MutexHeld'
  BY <1>1, <1>2 DEF MutexHeld, Inside
<1>7. HolderInside'
  BY <1>1, <1>2 DEF HolderInside, QueueTypeOK
<1>8. FrontRead'
  BY <1>1, <1>2, Threads DEF FrontRead, QueueTypeOK
<1>9. Putting' \subseteq Putting
  BY <1>1, Threads DEF Putting
<1> QED
  BY <1>2, <1>5, <1>6, <1>7, <1>8, <1>9, RoomKept

LEMMA PopsStep ==
  ASSUME QueueInv, NEW t \in Consumer, TakePops(t)
  PROVE  /\ QueueInv'
         /\ queue # <<>> /\ queue' = Tail(queue)
         /\ taken' = Append(taken, Head(queue))
<1> USE DEF QueueInv
<1> DEFINE to == IF bounded THEN "notify" ELSE "unassign"
<1>1. /\ pc' \in [Thread -> {"idle", "lock", "waiting"} \cup Inside]
      /\ pc[t] = "pop" /\ pc'[t] = to
      /\ \A u \in Thread \ {t} : pc'[u] = pc[u]
  <2>1. to \in Inside /\ t \in Thread /\ Goes(t, "pop", to)
    BY Threads DEF TakePops, Inside
  <2> HIDE DEF to
  <2> QED
    BY <2>1, GoesType
<1>2. /\ UNCHANGED <<bounded, owner, holder, front, items>>
      /\ queue' = Tail(queue) /\ taken' = Append(taken, front[t])
  BY DEF TakePops, mutex
<1>3. queue # <<>> /\ front[t] = Head(queue)
  BY <1>1 DEF FrontRead
<1>4. /\ queue' \in Seq(1 .. MaxItems) /\ taken' \in Seq(1 .. MaxItems)
      /\ Len(queue') = Len(queue) - 1 /\ Len(queue) \in Nat
  <2>1. queue \in Seq(1 .. MaxItems) /\ taken \in Seq(1 .. MaxItems)
    BY DEF QueueTypeOK
  <2> QED
    BY <1>2, <1>3, <2>1, Elements
<1>5. QueueTypeOK'
  BY <1>1, <1>2, <1>4 DEF QueueTypeOK
<1>6. MutexHeld'
  BY <1>1, <1>2 DEF MutexHeld, Inside
<1>7. HolderInside'
  BY <1>1, <1>2 DEF HolderInside, QueueTypeOK, Inside
<1>8. FrontRead'
  <2>1. \A u \in Consumer : pc'[u] # "pop"
    BY <1>1, Alone, Threads DEF Inside
  <2> QED
    BY <2>1 DEF FrontRead
<1>9. Room'
  <2>1. Putting' \subseteq Putting
    BY <1>1, Threads DEF Putting
  <2> QED
    BY <2>1, <1>2, <1>4, PuttingShrinks, BoundAssumption DEF Room, QueueTypeOK
<1> QED
  BY <1>2, <1>3, <1>5, <1>6, <1>7, <1>8, <1>9

LEMMA ObserveStep ==
  ASSUME QueueInv, NEW t \in Observer, Observe(t)
  PROVE  QueueInv'
<1> USE DEF QueueInv
<1>1. /\ pc' \in [Thread -> {"idle", "lock", "waiting"} \cup Inside]
      /\ pc[t] = "body" /\ pc'[t] = "unassign"
      /\ \A u \in Thread \ {t} : pc'[u] = pc[u]
  BY GoesType, Threads DEF Observe, Inside
<1>2. UNCHANGED <<bounded, owner, holder, queue, front, items, taken>>
  BY DEF Observe, mutex
<1>3. QueueTypeOK'
  BY <1>1, <1>2 DEF QueueTypeOK
<1>4. MutexHeld'
  BY <1>1, <1>2 DEF MutexHeld, Inside
<1>5. HolderInside'
  BY <1>1, <1>2 DEF HolderInside, QueueTypeOK
<1>6. FrontRead'
  BY <1>1, <1>2, Threads DEF FrontRead
<1>7. Putting' \subseteq Putting
  BY <1>1, Threads DEF Putting
<1> QED
  BY <1>2, <1>3, <1>4, <1>5, <1>6, <1>7, RoomKept

LEMMA StepQueueInv == ASSUME QueueInv, QueueNext PROVE QueueInv'
<1>1. ASSUME NEW t \in Thread,
             \/ Call(t) \/ Lock(t) \/ AssignHolder(t) \/ CondWait(t)
             \/ WakesAnyway(t) \/ UnassignHolder(t) \/ Unlock(t)
      PROVE  QueueInv'
  BY <1>1, CallStep, LockStep, AssignStep, CondWaitStep, WakesStep, UnassignStep,
     UnlockStep
<1>2. ASSUME NEW t \in Producer, PutWaits(t) \/ PutAdds(t) \/ PutNotifies(t)
      PROVE  QueueInv'
  BY <1>2, Threads, WaitsStep, PutAddsStep, NotifyStep DEF PutWaits, PutNotifies
<1>3. ASSUME NEW t \in Consumer,
             TakeWaits(t) \/ TakeReadsFront(t) \/ TakePops(t) \/ TakeNotifies(t)
      PROVE  QueueInv'
  BY <1>3, Threads, WaitsStep, ReadsFrontStep, PopsStep, NotifyStep
     DEF TakeWaits, TakeNotifies
<1>4. ASSUME NEW t \in Observer, Observe(t) PROVE QueueInv'
  BY <1>4, ObserveStep
<1> QED
  BY <1>1, <1>2, <1>3, <1>4 DEF QueueNext

-----------------------------------------------------------------------------
(* Theorems *)

\* The invariant of the queues holds for any threads that call them.
THEOREM QueueInvariant == QueueSpec => []QueueInv
<1>1. QueueInit => QueueInv
  BY InitQueueInv
<1>2. QueueInv /\ [QueueNext]_queueVars => QueueInv'
  <2> SUFFICES ASSUME QueueInv, [QueueNext]_queueVars PROVE QueueInv'
    OBVIOUS
  <2>1. CASE UNCHANGED queueVars
    BY <2>1
       DEF QueueInv, queueVars, mutex, QueueTypeOK, MutexHeld, HolderInside, FrontRead,
           Room, Putting
  <2> QED
    BY <2>1, StepQueueInv
<1> QED
  BY <1>1, <1>2, PTL DEF QueueSpec

\* holder_, and with it isLockedByThisThread(), is right for any number of
\* threads, though it is set after the mutex is locked, cleared before it is
\* unlocked, and cleared and set around every wait().
THEOREM HolderAlwaysOwner == QueueSpec => []HolderIsOwner
<1>1. QueueInv => HolderIsOwner
  BY ThreadAssumption DEF QueueInv, HolderInside, HolderIsOwner, isLockedByThisThread
<1> QED
  BY <1>1, QueueInvariant, PTL

\* BlockingQueue and BoundedBlockingQueue implement FifoQueue: no item is lost,
\* taken twice or out of order, and a bounded queue never overflows, though
\* its circular buffer would then silently drop the oldest item.
THEOREM FifoRefined == QueueSpec => FifoSpec
<1>1. QueueInit => Fifo!Init
  BY BoundAssumption DEF QueueInit, Fifo!Init
<1>2. QueueInv /\ [QueueNext]_queueVars =>
        [Fifo!Next]_<<queue, IF bounded THEN Capacity ELSE MaxItems, taken>>
  <2> SUFFICES ASSUME QueueInv, [QueueNext]_queueVars,
                      ~UNCHANGED <<queue, bounded, taken>>
               PROVE  Fifo!Next
    OBVIOUS
  <2>1. CASE \E t \in Producer : PutAdds(t)
    <3>1. PICK t \in Producer : PutAdds(t)
      BY <2>1
    <3>2. /\ queue' = Append(queue, items + 1) /\ items + 1 \in 1 .. MaxItems
          /\ bounded => Len(queue) < Capacity
          /\ Len(queue) < MaxItems
      BY <3>1, PutAddsStep
    <3>3. UNCHANGED <<bounded, taken>>
      BY <3>1 DEF PutAdds
    <3> QED
      BY <3>2, <3>3 DEF Fifo!Next, Fifo!Put
  <2>2. CASE \E t \in Consumer : TakePops(t)
    <3>1. PICK t \in Consumer : TakePops(t)
      BY <2>2
    <3>2. queue # <<>> /\ queue' = Tail(queue) /\ taken' = Append(taken, Head(queue))
      BY <3>1, PopsStep
    <3>3. UNCHANGED bounded
      BY <3>1 DEF TakePops
    <3> QED
      BY <3>2, <3>3 DEF Fifo!Next, Fifo!Take
  <2>3. QueueNext
    BY DEF queueVars
  <2> QED
    BY <2>1, <2>2, <2>3
       DEF QueueNext, Call, Lock, AssignHolder, CondWait, WakesAnyway,
           UnassignHolder, Unlock, PutWaits, PutNotifies, TakeWaits, Waits,
           TakeReadsFront, TakeNotifies, Observe
<1> QED
  BY <1>1, <1>2, QueueInvariant, PTL DEF QueueSpec, FifoSpec, Fifo!Spec

-----------------------------------------------------------------------------
(* No wakeup is lost *)

\* The threads that will take an item, or see that one is taken, without being
\* notified: consumers on their way to the queue, and producers about to notify.
TakesSoon ==
  {t \in Consumer : pc[t] \in {"lock", "assign", "body", "pop"}}
    \cup {t \in Producer : pc[t] = "notify"}

\* The threads that will fill a free place, or see that one is filled.
PutsSoon ==
  {t \in Producer : pc[t] \in {"lock", "assign", "body"}}
    \cup {t \in Consumer : pc[t] = "notify"}

\* While a consumer waits, there is a thread awake for every item.
TakersAwake ==
  /\ \A t \in Consumer : pc[t] = "wait" => queue = <<>>
  /\ (\E t \in Consumer : pc[t] = "waiting") => Len(queue) <= Cardinality(TakesSoon)

\* While a producer waits, there is a thread awake for every free place.
PuttersAwake ==
  /\ \A t \in Producer : pc[t] = "wait" => Full
  /\ (\E t \in Producer : pc[t] = "waiting") =>
       bounded /\ Capacity - Len(queue) <= Cardinality(PutsSoon)

Awake == TakersAwake /\ PuttersAwake

LEMMA SoonFinite ==
  /\ IsFiniteSet(TakesSoon) /\ Cardinality(TakesSoon) \in Nat
  /\ IsFiniteSet(PutsSoon) /\ Cardinality(PutsSoon) \in Nat
<1>1. IsFiniteSet(Producer \cup Consumer)
  BY ThreadAssumption, FS_Union
<1>2. TakesSoon \subseteq Producer \cup Consumer /\ PutsSoon \subseteq Producer \cup Consumer
  BY DEF TakesSoon, PutsSoon
<1> QED
  BY <1>1, <1>2, FS_Subset, FS_CardinalityType

LEMMA SoonFiniteNext ==
  /\ IsFiniteSet(TakesSoon') /\ Cardinality(TakesSoon') \in Nat
  /\ IsFiniteSet(PutsSoon') /\ Cardinality(PutsSoon') \in Nat
<1>1. IsFiniteSet(Producer \cup Consumer)
  BY ThreadAssumption, FS_Union
<1>2. /\ TakesSoon' \subseteq Producer \cup Consumer
      /\ PutsSoon' \subseteq Producer \cup Consumer
  BY DEF TakesSoon, PutsSoon
<1> QED
  BY <1>1, <1>2, FS_Subset, FS_CardinalityType

\* A set loses at most one element, keeps as many by exchanging one for another,
\* or gains one.
LEMMA LosesOne ==
  ASSUME NEW S, NEW U, NEW x, IsFiniteSet(S), IsFiniteSet(U), S \ {x} \subseteq U
  PROVE  Cardinality(S) - 1 <= Cardinality(U)
<1>1. /\ IsFiniteSet(S \ {x})
      /\ Cardinality(S \ {x}) = IF x \in S THEN Cardinality(S) - 1 ELSE Cardinality(S)
  BY FS_RemoveElement
<1>2. Cardinality(S) \in Nat /\ Cardinality(U) \in Nat /\ Cardinality(S \ {x}) \in Nat
  BY <1>1, FS_CardinalityType
<1>3. Cardinality(S \ {x}) <= Cardinality(U)
  BY FS_Subset
<1> QED
  BY <1>1, <1>2, <1>3

LEMMA GainsOne ==
  ASSUME NEW S, NEW U, NEW x, IsFiniteSet(S), IsFiniteSet(U),
         x \notin S, S \cup {x} \subseteq U
  PROVE  Cardinality(S) + 1 <= Cardinality(U)
<1>1. Cardinality(S \cup {x}) = Cardinality(S) + 1
  BY FS_AddElement
<1> QED
  BY <1>1, FS_Subset

LEMMA Exchanges ==
  ASSUME NEW S, NEW U, NEW x, NEW y, IsFiniteSet(S), IsFiniteSet(U),
         S \ {x} \subseteq U, y \in U, y \notin S
  PROVE  Cardinality(S) <= Cardinality(U)
<1>1. /\ IsFiniteSet(S \ {x})
      /\ Cardinality(S \ {x}) = IF x \in S THEN Cardinality(S) - 1 ELSE Cardinality(S)
  BY FS_RemoveElement
<1>2. Cardinality(S) \in Nat /\ Cardinality(U) \in Nat /\ Cardinality(S \ {x}) \in Nat
  BY <1>1, FS_CardinalityType
<1>3. Cardinality(S \ {x}) + 1 <= Cardinality(U)
  BY <1>1, GainsOne
<1> QED
  BY <1>1, <1>2, <1>3

\* Steps that leave the queue alone and take nobody out of the two sets.
LEMMA QuietStep ==
  ASSUME QueueInv, Awake, NEW t \in Thread, UNCHANGED <<bounded, queue>>,
         \A u \in Thread \ {t} : pc'[u] = pc[u],
         pc'[t] # "wait", pc'[t] = "waiting" => pc[t] = "wait",
         TakesSoon \subseteq TakesSoon', PutsSoon \subseteq PutsSoon'
  PROVE  Awake'
<1> USE DEF Awake
<1>1. /\ Len(queue) \in Nat /\ Capacity \in Nat
      /\ Cardinality(TakesSoon') \in Nat
      /\ Cardinality(TakesSoon) <= Cardinality(TakesSoon')
      /\ Cardinality(PutsSoon') \in Nat
      /\ Cardinality(PutsSoon) <= Cardinality(PutsSoon')
  BY SoonFinite, SoonFiniteNext, FS_Subset, BoundAssumption DEF QueueInv, QueueTypeOK
<1>2. TakersAwake'
  <2>1. ASSUME NEW c \in Consumer, pc'[c] = "waiting"
        PROVE  Len(queue) <= Cardinality(TakesSoon')
    <3>1. CASE pc[c] = "waiting"
      BY <3>1, <1>1, SoonFinite DEF TakersAwake
    <3>2. CASE pc[c] = "wait"
      <4>1. Len(queue) = 0
        BY <3>2 DEF TakersAwake
      <4> QED
        BY <4>1, <1>1
    <3> QED
      BY <2>1, <3>1, <3>2, Threads
  <2> QED
    BY <2>1, Threads DEF TakersAwake
<1>3. PuttersAwake'
  <2>1. ASSUME NEW p \in Producer, pc'[p] = "waiting"
        PROVE  bounded /\ Capacity - Len(queue) <= Cardinality(PutsSoon')
    <3>1. CASE pc[p] = "waiting"
      BY <3>1, <1>1, SoonFinite DEF PuttersAwake
    <3>2. CASE pc[p] = "wait"
      <4>1. bounded /\ Len(queue) = Capacity
        BY <3>2 DEF PuttersAwake, Full
      <4> QED
        BY <4>1, <1>1
    <3> QED
      BY <2>1, <3>1, <3>2, Threads
  <2> QED
    BY <2>1, Threads DEF PuttersAwake, Full
<1> QED
  BY <1>2, <1>3

\* The steps of any thread to and from the mutex and its conditions.
LEMMA MutexAwake ==
  ASSUME QueueInv, Awake, NEW t \in Thread,
         \/ Call(t) \/ Lock(t) \/ AssignHolder(t) \/ CondWait(t)
         \/ WakesAnyway(t) \/ UnassignHolder(t) \/ Unlock(t)
  PROVE  Awake'
<1>1. PICK from, to \in {"idle", "lock", "waiting"} \cup Inside :
        /\ Goes(t, from, to)
        /\ <<from, to>> \in
             {<<"idle", "lock">>, <<"lock", "assign">>, <<"assign", "body">>,
              <<"wait", "waiting">>, <<"waiting", "lock">>,
              <<"unassign", "unlock">>, <<"unlock", "idle">>}
  BY DEF Call, Lock, AssignHolder, CondWait, WakesAnyway, UnassignHolder, Unlock,
         Inside
<1>2. UNCHANGED <<bounded, queue>>
  BY DEF Call, Lock, AssignHolder, CondWait, WakesAnyway, UnassignHolder, Unlock
<1>3. /\ pc[t] = from /\ pc'[t] = to
      /\ \A u \in Thread \ {t} : pc'[u] = pc[u]
  BY <1>1, GoesType DEF QueueInv
<1>4. TakesSoon \subseteq TakesSoon' /\ PutsSoon \subseteq PutsSoon'
  BY <1>1, <1>3, Threads DEF TakesSoon, PutsSoon
<1>5. pc'[t] # "wait" /\ (pc'[t] = "waiting" => pc[t] = "wait")
  BY <1>1, <1>3
<1> QED
  BY <1>2, <1>3, <1>4, <1>5, QuietStep

\* A consumer waits only when there is no item, a producer only when there is no
\* free place: each is one thread less awake, but none is needed.
LEMMA WaitsAwake ==
  ASSUME QueueInv, Awake, NEW t \in Producer \cup Consumer, Waits(t),
         t \in Consumer => queue = <<>>, t \in Producer => Full
  PROVE  Awake'
<1> USE DEF Awake
<1>1. /\ pc[t] = "body" /\ pc'[t] = "wait"
      /\ \A u \in Thread \ {t} : pc'[u] = pc[u]
  BY Threads, GoesType DEF Waits, QueueInv, Inside
<1>2. UNCHANGED <<bounded, queue>>
  BY DEF Waits
<1>3. /\ Len(queue) \in Nat /\ Capacity \in Nat
      /\ Cardinality(TakesSoon') \in Nat /\ Cardinality(PutsSoon') \in Nat
  BY SoonFiniteNext, BoundAssumption DEF QueueInv, QueueTypeOK
<1>4. TakersAwake'
  <2>1. CASE t \in Consumer
    <3>1. queue' = <<>> /\ Len(queue') = 0
      BY <2>1, <1>2
    <3> QED
      BY <3>1, <1>3 DEF TakersAwake
  <2>2. CASE t \notin Consumer
    <3>1. TakesSoon \subseteq TakesSoon'
      BY <2>2, <1>1, Threads DEF TakesSoon
    <3>2. Cardinality(TakesSoon) <= Cardinality(TakesSoon')
      BY <3>1, SoonFiniteNext, FS_Subset
    <3>3. \A c \in Consumer : pc'[c] = pc[c]
      BY <2>2, <1>1, Threads
    <3> QED
      BY <3>2, <3>3, <1>2, <1>3, SoonFinite DEF TakersAwake
  <2> QED
    BY <2>1, <2>2
<1>5. PuttersAwake'
  <2>1. CASE t \in Producer
    <3>1. Full' /\ Capacity - Len(queue') = 0 /\ bounded'
      BY <2>1, <1>2, <1>3 DEF Full
    <3> QED
      BY <3>1, <1>3 DEF PuttersAwake
  <2>2. CASE t \notin Producer
    <3>1. PutsSoon \subseteq PutsSoon'
      BY <2>2, <1>1, Threads DEF PutsSoon
    <3>2. Cardinality(PutsSoon) <= Cardinality(PutsSoon')
      BY <3>1, SoonFiniteNext, FS_Subset
    <3>3. \A p \in Producer : pc'[p] = pc[p]
      BY <2>2, <1>1, Threads
    <3> QED
      BY <3>2, <3>3, <1>2, <1>3, SoonFinite DEF PuttersAwake, Full
  <2> QED
    BY <2>1, <2>2
<1> QED
  BY <1>4, <1>5

\* The thread that changes the queue has the mutex, so no other is about to wait.
LEMMA NoneAboutToWait ==
  ASSUME QueueInv, NEW t \in Thread, pc[t] \in Inside, pc'[t] # "wait",
         \A u \in Thread \ {t} : pc'[u] = pc[u]
  PROVE  \A u \in Thread : pc'[u] # "wait"
  BY Alone DEF Inside

\* One item more, and the producer that put it will notify; one place less.
LEMMA PutAddsAwake ==
  ASSUME QueueInv, Awake, NEW t \in Producer, PutAdds(t)
  PROVE  Awake'
<1> USE DEF Awake
<1>1. /\ pc[t] = "body" /\ pc'[t] = "notify"
      /\ \A u \in Thread \ {t} : pc'[u] = pc[u]
  BY GoesType, Threads DEF PutAdds, QueueInv, Inside
<1>2. UNCHANGED bounded /\ Len(queue') = Len(queue) + 1 /\ Len(queue) \in Nat
  <2>1. queue \in Seq(1 .. MaxItems) /\ queue' = Append(queue, items + 1)
    BY PutAddsStep DEF QueueInv, QueueTypeOK
  <2>2. items + 1 \in 1 .. MaxItems
    BY PutAddsStep
  <2> QED
    BY <2>1, <2>2, Elements DEF PutAdds
<1>3. \A u \in Thread : pc'[u] # "wait"
  BY <1>1, NoneAboutToWait, Threads DEF Inside
<1>4. Cardinality(TakesSoon) + 1 <= Cardinality(TakesSoon')
  <2>1. t \notin TakesSoon /\ TakesSoon \cup {t} \subseteq TakesSoon'
    BY <1>1, Threads DEF TakesSoon
  <2> QED
    BY <2>1, GainsOne, SoonFinite, SoonFiniteNext
<1>5. Cardinality(PutsSoon) - 1 <= Cardinality(PutsSoon')
  <2>1. PutsSoon \ {t} \subseteq PutsSoon'
    BY <1>1, Threads DEF PutsSoon
  <2> QED
    BY <2>1, LosesOne, SoonFinite, SoonFiniteNext
<1>6. \A u \in Thread : pc'[u] = "waiting" => pc[u] = "waiting"
  BY <1>1
<1>7. TakersAwake'
  BY <1>2, <1>3, <1>4, <1>6, SoonFinite, SoonFiniteNext, Threads DEF TakersAwake
<1>8. PuttersAwake'
  BY <1>2, <1>3, <1>5, <1>6, SoonFinite, SoonFiniteNext, Threads, BoundAssumption
     DEF PuttersAwake
<1> QED
  BY <1>7, <1>8

\* One item less and one consumer less; one free place more, and in a bounded
\* queue the consumer that made it will notify.
LEMMA PopsAwake ==
  ASSUME QueueInv, Awake, NEW t \in Consumer, TakePops(t)
  PROVE  Awake'
<1> USE DEF Awake
<1> DEFINE to == IF bounded THEN "notify" ELSE "unassign"
<1>1. /\ pc[t] = "pop" /\ pc'[t] = to
      /\ \A u \in Thread \ {t} : pc'[u] = pc[u]
  <2>1. to \in Inside /\ t \in Thread /\ Goes(t, "pop", to)
    BY Threads DEF TakePops, Inside
  <2> HIDE DEF to
  <2> QED
    BY <2>1, GoesType DEF QueueInv
<1>2. UNCHANGED bounded /\ Len(queue') = Len(queue) - 1 /\ Len(queue) \in Nat
  <2>1. queue \in Seq(1 .. MaxItems) /\ queue # <<>> /\ queue' = Tail(queue)
    BY PopsStep DEF QueueInv, QueueTypeOK
  <2> QED
    BY <2>1, Elements DEF TakePops
<1>3. \A u \in Thread : pc'[u] # "wait"
  BY <1>1, NoneAboutToWait, Threads DEF Inside
<1>4. Cardinality(TakesSoon) - 1 <= Cardinality(TakesSoon')
  <2>1. TakesSoon \ {t} \subseteq TakesSoon'
    BY <1>1, Threads DEF TakesSoon
  <2> QED
    BY <2>1, LosesOne, SoonFinite, SoonFiniteNext
<1>5. bounded => Cardinality(PutsSoon) + 1 <= Cardinality(PutsSoon')
  <2>1. bounded => t \notin PutsSoon /\ PutsSoon \cup {t} \subseteq PutsSoon'
    BY <1>1, Threads DEF PutsSoon
  <2> QED
    BY <2>1, GainsOne, SoonFinite, SoonFiniteNext
<1>6. \A u \in Thread : pc'[u] = "waiting" => pc[u] = "waiting"
  BY <1>1
<1>7. TakersAwake'
  BY <1>2, <1>3, <1>4, <1>6, SoonFinite, SoonFiniteNext, Threads DEF TakersAwake
<1>8. PuttersAwake'
  BY <1>2, <1>3, <1>5, <1>6, SoonFinite, SoonFiniteNext, Threads, BoundAssumption
     DEF PuttersAwake
<1> QED
  BY <1>7, <1>8

\* A producer that notifies is replaced by the consumer it wakes, or no consumer
\* waits; producers on their way are not touched.
LEMMA PutNotifiesAwake ==
  ASSUME QueueInv, Awake, NEW t \in Producer, PutNotifies(t)
  PROVE  Awake'
<1> USE DEF Awake
<1>1. /\ pc[t] = "notify" /\ pc'[t] = "unassign"
      /\ \A u \in Thread \ {t} : \/ pc'[u] = pc[u]
                                 \/ pc[u] = "waiting" /\ pc'[u] = "lock"
  BY SignalType, Threads DEF PutNotifies, QueueInv
<1>2. UNCHANGED <<bounded, queue>> /\ Len(queue) \in Nat
  BY DEF PutNotifies, QueueInv, QueueTypeOK
<1>3. \A u \in Thread : pc'[u] # "wait"
  BY <1>1, Alone, Threads DEF Inside
<1>4. \A u \in Thread : pc'[u] = "waiting" => pc[u] = "waiting"
  BY <1>1
<1>5. TakersAwake'
  <2>1. CASE \E u \in Consumer : pc[u] = "waiting"
    <3>1. PICK u \in Consumer :
            pc[u] = "waiting" /\ pc' = [pc EXCEPT ![t] = "unassign", ![u] = "lock"]
      BY <2>1 DEF PutNotifies, Signal
    <3>2. pc'[u] = "lock"
      BY <3>1, <1>1, Threads DEF QueueInv, QueueTypeOK
    <3>3. TakesSoon \ {t} \subseteq TakesSoon' /\ u \in TakesSoon' /\ u \notin TakesSoon
      BY <1>1, <3>1, <3>2, Threads DEF TakesSoon
    <3>4. Cardinality(TakesSoon) <= Cardinality(TakesSoon')
      BY <3>3, Exchanges, SoonFinite, SoonFiniteNext
    <3> QED
      BY <2>1, <1>2, <1>3, <3>4, SoonFinite, SoonFiniteNext, Threads DEF TakersAwake
  <2>2. CASE ~\E u \in Consumer : pc[u] = "waiting"
    BY <2>2, <1>3, <1>4, Threads DEF TakersAwake
  <2> QED
    BY <2>1, <2>2
<1>6. PuttersAwake'
  <2>1. PutsSoon \subseteq PutsSoon'
    BY <1>1, Threads DEF PutsSoon
  <2>2. Cardinality(PutsSoon) <= Cardinality(PutsSoon')
    BY <2>1, SoonFiniteNext, FS_Subset
  <2> QED
    BY <2>2, <1>2, <1>3, <1>4, SoonFinite, SoonFiniteNext, Threads, BoundAssumption
       DEF PuttersAwake
<1> QED
  BY <1>5, <1>6

\* The same of a consumer of a bounded queue and the producer it wakes.
LEMMA TakeNotifiesAwake ==
  ASSUME QueueInv, Awake, NEW t \in Consumer, TakeNotifies(t)
  PROVE  Awake'
<1> USE DEF Awake
<1>1. /\ pc[t] = "notify" /\ pc'[t] = "unassign"
      /\ \A u \in Thread \ {t} : \/ pc'[u] = pc[u]
                                 \/ pc[u] = "waiting" /\ pc'[u] = "lock"
  BY SignalType, Threads DEF TakeNotifies, QueueInv
<1>2. UNCHANGED <<bounded, queue>> /\ Len(queue) \in Nat
  BY DEF TakeNotifies, QueueInv, QueueTypeOK
<1>3. \A u \in Thread : pc'[u] # "wait"
  BY <1>1, Alone, Threads DEF Inside
<1>4. \A u \in Thread : pc'[u] = "waiting" => pc[u] = "waiting"
  BY <1>1
<1>5. PuttersAwake'
  <2>1. CASE \E u \in Producer : pc[u] = "waiting"
    <3>1. PICK u \in Producer :
            pc[u] = "waiting" /\ pc' = [pc EXCEPT ![t] = "unassign", ![u] = "lock"]
      BY <2>1 DEF TakeNotifies, Signal
    <3>2. pc'[u] = "lock"
      BY <3>1, <1>1, Threads DEF QueueInv, QueueTypeOK
    <3>3. PutsSoon \ {t} \subseteq PutsSoon' /\ u \in PutsSoon' /\ u \notin PutsSoon
      BY <1>1, <3>1, <3>2, Threads DEF PutsSoon
    <3>4. Cardinality(PutsSoon) <= Cardinality(PutsSoon')
      BY <3>3, Exchanges, SoonFinite, SoonFiniteNext
    <3> QED
      BY <2>1, <1>2, <1>3, <3>4, SoonFinite, SoonFiniteNext, Threads, BoundAssumption
         DEF PuttersAwake
  <2>2. CASE ~\E u \in Producer : pc[u] = "waiting"
    BY <2>2, <1>3, <1>4, Threads DEF PuttersAwake
  <2> QED
    BY <2>1, <2>2
<1>6. TakersAwake'
  <2>1. TakesSoon \subseteq TakesSoon'
    BY <1>1, Threads DEF TakesSoon
  <2>2. Cardinality(TakesSoon) <= Cardinality(TakesSoon')
    BY <2>1, SoonFiniteNext, FS_Subset
  <2> QED
    BY <2>2, <1>2, <1>3, <1>4, SoonFinite, SoonFiniteNext, Threads DEF TakersAwake
<1> QED
  BY <1>5, <1>6

LEMMA StepAwake == ASSUME QueueInv, Awake, QueueNext PROVE Awake'
<1>1. ASSUME NEW t \in Thread,
             \/ Call(t) \/ Lock(t) \/ AssignHolder(t) \/ CondWait(t)
             \/ WakesAnyway(t) \/ UnassignHolder(t) \/ Unlock(t)
      PROVE  Awake'
  BY <1>1, MutexAwake
<1>2. ASSUME NEW t \in Producer, PutWaits(t) PROVE Awake'
  BY <1>2, WaitsAwake, Threads DEF PutWaits
<1>3. ASSUME NEW t \in Consumer, TakeWaits(t) PROVE Awake'
  BY <1>3, WaitsAwake, Threads DEF TakeWaits
<1>4. ASSUME NEW t \in Consumer, TakeReadsFront(t) PROVE Awake'
  <2>1. /\ pc[t] = "body" /\ pc'[t] = "pop"
        /\ \A u \in Thread \ {t} : pc'[u] = pc[u]
    BY <1>4, GoesType, Threads DEF TakeReadsFront, QueueInv, Inside
  <2>2. TakesSoon \subseteq TakesSoon' /\ PutsSoon \subseteq PutsSoon'
    BY <2>1, Threads DEF TakesSoon, PutsSoon
  <2> QED
    BY <1>4, <2>1, <2>2, QuietStep, Threads DEF TakeReadsFront
<1>5. ASSUME NEW t \in Observer, Observe(t) PROVE Awake'
  <2>1. /\ pc[t] = "body" /\ pc'[t] = "unassign"
        /\ \A u \in Thread \ {t} : pc'[u] = pc[u]
    BY <1>5, GoesType, Threads DEF Observe, QueueInv, Inside
  <2>2. t \notin Producer /\ t \notin Consumer
    BY ThreadAssumption
  <2>3. TakesSoon \subseteq TakesSoon' /\ PutsSoon \subseteq PutsSoon'
    BY <2>1, <2>2, Threads DEF TakesSoon, PutsSoon
  <2> QED
    BY <1>5, <2>1, <2>3, QuietStep, Threads DEF Observe
<1> QED
  BY <1>1, <1>2, <1>3, <1>4, <1>5, PutAddsAwake, PutNotifiesAwake, PopsAwake,
     TakeNotifiesAwake DEF QueueNext

\* No wakeup is lost, though each put() and each take() wakes one thread only
\* and a thread that has not been notified may take the place of one that has:
\* when no thread is in a queue, a consumer waits only for an item that is not
\* there, a producer only for room that is not there.
THEOREM NobodyEverStuck == QueueSpec => []NobodyStuck
<1>1. QueueInit => Awake
  BY Threads DEF QueueInit, Awake, TakersAwake, PuttersAwake
<1>2. QueueInv /\ Awake /\ [QueueNext]_queueVars => Awake'
  <2> SUFFICES ASSUME QueueInv, Awake, [QueueNext]_queueVars PROVE Awake'
    OBVIOUS
  <2>1. CASE UNCHANGED queueVars
    BY <2>1 DEF queueVars, Awake, TakersAwake, PuttersAwake, Full, TakesSoon, PutsSoon
  <2> QED
    BY <2>1, StepAwake
<1>3. QueueInv /\ Awake => NobodyStuck
  <2> SUFFICES ASSUME QueueInv, Awake, \A t \in Thread : pc[t] \in {"idle", "waiting"}
               PROVE  /\ (\E t \in Consumer : pc[t] = "waiting") => queue = <<>>
                      /\ (\E t \in Producer : pc[t] = "waiting") => Full
    BY DEF NobodyStuck
  <2>1. TakesSoon = {} /\ PutsSoon = {}
    BY Threads DEF TakesSoon, PutsSoon
  <2>2. Cardinality(TakesSoon) = 0 /\ Cardinality(PutsSoon) = 0
    BY <2>1, FS_EmptySet
  <2>3. queue \in Seq(1 .. MaxItems) /\ Len(queue) \in Nat /\ Capacity \in Nat
    BY BoundAssumption DEF QueueInv, QueueTypeOK
  <2>4. (\E t \in Consumer : pc[t] = "waiting") => Len(queue) = 0
    BY <2>2, <2>3 DEF Awake, TakersAwake
  <2>5. (\E t \in Producer : pc[t] = "waiting") => bounded /\ Len(queue) = Capacity
    BY <2>2, <2>3 DEF Awake, PuttersAwake, QueueInv, Room
  <2> QED
    BY <2>3, <2>4, <2>5 DEF Full
<1> QED
  BY <1>1, <1>2, <1>3, QueueInvariant, PTL DEF QueueSpec

-----------------------------------------------------------------------------
(* Weak callbacks *)

Users == Owner \cup Caller

Holders == {t \in Users : step[t] \in {"hold", "run"}}

\* The inductive invariant: the use count is the number of threads that have a
\* reference, and the thread that dropped the last one is the only one left.
WeakInv ==
  /\ count = Cardinality(Holders)
  /\ object \in {"alive", "destroyed"}
  /\ step \in [Users -> {"none", "hold", "run", "destroy"}]
  /\ \A t \in Users : step[t] = "destroy" =>
       /\ count = 0 /\ object = "alive"
       /\ \A u \in Users \ {t} : step[u] # "destroy"
  /\ object = "destroyed" => count = 0

LEMMA HoldersFinite ==
  /\ IsFiniteSet(Holders) /\ IsFiniteSet(Holders')
  /\ Cardinality(Holders) \in Nat /\ Cardinality(Holders') \in Nat
<1>1. IsFiniteSet(Users)
  BY FiniteAssumption, FS_Union DEF Users
<1>2. IsFiniteSet(Holders) /\ IsFiniteSet(Holders')
  BY <1>1, FS_Subset DEF Holders
<1> QED
  BY <1>2, FS_CardinalityType

\* Nobody has a reference if the count is zero.
LEMMA NobodyHolds ==
  ASSUME WeakInv, count = 0
  PROVE  Holders = {}
BY HoldersFinite, FS_EmptySet DEF WeakInv

LEMMA UpgradeStep ==
  ASSUME WeakInv, NEW t \in Caller, LockObject(t)
  PROVE  WeakInv'
<1>1. /\ t \in Users /\ step[t] = "none" /\ step' = [step EXCEPT ![t] = "run"]
      /\ count > 0 /\ count' = count + 1 /\ object' = object
  BY DEF LockObject, Users
<1>2. Holders' = Holders \cup {t} /\ t \notin Holders
  BY <1>1 DEF WeakInv, Holders
<1>3. count' = Cardinality(Holders')
  BY <1>1, <1>2, HoldersFinite, FS_AddElement DEF WeakInv
<1>4. count \in Nat
  BY HoldersFinite DEF WeakInv
<1> QED
  BY <1>1, <1>3, <1>4 DEF WeakInv

LEMMA DropStep ==
  ASSUME WeakInv, NEW t \in Users, Drop(t)
  PROVE  WeakInv'
<1>1. /\ step[t] \in {"hold", "run"}
      /\ step' = [step EXCEPT ![t] = IF count = 1 THEN "destroy" ELSE "none"]
      /\ count > 0 /\ count' = count - 1 /\ object' = object
  BY DEF Drop
<1>2. Holders' = Holders \ {t} /\ t \in Holders
  BY <1>1 DEF WeakInv, Holders
<1>3. count' = Cardinality(Holders')
  BY <1>1, <1>2, HoldersFinite, FS_RemoveElement DEF WeakInv
<1>4. count \in Nat /\ object = "alive" /\ \A u \in Users : step[u] # "destroy"
  BY <1>1, HoldersFinite DEF WeakInv
<1>5. \A u \in Users : step'[u] = "destroy" => u = t /\ count' = 0
  BY <1>1, <1>4 DEF WeakInv
<1> QED
  BY <1>1, <1>3, <1>4, <1>5 DEF WeakInv

LEMMA DestroyStep ==
  ASSUME WeakInv, NEW t \in Users, Destroy(t)
  PROVE  WeakInv'
<1>1. /\ step[t] = "destroy" /\ step' = [step EXCEPT ![t] = "none"]
      /\ count' = count /\ object' = "destroyed"
  BY DEF Destroy
<1>2. Holders' = Holders
  BY <1>1 DEF WeakInv, Holders
<1> QED
  BY <1>1, <1>2 DEF WeakInv

\* However callers and owners interleave, a function runs on an object that is
\* alive and that nobody is about to destroy, and one thread destroys it
\* (WeakCallback::operator()).
THEOREM AlwaysRunsOnLiveObject ==
  WeakSpec => []RunsOnLiveObject
<1>1. WeakInit => WeakInv
  <2> SUFFICES ASSUME WeakInit PROVE WeakInv
    OBVIOUS
  <2>1. Holders = Owner
    BY CallerAssumption DEF WeakInit, Holders, Users
  <2> QED
    BY <2>1 DEF WeakInit, WeakInv, Users
<1>2. WeakInv /\ [WeakNext]_weakVars => WeakInv'
  <2> SUFFICES ASSUME WeakInv, [WeakNext]_weakVars PROVE WeakInv'
    OBVIOUS
  <2>1. CASE UNCHANGED weakVars
    BY <2>1 DEF weakVars, WeakInv, Holders
  <2> QED
    BY <2>1, UpgradeStep, DropStep, DestroyStep DEF WeakNext, Users
<1>3. WeakInv => RunsOnLiveObject
  <2> SUFFICES ASSUME WeakInv PROVE RunsOnLiveObject
    OBVIOUS
  <2>1. ASSUME NEW t \in Users, step[t] \in {"hold", "run"} PROVE count # 0
    BY <2>1, NobodyHolds DEF Holders
  <2> QED
    BY <2>1 DEF WeakInv, RunsOnLiveObject, Users
<1> QED
  BY <1>1, <1>2, <1>3, PTL DEF WeakSpec

-----------------------------------------------------------------------------
(* Objects made on first use *)

\* What has hold of an object beside value_: t_value_, the key and the
\* destructor of ThreadLocal, of each thread.
SlotName == {"tvalue", "key", "dying"}

Slot(t, p) ==
  IF p = "tvalue" THEN tvalue[t]
  ELSE IF p = "key" THEN key[t]["local"] ELSE dying[t]["local"]

\* No object has two that would destroy it.
HeldOnce ==
  /\ \A t \in Worker, p \in SlotName : Slot(t, p) # Null => Slot(t, p) # value
  /\ \A t, u \in Worker : \A p, q \in SlotName :
       Slot(t, p) = Slot(u, q) /\ Slot(t, p) # Null => t = u /\ p = q

HeldAlive ==
  /\ value # Null => value \in alive
  /\ \A t \in Worker, p \in SlotName : Slot(t, p) # Null => Slot(t, p) \in alive

Covered ==
  \A x \in alive :
    \/ x = value
    \/ \E t \in Worker, p \in SlotName : Slot(t, p) = x
    \/ madeFor[x] \in Kind \ keys

Made ==
  /\ \A x \in alive : madeFor[x] # "none"
  /\ \A t \in Worker :
       /\ tvalue[t] # Null => madeFor[tvalue[t]] = "localSingleton"
       /\ key[t]["local"] # Null => madeFor[key[t]["local"]] = "local"

HeapInv == HeldOnce /\ HeldAlive /\ Covered /\ Made

\* The key and the destructor of ThreadLocalSingleton have t_value_.
Owned ==
  \A t \in Worker :
    /\ key[t]["localSingleton"] \in {Null, tvalue[t]}
    /\ dying[t]["localSingleton"] \in {Null, tvalue[t]}
    /\ tvalue[t] # Null /\ "localSingleton" \in keys =>
         tvalue[t] \in {key[t]["localSingleton"], dying[t]["localSingleton"]}
    /\ dying[t]["localSingleton"] # Null => key[t]["localSingleton"] = Null

\* A thread is gone when its destructors have returned, with a key still set
\* only after its last pass.
GoneThreads ==
  \A t \in Worker :
    life[t] = "gone" =>
      /\ \A k \in Kind : dying[t][k] = Null
      /\ (\A k \in Kind : key[t][k] = Null) \/ rounds[t] = MaxRounds

\* pthread_once runs init() in one thread, and value_ is set then, until exit().
OnceRuns ==
  /\ once = "running" <=> initiator # Null
  /\ once # "done" => value = Null /\ ~exited /\ \A t \in Worker : got[t] = Null
  /\ once = "done" /\ ~exited => value # Null
  /\ exited => value = Null
  /\ ~exited => \A t \in Worker : got[t] \in {Null, value}

\* The inductive invariant behind ObjectsAccounted.
SingletonInv ==
  /\ SingletonTypeOK
  /\ OnceRuns
  /\ HeapInv
  /\ Owned
  /\ GoneThreads

LEMMA SlotsTyped ==
  ASSUME SingletonTypeOK, NEW t \in Worker, NEW p \in SlotName
  PROVE  Slot(t, p) \in Object \cup {Null}
BY DEF SingletonTypeOK, Slot, SlotName, Kind

\* What a thread that is gone still has in its slots was forgotten.
LEMMA GoneForgotten ==
  ASSUME SingletonInv, NEW t \in Worker, NEW p \in SlotName,
         Slot(t, p) # Null, life[t] = "gone"
  PROVE  Forgotten(Slot(t, p))
<1>0. "local" \in Kind /\ "localSingleton" \in Kind
  BY DEF Kind
<1>1. /\ dying[t]["local"] = Null /\ dying[t]["localSingleton"] = Null
      /\ \A k \in Kind : key[t][k] # Null => rounds[t] = MaxRounds
  BY <1>0 DEF SingletonInv, GoneThreads
<1>2. CASE p = "key"
  <2>1. Slot(t, p) = key[t]["local"]
    BY <1>2 DEF Slot
  <2> QED
    BY <1>0, <1>1, <2>1 DEF Forgotten
<1>3. CASE p = "tvalue" /\ "localSingleton" \in keys
  <2>1. Slot(t, p) = tvalue[t]
    BY <1>3 DEF Slot
  <2>2. key[t]["localSingleton"] = tvalue[t]
    BY <1>1, <1>3, <2>1 DEF SingletonInv, Owned
  <2> QED
    BY <1>0, <1>1, <2>1, <2>2 DEF Forgotten
<1>4. CASE p = "tvalue" /\ "localSingleton" \notin keys
  <2>1. Slot(t, p) = tvalue[t]
    BY <1>4 DEF Slot
  <2>2. madeFor[tvalue[t]] = "localSingleton"
    BY <2>1 DEF SingletonInv, HeapInv, Made
  <2> QED
    BY <1>0, <1>4, <2>1, <2>2 DEF Forgotten
<1>5. p # "dying"
  BY <1>1 DEF Slot
<1> QED
  BY <1>2, <1>3, <1>4, <1>5 DEF SlotName

\* A slot of a thread that is there is among what is held.
LEMMA SlotHeld ==
  ASSUME NEW t \in Worker, life[t] # "gone", NEW p \in SlotName
  PROVE  Slot(t, p) \in Held
<1>1. Slot(t, p) \in {tvalue[t]} \cup {key[t][k] : k \in Kind}
                                 \cup {dying[t][k] : k \in Kind}
  BY DEF Slot, SlotName, Kind
<1> QED
  BY <1>1 DEF Held

\* ObjectsAccounted says of the keys and threads what the invariant says of
\* slots.
LEMMA InvAccounts == SingletonInv => ObjectsAccounted
<1> SUFFICES ASSUME SingletonInv PROVE ObjectsAccounted
  OBVIOUS
<1>1. InstanceReady
  BY DEF SingletonInv, OnceRuns, HeapInv, HeldAlive, InstanceReady, OnceIsOver
<1>2. LocalInstanceOwned
  <2> SUFFICES ASSUME NEW t \in Worker
               PROVE  LET own == {key[t]["localSingleton"],
                                  dying[t]["localSingleton"]} \ {Null}
                      IN  /\ own \subseteq {tvalue[t]}
                          /\ tvalue[t] # Null /\ "localSingleton" \in keys =>
                               tvalue[t] \in own
    BY DEF LocalInstanceOwned
  <2> QED
    BY DEF SingletonInv, Owned
<1>3. Held \ {Null} \subseteq alive
  <2> SUFFICES ASSUME NEW x \in Held, x # Null PROVE x \in alive
    OBVIOUS
  <2>1. CASE x = value
    BY <2>1 DEF SingletonInv, HeapInv, HeldAlive
  <2>2. CASE x # value
    <3>1. PICK t \in Worker :
            x \in {tvalue[t]} \cup {key[t][k] : k \in Kind}
                              \cup {dying[t][k] : k \in Kind}
      BY <2>2 DEF Held
    <3>2. x \in {tvalue[t], key[t]["local"], dying[t]["local"],
                 key[t]["localSingleton"], dying[t]["localSingleton"]}
      BY <3>1 DEF Kind
    <3>3. x \in {tvalue[t], key[t]["local"], dying[t]["local"]}
      BY <3>2 DEF SingletonInv, Owned
    <3>4. \E p \in SlotName : x = Slot(t, p)
      BY <3>3 DEF Slot, SlotName
    <3> QED
      BY <3>4 DEF SingletonInv, HeapInv, HeldAlive
  <2> QED
    BY <2>1, <2>2
<1>4. \A x \in alive : x \in Held \/ Forgotten(x)
  <2> SUFFICES ASSUME NEW x \in alive PROVE x \in Held \/ Forgotten(x)
    OBVIOUS
  <2>0. x # Null
    BY NullAssumption DEF SingletonInv, SingletonTypeOK
  <2>1. CASE x = value
    BY <2>1 DEF Held
  <2>2. CASE \E t \in Worker, p \in SlotName : Slot(t, p) = x
    BY <2>0, <2>2, SlotHeld, GoneForgotten
  <2>3. CASE madeFor[x] \in Kind \ keys
    BY <2>3 DEF Forgotten
  <2> QED
    BY <2>1, <2>2, <2>3 DEF SingletonInv, HeapInv, Covered
<1> QED
  BY <1>1, <1>2, <1>3, <1>4 DEF ObjectsAccounted

LEMMA InitSingletonInv == ASSUME SingletonInit PROVE SingletonInv
<1>1. SingletonTypeOK
  <2>1. Null \in Object \cup {Null} /\ 0 \in 0 .. MaxRounds
    BY RoundsAssumption
  <2> QED
    BY <2>1 DEF SingletonInit, SingletonTypeOK
<1>2. \A t \in Worker, p \in SlotName : Slot(t, p) = Null
  BY DEF SingletonInit, Slot, SlotName, Kind
<1>3. value = Null /\ alive = {}
  BY DEF SingletonInit
<1>4. HeapInv
  <2>1. \A t \in Worker : tvalue[t] = Null /\ key[t]["local"] = Null
    BY DEF SingletonInit, Kind
  <2> QED
    BY <1>2, <1>3, <2>1 DEF HeapInv, HeldOnce, HeldAlive, Covered, Made
<1>5. Owned
  BY DEF SingletonInit, Owned, Kind
<1>6. OnceRuns /\ GoneThreads
  BY DEF SingletonInit, OnceRuns, GoneThreads
<1> QED
  BY <1>1, <1>4, <1>5, <1>6 DEF SingletonInv

\* Steps that leave all objects, and all that has hold of them, as they are.
LEMMA HeapUntouched ==
  ASSUME HeapInv, UNCHANGED <<value, keys, key, tvalue, dying, alive, madeFor>>
  PROVE  HeapInv'
BY DEF HeapInv, HeldOnce, HeldAlive, Covered, Made, Slot

LEMMA OwnedUntouched ==
  ASSUME Owned, UNCHANGED <<keys, key, tvalue, dying>>
  PROVE  Owned'
BY DEF Owned

\* A new object is one that nothing has hold of.
LEMMA NewIsApart ==
  ASSUME SingletonTypeOK, HeapInv, NEW x \in Object, NEW what, New(x, what)
  PROVE  /\ x \notin alive /\ x # Null /\ x # value
         /\ \A t \in Worker, p \in SlotName : Slot(t, p) # x
         /\ alive' = alive \cup {x}
         /\ \A y \in alive : madeFor'[y] = madeFor[y]
<1>1. x \notin alive /\ x # Null
  BY NullAssumption DEF New, HeapInv, Made
<1>2. x # value
  BY <1>1 DEF HeapInv, HeldAlive
<1>3. \A t \in Worker, p \in SlotName : Slot(t, p) # x
  BY <1>1 DEF HeapInv, HeldAlive
<1>4. \A y \in alive : madeFor'[y] = madeFor[y]
  BY <1>1 DEF New, SingletonTypeOK
<1> QED
  BY <1>1, <1>2, <1>3, <1>4 DEF New

LEMMA RunsInitStep ==
  ASSUME SingletonInv, NEW t \in Worker, RunsInit(t)
  PROVE  SingletonInv'
<1>1. PICK x \in Object : New(x, "process") /\ value' = x
  BY DEF RunsInit
<1>2. /\ once = "running" /\ value = Null /\ ~exited
      /\ once' = "done" /\ initiator' = Null /\ exited' = exited
      /\ UNCHANGED <<keys, key, tvalue, dying, life, todo, rounds>>
      /\ got' = got /\ inInstance' = inInstance
  BY NullAssumption DEF RunsInit, localVars, SingletonInv, OnceRuns, SingletonTypeOK
<1>3. /\ x \notin alive /\ x # Null
      /\ \A u \in Worker, p \in SlotName : Slot(u, p) # x
      /\ alive' = alive \cup {x}
      /\ \A y \in alive : madeFor'[y] = madeFor[y]
  BY <1>1, NewIsApart DEF SingletonInv
<1>4. madeFor'[x] = "process" /\ madeFor' \in [Object -> Kind \cup {"none", "process"}]
  BY <1>1 DEF New, SingletonInv, SingletonTypeOK
<1>5. SingletonTypeOK'
  BY <1>1, <1>2, <1>3, <1>4 DEF SingletonInv, SingletonTypeOK
<1>6. \A u \in Worker, p \in SlotName : Slot(u, p)' = Slot(u, p)
  BY <1>2 DEF Slot
<1>7. HeapInv'
  <2>1. HeldOnce'
    BY <1>1, <1>3, <1>6 DEF SingletonInv, HeapInv, HeldOnce
  <2>2. HeldAlive'
    BY <1>1, <1>3, <1>6 DEF SingletonInv, HeapInv, HeldAlive
  <2>3. Covered'
    BY <1>1, <1>2, <1>3, <1>6, NullAssumption
       DEF SingletonInv, SingletonTypeOK, HeapInv, Covered
  <2>4. Made'
    <3>1. \A y \in alive' : madeFor'[y] # "none"
      BY <1>3, <1>4 DEF SingletonInv, HeapInv, Made
    <3>2. \A u \in Worker : /\ tvalue[u] # Null => tvalue[u] \in alive
                            /\ key[u]["local"] # Null => key[u]["local"] \in alive
      BY DEF SingletonInv, HeapInv, HeldAlive, Slot, SlotName
    <3> QED
      BY <1>2, <1>3, <3>1, <3>2 DEF SingletonInv, HeapInv, Made
  <2> QED
    BY <2>1, <2>2, <2>3, <2>4 DEF HeapInv
<1>8. OnceRuns'
  BY <1>1, <1>2, <1>3 DEF SingletonInv, OnceRuns
<1>9. Owned' /\ GoneThreads'
  BY <1>2, OwnedUntouched DEF SingletonInv, GoneThreads
<1> QED
  BY <1>5, <1>7, <1>8, <1>9 DEF SingletonInv

LEMMA ExitStep ==
  ASSUME SingletonInv, Exit
  PROVE  SingletonInv'
<1>1. /\ once = "done" /\ value # Null /\ once' = "done"
      /\ value' = Null /\ exited' = TRUE /\ initiator' = initiator
      /\ UNCHANGED <<keys, key, tvalue, dying, life, todo, rounds, madeFor>>
      /\ alive' = alive \ {value}
      /\ got' = got /\ inInstance' = inInstance
  BY DEF Exit, Delete, localVars, SingletonInv, OnceRuns
<1>2. SingletonTypeOK'
  BY <1>1 DEF SingletonInv, SingletonTypeOK
<1>3. \A u \in Worker, p \in SlotName : Slot(u, p)' = Slot(u, p)
  BY <1>1 DEF Slot
<1>4. HeapInv'
  <2>1. HeldOnce'
    BY <1>1, <1>3 DEF SingletonInv, HeapInv, HeldOnce
  <2>2. HeldAlive'
    BY <1>1, <1>3 DEF SingletonInv, HeapInv, HeldOnce, HeldAlive
  <2>3. Covered'
    BY <1>1, <1>3 DEF SingletonInv, HeapInv, Covered
  <2>4. Made'
    BY <1>1 DEF SingletonInv, HeapInv, Made
  <2> QED
    BY <2>1, <2>2, <2>3, <2>4 DEF HeapInv
<1>5. OnceRuns' /\ Owned' /\ GoneThreads'
  BY <1>1, OwnedUntouched DEF SingletonInv, OnceRuns, GoneThreads
<1> QED
  BY <1>2, <1>4, <1>5 DEF SingletonInv

\* A new object of a thread, in a slot that was empty.
LEMMA SlotIsSet ==
  ASSUME SingletonTypeOK, HeapInv, NEW t \in Worker, NEW p \in {"key", "tvalue"},
         Slot(t, p) = Null, NEW x \in Object,
         New(x, IF p = "key" THEN "local" ELSE "localSingleton"),
         UNCHANGED <<value, keys>>,
         \A u \in Worker, q \in SlotName :
           Slot(u, q)' = IF u = t /\ q = p THEN x ELSE Slot(u, q)
  PROVE  HeapInv'
<1>0. p \in SlotName
  BY DEF SlotName
<1>1. /\ x \notin alive /\ x # Null /\ x # value
      /\ \A u \in Worker, q \in SlotName : Slot(u, q) # x
      /\ alive' = alive \cup {x}
      /\ \A y \in alive : madeFor'[y] = madeFor[y]
  BY NewIsApart
<1>2. madeFor'[x] = IF p = "key" THEN "local" ELSE "localSingleton"
  BY DEF New, SingletonTypeOK
<1>3. HeldOnce'
  BY <1>0, <1>1 DEF HeapInv, HeldOnce
<1>4. HeldAlive'
  BY <1>0, <1>1 DEF HeapInv, HeldAlive
<1>5. Covered'
  <2> SUFFICES ASSUME NEW y \in alive'
               PROVE  \/ y = value'
                      \/ \E u \in Worker, q \in SlotName : Slot(u, q)' = y
                      \/ madeFor'[y] \in Kind \ keys'
    BY DEF Covered
  <2>1. CASE y = x
    BY <1>0, <2>1
  <2>2. CASE y \in alive
    <3>1. ASSUME NEW u \in Worker, NEW q \in SlotName, Slot(u, q) = y
          PROVE  Slot(u, q)' = y
      <4>1. y # Null
        BY <2>2, NullAssumption DEF SingletonTypeOK
      <4> QED
        BY <3>1, <4>1
    <3> QED
      BY <1>1, <2>2, <3>1 DEF HeapInv, Covered
  <2> QED
    BY <1>1, <2>1, <2>2
<1>6. Made'
  <2>1. \A y \in alive' : madeFor'[y] # "none"
    BY <1>1, <1>2 DEF HeapInv, Made
  <2>2. ASSUME NEW u \in Worker, NEW q \in {"key", "tvalue"}, Slot(u, q)' # Null
        PROVE  madeFor'[Slot(u, q)'] = IF q = "key" THEN "local" ELSE "localSingleton"
    <3>1. CASE u = t /\ q = p
      BY <1>0, <1>2, <3>1
    <3>2. CASE ~(u = t /\ q = p)
      <4>1. Slot(u, q)' = Slot(u, q) /\ Slot(u, q) \in alive
        BY <2>2, <3>2 DEF SlotName, HeapInv, HeldAlive
      <4>2. madeFor[Slot(u, q)] = IF q = "key" THEN "local" ELSE "localSingleton"
        BY <2>2, <4>1 DEF HeapInv, Made, Slot
      <4> QED
        BY <1>1, <4>1, <4>2
    <3> QED
      BY <3>1, <3>2
  <2>3. \A u \in Worker : /\ Slot(u, "key")' = key'[u]["local"]
                          /\ Slot(u, "tvalue")' = tvalue'[u]
    BY DEF Slot
  <2> QED
    BY <2>1, <2>2, <2>3 DEF Made
<1> QED
  BY <1>3, <1>4, <1>5, <1>6 DEF HeapInv

\* The object in a slot is destroyed, and the slot empty.
LEMMA SlotIsCleared ==
  ASSUME SingletonTypeOK, HeapInv, NEW t \in Worker, NEW p \in SlotName,
         Slot(t, p) # Null, Delete(Slot(t, p)), UNCHANGED <<value, keys>>,
         \A u \in Worker, q \in SlotName :
           Slot(u, q)' = IF u = t /\ q = p THEN Null ELSE Slot(u, q)
  PROVE  HeapInv'
<1> DEFINE x == Slot(t, p)
<1>1. alive' = alive \ {x} /\ madeFor' = madeFor
  BY DEF Delete
<1>2. x # value /\ \A u \in Worker, q \in SlotName : Slot(u, q)' # x
  BY DEF HeapInv, HeldOnce
<1> HIDE DEF x
<1>3. HeldOnce'
  BY DEF HeapInv, HeldOnce
<1>4. HeldAlive'
  BY <1>1, <1>2 DEF HeapInv, HeldAlive
<1>5. Covered'
  <2> SUFFICES ASSUME NEW y \in alive'
               PROVE  \/ y = value'
                      \/ \E u \in Worker, q \in SlotName : Slot(u, q)' = y
                      \/ madeFor'[y] \in Kind \ keys'
    BY DEF Covered
  <2>1. y \in alive /\ y # x
    BY <1>1
  <2>2. ASSUME NEW u \in Worker, NEW q \in SlotName, Slot(u, q) = y
        PROVE  Slot(u, q)' = y
    BY <2>1, <2>2 DEF x
  <2> QED
    BY <1>1, <2>1, <2>2 DEF HeapInv, Covered
<1>6. Made'
  <2>1. \A u \in Worker : /\ tvalue'[u] \in {Null, tvalue[u]}
                          /\ key'[u]["local"] \in {Null, key[u]["local"]}
    <3>1. \A u \in Worker : Slot(u, "tvalue")' \in {Null, Slot(u, "tvalue")}
      BY DEF SlotName
    <3>2. \A u \in Worker : Slot(u, "key")' \in {Null, Slot(u, "key")}
      BY DEF SlotName
    <3> QED
      BY <3>1, <3>2 DEF Slot
  <2> QED
    BY <1>1, <2>1 DEF HeapInv, Made
<1> QED
  BY <1>3, <1>4, <1>5, <1>6 DEF HeapInv

LEMMA LocalValueStep ==
  ASSUME SingletonInv, NEW t \in Worker, LocalValue(t)
  PROVE  SingletonInv'
<1>1. PICK x \in Object : New(x, "local") /\ key' = [key EXCEPT ![t]["local"] = x]
  BY DEF LocalValue
<1>2. UNCHANGED <<once, initiator, value, inInstance, got, exited, keys, tvalue,
                  dying, life, todo, rounds>>
  BY DEF LocalValue, singleVars
<1>3. \A u \in Worker, k \in Kind :
        key'[u][k] = IF u = t /\ k = "local" THEN x ELSE key[u][k]
  BY <1>1 DEF SingletonInv, SingletonTypeOK
<1>4. SingletonTypeOK'
  <2>1. key' \in [Worker -> [Kind -> Object \cup {Null}]]
    BY <1>1 DEF SingletonInv, SingletonTypeOK
  <2>2. /\ alive' \in SUBSET Object
        /\ madeFor' \in [Object -> Kind \cup {"none", "process"}]
    BY <1>1 DEF New, Kind, SingletonInv, SingletonTypeOK
  <2> QED
    BY <1>2, <2>1, <2>2 DEF SingletonInv, SingletonTypeOK
<1>5. HeapInv'
  <2>1. \A u \in Worker, q \in SlotName :
          Slot(u, q)' = IF u = t /\ q = "key" THEN x ELSE Slot(u, q)
    BY <1>2, <1>3 DEF Slot, SlotName, Kind
  <2>2. Slot(t, "key") = Null
    BY DEF LocalValue, Slot
  <2> QED
    BY <1>1, <1>2, <2>1, <2>2, SlotIsSet DEF SingletonInv
<1>6. Owned'
  BY <1>2, <1>3 DEF SingletonInv, Owned, Kind
<1>7. OnceRuns'
  BY <1>2 DEF SingletonInv, OnceRuns
<1>8. GoneThreads'
  <2>1. life[t] # "gone"
    BY DEF LocalValue, Runs, InDestructor, SingletonInv, GoneThreads
  <2> QED
    BY <1>2, <1>3, <2>1 DEF SingletonInv, GoneThreads
<1> QED
  BY <1>4, <1>5, <1>6, <1>7, <1>8 DEF SingletonInv

LEMMA LocalInstanceStep ==
  ASSUME SingletonInv, NEW t \in Worker, LocalInstance(t)
  PROVE  SingletonInv'
<1>1. PICK x \in Object :
        /\ New(x, "localSingleton")
        /\ tvalue' = [tvalue EXCEPT ![t] = x]
        /\ key' = [key EXCEPT ![t]["localSingleton"] =
                    IF "localSingleton" \in keys THEN x ELSE Null]
  BY DEF LocalInstance
<1>2. UNCHANGED <<once, initiator, value, inInstance, got, exited, keys,
                  dying, life, todo, rounds>>
  BY DEF LocalInstance, singleVars
<1>3. /\ \A u \in Worker, k \in Kind :
           key'[u][k] = IF u = t /\ k = "localSingleton"
                        THEN IF "localSingleton" \in keys THEN x ELSE Null
                        ELSE key[u][k]
      /\ \A u \in Worker : tvalue'[u] = IF u = t THEN x ELSE tvalue[u]
  BY <1>1 DEF SingletonInv, SingletonTypeOK
<1>4. SingletonTypeOK'
  <2>1. key' \in [Worker -> [Kind -> Object \cup {Null}]]
    BY <1>1 DEF SingletonInv, SingletonTypeOK
  <2>2. tvalue' \in [Worker -> Object \cup {Null}]
    BY <1>1 DEF SingletonInv, SingletonTypeOK
  <2>3. /\ alive' \in SUBSET Object
        /\ madeFor' \in [Object -> Kind \cup {"none", "process"}]
    BY <1>1 DEF New, Kind, SingletonInv, SingletonTypeOK
  <2> QED
    BY <1>2, <2>1, <2>2, <2>3 DEF SingletonInv, SingletonTypeOK
<1>5. HeapInv'
  <2>1. \A u \in Worker, q \in SlotName :
          Slot(u, q)' = IF u = t /\ q = "tvalue" THEN x ELSE Slot(u, q)
    BY <1>2, <1>3 DEF Slot, SlotName, Kind
  <2>2. Slot(t, "tvalue") = Null
    BY DEF LocalInstance, Slot
  <2> QED
    BY <1>1, <1>2, <2>1, <2>2, SlotIsSet DEF SingletonInv
<1>6. Owned'
  <2>1. tvalue[t] = Null
    BY DEF LocalInstance
  <2>2. dying[t]["localSingleton"] = Null
    BY <2>1 DEF SingletonInv, Owned
  <2> QED
    BY <1>2, <1>3, <2>1, <2>2 DEF SingletonInv, Owned, Kind
<1>7. OnceRuns'
  BY <1>2 DEF SingletonInv, OnceRuns
<1>8. GoneThreads'
  <2>1. life[t] # "gone"
    BY DEF LocalInstance, Runs, InDestructor, SingletonInv, GoneThreads
  <2> QED
    BY <1>2, <1>3, <2>1 DEF SingletonInv, GoneThreads
<1> QED
  BY <1>4, <1>5, <1>6, <1>7, <1>8 DEF SingletonInv

LEMMA DeletesKeyStep ==
  ASSUME SingletonInv, NEW k \in Kind, DeletesKey(k)
  PROVE  SingletonInv'
<1>1. /\ k \in keys /\ keys' = keys \ {k}
      /\ UNCHANGED <<once, initiator, value, inInstance, got, exited, tvalue, dying,
                     life, todo, rounds, alive, madeFor>>
  BY DEF DeletesKey, singleVars, heapVars
<1>2. \A u \in Worker, j \in Kind : key'[u][j] = IF j = k THEN Null ELSE key[u][j]
  BY DEF DeletesKey, SingletonInv, SingletonTypeOK
<1>3. SingletonTypeOK'
  <2>1. key' \in [Worker -> [Kind -> Object \cup {Null}]]
    BY DEF DeletesKey, SingletonInv, SingletonTypeOK
  <2> QED
    BY <1>1, <2>1 DEF SingletonInv, SingletonTypeOK
<1>4. \A u \in Worker, q \in SlotName :
        Slot(u, q)' = IF q = "key" /\ k = "local" THEN Null ELSE Slot(u, q)
  BY <1>1, <1>2 DEF Slot, SlotName, Kind
<1>5. HeapInv'
  <2>1. HeldOnce'
    BY <1>1, <1>4 DEF SingletonInv, HeapInv, HeldOnce
  <2>2. HeldAlive'
    BY <1>1, <1>4 DEF SingletonInv, HeapInv, HeldAlive
  <2>3. Covered'
    <3> SUFFICES ASSUME NEW x \in alive
                 PROVE  \/ x = value'
                        \/ \E u \in Worker, q \in SlotName : Slot(u, q)' = x
                        \/ madeFor'[x] \in Kind \ keys'
      BY <1>1 DEF Covered
    <3>0. x # Null
      BY NullAssumption DEF SingletonInv, SingletonTypeOK
    <3>1. CASE \E u \in Worker : k = "local" /\ Slot(u, "key") = x
      <4>1. madeFor[x] = "local"
        BY <3>0, <3>1 DEF Slot, SingletonInv, HeapInv, Made
      <4> QED
        BY <1>1, <3>1, <4>1
    <3>2. CASE ~\E u \in Worker : k = "local" /\ Slot(u, "key") = x
      <4>1. \A u \in Worker, q \in SlotName : Slot(u, q) = x => Slot(u, q)' = x
        BY <1>4, <3>2
      <4> QED
        BY <1>1, <4>1 DEF SingletonInv, HeapInv, Covered
    <3> QED
      BY <3>1, <3>2
  <2>4. Made'
    <3>1. \A u \in Worker : key'[u]["local"] \in {Null, key[u]["local"]}
      BY <1>2 DEF Kind
    <3> QED
      BY <1>1, <3>1 DEF SingletonInv, HeapInv, Made
  <2> QED
    BY <2>1, <2>2, <2>3, <2>4 DEF HeapInv
<1>6. Owned'
  BY <1>1, <1>2 DEF SingletonInv, Owned, Kind
<1>7. OnceRuns' /\ GoneThreads'
  BY <1>1, <1>2 DEF SingletonInv, OnceRuns, GoneThreads
<1> QED
  BY <1>3, <1>5, <1>6, <1>7 DEF SingletonInv

LEMMA ComesToStep ==
  ASSUME SingletonInv, NEW t \in Worker, NEW k \in Kind, ComesTo(t, k)
  PROVE  SingletonInv'
<1>1. /\ life[t] = "exiting" /\ \A j \in Kind : dying[t][j] = Null
      /\ UNCHANGED <<once, initiator, value, inInstance, got, exited, keys, tvalue,
                     life, rounds, alive, madeFor>>
  BY DEF ComesTo, InDestructor, singleVars, heapVars
<1>2. /\ \A u \in Worker, j \in Kind :
           key'[u][j] = IF u = t /\ j = k THEN Null ELSE key[u][j]
      /\ \A u \in Worker, j \in Kind :
           dying'[u][j] = IF u = t /\ j = k THEN key[t][k] ELSE dying[u][j]
  BY DEF ComesTo, SingletonInv, SingletonTypeOK
<1>3. SingletonTypeOK'
  <2>1. key' \in [Worker -> [Kind -> Object \cup {Null}]]
    BY DEF ComesTo, SingletonInv, SingletonTypeOK
  <2>2. dying' \in [Worker -> [Kind -> Object \cup {Null}]]
    BY DEF ComesTo, SingletonInv, SingletonTypeOK
  <2>3. todo' \in [Worker -> SUBSET Kind]
    BY DEF ComesTo, SingletonInv, SingletonTypeOK
  <2> QED
    BY <1>1, <2>1, <2>2, <2>3 DEF SingletonInv, SingletonTypeOK
<1>4. CASE k = "localSingleton"
  <2>1. \A u \in Worker : key'[u]["local"] = key[u]["local"]
    BY <1>2, <1>4 DEF Kind
  <2>2. \A u \in Worker, q \in SlotName : Slot(u, q)' = Slot(u, q)
    BY <1>1, <1>2, <1>4 DEF Slot, SlotName, Kind
  <2>3. HeapInv'
    BY <1>1, <2>1, <2>2
       DEF SingletonInv, HeapInv, HeldOnce, HeldAlive, Covered, Made
  <2>4. Owned'
    BY <1>1, <1>2, <1>4 DEF SingletonInv, Owned, Kind
  <2> QED
    BY <1>1, <1>2, <1>3, <2>3, <2>4 DEF SingletonInv, OnceRuns, GoneThreads
<1>5. CASE k = "local"
  <2>0. Slot(t, "dying") = Null
    BY <1>1 DEF Slot, Kind
  <2>1. \A u \in Worker, q \in SlotName :
          Slot(u, q)' = IF u = t /\ q = "key" THEN Null
                        ELSE IF u = t /\ q = "dying" THEN Slot(t, "key")
                        ELSE Slot(u, q)
    BY <1>1, <1>2, <1>5 DEF Slot, SlotName, Kind
  <2>2. HeldOnce'
    BY <1>1, <2>0, <2>1 DEF SingletonInv, HeapInv, HeldOnce, SlotName
  <2>3. HeldAlive'
    BY <1>1, <2>0, <2>1 DEF SingletonInv, HeapInv, HeldAlive, SlotName
  <2>4. Covered'
    <3> SUFFICES ASSUME NEW x \in alive
                 PROVE  \/ x = value'
                        \/ \E u \in Worker, q \in SlotName : Slot(u, q)' = x
                        \/ madeFor'[x] \in Kind \ keys'
      BY <1>1 DEF Covered
    <3>0. x # Null
      BY NullAssumption DEF SingletonInv, SingletonTypeOK
    <3>1. CASE Slot(t, "key") = x
      BY <2>1, <3>1 DEF SlotName
    <3>2. CASE Slot(t, "key") # x
      <4>1. \A u \in Worker, q \in SlotName : Slot(u, q) = x => Slot(u, q)' = x
        BY <2>0, <2>1, <3>0, <3>2
      <4> QED
        BY <1>1, <4>1 DEF SingletonInv, HeapInv, Covered
    <3> QED
      BY <3>1, <3>2
  <2>5. Made'
    <3>1. \A u \in Worker : key'[u]["local"] \in {Null, key[u]["local"]}
      BY <1>2 DEF Kind
    <3> QED
      BY <1>1, <3>1 DEF SingletonInv, HeapInv, Made
  <2>6. Owned'
    BY <1>1, <1>2, <1>5 DEF SingletonInv, Owned, Kind
  <2> QED
    BY <1>1, <1>2, <1>3, <2>2, <2>3, <2>4, <2>5, <2>6
       DEF SingletonInv, HeapInv, OnceRuns, GoneThreads
<1> QED
  BY <1>4, <1>5 DEF Kind

LEMMA DestroyLocalStep ==
  ASSUME SingletonInv, NEW t \in Worker, DestroyLocal(t)
  PROVE  SingletonInv'
<1>1. /\ dying[t]["local"] # Null /\ Delete(dying[t]["local"])
      /\ dying' = [dying EXCEPT ![t]["local"] = Null]
      /\ UNCHANGED <<once, initiator, value, inInstance, got, exited, keys, key,
                     tvalue, life, todo, rounds>>
  BY DEF DestroyLocal, EndsDestructor, singleVars
<1>2. \A u \in Worker, j \in Kind :
        dying'[u][j] = IF u = t /\ j = "local" THEN Null ELSE dying[u][j]
  BY <1>1 DEF SingletonInv, SingletonTypeOK
<1>3. SingletonTypeOK'
  <2>1. dying' \in [Worker -> [Kind -> Object \cup {Null}]]
    BY <1>1 DEF SingletonInv, SingletonTypeOK
  <2> QED
    BY <1>1, <2>1 DEF Delete, SingletonInv, SingletonTypeOK
<1>4. HeapInv'
  <2>1. \A u \in Worker, q \in SlotName :
          Slot(u, q)' = IF u = t /\ q = "dying" THEN Null ELSE Slot(u, q)
    BY <1>1, <1>2 DEF Slot, SlotName, Kind
  <2>2. Slot(t, "dying") = dying[t]["local"] /\ "dying" \in SlotName
    BY DEF Slot, SlotName
  <2> QED
    BY <1>1, <2>1, <2>2, SlotIsCleared DEF SingletonInv
<1>5. Owned' /\ OnceRuns' /\ GoneThreads'
  BY <1>1, <1>2 DEF SingletonInv, Owned, OnceRuns, GoneThreads, Kind
<1> QED
  BY <1>3, <1>4, <1>5 DEF SingletonInv

LEMMA DestroyLocalInstanceStep ==
  ASSUME SingletonInv, NEW t \in Worker, DestroyLocalInstance(t)
  PROVE  SingletonInv'
<1>1. /\ dying[t]["localSingleton"] # Null /\ Delete(tvalue[t])
      /\ dying' = [dying EXCEPT ![t]["localSingleton"] = Null]
      /\ tvalue' = [tvalue EXCEPT ![t] = Null]
      /\ UNCHANGED <<once, initiator, value, inInstance, got, exited, keys, key,
                     life, todo, rounds>>
  BY DEF DestroyLocalInstance, EndsDestructor, singleVars
<1>2. /\ \A u \in Worker, j \in Kind :
           dying'[u][j] = IF u = t /\ j = "localSingleton" THEN Null ELSE dying[u][j]
      /\ \A u \in Worker : tvalue'[u] = IF u = t THEN Null ELSE tvalue[u]
  BY <1>1 DEF SingletonInv, SingletonTypeOK
<1>3. SingletonTypeOK'
  <2>1. dying' \in [Worker -> [Kind -> Object \cup {Null}]]
    BY <1>1 DEF SingletonInv, SingletonTypeOK
  <2>2. tvalue' \in [Worker -> Object \cup {Null}]
    BY <1>1 DEF SingletonInv, SingletonTypeOK
  <2> QED
    BY <1>1, <2>1, <2>2 DEF Delete, SingletonInv, SingletonTypeOK
<1>4. HeapInv'
  <2>1. \A u \in Worker, q \in SlotName :
          Slot(u, q)' = IF u = t /\ q = "tvalue" THEN Null ELSE Slot(u, q)
    BY <1>1, <1>2 DEF Slot, SlotName, Kind
  <2>2. Slot(t, "tvalue") = tvalue[t] /\ "tvalue" \in SlotName /\ tvalue[t] # Null
    BY <1>1 DEF Slot, SlotName, SingletonInv, Owned
  <2> QED
    BY <1>1, <2>1, <2>2, SlotIsCleared DEF SingletonInv
<1>5. Owned'
  <2>1. key[t]["localSingleton"] = Null
    BY <1>1 DEF SingletonInv, Owned
  <2> QED
    BY <1>1, <1>2, <2>1 DEF SingletonInv, Owned, Kind
<1>6. OnceRuns' /\ GoneThreads'
  BY <1>1, <1>2 DEF SingletonInv, OnceRuns, GoneThreads, Kind
<1> QED
  BY <1>3, <1>4, <1>5, <1>6 DEF SingletonInv

\* Steps of pthread_once and of the passes that call no destructor.
LEMMA ObjectsUntouched ==
  ASSUME SingletonInv, SingletonTypeOK', OnceRuns', GoneThreads',
         UNCHANGED <<value, keys, key, tvalue, dying, alive, madeFor>>
  PROVE  SingletonInv'
BY HeapUntouched, OwnedUntouched DEF SingletonInv

LEMMA OnceStep ==
  ASSUME SingletonInv, NEW t \in Worker,
         EntersOnce(t) \/ StartsInit(t) \/ Returns(t)
  PROVE  SingletonInv'
<1>1. UNCHANGED <<value, exited, keys, key, tvalue, dying, life, todo, rounds,
                  alive, madeFor>>
  BY DEF EntersOnce, StartsInit, Returns, localVars, heapVars
<1>2. SingletonTypeOK' /\ OnceRuns'
  <2>1. CASE EntersOnce(t)
    BY <1>1, <2>1 DEF EntersOnce, SingletonInv, SingletonTypeOK, OnceRuns
  <2>2. CASE StartsInit(t)
    BY <1>1, <2>2, NullAssumption
       DEF StartsInit, SingletonInv, SingletonTypeOK, OnceRuns
  <2>3. CASE Returns(t)
    BY <1>1, <2>3
       DEF Returns, OnceIsOver, SingletonInv, SingletonTypeOK, OnceRuns
  <2> QED
    BY <2>1, <2>2, <2>3
<1>3. GoneThreads'
  BY <1>1 DEF SingletonInv, GoneThreads
<1> QED
  BY <1>1, <1>2, <1>3, ObjectsUntouched

LEMMA PassStep ==
  ASSUME SingletonInv, NEW t \in Worker,
         ThreadExits(t) \/ PassesAgain(t) \/ ThreadEnds(t)
  PROVE  SingletonInv'
<1>1. UNCHANGED <<once, initiator, value, inInstance, got, exited, keys, key,
                  tvalue, dying, alive, madeFor>>
  BY DEF ThreadExits, PassesAgain, ThreadEnds, singleVars, heapVars
<1>2. OnceRuns'
  BY <1>1 DEF SingletonInv, OnceRuns
<1>3. /\ life' \in [Worker -> {"running", "exiting", "gone"}]
      /\ todo' \in [Worker -> SUBSET Kind]
      /\ rounds' \in [Worker -> 0 .. MaxRounds]
      /\ GoneThreads'
  <2>1. CASE ThreadExits(t)
    BY <1>1, <2>1, RoundsAssumption
       DEF ThreadExits, SingletonInv, SingletonTypeOK, GoneThreads
  <2>2. CASE PassesAgain(t)
    <3>1. rounds[t] + 1 \in 0 .. MaxRounds
      BY <2>2, RoundsAssumption DEF PassesAgain, SingletonInv, SingletonTypeOK
    <3> QED
      BY <1>1, <2>2, <3>1
         DEF PassesAgain, PassIsOver, SingletonInv, SingletonTypeOK, GoneThreads
  <2>3. CASE ThreadEnds(t)
    BY <1>1, <2>3
       DEF ThreadEnds, PassIsOver, InDestructor, SingletonInv, SingletonTypeOK,
           GoneThreads
  <2> QED
    BY <2>1, <2>2, <2>3
<1>4. SingletonTypeOK'
  BY <1>1, <1>3 DEF SingletonInv, SingletonTypeOK
<1> QED
  BY <1>1, <1>2, <1>3, <1>4, ObjectsUntouched

LEMMA SingletonStep ==
  SingletonInv /\ [SingletonNext]_singletonVars => SingletonInv'
<1> SUFFICES ASSUME SingletonInv, [SingletonNext]_singletonVars
             PROVE  SingletonInv'
  OBVIOUS
<1>1. CASE UNCHANGED singletonVars
  <2>1. UNCHANGED <<value, keys, key, tvalue, dying, alive, madeFor>>
    BY <1>1 DEF singletonVars, singleVars, localVars, heapVars
  <2>2. SingletonTypeOK' /\ OnceRuns' /\ GoneThreads'
    BY <1>1
       DEF singletonVars, singleVars, localVars, heapVars, SingletonInv,
           SingletonTypeOK, OnceRuns, GoneThreads
  <2> QED
    BY <2>1, <2>2, ObjectsUntouched
<1> QED
  BY <1>1, OnceStep, RunsInitStep, ExitStep, LocalValueStep, LocalInstanceStep,
     DeletesKeyStep, ComesToStep, DestroyLocalStep, DestroyLocalInstanceStep,
     PassStep DEF SingletonNext

\* In any order of first uses, exits, passes and destructors, for any number of
\* passes, what the process or a thread has hold of is alive, and what is alive
\* somebody has hold of, but for objects whose key was deleted or that were made
\* after the last pass had come to their key (Singleton, ThreadLocal and
\* ThreadLocalSingleton).
THEOREM ObjectsAlwaysAccounted ==
  SingletonSpec => []ObjectsAccounted
BY InitSingletonInv, SingletonStep, InvAccounts, PTL DEF SingletonSpec

-----------------------------------------------------------------------------
(* Atomic integers *)

\* What the integer is after k increments since it was 0, k up to 2 * Size.
Counted(k) == IF k < Size THEN k ELSE k - 2 * Size

Busy == {t \in Counter : call[t] # "none"}

\* Threads that are about to return a ticket.
Pending == {t \in Counter : call[t] = "increment" /\ ~Overflows(t)}

\* The ticket a thread is about to return, with the epoch of its access.
TicketOf(t) == <<epochOf[t], AddAndGet(t)>>

Taken == tickets \cup {TicketOf(t) : t \in Pending}

\* The integer has been incremented k times in this epoch, and the tickets of
\* the epoch are the values it went through.
Incremented(k) ==
  /\ integer = Counted(k)
  /\ \A ticket \in Taken :
       /\ ticket[1] <= epoch
       /\ ticket[1] = epoch => \E j \in 1 .. k : ticket[2] = Counted(j)

\* The inductive invariant: no ticket is returned, or about to be, twice.
AtomicInv ==
  /\ AtomicTypeOK
  /\ epoch <= calls
  /\ \E k \in 0 .. calls : Incremented(k)
  /\ \A t \in Pending : TicketOf(t) \notin tickets
  /\ \A t, u \in Pending : TicketOf(t) = TicketOf(u) => t = u
  /\ IsFiniteSet(tickets)
  /\ Cardinality(tickets) = issued
  /\ IsFiniteSet(Busy)
  /\ issued + Cardinality(Busy) <= calls

\* What wrap-around does next to the range of the integer.
LEMMA Wraps ==
  ASSUME NEW x \in -Size .. Size
  PROVE  Wrap(x) = IF x < Size THEN x ELSE -Size
<1> DEFINE m == 2 * Size
<1>1. m \in Nat \ {0} /\ x + Size \in 0 .. m
  BY SizeAssumption
<1>2. x + Size < m => (x + Size) % m = x + Size
  <2> HIDE DEF m
  <2> SUFFICES ASSUME NEW y \in 0 .. m - 1 PROVE y % m = y
    BY <1>1
  <2> QED
    BY <1>1
<1>3. m % m = 0
  <2> HIDE DEF m
  <2> QED
    BY <1>1
<1> QED
  BY <1>1, <1>2, <1>3, SizeAssumption DEF Wrap

\* One more increment.
LEMMA CountsOn ==
  ASSUME NEW k \in 0 .. 2 * Size - 1
  PROVE  Wrap(Counted(k) + 1) = Counted(k + 1)
<1>1. Counted(k) + 1 \in -Size .. Size
  BY SizeAssumption DEF Counted
<1> QED
  BY <1>1, Wraps, SizeAssumption DEF Counted

\* The integer does not come back to a value before all have been taken.
LEMMA CountedApart ==
  ASSUME NEW j \in 1 .. 2 * Size, NEW k \in 1 .. 2 * Size, Counted(j) = Counted(k)
  PROVE  j = k
BY SizeAssumption DEF Counted

LEMMA CountedInRange ==
  ASSUME NEW k \in 0 .. 2 * Size
  PROVE  Counted(k) \in T
BY SizeAssumption DEF Counted, T

LEMMA TicketsTyped ==
  ASSUME AtomicTypeOK, NEW t \in Counter, ~Overflows(t)
  PROVE  AddAndGet(t) \in T
BY SizeAssumption DEF AtomicTypeOK, AddAndGet, Overflows, T

\* An access makes one thread more busy, its return one less.
LEMMA BusyChanges ==
  ASSUME IsFiniteSet(Busy), NEW t \in Counter,
         \A u \in Counter \ {t} : call'[u] = call[u]
  PROVE  /\ Cardinality(Busy) \in Nat
         /\ IsFiniteSet(Busy')
         /\ call[t] = "none" /\ call'[t] # "none" =>
              Cardinality(Busy') = Cardinality(Busy) + 1
         /\ call[t] # "none" /\ call'[t] = "none" =>
              /\ Cardinality(Busy') = Cardinality(Busy) - 1
              /\ Cardinality(Busy) >= 1
<1>1. Busy' \subseteq Busy \cup {t}
  BY DEF Busy
<1>2. IsFiniteSet(Busy \cup {t}) /\ Cardinality(Busy) \in Nat
  BY FS_AddElement, FS_CardinalityType
<1>3. IsFiniteSet(Busy')
  BY <1>1, <1>2, FS_Subset
<1>4. CASE call[t] = "none" /\ call'[t] # "none"
  <2>1. Busy' = Busy \cup {t} /\ t \notin Busy
    BY <1>4 DEF Busy
  <2> QED
    BY <1>2, <1>3, <1>4, <2>1, FS_AddElement
<1>5. CASE call[t] # "none" /\ call'[t] = "none"
  <2>1. Busy' = Busy \ {t} /\ t \in Busy
    BY <1>5 DEF Busy
  <2>2. Cardinality(Busy') = Cardinality(Busy) - 1 /\ Busy # {}
    BY <2>1, FS_RemoveElement
  <2> QED
    BY <1>2, <1>3, <1>5, <2>2, FS_EmptySet
<1> QED
  BY <1>2, <1>3, <1>4, <1>5

LEMMA GetAndAddStep ==
  ASSUME AtomicInv, NEW t \in Counter, GetAndAdd(t)
  PROVE  AtomicInv'
<1>1. PICK k \in 0 .. calls : Incremented(k)
  BY DEF AtomicInv
<1>2. /\ call[t] = "none" /\ calls < MaxCalls /\ calls' = calls + 1
      /\ call' = [call EXCEPT ![t] = "increment"]
      /\ fetched' = [fetched EXCEPT ![t] = integer]
      /\ epochOf' = [epochOf EXCEPT ![t] = epoch]
      /\ integer' = Wrap(integer + 1)
      /\ epoch' = epoch /\ tickets' = tickets /\ issued' = issued
  BY DEF GetAndAdd, Access
<1>3. /\ calls \in Nat /\ MaxCalls \in Nat /\ k \in 0 .. 2 * Size - 1
      /\ calls' \in 0 .. MaxCalls /\ k + 1 \in 0 .. calls'
  BY <1>2, CallsAssumption, SizeAssumption DEF AtomicInv, AtomicTypeOK
<1>4. integer' = Counted(k + 1) /\ integer' \in T
  BY <1>1, <1>2, <1>3, CountsOn, CountedInRange, SizeAssumption DEF Incremented
<1>5. AtomicTypeOK'
  BY <1>2, <1>3, <1>4 DEF AtomicInv, AtomicTypeOK
<1>6. /\ Pending' = IF integer = Size - 1 THEN Pending ELSE Pending \cup {t}
      /\ t \notin Pending
      /\ \A u \in Pending : TicketOf(u)' = TicketOf(u)
      /\ integer # Size - 1 => TicketOf(t)' = <<epoch, Counted(k + 1)>>
  <2>0. /\ \A u \in Counter : call'[u] = IF u = t THEN "increment" ELSE call[u]
        /\ \A u \in Counter : fetched'[u] = IF u = t THEN integer ELSE fetched[u]
        /\ \A u \in Counter : epochOf'[u] = IF u = t THEN epoch ELSE epochOf[u]
    BY <1>2 DEF AtomicInv, AtomicTypeOK
  <2>1. ASSUME integer # Size - 1 PROVE AddAndGet(t)' = Wrap(integer + 1)
    <3>1. integer \in -Size .. Size - 2
      BY <2>1, SizeAssumption DEF AtomicInv, AtomicTypeOK, T
    <3>2. Wrap(integer + 1) = integer + 1
      BY <3>1, Wraps, SizeAssumption
    <3> QED
      BY <2>0, <3>2 DEF AddAndGet
  <2>2. t \notin Pending
    BY <1>2 DEF Pending
  <2>3. Pending' = IF integer = Size - 1 THEN Pending ELSE Pending \cup {t}
    BY <2>0, <2>2 DEF Pending, Overflows
  <2>4. ASSUME NEW u \in Pending PROVE TicketOf(u)' = TicketOf(u)
    BY <2>0, <2>2 DEF TicketOf, AddAndGet, Pending
  <2> QED
    BY <1>2, <1>4, <2>0, <2>1, <2>2, <2>3, <2>4 DEF TicketOf
<1>7. Taken \subseteq Taken' /\ Taken' \subseteq Taken \cup {<<epoch, Counted(k + 1)>>}
  BY <1>2, <1>6 DEF Taken
<1>8. <<epoch, Counted(k + 1)>> \notin Taken
  <2> SUFFICES ASSUME NEW ticket \in Taken, ticket = <<epoch, Counted(k + 1)>>
               PROVE  FALSE
    OBVIOUS
  <2>1. ticket[1] = epoch /\ ticket[2] = Counted(k + 1)
    OBVIOUS
  <2>2. PICK j \in 1 .. k : ticket[2] = Counted(j)
    BY <1>1, <2>1 DEF Incremented
  <2>3. j \in 1 .. 2 * Size /\ k + 1 \in 1 .. 2 * Size /\ j # k + 1
    BY <1>3, SizeAssumption
  <2> QED
    BY <2>1, <2>2, <2>3, CountedApart
<1>9. Incremented(k + 1)'
  <2>1. epoch \in Nat
    BY DEF AtomicInv, AtomicTypeOK
  <2>2. ASSUME NEW ticket \in Taken'
        PROVE  /\ ticket[1] <= epoch'
               /\ ticket[1] = epoch' => \E j \in 1 .. k + 1 : ticket[2] = Counted(j)
    <3>1. CASE ticket \in Taken
      BY <1>1, <1>2, <1>3, <3>1 DEF Incremented
    <3>2. CASE ticket = <<epoch, Counted(k + 1)>>
      BY <1>2, <1>3, <2>1, <3>2
    <3> QED
      BY <1>7, <2>2, <3>1, <3>2
  <2> QED
    BY <1>4, <2>2 DEF Incremented, Counted
<1>10. /\ \A u \in Pending' : TicketOf(u)' \notin tickets'
       /\ \A u, v \in Pending' : TicketOf(u)' = TicketOf(v)' => u = v
  BY <1>2, <1>6, <1>8 DEF AtomicInv, Taken
<1>11. epoch' <= calls'
  BY <1>2, <1>3 DEF AtomicInv, AtomicTypeOK
<1>12. IsFiniteSet(Busy') /\ issued' + Cardinality(Busy') <= calls'
  <2>0. /\ \A u \in Counter \ {t} : call'[u] = call[u]
        /\ call[t] = "none" /\ call'[t] # "none"
    BY <1>2 DEF AtomicInv, AtomicTypeOK
  <2>1. /\ IsFiniteSet(Busy') /\ Cardinality(Busy) \in Nat
        /\ Cardinality(Busy') = Cardinality(Busy) + 1
    BY <2>0, BusyChanges DEF AtomicInv
  <2>2. issued \in Nat /\ issued' = issued /\ issued + Cardinality(Busy) <= calls
    BY <1>2, <1>3 DEF AtomicInv, AtomicTypeOK
  <2> QED
    BY <1>2, <1>3, <2>1, <2>2
<1> QED
  BY <1>2, <1>3, <1>5, <1>9, <1>10, <1>11, <1>12 DEF AtomicInv

LEMMA GetAndSetStep ==
  ASSUME AtomicInv, NEW t \in Counter, GetAndSet(t)
  PROVE  AtomicInv'
<1>1. /\ call[t] = "none" /\ calls < MaxCalls /\ calls' = calls + 1
      /\ call' = [call EXCEPT ![t] = "set"]
      /\ fetched' = [fetched EXCEPT ![t] = integer]
      /\ integer' = 0 /\ epoch' = epoch + 1 /\ epochOf' = epochOf
      /\ tickets' = tickets /\ issued' = issued
  BY DEF GetAndSet, Access
<1>2. /\ calls \in Nat /\ MaxCalls \in Nat /\ epoch \in Nat /\ epoch' <= calls'
      /\ calls' \in 0 .. MaxCalls /\ epoch' \in 0 .. MaxCalls
  BY <1>1, CallsAssumption, SizeAssumption DEF AtomicInv, AtomicTypeOK
<1>3. AtomicTypeOK'
  BY <1>1, <1>2, SizeAssumption DEF AtomicInv, AtomicTypeOK, T
<1>4. Pending' = Pending /\ \A u \in Pending : TicketOf(u)' = TicketOf(u)
  <2>1. Pending' = Pending /\ t \notin Pending
    BY <1>1 DEF Pending, Overflows, AtomicInv, AtomicTypeOK
  <2>2. ASSUME NEW u \in Pending PROVE TicketOf(u)' = TicketOf(u)
    BY <1>1, <2>1 DEF TicketOf, AddAndGet, Pending, AtomicInv, AtomicTypeOK
  <2> QED
    BY <2>1, <2>2
<1>5. Taken' = Taken
  BY <1>1, <1>4 DEF Taken
<1>6. Incremented(0)'
  <2>1. PICK k \in 0 .. calls : Incremented(k)
    BY DEF AtomicInv
  <2>2. \A ticket \in Taken : ticket[1] \in Nat /\ ticket[1] <= epoch
    <3>1. \A ticket \in tickets : ticket[1] \in Nat
      BY DEF AtomicInv, AtomicTypeOK
    <3>2. \A u \in Pending : TicketOf(u)[1] \in Nat
      BY DEF TicketOf, Pending, AtomicInv, AtomicTypeOK
    <3> QED
      BY <2>1, <3>1, <3>2 DEF Taken, Incremented
  <2>3. \A ticket \in Taken : ticket[1] < epoch'
    BY <1>1, <1>2, <2>2
  <2>4. integer' = Counted(0)
    BY <1>1, SizeAssumption DEF Counted
  <2> QED
    BY <1>2, <1>5, <2>2, <2>3, <2>4 DEF Incremented, Counted
<1>7. IsFiniteSet(Busy') /\ issued' + Cardinality(Busy') <= calls'
  <2>0. /\ \A u \in Counter \ {t} : call'[u] = call[u]
        /\ call[t] = "none" /\ call'[t] # "none"
    BY <1>1 DEF AtomicInv, AtomicTypeOK
  <2>1. /\ IsFiniteSet(Busy') /\ Cardinality(Busy) \in Nat
        /\ Cardinality(Busy') = Cardinality(Busy) + 1
    BY <2>0, BusyChanges DEF AtomicInv
  <2>2. issued \in Nat /\ issued' = issued /\ issued + Cardinality(Busy) <= calls
    BY <1>1, <1>2 DEF AtomicInv, AtomicTypeOK
  <2> QED
    BY <1>1, <1>2, <2>1, <2>2
<1> QED
  BY <1>1, <1>2, <1>3, <1>4, <1>6, <1>7 DEF AtomicInv

LEMMA ReturnStep ==
  ASSUME AtomicInv, NEW t \in Counter, Return(t)
  PROVE  AtomicInv'
<1>1. /\ call[t] # "none" /\ call' = [call EXCEPT ![t] = "none"]
      /\ integer' = integer /\ fetched' = fetched /\ epoch' = epoch
      /\ epochOf' = epochOf /\ calls' = calls
  BY DEF Return
<1>2. Pending' = Pending \ {t}
  BY <1>1 DEF Pending, Overflows, AtomicInv, AtomicTypeOK
<1>3. \A u \in Counter : TicketOf(u)' = TicketOf(u) /\ (Overflows(u)' <=> Overflows(u))
  BY <1>1 DEF TicketOf, AddAndGet, Overflows
<1>b. /\ IsFiniteSet(Busy') /\ Cardinality(Busy) \in Nat /\ Cardinality(Busy) >= 1
      /\ Cardinality(Busy') = Cardinality(Busy) - 1
  <2>1. /\ \A u \in Counter \ {t} : call'[u] = call[u]
        /\ call[t] # "none" /\ call'[t] = "none"
    BY <1>1 DEF AtomicInv, AtomicTypeOK
  <2> QED
    BY <2>1, BusyChanges DEF AtomicInv
<1>4. CASE call[t] = "increment" /\ ~Overflows(t)
  <2>1. t \in Pending /\ tickets' = tickets \cup {TicketOf(t)} /\ issued' = issued + 1
    BY <1>4 DEF Return, Pending, TicketOf
  <2>2. TicketOf(t) \notin tickets
    BY <2>1 DEF AtomicInv
  <2>3. IsFiniteSet(tickets') /\ Cardinality(tickets') = issued'
    BY <2>1, <2>2, FS_AddElement DEF AtomicInv
  <2>4. issued' \in 0 .. MaxCalls /\ issued' + Cardinality(Busy') <= calls'
    BY <1>1, <1>b, <2>1, CallsAssumption, SizeAssumption DEF AtomicInv, AtomicTypeOK
  <2>5. AtomicTypeOK'
    <3>1. AddAndGet(t) \in T
      BY <1>4, TicketsTyped DEF AtomicInv
    <3>2. TicketOf(t) \in (0 .. MaxCalls) \X T
      BY <3>1 DEF AtomicInv, AtomicTypeOK, TicketOf
    <3> QED
      BY <1>1, <2>1, <2>4, <3>2 DEF AtomicInv, AtomicTypeOK
  <2>6. Taken' = Taken
    BY <1>2, <1>3, <2>1 DEF Taken, Pending
  <2>7. \E k \in 0 .. calls' : Incremented(k)'
    BY <1>1, <2>6 DEF AtomicInv, Incremented, Counted
  <2>8. /\ \A u \in Pending' : TicketOf(u)' \notin tickets'
        /\ \A u, v \in Pending' : TicketOf(u)' = TicketOf(v)' => u = v
    BY <1>2, <1>3, <2>1 DEF AtomicInv, Pending
  <2> QED
    BY <1>1, <1>b, <2>3, <2>4, <2>5, <2>7, <2>8 DEF AtomicInv
<1>5. CASE ~(call[t] = "increment" /\ ~Overflows(t))
  <2>1. t \notin Pending /\ tickets' = tickets /\ issued' = issued
    BY <1>5 DEF Return, Pending
  <2>2. AtomicTypeOK'
    BY <1>1, <2>1 DEF AtomicInv, AtomicTypeOK
  <2>3. Taken' = Taken /\ Pending' = Pending
    BY <1>2, <1>3, <2>1 DEF Taken, Pending
  <2>4. \E k \in 0 .. calls' : Incremented(k)'
    BY <1>1, <2>3 DEF AtomicInv, Incremented, Counted
  <2>5. issued' + Cardinality(Busy') <= calls'
    BY <1>1, <1>b, <2>1 DEF AtomicInv, AtomicTypeOK
  <2> QED
    BY <1>1, <1>3, <1>b, <2>1, <2>2, <2>3, <2>4, <2>5 DEF AtomicInv, Pending
<1> QED
  BY <1>4, <1>5

\* Threads that increment at the same time get different numbers, for any size
\* of the integer, until it has taken all its values; but for the one that finds
\* the highest value, for which the addition is undefined (AtomicIntegerT).
THEOREM TicketsAlwaysDistinct ==
  AtomicSpec => []TicketsDistinct
<1>1. AtomicInit => AtomicInv
  <2> SUFFICES ASSUME AtomicInit PROVE AtomicInv
    OBVIOUS
  <2>1. AtomicTypeOK
    BY SizeAssumption, CallsAssumption DEF AtomicInit, AtomicTypeOK, T
  <2>2. Pending = {} /\ Busy = {} /\ Taken = {}
    BY DEF AtomicInit, Pending, Busy, Taken
  <2>3. Incremented(0)
    BY <2>2, SizeAssumption DEF AtomicInit, Incremented, Counted
  <2>4. IsFiniteSet({}) /\ Cardinality({}) = 0
    BY FS_EmptySet
  <2> QED
    BY <2>1, <2>2, <2>3, <2>4 DEF AtomicInit, AtomicInv
<1>2. AtomicInv /\ [AtomicNext]_atomicVars => AtomicInv'
  <2> SUFFICES ASSUME AtomicInv, [AtomicNext]_atomicVars PROVE AtomicInv'
    OBVIOUS
  <2>1. CASE UNCHANGED atomicVars
    BY <2>1
       DEF atomicVars, AtomicInv, AtomicTypeOK, Incremented, Taken, Pending, Busy,
           TicketOf, AddAndGet, Overflows
  <2> QED
    BY <2>1, GetAndAddStep, GetAndSetStep, ReturnStep DEF AtomicNext
<1>3. AtomicInv => TicketsDistinct
  BY DEF AtomicInv, TicketsDistinct
<1> QED
  BY <1>1, <1>2, <1>3, PTL DEF AtomicSpec
=============================================================================
