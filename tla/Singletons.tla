----------------------------- MODULE Singletons -----------------------------
(***************************************************************************)
(* Objects made on first use: Singleton, one for the process, made in      *)
(* pthread_once and destroyed by atexit; ThreadLocal and                   *)
(* ThreadLocalSingleton, one for each thread, destroyed when it exits.     *)
(*                                                                         *)
(* At the exit of a thread pthreads passes over its keys, in any order:    *)
(* a key that is set is set to NULL and its destructor called with what it *)
(* held.  As long as a key is set afterwards there is another pass, up to  *)
(* a number of them.  A destructor runs code of the program, which may use *)
(* all kinds of objects.  ~ThreadLocal and ~Deleter delete the key of all  *)
(* threads, which calls no destructor.                                     *)
(*                                                                         *)
(* Operators marked "(mutation)" are altered forms of the definition that  *)
(* follows them; no specification uses them.                               *)
(***************************************************************************)
EXTENDS Integers, FiniteSets

CONSTANTS
  Worker,     \* the threads
  Object,     \* the objects the heap has room for
  Null,       \* the null pointer
  MaxRounds   \* PTHREAD_DESTRUCTOR_ITERATIONS

ASSUME NullAssumption   == Null \notin Object \cup Worker
ASSUME RoundsAssumption == MaxRounds \in Nat \ {0}

VARIABLES
  once,      \* ponce_: "start", "running" or "done"
  initiator, \* the thread that runs init(), or Null
  value,     \* Singleton::value_
  inInstance,\* threads in pthread_once
  got,       \* the singleton's object as instance() gave it to a thread
  keys,      \* the kinds whose key has not been deleted
  key,       \* pthread_getspecific of a thread, for each kind
  tvalue,    \* t_value_ of a thread
  dying,     \* the object a thread's destructor of each kind was called with
  life,      \* a thread is "running", "exiting" or "gone"
  todo,      \* the keys a thread's pass has still to come to
  rounds,    \* passes a thread has begun
  alive,     \* objects constructed and not destroyed
  madeFor,   \* history: the kind of an object, "none" before it is made
  exited     \* exit() has run destroy()

singleVars    == <<once, initiator, value, inInstance, got, exited>>
localVars     == <<keys, key, tvalue, dying, life, todo, rounds>>
heapVars      == <<alive, madeFor>>
singletonVars == <<singleVars, localVars, heapVars>>

Kind == {"local", "localSingleton"}

SingletonTypeOK ==
  /\ once \in {"start", "running", "done"}
  /\ initiator \in Worker \cup {Null}
  /\ value \in Object \cup {Null}
  /\ inInstance \in SUBSET Worker
  /\ got \in [Worker -> Object \cup {Null}]
  /\ keys \in SUBSET Kind
  /\ key \in [Worker -> [Kind -> Object \cup {Null}]]
  /\ tvalue \in [Worker -> Object \cup {Null}]
  /\ dying \in [Worker -> [Kind -> Object \cup {Null}]]
  /\ life \in [Worker -> {"running", "exiting", "gone"}]
  /\ todo \in [Worker -> SUBSET Kind]
  /\ rounds \in [Worker -> 0 .. MaxRounds]
  /\ alive \in SUBSET Object
  /\ madeFor \in [Object -> Kind \cup {"none", "process"}]
  /\ exited \in BOOLEAN

SingletonInit ==
  /\ once = "start"
  /\ initiator = Null
  /\ value = Null
  /\ inInstance = {}
  /\ got = [t \in Worker |-> Null]
  /\ keys = Kind
  /\ key = [t \in Worker |-> [k \in Kind |-> Null]]
  /\ tvalue = [t \in Worker |-> Null]
  /\ dying = [t \in Worker |-> [k \in Kind |-> Null]]
  /\ life = [t \in Worker |-> "running"]
  /\ todo = [t \in Worker |-> {}]
  /\ rounds = [t \in Worker |-> 0]
  /\ alive = {}
  /\ madeFor = [x \in Object |-> "none"]
  /\ exited = FALSE

\* new T()
New(x, what) ==
  /\ madeFor[x] = "none"
  /\ madeFor' = [madeFor EXCEPT ![x] = what]
  /\ alive' = alive \cup {x}

\* delete
Delete(x) ==
  /\ alive' = alive \ {x}
  /\ UNCHANGED madeFor

InDestructor(t) == \E k \in Kind : dying[t][k] # Null

\* A thread runs code of the program: its own, or a destructor's.
Runs(t) == life[t] = "running" \/ InDestructor(t)

-----------------------------------------------------------------------------
(* Singleton *)

\* instance() calls pthread_once.
EntersOnce(t) ==
  /\ Runs(t)
  /\ t \notin inInstance
  /\ inInstance' = inInstance \cup {t}
  /\ UNCHANGED <<once, initiator, value, got, exited, localVars, heapVars>>

\* pthread_once calls init() in the first thread that comes.
StartsInit(t) ==
  /\ t \in inInstance
  /\ once = "start"
  /\ once' = "running"
  /\ initiator' = t
  /\ UNCHANGED <<value, inInstance, got, exited, localVars, heapVars>>

RunsInit(t) ==
  /\ initiator = t
  /\ \E x \in Object : New(x, "process") /\ value' = x
  /\ once' = "done"
  /\ initiator' = Null
  /\ UNCHANGED <<inInstance, got, exited, localVars>>

OnceIsOver(t) == once = "done"

\* The assertion of instance() fails in a process that is exiting.
Returns(t) ==
  /\ t \in inInstance
  /\ OnceIsOver(t)
  /\ inInstance' = inInstance \ {t}
  /\ got' = [got EXCEPT ![t] = value]
  /\ UNCHANGED <<once, initiator, value, exited, localVars, heapVars>>

\* exit() calls destroy(), which init() has registered; other threads run on.
Exit ==
  /\ once = "done"
  /\ ~exited
  /\ exited' = TRUE
  /\ Delete(value)
  /\ value' = Null
  /\ UNCHANGED <<once, initiator, inInstance, got, localVars>>

-----------------------------------------------------------------------------
(* ThreadLocal and ThreadLocalSingleton *)

\* ThreadLocal::value()
LocalValue(t) ==
  /\ Runs(t)
  /\ "local" \in keys
  /\ key[t]["local"] = Null
  /\ \E x \in Object : New(x, "local") /\ key' = [key EXCEPT ![t]["local"] = x]
  /\ UNCHANGED <<singleVars, keys, tvalue, dying, life, todo, rounds>>

\* ThreadLocalSingleton::instance().  Deleter::set asserts that the key is not
\* set, and does not look whether it could be set.
LocalInstance(t) ==
  /\ Runs(t)
  /\ tvalue[t] = Null
  /\ \E x \in Object :
       /\ New(x, "localSingleton")
       /\ tvalue' = [tvalue EXCEPT ![t] = x]
       /\ key' = [key EXCEPT ![t]["localSingleton"] =
                   IF "localSingleton" \in keys THEN x ELSE Null]
  /\ UNCHANGED <<singleVars, keys, dying, life, todo, rounds>>

\* pthread_key_delete, in ~ThreadLocal and in ~Deleter, which exit() calls
\* after destroy(), since that was registered later.
DeletesKey(k) ==
  /\ k \in keys
  /\ k = "localSingleton" => (exited \/ once # "done")
  /\ keys' = keys \ {k}
  /\ key' = [t \in Worker |-> [key[t] EXCEPT ![k] = Null]]
  /\ UNCHANGED <<singleVars, tvalue, dying, life, todo, rounds, heapVars>>

-----------------------------------------------------------------------------
(* The exit of a thread *)

ThreadExits(t) ==
  /\ life[t] = "running"
  /\ t \notin inInstance
  /\ life' = [life EXCEPT ![t] = "exiting"]
  /\ todo' = [todo EXCEPT ![t] = Kind]
  /\ rounds' = [rounds EXCEPT ![t] = 1]
  /\ UNCHANGED <<singleVars, keys, key, tvalue, dying, heapVars>>

\* A pass comes to a key.
ComesTo(t, k) ==
  /\ life[t] = "exiting"
  /\ ~InDestructor(t)
  /\ k \in todo[t]
  /\ todo' = [todo EXCEPT ![t] = @ \ {k}]
  /\ key' = [key EXCEPT ![t][k] = Null]
  /\ dying' = [dying EXCEPT ![t][k] = key[t][k]]
  /\ UNCHANGED <<singleVars, keys, tvalue, life, rounds, heapVars>>

\* The end of a destructor, during which the object's own has run.
EndsDestructor(t, k, x) ==
  /\ dying[t][k] # Null
  /\ t \notin inInstance
  /\ Delete(x)
  /\ dying' = [dying EXCEPT ![t][k] = Null]
  /\ UNCHANGED <<singleVars, keys, key, life, todo, rounds>>

DestroyLocal(t) ==
  /\ EndsDestructor(t, "local", dying[t]["local"])
  /\ UNCHANGED tvalue

\* t_value_ is not reset (mutation).
DestroyLocalInstanceKept(t) ==
  /\ EndsDestructor(t, "localSingleton", tvalue[t])
  /\ UNCHANGED tvalue

DestroyLocalInstance(t) ==
  /\ EndsDestructor(t, "localSingleton", tvalue[t])
  /\ tvalue' = [tvalue EXCEPT ![t] = Null]

PassIsOver(t) == life[t] = "exiting" /\ todo[t] = {} /\ ~InDestructor(t)

PassesAgain(t) ==
  /\ PassIsOver(t)
  /\ \E k \in Kind : key[t][k] # Null
  /\ rounds[t] < MaxRounds
  /\ todo' = [todo EXCEPT ![t] = Kind]
  /\ rounds' = [rounds EXCEPT ![t] = @ + 1]
  /\ UNCHANGED <<singleVars, keys, key, tvalue, dying, life, heapVars>>

\* No key is set, or pthreads has made its passes.
ThreadEnds(t) ==
  /\ PassIsOver(t)
  /\ (\A k \in Kind : key[t][k] = Null) \/ rounds[t] = MaxRounds
  /\ life' = [life EXCEPT ![t] = "gone"]
  /\ UNCHANGED <<singleVars, keys, key, tvalue, dying, todo, rounds, heapVars>>

SingletonNext ==
  \/ Exit
  \/ \E k \in Kind : DeletesKey(k)
  \/ \E t \in Worker :
       \/ EntersOnce(t) \/ StartsInit(t) \/ RunsInit(t) \/ Returns(t)
       \/ LocalValue(t) \/ LocalInstance(t) \/ ThreadExits(t)
       \/ \E k \in Kind : ComesTo(t, k)
       \/ DestroyLocal(t) \/ DestroyLocalInstance(t)
       \/ PassesAgain(t) \/ ThreadEnds(t)

SingletonSpec == SingletonInit /\ [][SingletonNext]_singletonVars

-----------------------------------------------------------------------------
(* Properties *)

\* instance() finds the object when pthread_once returns, unless exit() has
\* destroyed it, and every thread is given the same one.
InstanceReady ==
  ~exited => /\ \A t \in inInstance : OnceIsOver(t) => value \in alive
             /\ \A t \in Worker : got[t] \in {Null, value}

\* The destructor of the key of ThreadLocalSingleton is called with t_value_, as
\* it asserts; t_value_ is what it will destroy or is destroying, but for one
\* whose key was deleted.
LocalInstanceOwned ==
  \A t \in Worker :
    LET own == {key[t]["localSingleton"], dying[t]["localSingleton"]} \ {Null}
    IN  /\ own \subseteq {tvalue[t]}
        /\ tvalue[t] # Null /\ "localSingleton" \in keys => tvalue[t] \in own

\* What the process has hold of, and what a thread has while it is there.
Held ==
  {value} \cup
  UNION {{tvalue[t]} \cup {key[t][k] : k \in Kind} \cup {dying[t][k] : k \in Kind} :
         t \in {u \in Worker : life[u] # "gone"}}

\* An object pthreads has no destructor left to call for: the key of its kind
\* was deleted, or a destructor made it after the last pass at the exit of its
\* thread had come to its key.
Forgotten(x) ==
  \/ madeFor[x] \in Kind \ keys
  \/ \E t \in Worker, k \in Kind :
       life[t] = "gone" /\ rounds[t] = MaxRounds /\ key[t][k] = x

\* Nothing is destroyed twice or used after that, and nothing is forgotten
\* except as Forgotten says, in any order of first uses, exits, passes and
\* destructors: what the process or a thread has hold of is alive, and what
\* is alive somebody has hold of, or it was forgotten.
ObjectsAccounted ==
  /\ InstanceReady
  /\ LocalInstanceOwned
  /\ Held \ {Null} \subseteq alive
  /\ \A x \in alive : x \in Held \/ Forgotten(x)
=============================================================================
