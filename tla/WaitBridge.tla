------------------------------ MODULE WaitBridge ------------------------------
(***************************************************************************)
(* The conditions and read-write locks of src/src/pthread_bridge.c.  Like  *)
(* a mutex, the first word of each is a static initialiser until the first *)
(* use puts a pointer to a glibc object there, and several threads may be  *)
(* at that first use.                                                      *)
(*                                                                         *)
(* The program is a monitor: waiters take items under a mutex and wait for *)
(* them on the condition, posters add one and signal after they released   *)
(* the mutex; or it has readers and writers.  It initialises or destroys a *)
(* condition as POSIX allows, when no thread is at it.  PthreadBridge has  *)
(* the mutex, which is atomic here, and is what a behaviour may be about   *)
(* instead.  A section under g_lock calls nothing that waits: one step.    *)
(***************************************************************************)
EXTENDS PthreadBridge

CONSTANTS Waiters, Posters, Makers,   \* who waits, who posts, who initialises and destroys
          Uses,         \* what a behaviour may be about
          MaxItems,     \* bound: items posted
          MaxMade       \* bound: glibc objects made

ASSUME WaitAssumption ==
  /\ Waiters \cup Posters \cup Makers \subseteq Threads
  /\ IsFiniteSet(Threads) /\ Uses \subseteq {"mutex", "cond", "rwlock"}
  /\ MaxItems \in Nat /\ MaxMade \in Nat

VARIABLES
  use,              \* what the behaviour is about
  word, made,       \* the first word of the object, and how many were made
  gone,             \* objects given to pthread_cond_destroy and free
  where, doing, real,  \* per thread: program point, call, glibc object
  mutex, items, posted,  \* the monitor: holder, items, items ever posted
  waiting,          \* glibc: the threads that wait on each condition
  readers, writer,  \* glibc: who holds each read-write lock
  has               \* how each thread believes it holds the read-write lock

monitor == <<mutex, items, posted>>
rwlock == <<readers, writer, has>>
waitVars == <<use, word, made, gone, where, doing, real, monitor, waiting, rwlock>>

\* Words of 2 and more are pointers; a static condition or lock holds 0.
Made == 2..(MaxMade + 1)
IsPointer(v) == v > 1

Moves(t, from, to) == where[t] = from /\ where' = [where EXCEPT ![t] = to]
Calls(t, from, call) ==
  /\ Moves(t, from, "fast") /\ doing' = [doing EXCEPT ![t] = call]

-----------------------------------------------------------------------------
\* cnd_real and rw_real: an unlocked look at the word,
LooksUp(t) ==
  /\ \/ IsPointer(word) /\ Moves(t, "fast", "enter") /\ real' = [real EXCEPT ![t] = word]
     \/ ~IsPointer(word) /\ Moves(t, "fast", "lazy") /\ UNCHANGED real
  /\ UNCHANGED <<use, word, made, gone, doing, monitor, waiting, rwlock>>

\* A variant without the second look.
MakesUnchecked(t) ==
  /\ Moves(t, "lazy", "reread")
  /\ made < MaxMade /\ made' = made + 1 /\ word' = made + 2
  /\ UNCHANGED <<use, gone, doing, real, monitor, waiting, rwlock>>

\* another one under g_lock, which makes the object,
Makes(t) ==
  /\ Moves(t, "lazy", "reread")
  /\ IF IsPointer(word) THEN UNCHANGED <<word, made>>
     ELSE made < MaxMade /\ made' = made + 1 /\ word' = made + 2
  /\ UNCHANGED <<use, gone, doing, real, monitor, waiting, rwlock>>

\* and "return *slot" after it.
Rereads(t) ==
  /\ Moves(t, "reread", "enter") /\ real' = [real EXCEPT ![t] = word]
  /\ UNCHANGED <<use, word, made, gone, doing, monitor, waiting, rwlock>>

-----------------------------------------------------------------------------
\* No thread is at the condition, or on its way to it.
Idle == \A t \in Threads : where[t] = "idle"

\* Bound: one object is left for the next use.
Spare == made < MaxMade

\* b_cond_init: zero under g_lock, then cnd_real makes the object.
CondInit(t) ==
  /\ use = "cond" /\ t \in Makers /\ Idle /\ Spare
  /\ Calls(t, "idle", "init") /\ word' = 0
  /\ UNCHANGED <<use, made, gone, real, monitor, waiting, rwlock>>

CondInitDone(t) ==
  /\ doing[t] = "init" /\ Moves(t, "enter", "idle")
  /\ UNCHANGED <<use, word, made, gone, doing, real, monitor, waiting, rwlock>>

\* b_cond_destroy.
CondDestroy(t) ==
  /\ use = "cond" /\ t \in Makers /\ Idle /\ Spare /\ word # 0
  /\ gone' = gone \cup {word} /\ word' = 0
  /\ UNCHANGED <<use, made, where, doing, real, monitor, waiting, rwlock>>

-----------------------------------------------------------------------------
\* The monitor's mutex, taken to look for an item or to post one.
Lock(t) ==
  /\ use = "cond" /\ mutex = Nobody /\ mutex' = t
  /\ \/ Moves(t, "idle", "locked") /\ (t \in Waiters \/ (t \in Posters /\ posted < MaxItems))
     \/ Moves(t, "woken", "locked")
  /\ UNCHANGED <<use, word, made, gone, doing, real, items, posted, waiting, rwlock>>

\* An item is taken; or a timed wait timed out and the thread gives up.
Leave(t) ==
  /\ t \in Waiters /\ Moves(t, "locked", "idle") /\ mutex' = Nobody
  /\ IF items > 0 THEN items' = items - 1
     ELSE doing[t] = "timedout" /\ UNCHANGED items
  /\ doing' = [doing EXCEPT ![t] = "none"]
  /\ UNCHANGED <<use, word, made, gone, real, posted, waiting, rwlock>>

\* b_cond_wait, b_cond_timedwait: with the mutex held and nothing there.
CallWait(t) ==
  /\ t \in Waiters /\ items = 0
  /\ \E call \in {"wait", "timedwait"} : Calls(t, "locked", call)
  /\ UNCHANGED <<use, word, made, gone, real, monitor, waiting, rwlock>>

\* Woken or not, a thread that has come back from a wait looks for an item.
Waited(t) == doing[t] \in {"wait", "timedwait", "timedout"}

\* b_cond_signal, b_cond_broadcast: after an item was posted and the mutex released.
Post(t) ==
  /\ t \in Posters /\ posted < MaxItems /\ ~Waited(t)
  /\ \E call \in {"signal", "broadcast"} : Calls(t, "locked", call)
  /\ mutex' = Nobody /\ items' = items + 1 /\ posted' = posted + 1
  /\ UNCHANGED <<use, word, made, gone, real, waiting, rwlock>>

\* pthread_cond_wait: release and sleep in one step.
Sleep(t) ==
  /\ doing[t] \in {"wait", "timedwait"} /\ Moves(t, "enter", "asleep")
  /\ mutex' = Nobody /\ waiting' = [waiting EXCEPT ![real[t]] = @ \cup {t}]
  /\ UNCHANGED <<use, word, made, gone, doing, real, items, posted, rwlock>>

\* The deadline, or no reason at all.
WakeAlone(t) ==
  /\ Moves(t, "asleep", "woken")
  /\ waiting' = [waiting EXCEPT ![real[t]] = @ \ {t}]
  /\ doing' = [doing EXCEPT ![t] = IF @ = "timedwait" THEN "timedout" ELSE @]
  /\ UNCHANGED <<use, word, made, gone, real, monitor, rwlock>>

\* pthread_cond_signal wakes one of those who wait on its object, broadcast all.
Signal(t) ==
  /\ doing[t] \in {"signal", "broadcast"} /\ where[t] = "enter"
  /\ \E woken \in SUBSET waiting[real[t]] :
       /\ IF doing[t] = "broadcast" THEN woken = waiting[real[t]]
          ELSE Cardinality(woken) = (IF waiting[real[t]] = {} THEN 0 ELSE 1)
       /\ waiting' = [waiting EXCEPT ![real[t]] = @ \ woken]
       /\ where' = [u \in Threads |-> IF u = t THEN "idle" ELSE IF u \in woken THEN "woken"
                                      ELSE where[u]]
  /\ UNCHANGED <<use, word, made, gone, doing, real, monitor, rwlock>>

-----------------------------------------------------------------------------
\* b_rwlock_rdlock, b_rwlock_wrlock, b_rwlock_unlock
CallRwlock(t) ==
  /\ use = "rwlock"
  /\ \E call \in IF has[t] = "none" THEN {"rdlock", "wrlock"} ELSE {"unlock"} : Calls(t, "idle", call)
  /\ UNCHANGED <<use, word, made, gone, real, monitor, waiting, rwlock>>

EnterRwlock(t) ==
  /\ Moves(t, "enter", "idle")
  /\ \/ /\ doing[t] = "rdlock" /\ writer[real[t]] = Nobody
        /\ readers' = [readers EXCEPT ![real[t]] = @ \cup {t}]
        /\ has' = [has EXCEPT ![t] = "read"] /\ UNCHANGED writer
     \/ /\ doing[t] = "wrlock" /\ writer[real[t]] = Nobody /\ readers[real[t]] = {}
        /\ writer' = [writer EXCEPT ![real[t]] = t]
        /\ has' = [has EXCEPT ![t] = "write"] /\ UNCHANGED readers
     \/ /\ doing[t] = "unlock"
        /\ readers' = [readers EXCEPT ![real[t]] = @ \ {t}]
        /\ writer' = [writer EXCEPT ![real[t]] = IF @ = t THEN Nobody ELSE @]
        /\ has' = [has EXCEPT ![t] = "none"]
  /\ UNCHANGED <<use, word, made, gone, doing, real, monitor, waiting>>

-----------------------------------------------------------------------------
WaitInit ==
  /\ use \in Uses /\ word = 0 /\ made = 0 /\ gone = {}
  /\ where = [t \in Threads |-> "idle"] /\ doing = [t \in Threads |-> "none"]
  /\ real = [t \in Threads |-> 0]
  /\ mutex = Nobody /\ items = 0 /\ posted = 0
  /\ waiting = [o \in Made |-> {}]
  /\ readers = [o \in Made |-> {}] /\ writer = [o \in Made |-> Nobody]
  /\ has = [t \in Threads |-> "none"]

WaitNext ==
  \E t \in Threads :
    \/ LooksUp(t) \/ Makes(t) \/ Rereads(t)
    \/ CondInit(t) \/ CondInitDone(t) \/ CondDestroy(t)
    \/ Lock(t) \/ Leave(t) \/ CallWait(t) \/ Post(t) \/ Sleep(t) \/ WakeAlone(t) \/ Signal(t)
    \/ CallRwlock(t) \/ EnterRwlock(t)

\* Either part of the bridge.
BridgeNext == \/ use = "mutex" /\ Next /\ UNCHANGED waitVars
              \/ use # "mutex" /\ WaitNext /\ UNCHANGED vars

BridgeInit == Init /\ WaitInit
BridgeSpec == BridgeInit /\ [][BridgeNext]_<<vars, waitVars>>

\* Threads go on; a contended mutex is got in the end (the pollers of b_once
\* sleep between their tries, glibc wakes lockers); critical sections end.
FairBridgeSpec ==
  /\ BridgeSpec
  /\ \A t \in Threads : SF_<<vars, waitVars>>(use = "mutex" /\ Within(t) /\ UNCHANGED waitVars)
  /\ \A t \in Lockers :
       /\ WF_<<vars, waitVars>>(use = "mutex" /\ Unlocks(t) /\ UNCHANGED waitVars)
       /\ SF_<<vars, waitVars>>(use = "mutex" /\ Locks(t) /\ UNCHANGED waitVars)

-----------------------------------------------------------------------------
\* Somebody will wake the sleepers, or look for the items itself.
Helps(t) ==
  \/ where[t] \in {"woken", "locked"}
  \/ where[t] # "idle" /\ doing[t] \in {"signal", "broadcast"}

\* Through the race of first uses, destruction and a new initialisation, a signal
\* reaches who waits: no thread sleeps beside an item that nobody is about to take or
\* to announce, and nobody waits on an object that was freed (pthread_bridge.c:102-146).
NoLostSignal ==
  /\ items > 0 /\ (\E t \in Threads : where[t] = "asleep") => \E t \in Threads : Helps(t)
  /\ \A t \in Threads : where[t] \in {"enter", "asleep"} => real[t] = word /\ word \notin gone

\* A writer excludes every other thread, whichever of them made the lock
\* (pthread_bridge.c:149-162).
WritersExclude == \A t, u \in Threads : has[t] = "write" /\ has[u] # "none" => t = u

-----------------------------------------------------------------------------
(* The bridge implements PosixSync: a call begins with the entry into one of *)
(* its functions and takes effect with the call into glibc that ends it.     *)

InCond == {"fast", "lazy", "reread", "enter"}

\* To initialise or destroy is no call there.
MutexCall(t) ==
  IF InCall(t) THEN op[t]
  ELSE IF pc[t] = "once" THEN "once"
  ELSE IF pc[t] \in {"callback", "done"} THEN "callback" ELSE "out"
OtherCall(t) ==
  IF where[t] = "asleep" THEN "asleep"
  ELSE IF where[t] \notin InCond \/ doing[t] = "init" THEN "out"
  ELSE IF doing[t] = "unlock" THEN "rwunlock" ELSE doing[t]
Calling == [t \in Threads |-> IF use = "mutex" THEN MutexCall(t) ELSE OtherCall(t)]

Posix == INSTANCE PosixSync WITH call <- Calling

\* The races of first uses, destructions and initialisations are invisible: each call of the
\* game takes effect at once, on one mutex, control, condition and lock.
CallsAreAtomic == Posix!Spec
=============================================================================
