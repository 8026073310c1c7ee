---------------------------- MODULE PthreadBridge ----------------------------
(***************************************************************************)
(* src/src/pthread_bridge.c: a bionic pthread_mutex_t holds a pointer to a *)
(* glibc mutex, made at the first use of a static initialiser under g_lock *)
(* with a double check; and pthread_once on a bionic int.                  *)
(*                                                                         *)
(* A section under g_lock touches the shared word once, so it is one step  *)
(* here, but for the first use, whose stores other threads read without    *)
(* the lock.                                                               *)
(*                                                                         *)
(* One mutex, one once control and the threads that use them as POSIX      *)
(* allows: a mutex is initialised or destroyed when no thread holds it or  *)
(* is about to take it.  What destroy leaves behind is a zero word, which  *)
(* the next call takes for a static initialiser.                           *)
(***************************************************************************)
EXTENDS Integers, FiniteSets

CONSTANTS Threads,
          Lockers,        \* the threads that use the mutex
          Destroyers,     \* the threads that may destroy and initialise the mutex
          OnceCallers,    \* the threads that call pthread_once, each one time
          StaticValues,   \* first words of the static initialisers in use
          StoresInOrder,  \* FALSE: plain stores may become visible in another order
          MaxDepth,       \* bound: recursive locks by one thread
          MaxObjects,     \* bound: glibc mutexes allocated
          Nobody

\* A slot holds 0, a bionic magic (0x4000 or 0x8000, here 1) or a heap pointer.
ASSUME BridgeAssumption ==
  /\ Nobody \notin Threads /\ Lockers \subseteq Threads
  /\ Destroyers \subseteq Threads /\ OnceCallers \subseteq Threads
  /\ StaticValues \subseteq {0, 1} /\ StoresInOrder \in BOOLEAN
  /\ MaxDepth \in Nat /\ MaxObjects \in Nat

VARIABLES
  slot,      \* the first word of the bionic mutex
  brk,       \* next heap object
  owner, depth,  \* the glibc mutexes, all recursive
  freed,     \* words given to pthread_mutex_destroy and free
  late,      \* objects whose initialising stores are not visible yet
  usable,    \* no initialisation or destruction of the mutex is under way
  glock,     \* holder of g_lock
  once,      \* the bionic once control: 0 not done, 1 in progress, 2 done
  inits,     \* history: how often the once callback ran
  helped,    \* history: threads that completed a lock since the callback began
  pc, op, ptr, holds, called  \* per thread

mutexVars == <<slot, brk, owner, depth, freed, late, usable, holds>>
onceVars == <<once, inits, called>>
vars == <<slot, brk, owner, depth, freed, late, usable, glock, once, inits, helped,
          pc, op, ptr, holds, called>>

Object == 2..(MaxObjects + 1)
Word == 0..(MaxObjects + 1)
IsHeapPtr(v) == v > 1

PC == {"idle", "fast", "lazy", "lazyOut", "reread", "enter", "destroy", "init",
       "once", "callback", "done"}

Step(t, from, to) == pc[t] = from /\ pc' = [pc EXCEPT ![t] = to]

\* Inside b_mutex_lock, trylock or unlock.
InCall(t) == pc[t] \in {"fast", "lazy", "lazyOut", "reread", "enter"}

\* What a destruction or an initialisation asks of the program.
Unused == usable /\ \A u \in Threads : holds[u] = 0 /\ ~InCall(u)

-----------------------------------------------------------------------------
\* b_mutex_lock, b_mutex_trylock, b_mutex_unlock
Call(t) ==
  /\ t \in Lockers /\ usable
  /\ Step(t, "idle", "fast")
  /\ \E o \in {"lock", "try", "unlock"} :
       /\ o = "unlock" => holds[t] > 0
       /\ o # "unlock" => holds[t] < MaxDepth
       /\ op' = [op EXCEPT ![t] = o]
  /\ UNCHANGED <<mutexVars, onceVars, glock, helped, ptr>>

\* mtx_real, before g_lock: one plain read decides.
FastPath(t) ==
  /\ \/ /\ IsHeapPtr(slot) /\ Step(t, "fast", "enter")
        /\ ptr' = [ptr EXCEPT ![t] = slot]
     \/ /\ ~IsHeapPtr(slot) /\ Step(t, "fast", "lazy")
        /\ UNCHANGED ptr
  /\ UNCHANGED <<mutexVars, onceVars, glock, helped, op>>

NewMutex == brk \in Object /\ brk' = brk + 1

\* A variant without the second check.
LazyUnchecked(t) ==
  /\ glock = Nobody /\ glock' = t
  /\ Step(t, "lazy", "lazyOut")
  /\ NewMutex /\ slot' = brk
  /\ late' = IF StoresInOrder THEN late ELSE late \cup {brk}
  /\ UNCHANGED <<owner, depth, freed, usable, holds, onceVars, helped, op, ptr>>

\* mtx_real, under g_lock: check again, then make the mutex and publish it.
Lazy(t) ==
  /\ glock = Nobody /\ glock' = t
  /\ Step(t, "lazy", "lazyOut")
  /\ IF IsHeapPtr(slot)
     THEN UNCHANGED <<slot, brk, late>>
     ELSE /\ NewMutex /\ slot' = brk
          /\ late' = IF StoresInOrder THEN late ELSE late \cup {brk}
  /\ UNCHANGED <<owner, depth, freed, usable, holds, onceVars, helped, op, ptr>>

\* The unlock is a release: what was stored is visible.
LazyOut(t) ==
  /\ Step(t, "lazyOut", "reread")
  /\ late = {} /\ glock' = Nobody
  /\ UNCHANGED <<mutexVars, onceVars, helped, op, ptr>>

\* "return *slot", after g_lock was released.
Reread(t) ==
  /\ Step(t, "reread", "enter")
  /\ ptr' = [ptr EXCEPT ![t] = slot]
  /\ UNCHANGED <<mutexVars, onceVars, glock, helped, op>>

Take(t) ==
  /\ owner' = [owner EXCEPT ![ptr[t]] = t]
  /\ depth' = [depth EXCEPT ![ptr[t]] = @ + 1]
  /\ holds' = [holds EXCEPT ![t] = @ + 1]
  /\ helped' = helped \cup {t}

Give(t) ==
  /\ depth' = [depth EXCEPT ![ptr[t]] = @ - 1]
  /\ owner' = [owner EXCEPT ![ptr[t]] = IF depth[ptr[t]] = 1 THEN Nobody ELSE @]
  /\ holds' = [holds EXCEPT ![t] = @ - 1]
  /\ UNCHANGED helped

\* The call into glibc: a lock blocks while another thread has the mutex.
Enter(t) ==
  /\ Step(t, "enter", "idle")
  /\ \/ op[t] \in {"lock", "try"} /\ owner[ptr[t]] \in {Nobody, t} /\ Take(t)
     \/ op[t] = "try" /\ owner[ptr[t]] \notin {Nobody, t}
          /\ UNCHANGED <<owner, depth, holds, helped>>
     \/ op[t] = "unlock" /\ owner[ptr[t]] = t /\ Give(t)
  /\ UNCHANGED <<slot, brk, freed, late, usable, onceVars, glock, op, ptr>>

\* The initialising stores of a published mutex arrive.
StoresArrive ==
  \E p \in late :
    /\ late' = late \ {p}
    /\ owner' = [owner EXCEPT ![p] = Nobody] /\ depth' = [depth EXCEPT ![p] = 0]
    /\ UNCHANGED <<slot, brk, freed, usable, holds, onceVars, glock, helped, pc, op, ptr>>

-----------------------------------------------------------------------------
\* b_mutex_destroy, called when no thread holds the mutex or is at it.
CallDestroy(t) ==
  /\ t \in Destroyers /\ Unused
  /\ brk \in Object        \* bound: one is left for the next use
  /\ Step(t, "idle", "destroy")
  /\ usable' = FALSE
  /\ UNCHANGED <<slot, brk, owner, depth, freed, late, holds, onceVars, glock, helped, op, ptr>>

\* A variant that frees the mutex and leaves its pointer in the slot.
DestroyKeepingSlot(t) ==
  /\ glock = Nobody
  /\ Step(t, "destroy", "idle")
  /\ freed' = IF slot = 0 THEN freed ELSE freed \cup {slot}
  /\ usable' = TRUE
  /\ UNCHANGED <<slot, brk, owner, depth, late, holds, onceVars, glock, helped, op, ptr>>

\* Any word but NULL is destroyed and freed.
Destroy(t) ==
  /\ glock = Nobody
  /\ Step(t, "destroy", "idle")
  /\ freed' = IF slot = 0 THEN freed ELSE freed \cup {slot}
  /\ slot' = 0 /\ usable' = TRUE
  /\ UNCHANGED <<brk, owner, depth, late, holds, onceVars, glock, helped, op, ptr>>

\* b_mutex_init of a mutex nobody uses: it is made before g_lock and stored under it.
CallInit(t) ==
  /\ t \in Destroyers /\ Unused /\ slot = 0
  /\ Step(t, "idle", "init")
  /\ NewMutex
  /\ usable' = FALSE
  /\ ptr' = [ptr EXCEPT ![t] = brk]
  /\ UNCHANGED <<slot, owner, depth, freed, late, holds, onceVars, glock, helped, op>>

StoreInit(t) ==
  /\ glock = Nobody
  /\ Step(t, "init", "idle")
  /\ slot' = ptr[t] /\ usable' = TRUE
  /\ UNCHANGED <<brk, owner, depth, freed, late, holds, onceVars, glock, helped, op, ptr>>

-----------------------------------------------------------------------------
\* b_once. A caller that held the mutex would block the thread that the callback
\* waits for, whatever b_once does.
CallOnce(t) ==
  /\ t \in OnceCallers \ called /\ holds[t] = 0
  /\ Step(t, "idle", "once")
  /\ called' = called \cup {t}
  /\ UNCHANGED <<mutexVars, once, inits, glock, helped, op, ptr>>

\* A variant that waits "while (*st)", for a control that is done as well.
OnceWaitingOnAny(t) ==
  /\ glock = Nobody
  /\ once = 0 /\ Step(t, "once", "callback")
  /\ once' = 1 /\ inits' = inits + 1 /\ helped' = {}
  /\ UNCHANGED <<mutexVars, called, glock, op, ptr>>

\* A variant that does not mark the control as in progress.
OnceUnmarked(t) ==
  /\ glock = Nobody
  /\ \/ /\ once = 0 /\ Step(t, "once", "callback")
        /\ inits' = inits + 1 /\ helped' = {} /\ UNCHANGED once
     \/ once = 2 /\ Step(t, "once", "idle") /\ UNCHANGED <<once, inits, helped>>
  /\ UNCHANGED <<mutexVars, called, glock, op, ptr>>

\* The test of the control under g_lock, which is free while the callback runs.
\* Who finds it at 1 gives the lock back, sleeps 200 us and tests again: it waits.
Once(t) ==
  /\ glock = Nobody
  /\ \/ /\ once = 0 /\ Step(t, "once", "callback")
        /\ once' = 1 /\ inits' = inits + 1 /\ helped' = {}
     \/ once = 2 /\ Step(t, "once", "idle") /\ UNCHANGED <<once, inits, helped>>
  /\ UNCHANGED <<mutexVars, called, glock, op, ptr>>

\* The callback waits for another thread to get through a lock ("init pode
\* esperar outra thread") and returns.
CallbackReturns(t) ==
  /\ helped \ {t} # {}
  /\ Step(t, "callback", "done")
  /\ UNCHANGED <<mutexVars, onceVars, glock, helped, op, ptr>>

OnceDone(t) ==
  /\ glock = Nobody
  /\ Step(t, "done", "idle")
  /\ once' = 2
  /\ UNCHANGED <<mutexVars, inits, called, glock, helped, op, ptr>>

-----------------------------------------------------------------------------
Init ==
  /\ slot \in StaticValues /\ usable = TRUE
  /\ brk = 2 /\ owner = [p \in Object |-> Nobody] /\ depth = [p \in Object |-> 0]
  /\ freed = {} /\ late = {} /\ glock = Nobody
  /\ once = 0 /\ inits = 0 /\ helped = {} /\ called = {}
  /\ pc = [t \in Threads |-> "idle"] /\ op = [t \in Threads |-> "lock"]
  /\ ptr = [t \in Threads |-> 0] /\ holds = [t \in Threads |-> 0]

Within(t) == \/ FastPath(t) \/ Lazy(t) \/ LazyOut(t) \/ Reread(t) \/ Enter(t)
             \/ Destroy(t) \/ StoreInit(t)
             \/ Once(t) \/ CallbackReturns(t) \/ OnceDone(t)

Next == \E t \in Threads :
          Call(t) \/ CallDestroy(t) \/ CallInit(t) \/ CallOnce(t) \/ Within(t)

Spec == Init /\ [][Next]_vars

\* The same program on a machine that reorders plain stores (AArch64).
WeakNext == Next \/ StoresArrive
WeakSpec == Init /\ [][WeakNext]_vars

\* For fairness: the ways out of a mutex, and into one.
Unlocks(t) == holds[t] > 0 /\ Call(t) /\ op'[t] = "unlock"
Locks(t) == t \notin helped /\ Call(t) /\ op'[t] = "lock"

-----------------------------------------------------------------------------
TypeOK ==
  /\ slot \in Word /\ brk \in 2..(MaxObjects + 2)
  /\ owner \in [Object -> Threads \cup {Nobody}] /\ depth \in [Object -> 0..MaxDepth]
  /\ freed \subseteq Word /\ late \subseteq Object
  /\ usable \in BOOLEAN /\ glock \in Threads \cup {Nobody}
  /\ once \in 0..2 /\ inits \in Nat
  /\ helped \subseteq Threads /\ called \subseteq Threads
  /\ pc \in [Threads -> PC] /\ op \in [Threads -> {"lock", "try", "unlock"}]
  /\ ptr \in [Threads -> Word] /\ holds \in [Threads -> 0..MaxDepth]

\* The mutex the game sees excludes, through the race of first uses as well.
MutualExclusion == \A t, u \in Threads : holds[t] > 0 /\ holds[u] > 0 => t = u

\* No thread enters glibc with a mutex that was freed.
NoUseAfterFree == \A t \in Threads : pc[t] = "enter" => ptr[t] \notin freed

\* The once callback runs one time, and nobody returns before it is done.
OnceOnce ==
  /\ inits <= 1
  /\ \A t \in called : pc[t] \notin {"once", "callback", "done"} => once = 2

\* A pthread_once call returns, even when the callback waits for another thread's
\* lock (pthread_bridge.c:170).
OnceReturns == \A t \in OnceCallers : pc[t] = "once" ~> pc[t] = "idle"
=============================================================================
