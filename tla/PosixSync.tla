------------------------------ MODULE PosixSync ------------------------------
(***************************************************************************)
(* What the game expects of src/src/pthread_bridge.c: one recursive mutex, *)
(* one once control, one condition and one read-write lock, each call of   *)
(* which takes effect in one step between its beginning and its return.    *)
(* There are no glibc objects, no first uses and no words to race for; to  *)
(* initialise or destroy an object changes nothing, because POSIX allows   *)
(* it only while nobody uses the object.  WaitBridge implements this.      *)
(***************************************************************************)
EXTENDS Naturals

CONSTANT Threads

VARIABLES
  call,   \* the call each thread is in, "out" of any, or "asleep" on the condition
  holds,  \* how often each thread holds the mutex
  once,   \* 0: the callback has not begun, 1: it runs, 2: it has returned
  has     \* how each thread holds the read-write lock

vars == <<call, holds, once, has>>

Entry == {"lock", "try", "unlock", "once", "wait", "timedwait", "signal", "broadcast",
          "rdlock", "wrlock", "rwunlock"}

Begins(t) ==
  /\ call[t] = "out" /\ \E entry \in Entry : call' = [call EXCEPT ![t] = entry]
  /\ UNCHANGED <<holds, once, has>>

\* The step from one point of a call to another, or out of it.
Goes(t, from, to) == call[t] \in from /\ call' = [call EXCEPT ![t] = to]

-----------------------------------------------------------------------------
Locks(t) ==
  /\ Goes(t, {"lock", "try"}, "out")
  /\ \A u \in Threads \ {t} : holds[u] = 0
  /\ holds' = [holds EXCEPT ![t] = @ + 1]
  /\ UNCHANGED <<once, has>>

\* pthread_mutex_trylock fails only on a mutex that another thread has.
FailsToLock(t) ==
  /\ Goes(t, {"try"}, "out")
  /\ \E u \in Threads \ {t} : holds[u] > 0
  /\ UNCHANGED <<holds, once, has>>

Unlocks(t) ==
  /\ Goes(t, {"unlock"}, "out")
  /\ holds[t] > 0 /\ holds' = [holds EXCEPT ![t] = @ - 1]
  /\ UNCHANGED <<once, has>>

\* The callback is for one caller; the others return when it has.
RunsCallback(t) ==
  /\ Goes(t, {"once"}, "callback") /\ once = 0 /\ once' = 1
  /\ UNCHANGED <<holds, has>>

CallbackEnds(t) ==
  /\ Goes(t, {"callback"}, "out") /\ once = 1 /\ once' = 2
  /\ UNCHANGED <<holds, has>>

FindsDone(t) ==
  /\ Goes(t, {"once"}, "out") /\ once = 2
  /\ UNCHANGED <<holds, once, has>>

-----------------------------------------------------------------------------
Sleeps(t) ==
  /\ Goes(t, {"wait", "timedwait"}, "asleep")
  /\ UNCHANGED <<holds, once, has>>

\* The deadline, or no reason at all.
Wakes(t) ==
  /\ Goes(t, {"asleep"}, "out")
  /\ UNCHANGED <<holds, once, has>>

Asleep == {t \in Threads : call[t] = "asleep"}

\* Of the threads that sleep on the condition a signal wakes one, if there is one.
Signals(t) ==
  /\ call[t] = "signal"
  /\ \E woken \in SUBSET Asleep :
       /\ IF Asleep = {} THEN woken = {} ELSE \E u \in Asleep : woken = {u}
       /\ call' = [u \in Threads |-> IF u \in woken \cup {t} THEN "out" ELSE call[u]]
  /\ UNCHANGED <<holds, once, has>>

Broadcasts(t) ==
  /\ call[t] = "broadcast"
  /\ call' = [u \in Threads |-> IF u \in Asleep \cup {t} THEN "out" ELSE call[u]]
  /\ UNCHANGED <<holds, once, has>>

-----------------------------------------------------------------------------
ReadLocks(t) ==
  /\ Goes(t, {"rdlock"}, "out")
  /\ \A u \in Threads : has[u] # "write"
  /\ has' = [has EXCEPT ![t] = "read"]
  /\ UNCHANGED <<holds, once>>

WriteLocks(t) ==
  /\ Goes(t, {"wrlock"}, "out")
  /\ \A u \in Threads : has[u] = "none"
  /\ has' = [has EXCEPT ![t] = "write"]
  /\ UNCHANGED <<holds, once>>

GivesBack(t) ==
  /\ Goes(t, {"rwunlock"}, "out")
  /\ has' = [has EXCEPT ![t] = "none"]
  /\ UNCHANGED <<holds, once>>

-----------------------------------------------------------------------------
Init ==
  /\ call = [t \in Threads |-> "out"] /\ holds = [t \in Threads |-> 0]
  /\ once = 0 /\ has = [t \in Threads |-> "none"]

Next ==
  \E t \in Threads :
    \/ Begins(t)
    \/ Locks(t) \/ FailsToLock(t) \/ Unlocks(t)
    \/ RunsCallback(t) \/ CallbackEnds(t) \/ FindsDone(t)
    \/ Sleeps(t) \/ Wakes(t) \/ Signals(t) \/ Broadcasts(t)
    \/ ReadLocks(t) \/ WriteLocks(t) \/ GivesBack(t)

Spec == Init /\ [][Next]_vars
=============================================================================
