------------------------------ MODULE Semaphore ------------------------------
(***************************************************************************)
(* What a POSIX counting semaphore promises the Mono runtime.  The shim    *)
(* in src/src/imports.gen.c replaces glibc's sem_* because Bionic's sem_t  *)
(* is 16 bytes and glibc's is 32 (imports.gen.c:860-865).  FutexSemaphore  *)
(* is shown to implement this module.                                      *)
(***************************************************************************)
EXTENDS Naturals

CONSTANTS Thread,      \* the threads of the process
          Initial      \* the value given to sem_init

VARIABLES value,       \* tokens in the semaphore
          mode         \* mode[t]: which call thread t is inside, if any

absVars == <<value, mode>>

Mode == {"out", "waiting", "trying", "timing"}

AbsTypeOK == /\ value \in Nat
             /\ mode \in [Thread -> Mode]

AbsInit == /\ value = Initial
           /\ mode = [t \in Thread |-> "out"]

\* sem_post: one more token.
Post(t) == /\ mode[t] = "out"
           /\ value' = value + 1
           /\ UNCHANGED mode

\* A thread calls sem_wait, sem_trywait or sem_timedwait.
Enter(t) == /\ mode[t] = "out"
            /\ \E k \in Mode \ {"out"} : mode' = [mode EXCEPT ![t] = k]
            /\ UNCHANGED value

\* A call returns 0: it takes exactly one token, and only if there is one.
Acquire(t) == /\ mode[t] # "out"
              /\ value > 0
              /\ value' = value - 1
              /\ mode' = [mode EXCEPT ![t] = "out"]

\* A call returns -1.  Only sem_trywait and sem_timedwait may; sem_wait never
\* comes back without a token.
GiveUp(t) == /\ mode[t] \in {"trying", "timing"}
             /\ mode' = [mode EXCEPT ![t] = "out"]
             /\ UNCHANGED value

AbsNext == \E t \in Thread : Post(t) \/ Enter(t) \/ Acquire(t) \/ GiveUp(t)

AbsSpec == AbsInit /\ [][AbsNext]_absVars
=============================================================================
