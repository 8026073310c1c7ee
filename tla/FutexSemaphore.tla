--------------------------- MODULE FutexSemaphore ---------------------------
(***************************************************************************)
(* The futex semaphore that src/src/imports.gen.c (866-938) gives to the   *)
(* Mono runtime as sem_init, sem_post, sem_wait, sem_trywait and           *)
(* sem_timedwait.  Every shared access of the C code is a step of its own: *)
(* the fetch-and-add and the wake of a post, the load, the compare-and-    *)
(* swap, the clock check and the futex call of a wait.  The kernel's       *)
(* FUTEX_WAIT tests the word and sleeps in one step; FUTEX_WAKE picks one  *)
(* sleeper.                                                                *)
(***************************************************************************)
EXTENDS Integers, FiniteSets

CONSTANTS Thread,       \* threads of the process
          Poster,       \* those that call sdv_sem_post
          Waiter,       \* those that call sdv_sem_wait
          TryWaiter,    \* those that call sdv_sem_trywait
          TimedWaiter,  \* those that call sdv_sem_timedwait
          Initial,      \* the value passed to sdv_sem_init
          WordMax,      \* largest value of the uint32_t word: 2^32 - 1 in C
          MaxPosts      \* bound: posts in a behaviour

ASSUME SemAssumption ==
  /\ IsFiniteSet(Thread)
  /\ Poster \subseteq Thread /\ Waiter \subseteq Thread
  /\ TryWaiter \subseteq Thread /\ TimedWaiter \subseteq Thread
  /\ Initial \in Nat /\ WordMax \in Nat /\ MaxPosts \in Nat
  /\ Initial + MaxPosts <= WordMax

VARIABLES
  count,      \* the uint32_t at offset 0 of the caller's sem_t
  pc,         \* pc[t]: where thread t stands in the shim
  seen,       \* seen[t]: the local v of the loop that t is in
  deadline,   \* deadline[t]: the timespec of t's sdv_sem_timedwait
  posted,     \* history: completed fetch-and-adds of sdv_sem_post
  acquired,   \* history: calls that took a token
  abandoned   \* history: a timed call has given up beside a token

vars == <<count, pc, seen, deadline, posted, acquired, abandoned>>

PC == {"idle", "wake",
       "waitLoad", "waitCas", "waitFutex", "waitAsleep",
       "tryLoad", "tryCas",
       "timedLoad", "timedCas", "timedCheck", "timedFutex", "timedAsleep"}

\* A timespec as far as the code tells timespecs apart: an absolute instant
\* still ahead, one that has passed, or nanoseconds out of range.
Deadline == {"none", "ahead", "passed", "malformed"}

\* Threads inside FUTEX_WAIT.
Asleep == {t \in Thread : pc[t] \in {"waitAsleep", "timedAsleep"}}

\* Threads that will look at the word again, or still owe a wake.
Helpers == {t \in Thread : pc[t] \in {"wake", "waitLoad", "waitCas", "waitFutex",
                                      "timedLoad", "timedCas", "timedCheck",
                                      "timedFutex"}}

-----------------------------------------------------------------------------
Goto(t, from, to) == /\ pc[t] = from
                     /\ pc' = [pc EXCEPT ![t] = to]

\* A failed CAS leaves the word alone; the compare is with the loaded value.
CasFails(t) == count # seen[t]

\* A variant that stores v - 1 whatever the word holds now.
CasBlindTakes(t) == /\ count' = seen[t] - 1
                    /\ acquired' = acquired + 1

\* __sync_bool_compare_and_swap(c, v, v - 1) succeeding: the token is taken.
CasTakes(t) == /\ count = seen[t]
               /\ count' = count - 1
               /\ acquired' = acquired + 1

-----------------------------------------------------------------------------
\* A variant that wakes only on the 0 -> 1 edge of the word.
SemPostAddEdge(t) ==
  /\ t \in Poster /\ posted < MaxPosts
  /\ Goto(t, "idle", IF count = 0 THEN "wake" ELSE "idle")
  /\ count' = IF count = WordMax THEN 0 ELSE count + 1
  /\ posted' = posted + 1
  /\ UNCHANGED <<seen, deadline, acquired, abandoned>>

\* sdv_sem_post, first half: the unsigned fetch-and-add wraps at 2^32.
SemPostAdd(t) ==
  /\ t \in Poster /\ posted < MaxPosts
  /\ Goto(t, "idle", "wake")
  /\ count' = IF count = WordMax THEN 0 ELSE count + 1
  /\ posted' = posted + 1
  /\ UNCHANGED <<seen, deadline, acquired, abandoned>>

\* sdv_sem_post, second half: FUTEX_WAKE of at most one sleeper.
SemPostWake(t) ==
  /\ pc[t] = "wake"
  /\ \/ /\ Asleep = {}
        /\ pc' = [pc EXCEPT ![t] = "idle"]
     \/ \E s \in Asleep :
          pc' = [pc EXCEPT ![t] = "idle",
                           ![s] = IF pc[s] = "waitAsleep" THEN "waitLoad"
                                                          ELSE "timedLoad"]
  /\ UNCHANGED <<count, seen, deadline, posted, acquired, abandoned>>

-----------------------------------------------------------------------------
\* sdv_sem_wait
SemWait(t) ==
  /\ t \in Waiter
  /\ Goto(t, "idle", "waitLoad")
  /\ UNCHANGED <<count, seen, deadline, posted, acquired, abandoned>>

WaitLoad(t) ==
  /\ Goto(t, "waitLoad", IF count > 0 THEN "waitCas" ELSE "waitFutex")
  /\ seen' = [seen EXCEPT ![t] = count]
  /\ UNCHANGED <<count, deadline, posted, acquired, abandoned>>

WaitCas(t) ==
  /\ \/ Goto(t, "waitCas", "idle") /\ CasTakes(t)
     \/ /\ CasFails(t)                     \* lost the race: sched_yield, retry
        /\ Goto(t, "waitCas", "waitLoad")
        /\ UNCHANGED <<count, acquired>>
  /\ seen' = [seen EXCEPT ![t] = 0]
  /\ UNCHANGED <<deadline, posted, abandoned>>

\* A variant whose futex call sleeps without comparing the word.
WaitFutexUnchecked(t) ==
  /\ Goto(t, "waitFutex", "waitAsleep")
  /\ UNCHANGED <<count, seen, deadline, posted, acquired, abandoned>>

\* FUTEX_WAIT(c, 0): sleep if the word is still 0, else EAGAIN and around again.
WaitFutex(t) ==
  /\ Goto(t, "waitFutex", IF count = 0 THEN "waitAsleep" ELSE "waitLoad")
  /\ UNCHANGED <<count, seen, deadline, posted, acquired, abandoned>>

\* EINTR or a spurious return of the futex call.
WaitInterrupted(t) ==
  /\ Goto(t, "waitAsleep", "waitLoad")
  /\ UNCHANGED <<count, seen, deadline, posted, acquired, abandoned>>

-----------------------------------------------------------------------------
\* sdv_sem_trywait: one load, one CAS, and EAGAIN if either does not do.
SemTrywait(t) ==
  /\ t \in TryWaiter
  /\ Goto(t, "idle", "tryLoad")
  /\ UNCHANGED <<count, seen, deadline, posted, acquired, abandoned>>

\* A variant without the v > 0 test in front of the CAS.
TryLoadUnchecked(t) ==
  /\ Goto(t, "tryLoad", "tryCas")
  /\ seen' = [seen EXCEPT ![t] = count]
  /\ UNCHANGED <<count, deadline, posted, acquired, abandoned>>

TryLoad(t) ==
  /\ Goto(t, "tryLoad", IF count > 0 THEN "tryCas" ELSE "idle")
  /\ seen' = [seen EXCEPT ![t] = count]
  /\ UNCHANGED <<count, deadline, posted, acquired, abandoned>>

TryCas(t) ==
  /\ Goto(t, "tryCas", "idle")
  /\ \/ CasTakes(t)
     \/ CasFails(t) /\ UNCHANGED <<count, acquired>>
  /\ seen' = [seen EXCEPT ![t] = 0]
  /\ UNCHANGED <<deadline, posted, abandoned>>

-----------------------------------------------------------------------------
\* sdv_sem_timedwait with a non-NULL timespec (NULL returns EINVAL at once and
\* touches nothing).
SemTimedwait(t) ==
  /\ t \in TimedWaiter
  /\ Goto(t, "idle", "timedLoad")
  /\ \E d \in Deadline \ {"none"} : deadline' = [deadline EXCEPT ![t] = d]
  /\ UNCHANGED <<count, seen, posted, acquired, abandoned>>

TimedLoad(t) ==
  /\ Goto(t, "timedLoad", IF count > 0 THEN "timedCas" ELSE "timedCheck")
  /\ seen' = [seen EXCEPT ![t] = count]
  /\ UNCHANGED <<count, deadline, posted, acquired, abandoned>>

\* Unlike sdv_sem_wait, a lost CAS falls through to the deadline check.
TimedCas(t) ==
  /\ \/ /\ Goto(t, "timedCas", "idle")
        /\ CasTakes(t)
        /\ deadline' = [deadline EXCEPT ![t] = "none"]
     \/ /\ CasFails(t)
        /\ Goto(t, "timedCas", "timedCheck")
        /\ UNCHANGED <<count, acquired, deadline>>
  /\ seen' = [seen EXCEPT ![t] = 0]
  /\ UNCHANGED <<posted, abandoned>>

\* The call returns -1 without looking at the word again.
TimedGivesUp(t) ==
  /\ Goto(t, "timedCheck", "idle")
  /\ deadline' = [deadline EXCEPT ![t] = "none"]
  /\ abandoned' = (abandoned \/ count > 0)

\* A variant that goes back to sleep on a deadline that has passed.
TimedCheckIgnoringClock(t) ==
  /\ \/ /\ deadline[t] = "malformed"
        /\ TimedGivesUp(t)
     \/ /\ deadline[t] # "malformed"
        /\ Goto(t, "timedCheck", "timedFutex")
        /\ UNCHANGED <<deadline, abandoned>>
  /\ UNCHANGED <<count, seen, posted, acquired>>

\* EINVAL on malformed nanoseconds, ETIMEDOUT on a deadline that has passed,
\* otherwise the remaining time is computed and the futex called.
TimedCheck(t) ==
  /\ \/ /\ deadline[t] \in {"malformed", "passed"}
        /\ TimedGivesUp(t)
     \/ /\ deadline[t] = "ahead"
        /\ Goto(t, "timedCheck", "timedFutex")
        /\ UNCHANGED <<deadline, abandoned>>
  /\ UNCHANGED <<count, seen, posted, acquired>>

TimedFutex(t) ==
  /\ Goto(t, "timedFutex", IF count = 0 THEN "timedAsleep" ELSE "timedLoad")
  /\ UNCHANGED <<count, seen, deadline, posted, acquired, abandoned>>

\* EINTR or a spurious return, at any time.
TimedInterrupted(t) ==
  /\ Goto(t, "timedAsleep", "timedLoad")
  /\ UNCHANGED <<count, seen, deadline, posted, acquired, abandoned>>

\* The kernel gives up at the deadline; the loop takes one last look.
TimedTimeout(t) ==
  /\ deadline[t] = "passed"
  /\ Goto(t, "timedAsleep", "timedLoad")
  /\ UNCHANGED <<count, seen, deadline, posted, acquired, abandoned>>

\* CLOCK_REALTIME passes the deadline of t.
ClockPasses(t) ==
  /\ deadline[t] = "ahead"
  /\ deadline' = [deadline EXCEPT ![t] = "passed"]
  /\ UNCHANGED <<count, pc, seen, posted, acquired, abandoned>>

-----------------------------------------------------------------------------
\* sdv_sem_init stores the value; nobody is inside a call yet.
Init ==
  /\ count = Initial
  /\ pc = [t \in Thread |-> "idle"]
  /\ seen = [t \in Thread |-> 0]
  /\ deadline = [t \in Thread |-> "none"]
  /\ posted = 0
  /\ acquired = 0
  /\ abandoned = FALSE

\* A thread inside the shim takes its next step.
Running(t) ==
  \/ SemPostWake(t)
  \/ WaitLoad(t) \/ WaitCas(t) \/ WaitFutex(t)
  \/ TryLoad(t) \/ TryCas(t)
  \/ TimedLoad(t) \/ TimedCas(t) \/ TimedCheck(t) \/ TimedFutex(t)

Calls(t) == SemPostAdd(t) \/ SemWait(t) \/ SemTrywait(t) \/ SemTimedwait(t)

Kernel(t) == WaitInterrupted(t) \/ TimedInterrupted(t) \/ TimedTimeout(t) \/ ClockPasses(t)

Next == \E t \in Thread : Running(t) \/ Calls(t) \/ Kernel(t)

Spec == Init /\ [][Next]_vars

\* The scheduler runs every runnable thread, time passes and the kernel's
\* timer fires; nothing makes a thread call the semaphore, nor sends a signal.
Fairness == \A t \in Thread : /\ WF_vars(Running(t))
                              /\ WF_vars(ClockPasses(t))
                              /\ WF_vars(TimedTimeout(t))

FairSpec == Spec /\ Fairness

-----------------------------------------------------------------------------
\* Types of the state of one semaphore and of the threads inside the shim.
TypeOK ==
  /\ count \in 0..WordMax
  /\ pc \in [Thread -> PC]
  /\ seen \in [Thread -> 0..WordMax]
  /\ deadline \in [Thread -> Deadline]
  /\ posted \in 0..MaxPosts
  /\ acquired \in Nat
  /\ abandoned \in BOOLEAN

\* Every token is accounted for: the word is the initial value plus the posts
\* minus the calls that returned 0, whatever the CASes raced with (the CAS
\* loops of sdv_sem_wait, sdv_sem_trywait and sdv_sem_timedwait).
TokenConservation == count = Initial + posted - acquired

\* No lost wakeup: while somebody sleeps in FUTEX_WAIT, each token has a
\* thread that will still look at the word or wake a sleeper.  This is what
\* the wake after every post and the kernel's compare of the word buy; the one
\* thing that can spoil it is a sdv_sem_timedwait that swallows a wake and
\* gives up beside a token.
NoStrandedToken == Asleep # {} /\ ~abandoned => count <= Cardinality(Helpers)

\* A sleeper beside a token is never left to itself: somebody inside the shim
\* will still look at the word or wake a sleeper.  NoStrandedToken implies it.
\* The timed wait's "ultima tentativa de consumir" and the EAGAIN retry
\* (imports.gen.c:932-935) are there so that no post goes unconsumed.
SleepersHaveHelp == (count > 0 /\ Asleep # {}) => Helpers # {}

\* A token never rests beside a sleeper for good: it is taken, or nobody sleeps,
\* unless a timed call gave up beside a token.
TokenReachesSleeper == (count > 0 /\ Asleep # {}) ~> (count = 0 \/ Asleep = {} \/ abandoned)

\* Every sdv_sem_timedwait returns: retries after EINTR, EAGAIN and lost races
\* do not extend the caller's absolute deadline (imports.gen.c:907-909).
TimedCallsReturn ==
  \A t \in TimedWaiter : (deadline[t] # "none") ~> (deadline[t] = "none")

\* The shim is a semaphore: hiding the loop, a call returns 0 exactly when it
\* takes a token of a positive count, and sem_wait never returns without one.
ModeAt(q) ==
  CASE q \in {"idle", "wake"} -> "out"
    [] q \in {"waitLoad", "waitCas", "waitFutex", "waitAsleep"} -> "waiting"
    [] q \in {"tryLoad", "tryCas"} -> "trying"
    [] q \in {"timedLoad", "timedCas", "timedCheck", "timedFutex", "timedAsleep"} -> "timing"

modes == [t \in Thread |-> ModeAt(pc[t])]

Abs == INSTANCE Semaphore WITH value <- count, mode <- modes

ImplementsSemaphore == Abs!AbsSpec
=============================================================================
