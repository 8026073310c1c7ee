------------------------ MODULE FutexSemaphore_proofs ------------------------
(***************************************************************************)
(* Theorems about FutexSemaphore, for every set of threads and every       *)
(* bound: the type invariant, conservation of tokens, the absence of lost  *)
(* wakeups, and the refinement of Semaphore.                               *)
(***************************************************************************)
EXTENDS FutexSemaphore, FiniteSetTheorems, TLAPS

Steps(t) == Running(t) \/ Calls(t) \/ Kernel(t)

\* A successful CAS needs v > 0: the value a thread carries to its CAS is positive.
SeenPositive ==
  \A t \in Thread : pc[t] \in {"waitCas", "tryCas", "timedCas"} => seen[t] > 0

\* What is inductive: types, the loaded values and the token account.
IInv == /\ TypeOK
        /\ SeenPositive
        /\ TokenConservation
        /\ acquired <= Initial + posted

LEMMA InitIInv == Init => IInv
<1> SUFFICES ASSUME Init PROVE IInv
  OBVIOUS
<1>1. abandoned \in BOOLEAN
  BY DEF Init
<1> QED
  BY <1>1, SemAssumption DEF Init, IInv, TypeOK, PC, Deadline, SeenPositive, TokenConservation

\* A post never meets the wrap of the word, because MaxPosts keeps clear of it.
LEMMA PostStep ==
  ASSUME IInv, NEW t \in Thread, SemPostAdd(t)
  PROVE  IInv' /\ count' = count + 1
<1>1. count < WordMax /\ count' = count + 1
  BY SemAssumption DEF IInv, TypeOK, TokenConservation, SemPostAdd
<1>2. TypeOK'
  BY <1>1, SemAssumption DEF IInv, TypeOK, PC, SemPostAdd, Goto
<1>3. SeenPositive'
  BY DEF IInv, SeenPositive, TypeOK, SemPostAdd, Goto
<1>4. TokenConservation' /\ (acquired <= Initial + posted)'
  BY <1>1, SemAssumption DEF IInv, TypeOK, TokenConservation, SemPostAdd
<1> QED BY <1>1, <1>2, <1>3, <1>4 DEF IInv

\* A CAS that succeeds takes one token of a positive count.
LEMMA CasStep ==
  ASSUME IInv, NEW t \in Thread, pc[t] \in {"waitCas", "tryCas", "timedCas"},
         CasTakes(t), posted' = posted
  PROVE  /\ count > 0 /\ count' = count - 1 /\ count' \in 0..WordMax
         /\ acquired' \in Nat
         /\ TokenConservation' /\ (acquired <= Initial + posted)'
<1>1. count \in 0..WordMax /\ count = seen[t] /\ count > 0
  BY DEF IInv, SeenPositive, TypeOK, CasTakes
<1> QED
  BY <1>1, SemAssumption DEF IInv, TypeOK, TokenConservation, CasTakes

\* A load puts the word into v; the CAS is tried only when it was positive.
LEMMA LoadStep ==
  ASSUME IInv, NEW t \in Thread, WaitLoad(t) \/ TryLoad(t) \/ TimedLoad(t)
  PROVE  IInv'
<1>1. TypeOK'
  BY DEF IInv, TypeOK, PC, WaitLoad, TryLoad, TimedLoad, Goto
<1>2. SeenPositive'
  BY DEF IInv, TypeOK, SeenPositive, WaitLoad, TryLoad, TimedLoad, Goto
<1>3. TokenConservation' /\ (acquired <= Initial + posted)'
  BY DEF IInv, TokenConservation, WaitLoad, TryLoad, TimedLoad
<1> QED BY <1>1, <1>2, <1>3 DEF IInv

LEMMA WaitCasStep ==
  ASSUME IInv, NEW t \in Thread, WaitCas(t)
  PROVE  IInv'
<1>1. CASE CasTakes(t)
  <2>1. pc[t] = "waitCas" /\ posted' = posted
    BY <1>1 DEF WaitCas, Goto
  <2>2. /\ count' \in 0..WordMax /\ acquired' \in Nat
        /\ TokenConservation' /\ (acquired <= Initial + posted)'
    BY <2>1, <1>1, CasStep
  <2>3. TypeOK'
    BY <2>2, SemAssumption DEF IInv, TypeOK, PC, WaitCas, Goto
  <2>4. SeenPositive'
    BY DEF IInv, TypeOK, SeenPositive, WaitCas, Goto
  <2> QED BY <2>2, <2>3, <2>4 DEF IInv
<1>2. CASE ~CasTakes(t)
  <2>1. TypeOK'
    BY <1>2, SemAssumption DEF IInv, TypeOK, PC, WaitCas, Goto
  <2>2. SeenPositive'
    BY <1>2 DEF IInv, TypeOK, SeenPositive, WaitCas, Goto
  <2>3. TokenConservation' /\ (acquired <= Initial + posted)'
    BY <1>2 DEF IInv, TokenConservation, WaitCas
  <2> QED BY <2>1, <2>2, <2>3 DEF IInv
<1> QED BY <1>1, <1>2

LEMMA TryCasStep ==
  ASSUME IInv, NEW t \in Thread, TryCas(t)
  PROVE  IInv'
<1>1. CASE CasTakes(t)
  <2>1. pc[t] = "tryCas" /\ posted' = posted
    BY DEF TryCas, Goto
  <2>2. /\ count' \in 0..WordMax /\ acquired' \in Nat
        /\ TokenConservation' /\ (acquired <= Initial + posted)'
    BY <2>1, <1>1, CasStep
  <2>3. TypeOK'
    BY <2>2, SemAssumption DEF IInv, TypeOK, PC, TryCas, Goto
  <2>4. SeenPositive'
    BY DEF IInv, TypeOK, SeenPositive, TryCas, Goto
  <2> QED BY <2>2, <2>3, <2>4 DEF IInv
<1>2. CASE ~CasTakes(t)
  <2>1. TypeOK'
    BY <1>2, SemAssumption DEF IInv, TypeOK, PC, TryCas, Goto
  <2>2. SeenPositive'
    BY <1>2 DEF IInv, TypeOK, SeenPositive, TryCas, Goto
  <2>3. TokenConservation' /\ (acquired <= Initial + posted)'
    BY <1>2 DEF IInv, TokenConservation, TryCas
  <2> QED BY <2>1, <2>2, <2>3 DEF IInv
<1> QED BY <1>1, <1>2

LEMMA TimedCasStep ==
  ASSUME IInv, NEW t \in Thread, TimedCas(t)
  PROVE  IInv'
<1>1. CASE CasTakes(t)
  <2>1. pc[t] = "timedCas" /\ posted' = posted
    BY <1>1 DEF TimedCas, Goto
  <2>2. /\ count' \in 0..WordMax /\ acquired' \in Nat
        /\ TokenConservation' /\ (acquired <= Initial + posted)'
    BY <2>1, <1>1, CasStep
  <2>3. TypeOK'
    BY <2>2, SemAssumption DEF IInv, TypeOK, PC, Deadline, TimedCas, Goto
  <2>4. SeenPositive'
    BY DEF IInv, TypeOK, SeenPositive, TimedCas, Goto
  <2> QED BY <2>2, <2>3, <2>4 DEF IInv
<1>2. CASE ~CasTakes(t)
  <2>1. TypeOK'
    BY <1>2, SemAssumption DEF IInv, TypeOK, PC, TimedCas, Goto
  <2>2. SeenPositive'
    BY <1>2 DEF IInv, TypeOK, SeenPositive, TimedCas, Goto
  <2>3. TokenConservation' /\ (acquired <= Initial + posted)'
    BY <1>2 DEF IInv, TokenConservation, TimedCas
  <2> QED BY <2>1, <2>2, <2>3 DEF IInv
<1> QED BY <1>1, <1>2

\* The steps that move threads about and touch neither the word nor the account.
Moves(t) == \/ SemPostWake(t) \/ SemWait(t) \/ WaitFutex(t) \/ WaitInterrupted(t)
            \/ SemTrywait(t) \/ SemTimedwait(t) \/ TimedCheck(t) \/ TimedFutex(t)
            \/ TimedInterrupted(t) \/ TimedTimeout(t) \/ ClockPasses(t)

LEMMA MoveStep ==
  ASSUME IInv, NEW t \in Thread, Moves(t)
  PROVE  IInv'
<1>1. UNCHANGED <<count, seen, posted, acquired>>
  BY DEF Moves, SemPostWake, SemWait, WaitFutex, WaitInterrupted, SemTrywait,
         SemTimedwait, TimedCheck, TimedGivesUp, TimedFutex, TimedInterrupted, TimedTimeout, ClockPasses
<1>2. pc' \in [Thread -> PC]
  BY DEF IInv, TypeOK, PC, Goto, Moves, SemPostWake, SemWait, WaitFutex, WaitInterrupted,
         SemTrywait, SemTimedwait, TimedCheck, TimedGivesUp, TimedFutex, TimedInterrupted,
         TimedTimeout,
         ClockPasses, Asleep
<1>3. deadline' \in [Thread -> Deadline]
  BY DEF IInv, TypeOK, Deadline, Moves, SemPostWake, SemWait, WaitFutex, WaitInterrupted,
         SemTrywait, SemTimedwait, TimedCheck, TimedGivesUp, TimedFutex, TimedInterrupted,
         TimedTimeout,
         ClockPasses
<1>5. abandoned' \in BOOLEAN
  BY DEF IInv, TypeOK, Moves, SemPostWake, SemWait, WaitFutex, WaitInterrupted, SemTrywait,
         SemTimedwait, TimedCheck, TimedGivesUp, TimedFutex, TimedInterrupted, TimedTimeout,
         ClockPasses
<1>4. \A s \in Thread : pc'[s] \in {"waitCas", "tryCas", "timedCas"} => pc'[s] = pc[s]
  BY DEF IInv, TypeOK, PC, Goto, Moves, SemPostWake, SemWait, WaitFutex, WaitInterrupted,
         SemTrywait, SemTimedwait, TimedCheck, TimedGivesUp, TimedFutex, TimedInterrupted,
         TimedTimeout,
         ClockPasses, Asleep
<1> QED
  BY <1>1, <1>2, <1>3, <1>4, <1>5 DEF IInv, TypeOK, SeenPositive, TokenConservation

LEMMA StepIInv == IInv /\ [Next]_vars => IInv'
<1> SUFFICES ASSUME IInv, [Next]_vars PROVE IInv'
  OBVIOUS
<1>1. CASE UNCHANGED vars
  BY <1>1 DEF IInv, TypeOK, SeenPositive, TokenConservation, vars
<1>2. ASSUME NEW t \in Thread, Steps(t) PROVE IInv'
  <2>1. CASE SemPostAdd(t)
    BY <2>1, PostStep
  <2>2. CASE WaitLoad(t) \/ TryLoad(t) \/ TimedLoad(t)
    BY <2>2, LoadStep
  <2>3. CASE WaitCas(t)
    BY <2>3, WaitCasStep
  <2>4. CASE TryCas(t)
    BY <2>4, TryCasStep
  <2>5. CASE TimedCas(t)
    BY <2>5, TimedCasStep
  <2>6. CASE Moves(t)
    BY <2>6, MoveStep
  <2> QED
    BY <1>2, <2>1, <2>2, <2>3, <2>4, <2>5, <2>6
    DEF Steps, Running, Calls, Kernel, Moves
<1> QED BY <1>1, <1>2 DEF Next, Steps

LEMMA AlwaysIInv == Spec => []IInv
<1>1. Init => IInv
  BY InitIInv
<1>2. IInv /\ [Next]_vars => IInv'
  BY StepIInv
<1> QED BY <1>1, <1>2, PTL DEF Spec

\* The state of the shim stays within its types: in particular the word never
\* wraps below zero, so no CAS ever takes a token that is not there.
THEOREM TypeCorrect == Spec => []TypeOK
<1>1. IInv => TypeOK
  BY DEF IInv
<1> QED BY <1>1, AlwaysIInv, PTL

\* The word always equals the initial value plus posts minus acquisitions, for
\* any number of threads in any of the four calls of imports.gen.c:875-938.
THEOREM Conservation == Spec => []TokenConservation
<1>1. IInv => TokenConservation
  BY DEF IInv
<1> QED BY <1>1, AlwaysIInv, PTL

-----------------------------------------------------------------------------
(* No lost wakeup.  The argument counts helpers: a post adds a token and a   *)
(* helper (itself, owing a wake), the wake hands the role to a sleeper, and  *)
(* a waiter leaves the helpers only with a token or, in FUTEX_WAIT, when the *)
(* word is 0.  A timed call that gives up beside a token is the one way to   *)
(* leave without either, and the history variable records it.                *)

WakeInv == IInv /\ NoStrandedToken

LEMMA HelpersFinite == IsFiniteSet(Helpers) /\ Cardinality(Helpers) \in Nat
<1>1. Helpers \subseteq Thread
  BY DEF Helpers
<1> QED BY <1>1, SemAssumption, FS_Subset, FS_CardinalityType

LEMMA HelpersFiniteNext == IsFiniteSet(Helpers') /\ Cardinality(Helpers') \in Nat
<1>1. Helpers' \subseteq Thread
  BY DEF Helpers
<1> QED BY <1>1, SemAssumption, FS_Subset, FS_CardinalityType

\* A helper joins: one token more is still covered.
LEMMA HelperJoins ==
  ASSUME IInv, NEW t \in Thread, t \notin Helpers, Helpers' = Helpers \cup {t},
         count <= Cardinality(Helpers), count' <= count + 1, count' \in Nat
  PROVE  count' <= Cardinality(Helpers')
<1>1. Cardinality(Helpers') = Cardinality(Helpers) + 1
  BY HelpersFinite, FS_AddElement
<1> QED BY <1>1, HelpersFinite DEF IInv, TypeOK

\* A helper leaves with a token.
LEMMA HelperLeaves ==
  ASSUME IInv, NEW t \in Helpers, Helpers' = Helpers \ {t},
         count <= Cardinality(Helpers), count' = count - 1
  PROVE  count' <= Cardinality(Helpers')
<1>1. Cardinality(Helpers') = Cardinality(Helpers) - 1
  BY HelpersFinite, FS_RemoveElement
<1> QED BY <1>1, HelpersFinite DEF IInv, TypeOK

\* The wake replaces the poster by the thread it woke.
LEMMA HelperSwaps ==
  ASSUME IInv, NEW t \in Helpers, NEW s \in Thread, s \notin Helpers,
         Helpers' = (Helpers \ {t}) \cup {s},
         count <= Cardinality(Helpers), count' = count
  PROVE  count' <= Cardinality(Helpers')
<1>1. /\ IsFiniteSet(Helpers \ {t})
      /\ Cardinality(Helpers \ {t}) = Cardinality(Helpers) - 1
  BY HelpersFinite, FS_RemoveElement
<1>2. s \notin Helpers \ {t}
  OBVIOUS
<1>3. Cardinality(Helpers') = Cardinality(Helpers \ {t}) + 1
  BY <1>1, <1>2, FS_AddElement
<1> QED BY <1>1, <1>3, HelpersFinite DEF IInv, TypeOK

\* Somebody sleeps afterwards and no timed call has given up beside a token, so
\* the same held before, and each token had its helper.
LEMMA Covered ==
  ASSUME NoStrandedToken, Asleep # {}, ~abandoned
  PROVE  count <= Cardinality(Helpers)
BY DEF NoStrandedToken

\* A step that changes neither the helpers nor the sleepers and adds no token.
LEMMA NobodyMoves ==
  ASSUME WakeInv, Helpers' = Helpers, Asleep' = Asleep, abandoned' = abandoned,
         count' \in Nat, count' = count \/ count' = count - 1, count \in Nat
  PROVE  NoStrandedToken'
<1> SUFFICES ASSUME Asleep' # {}, ~abandoned' PROVE count' <= Cardinality(Helpers')
  BY DEF NoStrandedToken
<1>1. count <= Cardinality(Helpers)
  BY Covered DEF WakeInv
<1> QED BY <1>1, HelpersFinite

LEMMA StepStranded ==
  ASSUME WakeInv, IInv', NEW t \in Thread, Steps(t)
  PROVE  NoStrandedToken'
<1> USE DEF WakeInv
<1>t. /\ pc \in [Thread -> PC] /\ pc' \in [Thread -> PC] /\ count \in Nat /\ count' \in Nat
      /\ abandoned \in BOOLEAN
  BY DEF IInv, TypeOK
<1>1. CASE SemPostAdd(t)
  <2>1. count' = count + 1 /\ abandoned' = abandoned
    BY <1>1, PostStep DEF SemPostAdd
  <2>2. Helpers' = Helpers \cup {t} /\ t \notin Helpers /\ Asleep' = Asleep
    BY <1>1, <1>t DEF SemPostAdd, Goto, Helpers, Asleep
  <2>3. CASE Asleep # {} /\ ~abandoned
    BY <2>1, <2>2, <2>3, <1>t, HelperJoins, Covered DEF NoStrandedToken
  <2> QED BY <2>1, <2>2, <2>3 DEF NoStrandedToken
<1>2. CASE SemPostWake(t)
  <2>1. CASE Asleep = {}
    <3>1. Asleep' = {}
      BY <1>2, <2>1, <1>t DEF SemPostWake, Asleep
    <3> QED BY <3>1 DEF NoStrandedToken
  <2>2. CASE Asleep # {} /\ ~abandoned
    <3>1. PICK s \in Asleep :
            pc' = [pc EXCEPT ![t] = "idle",
                             ![s] = IF pc[s] = "waitAsleep" THEN "waitLoad" ELSE "timedLoad"]
      BY <1>2, <2>2 DEF SemPostWake
    <3>2. s \in Thread /\ s \notin Helpers /\ t \in Helpers /\ s # t
      BY <1>2, <3>1 DEF SemPostWake, Asleep, Helpers
    <3>3. Helpers' = (Helpers \ {t}) \cup {s}
      BY <3>1, <3>2, <1>t DEF Helpers
    <3>4. count <= Cardinality(Helpers) /\ count' = count
      BY <1>2, <2>2, Covered DEF SemPostWake
    <3> QED BY <3>2, <3>3, <3>4, HelperSwaps DEF NoStrandedToken
  <2>3. CASE abandoned
    BY <1>2, <2>3 DEF SemPostWake, NoStrandedToken
  <2> QED BY <2>1, <2>2, <2>3
<1>3. CASE SemWait(t) \/ SemTimedwait(t)
  <2>1. /\ Helpers' = Helpers \cup {t} /\ t \notin Helpers /\ Asleep' = Asleep
        /\ count' = count /\ abandoned' = abandoned
    BY <1>3, <1>t DEF SemWait, SemTimedwait, Goto, Helpers, Asleep
  <2>2. CASE Asleep # {} /\ ~abandoned
    BY <2>1, <2>2, <1>t, HelperJoins, Covered DEF NoStrandedToken
  <2> QED BY <2>1, <2>2 DEF NoStrandedToken
<1>4. CASE WaitInterrupted(t) \/ TimedInterrupted(t) \/ TimedTimeout(t)
  <2>1. /\ Helpers' = Helpers \cup {t} /\ t \notin Helpers /\ Asleep # {}
        /\ count' = count /\ abandoned' = abandoned
    BY <1>4, <1>t DEF WaitInterrupted, TimedInterrupted, TimedTimeout, Goto, Helpers, Asleep
  <2>2. CASE ~abandoned
    BY <2>1, <2>2, <1>t, HelperJoins, Covered DEF NoStrandedToken
  <2> QED BY <2>1, <2>2, <1>t DEF NoStrandedToken
<1>5. CASE WaitLoad(t) \/ TimedLoad(t) \/ SemTrywait(t) \/ TryLoad(t) \/ ClockPasses(t)
  <2>1. Helpers' = Helpers /\ Asleep' = Asleep /\ count' = count /\ abandoned' = abandoned
    BY <1>5, <1>t DEF WaitLoad, TimedLoad, SemTrywait, TryLoad, ClockPasses, Goto, Helpers, Asleep
  <2> QED BY <2>1, <1>t, NobodyMoves
<1>6. CASE TryCas(t)
  <2>1. Helpers' = Helpers /\ Asleep' = Asleep /\ abandoned' = abandoned
    BY <1>6, <1>t DEF TryCas, Goto, Helpers, Asleep
  <2>2. count' = count \/ count' = count - 1
    BY <1>6 DEF TryCas, CasTakes
  <2> QED BY <2>1, <2>2, <1>t, NobodyMoves
<1>7. CASE WaitCas(t) \/ TimedCas(t)
  <2>1. Asleep' = Asleep /\ abandoned' = abandoned
    BY <1>7, <1>t DEF WaitCas, TimedCas, Goto, Asleep
  <2>2. CASE CasTakes(t) /\ (Goto(t, "waitCas", "idle") \/ Goto(t, "timedCas", "idle"))
    <3>1. Helpers' = Helpers \ {t} /\ t \in Helpers /\ count' = count - 1
      BY <2>2, <1>t DEF CasTakes, Goto, Helpers
    <3>2. CASE Asleep # {} /\ ~abandoned
      BY <2>1, <3>1, <3>2, Covered, HelperLeaves DEF NoStrandedToken
    <3> QED BY <2>1, <3>2 DEF NoStrandedToken
  <2>3. CASE UNCHANGED count /\ (Goto(t, "waitCas", "waitLoad") \/ Goto(t, "timedCas", "timedCheck"))
    <3>1. Helpers' = Helpers
      BY <2>3, <1>t DEF Goto, Helpers
    <3> QED BY <3>1, <2>1, <2>3, <1>t, NobodyMoves
  <2> QED BY <1>7, <2>2, <2>3 DEF WaitCas, TimedCas
<1>8. CASE WaitFutex(t) \/ TimedFutex(t)
  <2>1. count' = count /\ abandoned' = abandoned
    BY <1>8 DEF WaitFutex, TimedFutex
  <2>2. CASE count = 0
    BY <2>1, <2>2, HelpersFiniteNext DEF NoStrandedToken
  <2>3. CASE count # 0
    <3>1. Helpers' = Helpers /\ Asleep' = Asleep
      BY <1>8, <2>3, <1>t DEF WaitFutex, TimedFutex, Goto, Helpers, Asleep
    <3> QED BY <3>1, <2>1, <1>t, NobodyMoves
  <2> QED BY <2>2, <2>3
<1>9. CASE TimedCheck(t)
  <2>1. CASE TimedGivesUp(t)
    <3>1. count' = count /\ abandoned' = (abandoned \/ count > 0)
      BY <1>9, <2>1 DEF TimedCheck, TimedGivesUp
    <3>2. CASE count > 0
      <4>1. abandoned'
        BY <3>1, <3>2
      <4> QED BY <4>1 DEF NoStrandedToken
    <3>3. CASE ~(count > 0)
      <4>1. count' <= Cardinality(Helpers')
        BY <3>1, <3>3, <1>t, HelpersFiniteNext
      <4> QED BY <4>1 DEF NoStrandedToken
    <3> QED BY <3>2, <3>3
  <2>2. CASE Goto(t, "timedCheck", "timedFutex") /\ UNCHANGED abandoned
    <3>1. Helpers' = Helpers /\ Asleep' = Asleep /\ count' = count
      BY <1>9, <2>2, <1>t DEF TimedCheck, Goto, Helpers, Asleep
    <3> QED BY <3>1, <2>2, <1>t, NobodyMoves
  <2> QED BY <1>9, <2>1, <2>2 DEF TimedCheck
<1> QED
  BY <1>1, <1>2, <1>3, <1>4, <1>5, <1>6, <1>7, <1>8, <1>9 DEF Steps, Running, Calls, Kernel

\* No wakeup is lost, for any mix of threads in sdv_sem_wait, sdv_sem_trywait and
\* sdv_sem_timedwait (imports.gen.c:875-938): while one sleeps, every token has a
\* thread that will look at the word or wake a sleeper, as long as no timed call
\* has given up beside a token.
THEOREM NoLostWakeup == Spec => []NoStrandedToken
<1>1. Init => WakeInv
  <2>1. Init => Asleep = {}
    BY DEF Init, Asleep
  <2> QED BY <2>1, InitIInv DEF WakeInv, NoStrandedToken
<1>2. WakeInv /\ [Next]_vars => WakeInv'
  <2> SUFFICES ASSUME WakeInv, [Next]_vars PROVE WakeInv'
    OBVIOUS
  <2>1. IInv'
    BY StepIInv DEF WakeInv
  <2>2. CASE UNCHANGED vars
    BY <2>1, <2>2 DEF WakeInv, NoStrandedToken, Asleep, Helpers, vars
  <2>3. ASSUME NEW t \in Thread, Steps(t) PROVE WakeInv'
    BY <2>1, <2>3, StepStranded DEF WakeInv
  <2> QED BY <2>2, <2>3 DEF Next, Steps
<1>3. WakeInv => NoStrandedToken
  BY DEF WakeInv
<1> QED BY <1>1, <1>2, <1>3, PTL DEF Spec

-----------------------------------------------------------------------------
(* The shim implements Semaphore: each step of the code is an abstract       *)
(* operation or leaves the token count and every thread's call unchanged.    *)

\* A step that moves one thread changes the mode of that thread only.
LEMMA ModesOfGoto ==
  ASSUME TypeOK, NEW t \in Thread, NEW p, NEW q, Goto(t, p, q)
  PROVE  /\ modes[t] = ModeAt(p)
         /\ modes' = [modes EXCEPT ![t] = ModeAt(q)]
BY DEF TypeOK, Goto, modes

LEMMA ModeTable ==
  /\ ModeAt("idle") = "out" /\ ModeAt("wake") = "out"
  /\ ModeAt("waitLoad") = "waiting" /\ ModeAt("waitCas") = "waiting"
  /\ ModeAt("waitFutex") = "waiting" /\ ModeAt("waitAsleep") = "waiting"
  /\ ModeAt("tryLoad") = "trying" /\ ModeAt("tryCas") = "trying"
  /\ ModeAt("timedLoad") = "timing" /\ ModeAt("timedCas") = "timing"
  /\ ModeAt("timedCheck") = "timing" /\ ModeAt("timedFutex") = "timing"
  /\ ModeAt("timedAsleep") = "timing"
BY DEF ModeAt

\* Moving within one call is a stutter of the abstract semaphore.
LEMMA SameMode ==
  ASSUME TypeOK, NEW t \in Thread, NEW p, NEW q, Goto(t, p, q), ModeAt(p) = ModeAt(q)
  PROVE  modes' = modes
<1>1. modes \in [Thread -> {modes[s] : s \in Thread}]
  BY DEF modes
<1> QED BY <1>1, ModesOfGoto

LEMMA TakeIsAcquire ==
  ASSUME IInv, NEW t \in Thread, NEW p \in {"waitCas", "tryCas", "timedCas"},
         Goto(t, p, "idle"), CasTakes(t), posted' = posted
  PROVE  Abs!Acquire(t)
<1>1. count > 0 /\ count' = count - 1
  BY CasStep DEF Goto
<1>2. modes[t] # "out" /\ modes' = [modes EXCEPT ![t] = "out"]
  BY ModesOfGoto, ModeTable DEF IInv
<1> QED BY <1>1, <1>2 DEF Abs!Acquire

LEMMA LeaveIsGiveUp ==
  ASSUME IInv, NEW t \in Thread, NEW p \in {"tryLoad", "tryCas", "timedCheck"},
         Goto(t, p, "idle"), count' = count
  PROVE  Abs!GiveUp(t)
<1>1. modes[t] \in {"trying", "timing"} /\ modes' = [modes EXCEPT ![t] = "out"]
  BY ModesOfGoto, ModeTable DEF IInv
<1> QED BY <1>1 DEF Abs!GiveUp

LEMMA CallIsEnter ==
  ASSUME IInv, NEW t \in Thread, NEW q \in {"waitLoad", "tryLoad", "timedLoad"},
         Goto(t, "idle", q), count' = count
  PROVE  Abs!Enter(t)
<1>1. modes[t] = "out" /\ modes' = [modes EXCEPT ![t] = ModeAt(q)]
  BY ModesOfGoto, ModeTable DEF IInv
<1>2. ModeAt(q) \in Abs!Mode \ {"out"}
  BY ModeTable DEF Abs!Mode
<1> QED BY <1>1, <1>2 DEF Abs!Enter

LEMMA StepRefines ==
  ASSUME IInv, NEW t \in Thread, Steps(t)
  PROVE  Abs!AbsNext \/ UNCHANGED <<count, modes>>
<1> USE DEF IInv
<1>1. CASE SemPostAdd(t)
  <2>1. count' = count + 1
    BY <1>1, PostStep
  <2>2. modes[t] = "out" /\ modes' = modes
    BY <1>1, ModesOfGoto, SameMode, ModeTable DEF SemPostAdd
  <2> QED BY <2>1, <2>2 DEF Abs!AbsNext, Abs!Post
<1>2. CASE SemPostWake(t)
  <2>1. \A s \in Thread : ModeAt(pc'[s]) = ModeAt(pc[s])
    BY <1>2, ModeTable DEF SemPostWake, Asleep, TypeOK
  <2> QED BY <1>2, <2>1 DEF modes, SemPostWake
<1>3. CASE SemWait(t)
  BY <1>3, CallIsEnter DEF SemWait, Abs!AbsNext
<1>4. CASE SemTrywait(t)
  BY <1>4, CallIsEnter DEF SemTrywait, Abs!AbsNext
<1>5. CASE SemTimedwait(t)
  BY <1>5, CallIsEnter DEF SemTimedwait, Abs!AbsNext
<1>6. CASE WaitLoad(t) \/ WaitFutex(t) \/ WaitInterrupted(t)
  <2>1. PICK p, q \in {"waitLoad", "waitCas", "waitFutex", "waitAsleep"} : Goto(t, p, q)
    BY <1>6 DEF WaitLoad, WaitFutex, WaitInterrupted
  <2>2. modes' = modes
    BY <2>1, SameMode, ModeTable
  <2> QED BY <1>6, <2>2 DEF WaitLoad, WaitFutex, WaitInterrupted
<1>7. CASE WaitCas(t)
  <2>1. CASE Goto(t, "waitCas", "idle") /\ CasTakes(t)
    BY <1>7, <2>1, TakeIsAcquire DEF WaitCas, Abs!AbsNext
  <2>2. CASE Goto(t, "waitCas", "waitLoad") /\ UNCHANGED count
    BY <2>2, SameMode, ModeTable
  <2> QED BY <1>7, <2>1, <2>2 DEF WaitCas
<1>8. CASE TryLoad(t)
  <2>1. CASE Goto(t, "tryLoad", "idle")
    BY <1>8, <2>1, LeaveIsGiveUp DEF TryLoad, Abs!AbsNext
  <2>2. CASE Goto(t, "tryLoad", "tryCas")
    BY <1>8, <2>2, SameMode, ModeTable DEF TryLoad
  <2> QED BY <1>8, <2>1, <2>2 DEF TryLoad
<1>9. CASE TryCas(t)
  <2>1. CASE CasTakes(t)
    BY <1>9, <2>1, TakeIsAcquire DEF TryCas, Abs!AbsNext
  <2>2. CASE UNCHANGED count
    BY <1>9, <2>2, LeaveIsGiveUp DEF TryCas, Abs!AbsNext
  <2> QED BY <1>9, <2>1, <2>2 DEF TryCas
<1>10. CASE TimedLoad(t) \/ TimedFutex(t) \/ TimedInterrupted(t) \/ TimedTimeout(t)
  <2>1. PICK p, q \in {"timedLoad", "timedCas", "timedCheck", "timedFutex", "timedAsleep"} :
          Goto(t, p, q)
    BY <1>10 DEF TimedLoad, TimedFutex, TimedInterrupted, TimedTimeout
  <2>2. modes' = modes
    BY <2>1, SameMode, ModeTable
  <2> QED BY <1>10, <2>2 DEF TimedLoad, TimedFutex, TimedInterrupted, TimedTimeout
<1>11. CASE TimedCas(t)
  <2>1. CASE Goto(t, "timedCas", "idle") /\ CasTakes(t)
    BY <1>11, <2>1, TakeIsAcquire DEF TimedCas, Abs!AbsNext
  <2>2. CASE Goto(t, "timedCas", "timedCheck") /\ UNCHANGED count
    BY <2>2, SameMode, ModeTable
  <2> QED BY <1>11, <2>1, <2>2 DEF TimedCas
<1>12. CASE TimedCheck(t)
  <2>1. CASE Goto(t, "timedCheck", "idle")
    BY <1>12, <2>1, LeaveIsGiveUp DEF TimedCheck, Abs!AbsNext
  <2>2. CASE Goto(t, "timedCheck", "timedFutex")
    BY <1>12, <2>2, SameMode, ModeTable DEF TimedCheck
  <2> QED BY <1>12, <2>1, <2>2 DEF TimedCheck, TimedGivesUp
<1>13. CASE ClockPasses(t)
  BY <1>13 DEF ClockPasses, modes
<1> QED
  BY <1>1, <1>2, <1>3, <1>4, <1>5, <1>6, <1>7, <1>8, <1>9, <1>10, <1>11, <1>12, <1>13
  DEF Steps, Running, Calls, Kernel

\* Hiding the loops, the CASes and the futex, imports.gen.c:866-938 is a POSIX
\* counting semaphore: 0 is returned exactly with a token, and sem_wait only so.
THEOREM RefinesSemaphore == Spec => ImplementsSemaphore
<1>1. Init => Abs!AbsInit
  BY ModeTable DEF Init, Abs!AbsInit, modes
<1>2. IInv /\ [Next]_vars => [Abs!AbsNext]_<<count, modes>>
  <2> SUFFICES ASSUME IInv, [Next]_vars PROVE Abs!AbsNext \/ UNCHANGED <<count, modes>>
    OBVIOUS
  <2>1. CASE UNCHANGED vars
    BY <2>1 DEF vars, modes
  <2>2. ASSUME NEW t \in Thread, Steps(t) PROVE Abs!AbsNext \/ UNCHANGED <<count, modes>>
    BY <2>2, StepRefines
  <2> QED BY <2>1, <2>2 DEF Next, Steps
<1> QED
  BY <1>1, <1>2, AlwaysIInv, PTL DEF Spec, ImplementsSemaphore, Abs!AbsSpec, Abs!absVars
=============================================================================
