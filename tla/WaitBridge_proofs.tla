-------------------------- MODULE WaitBridge_proofs --------------------------
(***************************************************************************)
(* Proofs about PthreadBridge and WaitBridge, for any number of threads,   *)
(* objects and recursive locks.  With the stores of a new glibc mutex in   *)
(* their order, the mutex excludes, is not used when it was freed, and     *)
(* pthread_once runs its callback once.                                    *)
(*                                                                         *)
(* The invariant says what the double check of mtx_real is for: a thread   *)
(* that got past it has the mutex the slot holds, and the slot keeps it as *)
(* long as anybody is in a call.                                           *)
(***************************************************************************)
EXTENDS WaitBridge, FiniteSetTheorems, TLAPS

\* The slot holds a live glibc mutex or none, and freed and fresh ones are told apart.
SlotSound ==
  /\ IsHeapPtr(slot) => slot \in Object /\ slot < brk /\ slot \notin freed
  /\ \A p \in freed : p < brk
  /\ \A p \in Object : p >= brk => owner[p] = Nobody /\ depth[p] = 0

\* What the threads believe to hold is what the glibc mutex in the slot says.
Owned ==
  /\ ~IsHeapPtr(slot) => \A t \in Threads : holds[t] = 0
  /\ IsHeapPtr(slot) =>
       /\ \A t \in Threads : holds[t] = IF owner[slot] = t THEN depth[slot] ELSE 0
       /\ owner[slot] = Nobody <=> depth[slot] = 0

\* Behind mtx_real, and within a call.
Behind(t) ==
  /\ pc[t] \in {"lazyOut", "reread", "enter"} => IsHeapPtr(slot)
  /\ pc[t] = "enter" => ptr[t] = slot
  /\ InCall(t) => IF op[t] = "unlock" THEN holds[t] > 0 ELSE holds[t] < MaxDepth

\* One thread at most destroys or initialises the mutex, with nobody at it.
Remaking ==
  /\ ~usable => \A t \in Threads : holds[t] = 0 /\ ~InCall(t)
  /\ \A t \in Threads : pc[t] \in {"destroy", "init"} => ~usable
  /\ \A t, u \in Threads : pc[t] \in {"destroy", "init"} /\ pc[u] \in {"destroy", "init"} => t = u
  /\ \A t \in Threads : pc[t] = "init" =>
       /\ slot = 0 /\ ptr[t] \in Object /\ ptr[t] < brk /\ ptr[t] \notin freed
       /\ owner[ptr[t]] = Nobody /\ depth[ptr[t]] = 0

\* The callback has run when the control says so.
OnceSound == OnceOnce /\ (once = 0 => inits = 0)

MutexInv == /\ TypeOK /\ late = {} /\ SlotSound /\ Owned /\ Remaking /\ OnceSound
            /\ \A t \in Threads : Behind(t)

-----------------------------------------------------------------------------
LEMMA InvMutualExclusion == MutexInv => MutualExclusion
BY DEF MutexInv, Owned, MutualExclusion

LEMMA InvNoUseAfterFree == MutexInv => NoUseAfterFree
BY DEF MutexInv, SlotSound, Behind, NoUseAfterFree

LEMMA CallInv == ASSUME MutexInv, NEW t \in Threads, Call(t) PROVE MutexInv'
<1>1. TypeOK'
  BY DEF Call, Step, PC, mutexVars, onceVars, MutexInv, TypeOK
<1>2. SlotSound'
  BY DEF Call, mutexVars, MutexInv, SlotSound
<1>3. Owned'
  BY DEF Call, mutexVars, MutexInv, Owned
<1>4. Remaking'
  BY DEF Call, Step, mutexVars, MutexInv, Remaking
<1>5. OnceSound'
  BY DEF Call, Step, onceVars, MutexInv, OnceSound, OnceOnce
<1>6. (\A u \in Threads : Behind(u))'
  BY DEF Call, Step, InCall, mutexVars, MutexInv, TypeOK, Behind
<1>7. late' = {}
  BY DEF MutexInv, Call, mutexVars
<1> QED
  BY <1>1, <1>2, <1>3, <1>4, <1>5, <1>6, <1>7 DEF MutexInv

LEMMA FastPathInv == ASSUME MutexInv, NEW t \in Threads, FastPath(t) PROVE MutexInv'
<1>1. TypeOK'
  <2>1. pc' \in [Threads -> PC]
    BY DEF FastPath, Step, MutexInv, TypeOK, PC
  <2>2. ptr' \in [Threads -> Word]
    BY DEF FastPath, MutexInv, TypeOK
  <2> QED
    BY <2>1 DEF FastPath, MutexInv, TypeOK, mutexVars, onceVars
<1>2. SlotSound'
  BY DEF FastPath, mutexVars, MutexInv, SlotSound
<1>3. Owned'
  BY DEF FastPath, mutexVars, MutexInv, Owned
<1>4. Remaking'
  BY DEF FastPath, Step, InCall, mutexVars, MutexInv, TypeOK, Remaking
<1>5. OnceSound'
  BY DEF FastPath, Step, onceVars, MutexInv, TypeOK, OnceSound, OnceOnce
<1>6. (\A u \in Threads : Behind(u))'
  BY DEF FastPath, Step, InCall, mutexVars, MutexInv, TypeOK, Behind
<1>7. late' = {}
  BY DEF MutexInv, FastPath, mutexVars
<1> QED
  BY <1>1, <1>2, <1>3, <1>4, <1>5, <1>6, <1>7 DEF MutexInv

LEMMA LazyInv == ASSUME MutexInv, StoresInOrder, NEW t \in Threads, Lazy(t) PROVE MutexInv'
<1>1. TypeOK'
  BY BridgeAssumption
  DEF Lazy, Step, NewMutex, Take, Give, Unused, InCall, IsHeapPtr, Object, Word, PC, mutexVars,
      onceVars, MutexInv, TypeOK, SlotSound, Owned, Remaking, OnceSound, OnceOnce, Behind
<1>2. SlotSound'
  BY DEF Lazy, NewMutex, Object, Word, MutexInv, TypeOK, SlotSound, Behind
<1>3. Owned'
  BY DEF Lazy, NewMutex, Object, MutexInv, SlotSound, Owned, OnceSound, OnceOnce, Behind
<1>4. Remaking'
  BY DEF Lazy, Step, InCall, MutexInv, Remaking
<1>5. OnceSound'
  BY DEF Lazy, Step, onceVars, MutexInv, OnceSound, OnceOnce
<1>6. (\A u \in Threads : Behind(u))'
  BY DEF Lazy, Step, NewMutex, InCall, IsHeapPtr, Object, MutexInv, Behind
<1>7. late' = {}
  BY DEF MutexInv, Lazy
<1> QED
  BY <1>1, <1>2, <1>3, <1>4, <1>5, <1>6, <1>7 DEF MutexInv

LEMMA LazyOutInv == ASSUME MutexInv, NEW t \in Threads, LazyOut(t) PROVE MutexInv'
<1>1. TypeOK'
  BY DEF LazyOut, Step, PC, mutexVars, onceVars, MutexInv, TypeOK
<1>2. SlotSound'
  BY DEF LazyOut, mutexVars, MutexInv, SlotSound
<1>3. Owned'
  BY DEF LazyOut, mutexVars, MutexInv, Owned
<1>4. Remaking'
  BY DEF LazyOut, Step, InCall, mutexVars, MutexInv, Remaking
<1>5. OnceSound'
  BY DEF LazyOut, Step, onceVars, MutexInv, OnceSound, OnceOnce
<1>6. (\A u \in Threads : Behind(u))'
  BY DEF LazyOut, Step, InCall, mutexVars, MutexInv, Behind
<1>7. late' = {}
  BY DEF LazyOut, mutexVars
<1> QED
  BY <1>1, <1>2, <1>3, <1>4, <1>5, <1>6, <1>7 DEF MutexInv

LEMMA RereadInv == ASSUME MutexInv, NEW t \in Threads, Reread(t) PROVE MutexInv'
<1>1. TypeOK'
  BY DEF Reread, Step, PC, mutexVars, onceVars, MutexInv, TypeOK
<1>2. SlotSound'
  BY DEF Reread, mutexVars, MutexInv, SlotSound
<1>3. Owned'
  BY DEF Reread, mutexVars, MutexInv, Owned
<1>4. Remaking'
  BY DEF Reread, Step, InCall, mutexVars, MutexInv, Remaking
<1>5. OnceSound'
  BY DEF Reread, Step, onceVars, MutexInv, OnceSound, OnceOnce
<1>6. (\A u \in Threads : Behind(u))'
  BY DEF Reread, Step, InCall, mutexVars, MutexInv, TypeOK, Behind
<1>7. late' = {}
  BY DEF MutexInv, Reread, mutexVars
<1> QED
  BY <1>1, <1>2, <1>3, <1>4, <1>5, <1>6, <1>7 DEF MutexInv

LEMMA EnterInv == ASSUME MutexInv, NEW t \in Threads, Enter(t) PROVE MutexInv'
<1>1. TypeOK'
  <2>1. pc' \in [Threads -> PC]
    BY DEF Enter, Step, MutexInv, TypeOK, PC
  <2>2. /\ ptr[t] \in Object /\ ptr[t] = slot /\ IsHeapPtr(slot)
        /\ InCall(t)
    BY DEF Enter, Step, InCall, MutexInv, SlotSound, Behind
  <2>3. CASE Take(t) /\ op[t] # "unlock" /\ owner[ptr[t]] \in {Nobody, t}
    <3>1. depth[ptr[t]] = holds[t] /\ holds[t] < MaxDepth /\ holds[t] \in 0..MaxDepth
      BY <2>2, <2>3 DEF MutexInv, Owned, Behind, TypeOK
    <3>2. depth' \in [Object -> 0..MaxDepth] /\ holds' \in [Threads -> 0..MaxDepth]
      BY <2>3, <2>2, <3>1, BridgeAssumption DEF Take, MutexInv, TypeOK
    <3>3. owner' \in [Object -> Threads \cup {Nobody}] /\ helped' \subseteq Threads
      BY <2>3 DEF Take, MutexInv, TypeOK
    <3> QED
      BY <2>1, <3>2, <3>3 DEF Enter, MutexInv, TypeOK, onceVars
  <2>4. CASE Give(t) /\ op[t] = "unlock" /\ owner[ptr[t]] = t
    <3>1. depth[ptr[t]] = holds[t] /\ holds[t] > 0 /\ holds[t] \in 0..MaxDepth
      BY <2>2, <2>4, BridgeAssumption DEF MutexInv, Owned, TypeOK
    <3>2. depth' \in [Object -> 0..MaxDepth] /\ holds' \in [Threads -> 0..MaxDepth]
      BY <2>4, <2>2, <3>1, BridgeAssumption DEF Give, MutexInv, TypeOK
    <3>3. owner' \in [Object -> Threads \cup {Nobody}] /\ helped' \subseteq Threads
      BY <2>4 DEF Give, MutexInv, TypeOK
    <3> QED
      BY <2>1, <3>2, <3>3 DEF Enter, MutexInv, TypeOK, onceVars
  <2>5. CASE UNCHANGED <<owner, depth, holds, helped>>
    BY <2>1, <2>5 DEF Enter, MutexInv, TypeOK, onceVars
  <2> QED
    BY <2>3, <2>4, <2>5 DEF Enter
<1>2. SlotSound'
  BY DEF Enter, Step, Take, Give, Word, PC, MutexInv, TypeOK, SlotSound, Owned, OnceOnce, Behind
<1>3. Owned'
  BY BridgeAssumption
  DEF Enter, Step, NewMutex, Take, Give, Unused, InCall, IsHeapPtr, Object, Word, PC, mutexVars,
      onceVars, MutexInv, TypeOK, SlotSound, Owned, Remaking, OnceSound, OnceOnce, Behind
<1>4. Remaking'
  BY DEF Enter, Step, InCall, MutexInv, Remaking
<1>5. OnceSound'
  BY DEF Enter, Step, onceVars, MutexInv, OnceSound, OnceOnce
<1>6. (\A u \in Threads : Behind(u))'
  BY DEF Enter, Step, Take, Give, InCall, MutexInv, TypeOK, Behind
<1>7. late' = {}
  BY DEF MutexInv, Enter
<1> QED
  BY <1>1, <1>2, <1>3, <1>4, <1>5, <1>6, <1>7 DEF MutexInv

LEMMA CallDestroyInv == ASSUME MutexInv, NEW t \in Threads, CallDestroy(t) PROVE MutexInv'
<1>1. TypeOK'
  BY DEF CallDestroy, Step, PC, onceVars, MutexInv, TypeOK
<1>2. SlotSound'
  BY DEF CallDestroy, MutexInv, SlotSound
<1>3. Owned'
  BY DEF CallDestroy, MutexInv, Owned
<1>4. Remaking'
  BY DEF CallDestroy, Step, Unused, InCall, MutexInv, Remaking
<1>5. OnceSound'
  BY DEF CallDestroy, Step, onceVars, MutexInv, OnceSound, OnceOnce
<1>6. (\A u \in Threads : Behind(u))'
  BY DEF CallDestroy, Step, Unused, InCall, Behind
<1>7. late' = {}
  BY DEF MutexInv, CallDestroy
<1> QED
  BY <1>1, <1>2, <1>3, <1>4, <1>5, <1>6, <1>7 DEF MutexInv

LEMMA DestroyInv == ASSUME MutexInv, NEW t \in Threads, Destroy(t) PROVE MutexInv'
<1>1. TypeOK'
  BY BridgeAssumption DEF Destroy, Step, Word, PC, onceVars, MutexInv, TypeOK
<1>2. SlotSound'
  BY DEF Destroy, IsHeapPtr, Word, MutexInv, TypeOK, SlotSound
<1>3. Owned'
  BY DEF Destroy, Step, IsHeapPtr, MutexInv, Owned, Remaking
<1>4. Remaking'
  BY DEF Destroy, Step, MutexInv, TypeOK, Remaking
<1>5. OnceSound'
  BY DEF Destroy, Step, onceVars, MutexInv, OnceSound, OnceOnce
<1>6. (\A u \in Threads : Behind(u))'
  BY DEF Destroy, Step, InCall, MutexInv, Remaking, Behind
<1>7. late' = {}
  BY DEF MutexInv, Destroy
<1> QED
  BY <1>1, <1>2, <1>3, <1>4, <1>5, <1>6, <1>7 DEF MutexInv

LEMMA CallInitInv == ASSUME MutexInv, NEW t \in Threads, CallInit(t) PROVE MutexInv'
<1>1. TypeOK'
  <2>1. brk \in Word /\ brk' \in 2..(MaxObjects + 2)
    BY BridgeAssumption DEF CallInit, NewMutex, Object, Word
  <2>2. ptr' \in [Threads -> Word] /\ pc' \in [Threads -> PC]
    BY <2>1 DEF CallInit, Step, PC, MutexInv, TypeOK
  <2> QED
    BY <2>1, <2>2 DEF CallInit, MutexInv, TypeOK, onceVars
<1>2. SlotSound'
  BY DEF CallInit, NewMutex, MutexInv, TypeOK, SlotSound
<1>3. Owned'
  BY DEF CallInit, Unused, IsHeapPtr, Owned
<1>4. Remaking'
  BY DEF CallInit, Step, NewMutex, Unused, InCall, MutexInv, TypeOK, SlotSound, Remaking
<1>5. OnceSound'
  BY DEF CallInit, Step, onceVars, MutexInv, OnceSound, OnceOnce
<1>6. (\A u \in Threads : Behind(u))'
  BY DEF CallInit, Step, Unused, InCall, Behind
<1>7. late' = {}
  BY DEF MutexInv, CallInit
<1> QED
  BY <1>1, <1>2, <1>3, <1>4, <1>5, <1>6, <1>7 DEF MutexInv

LEMMA StoreInitInv == ASSUME MutexInv, NEW t \in Threads, StoreInit(t) PROVE MutexInv'
<1>1. TypeOK'
  BY DEF StoreInit, Step, PC, onceVars, MutexInv, TypeOK
<1>2. SlotSound'
  BY DEF StoreInit, Step, MutexInv, SlotSound, Remaking
<1>3. Owned'
  BY DEF StoreInit, Step, MutexInv, Owned, Remaking
<1>4. Remaking'
  BY DEF StoreInit, Step, MutexInv, TypeOK, Remaking
<1>5. OnceSound'
  BY DEF StoreInit, Step, onceVars, MutexInv, OnceSound, OnceOnce
<1>6. (\A u \in Threads : Behind(u))'
  BY DEF StoreInit, Step, InCall, MutexInv, Remaking, Behind
<1>7. late' = {}
  BY DEF MutexInv, StoreInit
<1> QED
  BY <1>1, <1>2, <1>3, <1>4, <1>5, <1>6, <1>7 DEF MutexInv

LEMMA CallOnceInv == ASSUME MutexInv, NEW t \in Threads, CallOnce(t) PROVE MutexInv'
<1>1. TypeOK'
  BY DEF CallOnce, Step, PC, mutexVars, MutexInv, TypeOK
<1>2. SlotSound'
  BY DEF CallOnce, mutexVars, MutexInv, SlotSound
<1>3. Owned'
  BY DEF CallOnce, mutexVars, MutexInv, Owned
<1>4. Remaking'
  BY DEF CallOnce, Step, InCall, mutexVars, MutexInv, Remaking
<1>5. OnceSound'
  BY DEF CallOnce, Step, MutexInv, TypeOK, OnceSound, OnceOnce
<1>6. (\A u \in Threads : Behind(u))'
  BY DEF CallOnce, Step, InCall, mutexVars, MutexInv, Behind
<1>7. late' = {}
  BY DEF MutexInv, CallOnce, mutexVars
<1> QED
  BY <1>1, <1>2, <1>3, <1>4, <1>5, <1>6, <1>7 DEF MutexInv

LEMMA OnceInv == ASSUME MutexInv, NEW t \in Threads, Once(t) PROVE MutexInv'
<1>1. TypeOK'
  <2>1. pc' \in [Threads -> PC]
    BY DEF Once, Step, PC, MutexInv, TypeOK
  <2>2. once' \in 0..2 /\ inits' \in Nat /\ helped' \subseteq Threads
    BY DEF Once, MutexInv, TypeOK
  <2> QED
    BY <2>1 DEF Once, MutexInv, TypeOK, mutexVars
<1>2. SlotSound'
  BY DEF Once, mutexVars, MutexInv, SlotSound
<1>3. Owned'
  BY DEF Once, mutexVars, MutexInv, Owned
<1>4. Remaking'
  <2>1. \A u \in Threads : /\ pc'[u] \in {"destroy", "init"} <=> pc[u] \in {"destroy", "init"}
                           /\ pc'[u] = "init" <=> pc[u] = "init"
                           /\ InCall(u)' <=> InCall(u)
    BY DEF Once, Step, InCall, MutexInv, TypeOK
  <2> QED
    BY <2>1 DEF Once, MutexInv, Remaking, mutexVars
<1>5. OnceSound'
  BY DEF Once, Step, Word, mutexVars, MutexInv, TypeOK, SlotSound, Owned, Remaking, OnceSound,
     OnceOnce, Behind
<1>6. (\A u \in Threads : Behind(u))'
  BY DEF Once, Step, InCall, mutexVars, MutexInv, TypeOK, Behind
<1>7. late' = {}
  BY DEF MutexInv, Once, mutexVars
<1> QED
  BY <1>1, <1>2, <1>3, <1>4, <1>5, <1>6, <1>7 DEF MutexInv

LEMMA CallbackReturnsInv == ASSUME MutexInv, NEW t \in Threads, CallbackReturns(t) PROVE MutexInv'
<1>1. TypeOK'
  BY DEF CallbackReturns, Step, PC, mutexVars, onceVars, MutexInv, TypeOK
<1>2. SlotSound'
  BY DEF CallbackReturns, mutexVars, MutexInv, SlotSound
<1>3. Owned'
  BY DEF CallbackReturns, mutexVars, MutexInv, Owned
<1>4. Remaking'
  BY DEF CallbackReturns, Step, InCall, mutexVars, MutexInv, Remaking
<1>5. OnceSound'
  BY DEF CallbackReturns, Step, onceVars, MutexInv, OnceSound, OnceOnce
<1>6. (\A u \in Threads : Behind(u))'
  BY DEF CallbackReturns, Step, InCall, mutexVars, MutexInv, Behind
<1>7. late' = {}
  BY DEF MutexInv, CallbackReturns, mutexVars
<1> QED
  BY <1>1, <1>2, <1>3, <1>4, <1>5, <1>6, <1>7 DEF MutexInv

LEMMA OnceDoneInv == ASSUME MutexInv, NEW t \in Threads, OnceDone(t) PROVE MutexInv'
<1>1. TypeOK'
  BY DEF OnceDone, Step, PC, mutexVars, MutexInv, TypeOK
<1>2. SlotSound'
  BY DEF OnceDone, mutexVars, MutexInv, SlotSound
<1>3. Owned'
  BY DEF OnceDone, mutexVars, MutexInv, Owned
<1>4. Remaking'
  BY DEF OnceDone, Step, InCall, mutexVars, MutexInv, Remaking
<1>5. OnceSound'
  BY DEF OnceDone, MutexInv, OnceSound, OnceOnce
<1>6. (\A u \in Threads : Behind(u))'
  BY DEF OnceDone, Step, InCall, mutexVars, MutexInv, Behind
<1>7. late' = {}
  BY DEF MutexInv, OnceDone, mutexVars
<1> QED
  BY <1>1, <1>2, <1>3, <1>4, <1>5, <1>6, <1>7 DEF MutexInv

-----------------------------------------------------------------------------
LEMMA MutexInit == Init => MutexInv
<1> SUFFICES ASSUME Init PROVE MutexInv
  OBVIOUS
<1>1. TypeOK
  <2>1. /\ brk \in 2..(MaxObjects + 2) /\ depth \in [Object -> 0..MaxDepth]
        /\ ptr \in [Threads -> Word] /\ holds \in [Threads -> 0..MaxDepth]
        /\ slot \in Word
    BY BridgeAssumption DEF Init, Word
  <2>2. freed \subseteq Word /\ late \subseteq Object /\ helped \subseteq Threads /\ called \subseteq Threads
    BY DEF Init
  <2>3. /\ usable \in BOOLEAN /\ once \in 0..2 /\ inits \in Nat
        /\ owner \in [Object -> Threads \cup {Nobody}]
    BY DEF Init
  <2> QED
    BY <2>1 DEF Init, TypeOK, PC
<1> QED
  BY <1>1, BridgeAssumption
  DEF Init, MutexInv, SlotSound, Owned, Remaking, OnceSound, OnceOnce, Behind, InCall, IsHeapPtr

LEMMA MutexStutters == MutexInv /\ UNCHANGED vars => MutexInv'
BY DEF vars, MutexInv, TypeOK, SlotSound, Owned, Remaking, OnceSound, OnceOnce, Behind, InCall

LEMMA MutexNext == ASSUME StoresInOrder, MutexInv, Next PROVE MutexInv'
BY CallInv, FastPathInv, LazyInv, LazyOutInv, RereadInv, EnterInv, CallDestroyInv, DestroyInv,
   CallInitInv, StoreInitInv, CallOnceInv, OnceInv, CallbackReturnsInv, OnceDoneInv
DEF Next, Within

-----------------------------------------------------------------------------
WaitTypeOK ==
  /\ use \in Uses /\ word \in 0..(MaxMade + 1) /\ made \in 0..MaxMade /\ gone \subseteq Made
  /\ where \in [Threads -> {"idle", "fast", "lazy", "reread", "enter", "locked", "asleep", "woken"}]
  /\ doing \in [Threads -> {"none", "init", "wait", "timedwait", "timedout", "signal", "broadcast",
                            "rdlock", "wrlock", "unlock"}]
  /\ real \in [Threads -> 0..(MaxMade + 1)]
  /\ mutex \in Threads \cup {Nobody} /\ items \in Nat /\ posted \in Nat
  /\ waiting \in [Made -> SUBSET Threads] /\ readers \in [Made -> SUBSET Threads]
  /\ writer \in [Made -> Threads \cup {Nobody}]
  /\ has \in [Threads -> {"none", "read", "write"}]

\* The word is zero or the latest glibc object, which is alive; later ones are fresh.
WordSound ==
  /\ word # 1 /\ word <= made + 1 /\ word \notin gone
  /\ \A g \in gone : g <= made + 1
  /\ \A o \in Made : o > made + 1 => waiting[o] = {} /\ readers[o] = {} /\ writer[o] = Nobody

\* A thread past the double check has the object of the word.
PastCheck(t) ==
  /\ where[t] \in {"reread", "enter", "asleep"} => word # 0
  /\ where[t] \in {"enter", "asleep"} => real[t] = word

\* What a behaviour is not about stays as it was.
Apart(t) ==
  /\ use = "mutex" => where[t] = "idle"
  /\ use = "rwlock" => /\ where[t] \in InCond \cup {"idle"}
                       /\ doing[t] \in {"none", "rdlock", "wrlock", "unlock"}
  /\ use # "rwlock" => has[t] = "none" /\ doing[t] \notin {"rdlock", "wrlock", "unlock"}

\* A thread holds the read-write lock as glibc sees it.
LockSound(t) ==
  /\ word = 0 => has[t] = "none"
  /\ use = "rwlock" /\ word # 0 =>
       /\ has[t] = "write" <=> writer[word] = t
       /\ has[t] = "read" <=> t \in readers[word]
       /\ writer[word] = t => readers[word] = {}

\* The monitor: who sleeps is known to the condition, and who holds the mutex has it.
MonitorSound(t) ==
  /\ where[t] = "asleep" => t \in waiting[word]
  /\ word # 0 /\ t \in waiting[word] => where[t] = "asleep"
  /\ where[t] \in {"asleep", "woken"} => Waited(t)
  /\ where[t] = "idle" => ~Waited(t)
  /\ where[t] \in InCond /\ Waited(t) => mutex = t /\ items = 0 /\ doing[t] # "timedout"
  /\ where[t] = "asleep" => doing[t] # "timedout"
  /\ where[t] = "locked" => mutex = t

\* The threads that owe a look at the items or a signal.
Helpers ==
  {t \in Threads : \/ where[t] \in {"woken", "locked"} /\ Waited(t)
                   \/ where[t] \in InCond /\ doing[t] \in {"signal", "broadcast"}}

\* While a thread sleeps there is one of them for each item.
Covered == (\E t \in Threads : where[t] = "asleep") => items <= Cardinality(Helpers)

WaitInv == /\ WaitTypeOK /\ WordSound /\ Covered
           /\ \A t \in Threads : PastCheck(t) /\ Apart(t) /\ LockSound(t) /\ MonitorSound(t)

-----------------------------------------------------------------------------
LEMMA HelpersFinite == IsFiniteSet(Helpers) /\ Cardinality(Helpers) \in Nat
<1>1. IsFiniteSet(Helpers)
  BY FS_Subset, WaitAssumption DEF Helpers
<1> QED
  BY <1>1, FS_CardinalityType

LEMMA InvNoLostSignal == WaitInv => NoLostSignal
<1> SUFFICES ASSUME WaitInv PROVE NoLostSignal
  OBVIOUS
<1>1. ASSUME items > 0, NEW u \in Threads, where[u] = "asleep" PROVE \E t \in Threads : Helps(t)
  <2>1. items <= Cardinality(Helpers)
    BY <1>1 DEF WaitInv, Covered
  <2>2. Helpers # {}
    <3>1. items \in Nat /\ items > 0
      BY <1>1 DEF WaitInv, WaitTypeOK
    <3> QED
      BY <2>1, <3>1, FS_EmptySet
  <2> QED
    BY <2>2 DEF Helpers, Helps, InCond
<1>2. \A t \in Threads : where[t] \in {"enter", "asleep"} => real[t] = word /\ word \notin gone
  BY DEF WaitInv, PastCheck, WordSound
<1> QED
  BY <1>1, <1>2 DEF NoLostSignal

LEMMA InvWritersExclude == WaitInv => WritersExclude
BY DEF WaitInv, WaitTypeOK, WritersExclude, LockSound, Apart

LEMMA LooksUpInv == ASSUME WaitInv, NEW t \in Threads, LooksUp(t) PROVE WaitInv'
<1>1. WaitTypeOK'
  <2>1. where' \in {[where EXCEPT ![t] = "enter"], [where EXCEPT ![t] = "lazy"]}
    BY DEF LooksUp, Moves
  <2>2. real' \in [Threads -> 0..(MaxMade + 1)]
    BY DEF LooksUp, WaitInv, WaitTypeOK
  <2> QED
    BY <2>1 DEF LooksUp, monitor, rwlock, WaitInv, WaitTypeOK
<1>2. WordSound'
  BY DEF LooksUp, rwlock, WaitInv, WordSound
<1>3. (\A u \in Threads : PastCheck(u))'
  BY DEF LooksUp, Moves, IsPointer, WaitInv, WaitTypeOK, PastCheck
<1>4. (\A u \in Threads : Apart(u))'
  <2>1. \A u \in Threads : /\ where'[u] = "idle" <=> where[u] = "idle"
                           /\ where'[u] \in InCond \cup {"idle"} <=> where[u] \in InCond \cup {"idle"}
    BY DEF LooksUp, Moves, InCond, WaitInv, WaitTypeOK
  <2> QED
    BY <2>1 DEF LooksUp, rwlock, WaitInv, Apart
<1>5. (\A u \in Threads : LockSound(u))'
  BY DEF LooksUp, rwlock, WaitInv, LockSound
<1>6. (\A u \in Threads : MonitorSound(u))'
  BY DEF LooksUp, Moves, Waited, InCond, monitor, WaitInv, WaitTypeOK, MonitorSound
<1>7. Covered'
  <2>1. Helpers' = Helpers
    BY DEF LooksUp, Helpers, Moves, Waited, InCond, WaitInv, WaitTypeOK
  <2> QED
    BY <2>1 DEF LooksUp, Covered, Moves, monitor, WaitInv, WaitTypeOK
<1> QED
  BY <1>1, <1>2, <1>3, <1>4, <1>5, <1>6, <1>7 DEF WaitInv

LEMMA MakesInv == ASSUME WaitInv, NEW t \in Threads, Makes(t) PROVE WaitInv'
<1>1. WaitTypeOK'
  BY WaitAssumption DEF Makes, Moves, monitor, rwlock, WaitInv, WaitTypeOK
<1>2. WordSound'
  BY DEF Makes, Made, rwlock, WaitInv, WaitTypeOK, WordSound
<1>3. (\A u \in Threads : PastCheck(u))'
  BY DEF Makes, Moves, IsPointer, WaitInv, WaitTypeOK, WordSound, PastCheck
<1>4. (\A u \in Threads : Apart(u))'
  BY DEF Makes, Moves, InCond, rwlock, WaitInv, Apart
<1>5. (\A u \in Threads : LockSound(u))'
  BY BridgeAssumption, WaitAssumption
  DEF Makes, IsPointer, Made, rwlock, WaitInv, WaitTypeOK, WordSound, LockSound
<1>6. (\A u \in Threads : MonitorSound(u))'
  BY WaitAssumption
  DEF Makes, Moves, IsPointer, Waited, InCond, Made, monitor, WaitInv, WaitTypeOK, WordSound,
      PastCheck, MonitorSound
<1>7. Covered'
  <2>1. Helpers' = Helpers
    BY DEF Makes, Helpers, Moves, Waited, InCond
  <2> QED
    BY <2>1 DEF Makes, Covered, Moves, monitor, WaitInv
<1> QED
  BY <1>1, <1>2, <1>3, <1>4, <1>5, <1>6, <1>7 DEF WaitInv

LEMMA RereadsInv == ASSUME WaitInv, NEW t \in Threads, Rereads(t) PROVE WaitInv'
<1>1. WaitTypeOK'
  BY DEF Rereads, Moves, monitor, rwlock, WaitInv, WaitTypeOK
<1>2. WordSound'
  BY DEF Rereads, rwlock, WaitInv, WordSound
<1>3. (\A u \in Threads : PastCheck(u))'
  BY DEF Rereads, Moves, WaitInv, WaitTypeOK, PastCheck
<1>4. (\A u \in Threads : Apart(u))'
  BY DEF Rereads, Moves, InCond, rwlock, WaitInv, Apart
<1>5. (\A u \in Threads : LockSound(u))'
  BY DEF Rereads, rwlock, WaitInv, LockSound
<1>6. (\A u \in Threads : MonitorSound(u))'
  BY DEF Rereads, Moves, Waited, InCond, monitor, WaitInv, MonitorSound
<1>7. Covered'
  <2>1. Helpers' = Helpers
    BY DEF Rereads, Helpers, Moves, Waited, InCond
  <2> QED
    BY <2>1 DEF Rereads, Covered, Moves, monitor, WaitInv
<1> QED
  BY <1>1, <1>2, <1>3, <1>4, <1>5, <1>6, <1>7 DEF WaitInv

LEMMA CondInitInv == ASSUME WaitInv, NEW t \in Threads, CondInit(t) PROVE WaitInv'
<1>1. WaitTypeOK'
  BY WaitAssumption DEF CondInit, Moves, Calls, monitor, rwlock, WaitInv, WaitTypeOK
<1>2. WordSound'
  BY DEF CondInit, Made, rwlock, WaitInv, WaitTypeOK, WordSound
<1>3. (\A u \in Threads : PastCheck(u))'
  BY DEF CondInit, Moves, Calls, Idle, PastCheck
<1>4. (\A u \in Threads : Apart(u))'
  BY DEF CondInit, Calls, rwlock, WaitInv, Apart
<1>5. (\A u \in Threads : LockSound(u))'
  BY DEF CondInit, rwlock, WaitInv, Apart, LockSound
<1>6. (\A u \in Threads : MonitorSound(u))'
  BY DEF CondInit, Moves, Calls, Idle, Waited, WaitInv, MonitorSound
<1>7. Covered'
  BY DEF CondInit, Covered, Moves, Calls, Idle
<1> QED
  BY <1>1, <1>2, <1>3, <1>4, <1>5, <1>6, <1>7 DEF WaitInv

LEMMA CondInitDoneInv == ASSUME WaitInv, NEW t \in Threads, CondInitDone(t) PROVE WaitInv'
<1>1. WaitTypeOK'
  BY DEF CondInitDone, Moves, monitor, rwlock, WaitInv, WaitTypeOK
<1>2. WordSound'
  BY DEF CondInitDone, rwlock, WaitInv, WordSound
<1>3. (\A u \in Threads : PastCheck(u))'
  BY DEF CondInitDone, Moves, WaitInv, PastCheck
<1>4. (\A u \in Threads : Apart(u))'
  BY DEF CondInitDone, Moves, rwlock, WaitInv, Apart
<1>5. (\A u \in Threads : LockSound(u))'
  BY DEF CondInitDone, rwlock, WaitInv, LockSound
<1>6. (\A u \in Threads : MonitorSound(u))'
  BY DEF CondInitDone, Moves, Waited, monitor, WaitInv, MonitorSound
<1>7. Covered'
  <2>1. Helpers' = Helpers
    BY DEF CondInitDone, Helpers, Moves, Waited
  <2> QED
    BY <2>1 DEF CondInitDone, Covered, Moves, monitor, WaitInv
<1> QED
  BY <1>1, <1>2, <1>3, <1>4, <1>5, <1>6, <1>7 DEF WaitInv

LEMMA CondDestroyInv == ASSUME WaitInv, NEW t \in Threads, CondDestroy(t) PROVE WaitInv'
<1>1. WaitTypeOK'
  BY WaitAssumption DEF CondDestroy, Made, monitor, rwlock, WaitInv, WaitTypeOK, WordSound
<1>2. WordSound'
  BY DEF CondDestroy, Made, rwlock, WaitInv, WaitTypeOK, WordSound
<1>3. (\A u \in Threads : PastCheck(u))'
  BY DEF CondDestroy, Idle, PastCheck
<1>4. (\A u \in Threads : Apart(u))'
  BY DEF CondDestroy, rwlock, WaitInv, Apart
<1>5. (\A u \in Threads : LockSound(u))'
  BY DEF CondDestroy, rwlock, WaitInv, Apart, LockSound
<1>6. (\A u \in Threads : MonitorSound(u))'
  BY DEF CondDestroy, Idle, Waited, WaitInv, MonitorSound
<1>7. Covered'
  BY DEF CondDestroy, Covered, Idle
<1> QED
  BY <1>1, <1>2, <1>3, <1>4, <1>5, <1>6, <1>7 DEF WaitInv

LEMMA LockInv == ASSUME WaitInv, NEW t \in Threads, Lock(t) PROVE WaitInv'
<1>1. WaitTypeOK'
  <2>1. where' = [where EXCEPT ![t] = "locked"] /\ mutex' = t
    BY DEF Lock, Moves
  <2> QED
    BY <2>1 DEF Lock, rwlock, WaitInv, WaitTypeOK
<1>2. WordSound'
  BY DEF Lock, rwlock, WaitInv, WordSound
<1>3. (\A u \in Threads : PastCheck(u))'
  BY DEF Lock, Moves, WaitInv, WaitTypeOK, PastCheck
<1>4. (\A u \in Threads : Apart(u))'
  BY DEF Lock, rwlock, WaitInv, Apart
<1>5. (\A u \in Threads : LockSound(u))'
  BY DEF Lock, rwlock, WaitInv, LockSound
<1>6. (\A u \in Threads : MonitorSound(u))'
  BY BridgeAssumption DEF Lock, Moves, Waited, InCond, WaitInv, WaitTypeOK, MonitorSound
<1>7. Covered'
  <2>1. Helpers' = Helpers
    BY DEF Lock, Helpers, Moves, Waited, InCond, WaitInv, WaitTypeOK, MonitorSound
  <2> QED
    BY <2>1 DEF Lock, Covered, Moves, WaitInv, WaitTypeOK
<1> QED
  BY <1>1, <1>2, <1>3, <1>4, <1>5, <1>6, <1>7 DEF WaitInv

LEMMA LeaveInv == ASSUME WaitInv, NEW t \in Threads, Leave(t) PROVE WaitInv'
<1>1. WaitTypeOK'
  BY DEF Leave, Moves, rwlock, WaitInv, WaitTypeOK
<1>2. WordSound'
  BY DEF Leave, rwlock, WaitInv, WordSound
<1>3. (\A u \in Threads : PastCheck(u))'
  BY DEF Leave, Moves, WaitInv, PastCheck
<1>4. (\A u \in Threads : Apart(u))'
  BY DEF Leave, Moves, rwlock, WaitInv, Apart
<1>5. (\A u \in Threads : LockSound(u))'
  BY DEF Leave, rwlock, WaitInv, LockSound
<1>6. (\A u \in Threads : MonitorSound(u))'
  BY DEF Leave, Moves, Waited, WaitInv, WaitTypeOK, MonitorSound
<1>7. Covered'
  <2>1. Helpers' = Helpers \ {t}
    BY DEF Leave, Helpers, Moves, Waited, WaitInv, WaitTypeOK
  <2>2. Cardinality(Helpers') >= Cardinality(Helpers) - 1 /\ Cardinality(Helpers') \in Nat
    <3>1. IsFiniteSet(Helpers \ {t}) /\ Cardinality(Helpers \ {t}) \in Nat
      BY HelpersFinite, FS_RemoveElement, FS_CardinalityType
    <3>2. Cardinality(Helpers \ {t}) = IF t \in Helpers THEN Cardinality(Helpers) - 1 ELSE Cardinality(Helpers)
      BY HelpersFinite, FS_RemoveElement
    <3> QED
      BY <2>1, <3>1, <3>2
  <2>3. (\E u \in Threads : where'[u] = "asleep") => \E u \in Threads : where[u] = "asleep"
    BY DEF Leave, Moves
  <2>4. items' = items - 1 \/ items' = 0
    BY DEF Leave, WaitInv, WaitTypeOK
  <2> QED
    BY <2>2, <2>3, <2>4, HelpersFinite DEF Covered, WaitInv, WaitTypeOK
<1> QED
  BY <1>1, <1>2, <1>3, <1>4, <1>5, <1>6, <1>7 DEF WaitInv

LEMMA CallWaitInv == ASSUME WaitInv, NEW t \in Threads, CallWait(t) PROVE WaitInv'
<1>1. WaitTypeOK'
  BY DEF CallWait, Moves, Calls, monitor, rwlock, WaitInv, WaitTypeOK
<1>2. WordSound'
  BY DEF CallWait, rwlock, WaitInv, WordSound
<1>3. (\A u \in Threads : PastCheck(u))'
  BY DEF CallWait, Moves, Calls, WaitInv, PastCheck
<1>4. (\A u \in Threads : Apart(u))'
  BY DEF CallWait, Moves, Calls, InCond, rwlock, WaitInv, Apart
<1>5. (\A u \in Threads : LockSound(u))'
  BY DEF CallWait, rwlock, WaitInv, LockSound
<1>6. (\A u \in Threads : MonitorSound(u))'
  BY DEF CallWait, Moves, Calls, Waited, monitor, WaitInv, WaitTypeOK, MonitorSound
<1>7. Covered'
  <2>1. items' = 0
    BY DEF CallWait, monitor
  <2>2. Cardinality(Helpers') >= 0
    BY FS_Subset, FS_CardinalityType, WaitAssumption DEF Helpers
  <2> QED
    BY <2>1, <2>2 DEF Covered
<1> QED
  BY <1>1, <1>2, <1>3, <1>4, <1>5, <1>6, <1>7 DEF WaitInv

LEMMA PostInv == ASSUME WaitInv, NEW t \in Threads, Post(t) PROVE WaitInv'
<1>1. WaitTypeOK'
  BY DEF Post, Moves, Calls, rwlock, WaitInv, WaitTypeOK
<1>2. WordSound'
  BY DEF Post, rwlock, WaitInv, WordSound
<1>3. (\A u \in Threads : PastCheck(u))'
  BY DEF Post, Moves, Calls, WaitInv, PastCheck
<1>4. (\A u \in Threads : Apart(u))'
  BY DEF Post, Moves, Calls, InCond, rwlock, WaitInv, Apart
<1>5. (\A u \in Threads : LockSound(u))'
  BY DEF Post, rwlock, WaitInv, LockSound
<1>6. (\A u \in Threads : MonitorSound(u))'
  BY DEF Post, Moves, Calls, Waited, WaitInv, WaitTypeOK, MonitorSound
<1>7. Covered'
  <2>1. t \notin Helpers /\ Helpers' = Helpers \cup {t}
    BY DEF Post, Helpers, Moves, Calls, Waited, InCond, WaitInv, WaitTypeOK
  <2>2. Cardinality(Helpers') = Cardinality(Helpers) + 1
    BY <2>1, HelpersFinite, FS_AddElement
  <2>3. (\E u \in Threads : where'[u] = "asleep") => \E u \in Threads : where[u] = "asleep"
    BY DEF Post, Moves, Calls
  <2> QED
    BY <2>2, <2>3, HelpersFinite DEF Post, Covered, WaitInv, WaitTypeOK
<1> QED
  BY <1>1, <1>2, <1>3, <1>4, <1>5, <1>6, <1>7 DEF WaitInv

LEMMA SleepInv == ASSUME WaitInv, NEW t \in Threads, Sleep(t) PROVE WaitInv'
<1>1. WaitTypeOK'
  BY DEF Sleep, Moves, rwlock, WaitInv, WaitTypeOK
<1>2. WordSound'
  BY DEF Sleep, Moves, rwlock, WaitInv, WaitTypeOK, WordSound, PastCheck
<1>3. (\A u \in Threads : PastCheck(u))'
  BY DEF Sleep, Moves, WaitInv, PastCheck
<1>4. (\A u \in Threads : Apart(u))'
  BY DEF Sleep, Moves, rwlock, WaitInv, Apart
<1>5. (\A u \in Threads : LockSound(u))'
  BY DEF Sleep, rwlock, WaitInv, LockSound
<1>6. (\A u \in Threads : MonitorSound(u))'
  BY DEF Sleep, Moves, Waited, InCond, Made, WaitInv, WaitTypeOK, WordSound, PastCheck,
     MonitorSound
<1>7. Covered'
  <2>1. items' = 0
    BY DEF Sleep, Moves, Waited, InCond, WaitInv, MonitorSound
  <2>2. Cardinality(Helpers') >= 0
    BY FS_Subset, FS_CardinalityType, WaitAssumption DEF Helpers
  <2> QED
    BY <2>1, <2>2 DEF Covered
<1> QED
  BY <1>1, <1>2, <1>3, <1>4, <1>5, <1>6, <1>7 DEF WaitInv

LEMMA WakeAloneInv == ASSUME WaitInv, NEW t \in Threads, WakeAlone(t) PROVE WaitInv'
<1>1. WaitTypeOK'
  BY DEF WakeAlone, Moves, monitor, rwlock, WaitInv, WaitTypeOK
<1>2. WordSound'
  BY DEF WakeAlone, rwlock, WaitInv, WordSound
<1>3. (\A u \in Threads : PastCheck(u))'
  BY DEF WakeAlone, Moves, WaitInv, PastCheck
<1>4. (\A u \in Threads : Apart(u))'
  BY DEF WakeAlone, Moves, InCond, rwlock, WaitInv, Apart
<1>5. (\A u \in Threads : LockSound(u))'
  BY DEF WakeAlone, rwlock, WaitInv, LockSound
<1>6. (\A u \in Threads : MonitorSound(u))'
  BY DEF WakeAlone, Moves, Waited, InCond, Made, monitor, WaitInv, WaitTypeOK, WordSound,
     PastCheck, MonitorSound
<1>7. Covered'
  <2>0. /\ where[t] = "asleep" /\ where' = [where EXCEPT ![t] = "woken"] /\ Waited(t)
        /\ \A u \in Threads : u # t => doing'[u] = doing[u]
    BY DEF WakeAlone, Moves, WaitInv, MonitorSound
  <2>1. Waited(t)'
    BY <2>0 DEF WakeAlone, Waited
  <2>2. Helpers' = Helpers \cup {t}
    <3>1. \A u \in Threads : u # t => (u \in Helpers' <=> u \in Helpers)
      BY <2>0 DEF Helpers, Waited
    <3>2. t \in Helpers'
      <4>1. where'[t] = "woken"
        BY <2>0 DEF WaitInv, WaitTypeOK
      <4> QED
        BY <4>1, <2>1 DEF Helpers
    <3> QED
      BY <3>1, <3>2 DEF Helpers
  <2>3. Cardinality(Helpers') >= Cardinality(Helpers) /\ Cardinality(Helpers') \in Nat
    BY <2>2, HelpersFinite, FS_AddElement
  <2> QED
    BY <2>3, HelpersFinite DEF WakeAlone, Moves, Covered, monitor, WaitInv, WaitTypeOK
<1> QED
  BY <1>1, <1>2, <1>3, <1>4, <1>5, <1>6, <1>7 DEF WaitInv

LEMMA SignalInv == ASSUME WaitInv, NEW t \in Threads, Signal(t) PROVE WaitInv'
<1>1. WaitTypeOK'
  BY DEF Signal, Made, monitor, rwlock, WaitInv, WaitTypeOK, WordSound, PastCheck
<1>2. WordSound'
  BY DEF Signal, rwlock, WaitInv, WordSound
<1>3. (\A u \in Threads : PastCheck(u))'
  BY DEF Signal, WaitInv, PastCheck
<1>4. (\A u \in Threads : Apart(u))'
  BY DEF Signal, rwlock, WaitInv, Apart
<1>5. (\A u \in Threads : LockSound(u))'
  BY DEF Signal, rwlock, WaitInv, LockSound
<1>6. (\A u \in Threads : MonitorSound(u))'
  BY DEF Signal, Waited, InCond, Made, monitor, WaitInv, WaitTypeOK, WordSound, PastCheck,
     MonitorSound
<1>7. Covered'
  <2>0. PICK woken \in SUBSET waiting[real[t]] :
          /\ IF doing[t] = "broadcast" THEN woken = waiting[real[t]]
             ELSE Cardinality(woken) = (IF waiting[real[t]] = {} THEN 0 ELSE 1)
          /\ where' = [u \in Threads |-> IF u = t THEN "idle" ELSE IF u \in woken THEN "woken"
                                         ELSE where[u]]
    BY DEF Signal
  <2>1. real[t] = word /\ \A u \in Threads : where[u] = "asleep" <=> u \in waiting[word]
    BY DEF Signal, WaitInv, PastCheck, MonitorSound
  <2>2. CASE woken = waiting[real[t]]
    BY <2>0, <2>1, <2>2 DEF Covered
  <2>3. CASE woken # waiting[real[t]]
    <3>1. Cardinality(woken) = 1 /\ IsFiniteSet(woken)
      <4>1. IsFiniteSet(woken)
        BY FS_Subset, WaitAssumption DEF Signal, Made, WaitInv, WaitTypeOK, WordSound, PastCheck
      <4> QED
        BY <2>0, <2>3, <4>1
    <3>2. PICK u \in woken : woken = {u}
      BY <3>1, FS_Singleton
    <3>3. u \in Threads /\ u # t /\ where[u] = "asleep" /\ Waited(u) /\ u \notin Helpers /\ t \in Helpers
      BY <2>0, <2>1, <3>2
      DEF Signal, Helpers, Moves, Calls, Idle, Spare, IsPointer, Waited, InCond, Made, monitor,
          rwlock, WaitInv, WaitTypeOK, WordSound, PastCheck, Apart, LockSound, MonitorSound
    <3>4. Helpers' = (Helpers \ {t}) \cup {u}
      <4>1. \A v \in Threads : v \notin {t, u} => (v \in Helpers' <=> v \in Helpers)
        BY <2>0, <3>2 DEF Signal, Helpers, Waited
      <4>2. where'[t] = "idle" /\ where'[u] = "woken" /\ Waited(u)'
        BY <2>0, <3>3 DEF Signal, Waited
      <4>3. t \notin Helpers'
        BY <4>2 DEF Helpers, InCond
      <4>4. u \in Helpers'
        BY <3>3, <4>2 DEF Helpers
      <4> QED
        BY <4>1, <4>3, <4>4 DEF Helpers
    <3>5. Cardinality(Helpers') = Cardinality(Helpers)
      <4>1. IsFiniteSet(Helpers \ {t}) /\ Cardinality(Helpers \ {t}) = Cardinality(Helpers) - 1
        BY <3>3, HelpersFinite, FS_RemoveElement
      <4>2. Cardinality((Helpers \ {t}) \cup {u}) = Cardinality(Helpers \ {t}) + 1
        BY <3>3, <4>1, FS_AddElement
      <4> QED
        BY <3>4, <4>1, <4>2, HelpersFinite
    <3> QED
      BY <3>5 DEF Signal, Covered, monitor, WaitInv
  <2> QED
    BY <2>2, <2>3
<1> QED
  BY <1>1, <1>2, <1>3, <1>4, <1>5, <1>6, <1>7 DEF WaitInv

LEMMA CallRwlockInv == ASSUME WaitInv, NEW t \in Threads, CallRwlock(t) PROVE WaitInv'
<1>1. WaitTypeOK'
  BY DEF CallRwlock, Moves, Calls, monitor, rwlock, WaitInv, WaitTypeOK
<1>2. WordSound'
  BY DEF CallRwlock, rwlock, WaitInv, WordSound
<1>3. (\A u \in Threads : PastCheck(u))'
  BY DEF CallRwlock, Moves, Calls, WaitInv, PastCheck
<1>4. (\A u \in Threads : Apart(u))'
  BY DEF CallRwlock, Moves, Calls, InCond, WaitInv, Apart
<1>5. (\A u \in Threads : LockSound(u))'
  BY DEF CallRwlock, rwlock, WaitInv, LockSound
<1>6. (\A u \in Threads : MonitorSound(u))'
  BY DEF CallRwlock, Moves, Calls, Waited, monitor, WaitInv, MonitorSound
<1>7. Covered'
  BY <1>4 DEF CallRwlock, Covered, InCond, Apart
<1> QED
  BY <1>1, <1>2, <1>3, <1>4, <1>5, <1>6, <1>7 DEF WaitInv

LEMMA EnterRwlockInv == ASSUME WaitInv, NEW t \in Threads, EnterRwlock(t) PROVE WaitInv'
<1>1. WaitTypeOK'
  <2>1. where' = [where EXCEPT ![t] = "idle"]
    BY DEF EnterRwlock, Moves
  <2>2. readers' \in [Made -> SUBSET Threads]
    BY DEF EnterRwlock, WaitInv, WaitTypeOK
  <2>3. writer' \in [Made -> Threads \cup {Nobody}]
    BY DEF EnterRwlock, WaitInv, WaitTypeOK
  <2>4. has' \in [Threads -> {"none", "read", "write"}]
    BY DEF EnterRwlock, WaitInv, WaitTypeOK
  <2> QED
    BY <2>1 DEF EnterRwlock, monitor, WaitInv, WaitTypeOK
<1>2. WordSound'
  BY DEF EnterRwlock, Moves, WaitInv, WaitTypeOK, WordSound, PastCheck, Apart, MonitorSound
<1>3. (\A u \in Threads : PastCheck(u))'
  BY DEF EnterRwlock, Moves, WaitInv, PastCheck
<1>4. (\A u \in Threads : Apart(u))'
  BY DEF EnterRwlock, Moves, WaitInv, Apart
<1>5. (\A u \in Threads : LockSound(u))'
  BY BridgeAssumption, WaitAssumption
  DEF EnterRwlock, Moves, Made, WaitInv, WaitTypeOK, WordSound, PastCheck, LockSound
<1>6. (\A u \in Threads : MonitorSound(u))'
  BY DEF EnterRwlock, Moves, Waited, monitor, WaitInv, MonitorSound
<1>7. Covered'
  BY <1>4 DEF EnterRwlock, Covered, InCond, Apart
<1> QED
  BY <1>1, <1>2, <1>3, <1>4, <1>5, <1>6, <1>7 DEF WaitInv

-----------------------------------------------------------------------------
LEMMA WaitInitInv == WaitInit => WaitInv
<1> SUFFICES ASSUME WaitInit PROVE WaitInv
  OBVIOUS
<1>1. WaitTypeOK
  <2>1. /\ word \in 0..(MaxMade + 1) /\ made \in 0..MaxMade /\ gone \subseteq Made
        /\ real \in [Threads -> 0..(MaxMade + 1)] /\ items \in Nat /\ posted \in Nat
    BY WaitAssumption DEF WaitInit
  <2>2. /\ waiting \in [Made -> SUBSET Threads] /\ readers \in [Made -> SUBSET Threads]
        /\ writer \in [Made -> Threads \cup {Nobody}]
    BY DEF WaitInit
  <2> QED
    BY <2>1 DEF WaitInit, WaitTypeOK
<1> QED
  BY <1>1
  DEF WaitInit, WaitInv, WordSound, Covered, PastCheck, Apart, LockSound, MonitorSound, Waited

LEMMA WaitStutters == WaitInv /\ UNCHANGED waitVars => WaitInv'
<1> SUFFICES ASSUME WaitInv, UNCHANGED waitVars PROVE WaitInv'
  OBVIOUS
<1>1. Helpers' = Helpers
  BY DEF Helpers, Waited, waitVars
<1> QED
  BY <1>1
  DEF waitVars, monitor, rwlock, WaitInv, WaitTypeOK, WordSound, Covered, PastCheck, Apart,
      LockSound, MonitorSound, Waited

LEMMA WaitNextInv == ASSUME WaitInv, WaitNext PROVE WaitInv'
BY LooksUpInv, MakesInv, RereadsInv, CondInitInv, CondInitDoneInv, CondDestroyInv, LockInv,
   LeaveInv, CallWaitInv, PostInv, SleepInv, WakeAloneInv, SignalInv, CallRwlockInv,
   EnterRwlockInv
DEF WaitNext

\* Whatever order the calls take, the mutex word, the glibc object behind it, its owner
\* and the once control agree: what the theorems on the mutex below rest on.
THEOREM MutexInvariant == ASSUME StoresInOrder PROVE BridgeSpec => []MutexInv
<1>1. BridgeInit => MutexInv
  BY MutexInit DEF BridgeInit
<1>2. MutexInv /\ [BridgeNext]_<<vars, waitVars>> => MutexInv'
  BY MutexNext, MutexStutters DEF BridgeNext
<1> QED
  BY <1>1, <1>2, PTL DEF BridgeSpec

\* The word of the condition or of the read-write lock, who is inside glibc with it,
\* the waiters and the signals under way agree: what SignalsReach and WriterAlone rest on.
THEOREM WaitInvariant == BridgeSpec => []WaitInv
<1>1. BridgeInit => WaitInv
  BY WaitInitInv DEF BridgeInit
<1>2. WaitInv /\ [BridgeNext]_<<vars, waitVars>> => WaitInv'
  BY WaitNextInv, WaitStutters DEF BridgeNext
<1> QED
  BY <1>1, <1>2, PTL DEF BridgeSpec

\* Through the race of first uses, destruction and initialisation the mutex of the
\* game excludes, when the stores of a new one arrive in order; BridgeWeakMemory shows
\* what happens when they do not.
THEOREM MutexExcludes == ASSUME StoresInOrder PROVE BridgeSpec => []MutualExclusion
BY InvMutualExclusion, MutexInvariant, PTL

\* No thread enters glibc with a mutex that b_mutex_destroy has freed.
THEOREM MutexAlive == ASSUME StoresInOrder PROVE BridgeSpec => []NoUseAfterFree
BY InvNoUseAfterFree, MutexInvariant, PTL

\* The callback of pthread_once runs once, and nobody returns before it has.
THEOREM CallbackOnce == ASSUME StoresInOrder PROVE BridgeSpec => []OnceOnce
<1>1. MutexInv => OnceOnce
  BY DEF MutexInv, OnceSound
<1> QED
  BY <1>1, MutexInvariant, PTL

\* A signal is not lost to the lazy allocation or to a new initialisation of the
\* condition: while a thread sleeps, there is for each item one that takes it or signals.
THEOREM SignalsReach == BridgeSpec => []NoLostSignal
BY InvNoLostSignal, WaitInvariant, PTL

\* A writer is alone, whichever thread made the lock.
THEOREM WriterAlone == BridgeSpec => []WritersExclude
BY InvWritersExclude, WaitInvariant, PTL

-----------------------------------------------------------------------------
(* The bridge implements PosixSync.                                         *)

\* A step of one thread changes that thread's call only.
LEMMA MutexCalling ==
  ASSUME use = "mutex", UNCHANGED waitVars, NEW t \in Threads,
         pc \in [Threads -> PC], op \in [Threads -> {"lock", "try", "unlock"}],
         \A u \in Threads \ {t} : pc'[u] = pc[u] /\ op'[u] = op[u]
  PROVE  Calling' = [Calling EXCEPT ![t] = MutexCall(t)']
BY DEF Calling, MutexCall, InCall, waitVars

LEMMA OtherCalling ==
  ASSUME use # "mutex", use' = use, NEW t \in Threads,
         \A u \in Threads \ {t} : where'[u] = where[u] /\ doing'[u] = doing[u]
  PROVE  Calling' = [Calling EXCEPT ![t] = OtherCall(t)']
BY DEF Calling, OtherCall

\* Who holds the mutex, seen from a thread that has come to glibc with it.
LEMMA HeldByOwner ==
  ASSUME MutexInv, NEW t \in Threads, pc[t] = "enter"
  PROVE  /\ owner[ptr[t]] \in {Nobody, t} => \A u \in Threads \ {t} : holds[u] = 0
         /\ owner[ptr[t]] \notin {Nobody, t} => \E u \in Threads \ {t} : holds[u] > 0
         /\ op[t] = "unlock" => holds[t] > 0
<1>1. ptr[t] = slot /\ slot \in Object /\ IsHeapPtr(slot)
  BY DEF MutexInv, Behind, SlotSound
<1>2. /\ \A u \in Threads : holds[u] = IF owner[slot] = u THEN depth[slot] ELSE 0
      /\ owner[slot] = Nobody <=> depth[slot] = 0
  BY <1>1 DEF MutexInv, Owned
<1>3. owner[slot] \in Threads \cup {Nobody} /\ depth[slot] \in Nat /\ Nobody \notin Threads
  BY <1>1, BridgeAssumption DEF MutexInv, TypeOK
<1>4. op[t] = "unlock" => holds[t] > 0
  BY DEF MutexInv, Behind, InCall
<1> QED
  BY <1>1, <1>2, <1>3, <1>4

\* One thread at most runs the callback, and the control is in progress while it does.
Inside == {"callback", "done"}
CallbackRuns ==
  /\ \A t \in Threads : pc[t] \in Inside => once = 1
  /\ \A t, u \in Threads : pc[t] \in Inside /\ pc[u] \in Inside => t = u

LEMMA CallbackStep == TypeOK /\ CallbackRuns /\ [Next]_vars => CallbackRuns'
<1> SUFFICES ASSUME TypeOK, CallbackRuns, [Next]_vars PROVE CallbackRuns'
  OBVIOUS
<1>t. pc \in [Threads -> PC]
  BY DEF TypeOK
<1>1. CASE UNCHANGED vars
  BY <1>1 DEF vars, CallbackRuns
<1>2. ASSUME NEW t \in Threads,
             \/ Call(t) \/ CallDestroy(t) \/ CallInit(t) \/ CallOnce(t) \/ FastPath(t) \/ Lazy(t)
             \/ LazyOut(t) \/ Reread(t) \/ Enter(t) \/ Destroy(t) \/ StoreInit(t)
      PROVE  CallbackRuns'
  <2>1. once' = once /\ \E to \in PC \ Inside : pc' = [pc EXCEPT ![t] = to]
    BY <1>2 DEF Call, CallDestroy, CallInit, CallOnce, FastPath, Lazy, LazyOut, Reread, Enter,
       Destroy, StoreInit, Step, PC, Inside, onceVars
  <2> QED BY <1>t, <2>1 DEF CallbackRuns
<1>3. ASSUME NEW t \in Threads, Once(t) PROVE CallbackRuns'
  <2>1. CASE once = 0
    <3>1. \A u \in Threads : pc[u] \notin Inside
      BY <2>1 DEF CallbackRuns
    <3>2. once' = 1 /\ pc' = [pc EXCEPT ![t] = "callback"]
      BY <1>3, <2>1 DEF Once, Step
    <3> QED BY <1>t, <3>1, <3>2 DEF CallbackRuns
  <2>2. CASE once # 0
    <3>1. once' = once /\ pc' = [pc EXCEPT ![t] = "idle"]
      BY <1>3, <2>2 DEF Once, Step
    <3> QED BY <1>t, <3>1 DEF CallbackRuns, Inside
  <2> QED BY <2>1, <2>2
<1>4. ASSUME NEW t \in Threads, CallbackReturns(t) PROVE CallbackRuns'
  <2>1. once' = once /\ pc[t] = "callback" /\ pc' = [pc EXCEPT ![t] = "done"]
    BY <1>4 DEF CallbackReturns, Step, onceVars
  <2> QED BY <1>t, <2>1 DEF CallbackRuns, Inside
<1>5. ASSUME NEW t \in Threads, OnceDone(t) PROVE CallbackRuns'
  <2>1. pc[t] = "done" /\ pc' = [pc EXCEPT ![t] = "idle"]
    BY <1>5 DEF OnceDone, Step
  <2>2. \A u \in Threads : pc'[u] \notin Inside
    BY <1>t, <2>1 DEF CallbackRuns, Inside
  <2> QED BY <2>2 DEF CallbackRuns
<1> QED BY <1>1, <1>2, <1>3, <1>4, <1>5 DEF Next, Within

LEMMA CallbackInvariant == ASSUME StoresInOrder PROVE BridgeSpec => []CallbackRuns
<1>1. BridgeInit => CallbackRuns
  BY DEF BridgeInit, Init, CallbackRuns, Inside
<1>2. MutexInv /\ CallbackRuns /\ [BridgeNext]_<<vars, waitVars>> => CallbackRuns'
  BY CallbackStep DEF BridgeNext, MutexInv, vars
<1> QED BY <1>1, <1>2, MutexInvariant, PTL DEF BridgeSpec

\* The steps before the call into glibc, the destructions and the initialisations.
LEMMA MutexStutter ==
  ASSUME use = "mutex", UNCHANGED waitVars, TypeOK, NEW t \in Threads,
         \/ CallDestroy(t) \/ CallInit(t) \/ FastPath(t) \/ Lazy(t) \/ LazyOut(t) \/ Reread(t)
         \/ Destroy(t) \/ StoreInit(t) \/ CallbackReturns(t)
  PROVE  UNCHANGED Posix!vars
<1>1. pc \in [Threads -> PC] /\ op \in [Threads -> {"lock", "try", "unlock"}] /\ op' = op
      /\ holds' = holds /\ once' = once /\ has' = has
  BY DEF TypeOK, CallDestroy, CallInit, FastPath, Lazy, LazyOut, Reread, Destroy, StoreInit,
     CallbackReturns, mutexVars, onceVars, waitVars, rwlock
<1>2. \E to \in PC : pc' = [pc EXCEPT ![t] = to]
  BY DEF CallDestroy, CallInit, FastPath, Lazy, LazyOut, Reread, Destroy, StoreInit,
     CallbackReturns, Step, PC
<1>3. MutexCall(t)' = MutexCall(t)
  BY <1>1 DEF CallDestroy, CallInit, FastPath, Lazy, LazyOut, Reread, Destroy, StoreInit,
     CallbackReturns, Step, MutexCall, InCall
<1>4. Calling' = [Calling EXCEPT ![t] = MutexCall(t)']
  BY <1>1, <1>2, MutexCalling
<1>5. Calling' = Calling
  BY <1>3, <1>4 DEF Calling
<1> QED BY <1>1, <1>5 DEF Posix!vars

LEMMA MutexBegins ==
  ASSUME use = "mutex", UNCHANGED waitVars, TypeOK, NEW t \in Threads, Call(t) \/ CallOnce(t)
  PROVE  Posix!Begins(t)
<1>1. holds' = holds /\ once' = once /\ has' = has
  BY DEF Call, CallOnce, mutexVars, onceVars, waitVars, rwlock
<1>2. pc \in [Threads -> PC] /\ op \in [Threads -> {"lock", "try", "unlock"}]
  BY DEF TypeOK
<1>3. pc[t] = "idle" /\ \A u \in Threads \ {t} : pc'[u] = pc[u] /\ op'[u] = op[u]
  BY <1>2 DEF Call, CallOnce, Step
<1>4. Calling[t] = "out"
  BY <1>3 DEF Calling, MutexCall, InCall
<1>5. MutexCall(t)' \in Posix!Entry
  BY <1>2 DEF Call, CallOnce, Step, MutexCall, InCall, Posix!Entry
<1>6. Calling' = [Calling EXCEPT ![t] = MutexCall(t)']
  BY <1>2, <1>3, MutexCalling
<1> QED BY <1>1, <1>4, <1>5, <1>6 DEF Posix!Begins

LEMMA MutexEnters ==
  ASSUME use = "mutex", UNCHANGED waitVars, MutexInv, NEW t \in Threads, Enter(t)
  PROVE  Posix!Locks(t) \/ Posix!FailsToLock(t) \/ Posix!Unlocks(t)
<1>1. pc \in [Threads -> PC] /\ op \in [Threads -> {"lock", "try", "unlock"}]
  BY DEF MutexInv, TypeOK
<1>2. pc[t] = "enter" /\ op' = op /\ pc' = [pc EXCEPT ![t] = "idle"] /\ once' = once /\ has' = has
  BY DEF Enter, Step, onceVars, waitVars, rwlock
<1>3. Calling[t] = op[t] /\ Calling' = [Calling EXCEPT ![t] = "out"]
  <2>1. Calling' = [Calling EXCEPT ![t] = MutexCall(t)']
    BY <1>1, <1>2, MutexCalling
  <2>2. MutexCall(t)' = "out" /\ MutexCall(t) = op[t]
    BY <1>1, <1>2 DEF MutexCall, InCall
  <2> QED BY <2>1, <2>2 DEF Calling
<1>4. CASE op[t] \in {"lock", "try"} /\ owner[ptr[t]] \in {Nobody, t} /\ Take(t)
  BY <1>2, <1>3, <1>4, HeldByOwner DEF Posix!Locks, Posix!Goes, Take
<1>5. CASE op[t] = "try" /\ owner[ptr[t]] \notin {Nobody, t} /\ UNCHANGED <<owner, depth, holds, helped>>
  BY <1>2, <1>3, <1>5, HeldByOwner DEF Posix!FailsToLock, Posix!Goes
<1>6. CASE op[t] = "unlock" /\ owner[ptr[t]] = t /\ Give(t)
  BY <1>2, <1>3, <1>6, HeldByOwner DEF Posix!Unlocks, Posix!Goes, Give
<1> QED BY <1>4, <1>5, <1>6 DEF Enter

LEMMA OnceRuns ==
  ASSUME use = "mutex", UNCHANGED waitVars, TypeOK, CallbackRuns, NEW t \in Threads,
         Once(t) \/ OnceDone(t)
  PROVE  Posix!RunsCallback(t) \/ Posix!FindsDone(t) \/ Posix!CallbackEnds(t)
<1>1. pc \in [Threads -> PC] /\ op \in [Threads -> {"lock", "try", "unlock"}]
  BY DEF TypeOK
<1>2. op' = op /\ holds' = holds /\ has' = has
  BY DEF Once, OnceDone, mutexVars, waitVars, rwlock
<1>3. \E to \in PC : pc' = [pc EXCEPT ![t] = to]
  BY DEF Once, OnceDone, Step, PC
<1>4. Calling' = [Calling EXCEPT ![t] = MutexCall(t)'] /\ Calling[t] = MutexCall(t)
  <2>1. Calling' = [Calling EXCEPT ![t] = MutexCall(t)']
    BY <1>1, <1>2, <1>3, MutexCalling
  <2> QED BY <2>1 DEF Calling
<1>5. ASSUME Step(t, "once", "callback"), once = 0, once' = 1 PROVE Posix!RunsCallback(t)
  <2>1. MutexCall(t) = "once" /\ MutexCall(t)' = "callback"
    BY <1>1, <1>5 DEF Step, MutexCall, InCall
  <2> QED BY <1>2, <1>4, <1>5, <2>1 DEF Posix!RunsCallback, Posix!Goes
<1>6. ASSUME Step(t, "once", "idle"), once = 2, once' = once PROVE Posix!FindsDone(t)
  <2>1. MutexCall(t) = "once" /\ MutexCall(t)' = "out"
    BY <1>1, <1>6 DEF Step, MutexCall, InCall
  <2> QED BY <1>2, <1>4, <1>6, <2>1 DEF Posix!FindsDone, Posix!Goes
<1>7. ASSUME OnceDone(t) PROVE Posix!CallbackEnds(t)
  <2>1. MutexCall(t) = "callback" /\ MutexCall(t)' = "out" /\ once' = 2
    BY <1>1, <1>7 DEF OnceDone, Step, MutexCall, InCall
  <2>2. once = 1
    BY <1>7 DEF OnceDone, Step, CallbackRuns, Inside
  <2> QED BY <1>2, <1>4, <2>1, <2>2 DEF Posix!CallbackEnds, Posix!Goes
<1> QED BY <1>5, <1>6, <1>7 DEF Once

LEMMA MutexSimulates ==
  ASSUME MutexInv, CallbackRuns, use = "mutex", UNCHANGED waitVars, Next
  PROVE  Posix!Next \/ UNCHANGED Posix!vars
BY MutexStutter, MutexBegins, MutexEnters, OnceRuns DEF Next, Within, Posix!Next, MutexInv

\* Look-ups, first uses, initialisations and destructions, and the monitor's own steps.
LEMMA OtherStutter ==
  ASSUME use # "mutex", UNCHANGED vars, WaitTypeOK, NEW t \in Threads,
         \/ LooksUp(t) \/ Makes(t) \/ Rereads(t) \/ CondInit(t) \/ CondInitDone(t)
         \/ CondDestroy(t) \/ Lock(t) \/ Leave(t)
  PROVE  UNCHANGED Posix!vars
<1>1. /\ where \in [Threads -> {"idle", "fast", "lazy", "reread", "enter", "locked", "asleep", "woken"}]
      /\ DOMAIN doing = Threads
  BY DEF WaitTypeOK
<1>2. use' = use /\ holds' = holds /\ once' = once /\ has' = has
  BY DEF LooksUp, Makes, Rereads, CondInit, CondInitDone, CondDestroy, Lock, Leave, vars, rwlock
<1>3. \A u \in Threads \ {t} : where'[u] = where[u] /\ doing'[u] = doing[u]
  BY <1>1 DEF LooksUp, Makes, Rereads, CondInit, CondInitDone, CondDestroy, Lock, Leave, Moves, Calls
<1>4. OtherCall(t)' = OtherCall(t)
  BY <1>1 DEF LooksUp, Makes, Rereads, CondInit, CondInitDone, CondDestroy, Lock, Leave, Moves,
     Calls, OtherCall, InCond
<1>5. Calling' = [Calling EXCEPT ![t] = OtherCall(t)']
  BY <1>2, <1>3, OtherCalling
<1>6. Calling' = Calling
  BY <1>4, <1>5 DEF Calling
<1> QED BY <1>2, <1>6 DEF Posix!vars

LEMMA OtherBegins ==
  ASSUME use # "mutex", UNCHANGED vars, WaitTypeOK, NEW t \in Threads,
         CallWait(t) \/ Post(t) \/ CallRwlock(t)
  PROVE  Posix!Begins(t)
<1>1. DOMAIN where = Threads /\ DOMAIN doing = Threads
  BY DEF WaitTypeOK
<1>2. use' = use /\ holds' = holds /\ once' = once /\ has' = has
  BY DEF CallWait, Post, CallRwlock, vars, rwlock
<1>3. /\ where[t] \in {"idle", "locked"} /\ where' = [where EXCEPT ![t] = "fast"]
      /\ \E c \in {"wait", "timedwait", "signal", "broadcast", "rdlock", "wrlock", "unlock"} :
           doing' = [doing EXCEPT ![t] = c]
  BY DEF CallWait, Post, CallRwlock, Calls, Moves
<1>4. Calling[t] = "out"
  BY <1>3 DEF Calling, OtherCall, InCond
<1>5. OtherCall(t)' \in Posix!Entry
  BY <1>1, <1>3 DEF OtherCall, InCond, Posix!Entry
<1>6. Calling' = [Calling EXCEPT ![t] = OtherCall(t)']
  BY <1>1, <1>2, <1>3, OtherCalling
<1> QED BY <1>2, <1>4, <1>5, <1>6 DEF Posix!Begins

LEMMA SleepsAndWakes ==
  ASSUME use # "mutex", UNCHANGED vars, WaitTypeOK, NEW t \in Threads, Sleep(t) \/ WakeAlone(t)
  PROVE  Posix!Sleeps(t) \/ Posix!Wakes(t)
<1>1. DOMAIN where = Threads /\ DOMAIN doing = Threads
  BY DEF WaitTypeOK
<1>2. use' = use /\ holds' = holds /\ once' = once /\ has' = has
  BY DEF Sleep, WakeAlone, vars, rwlock
<1>3. \A u \in Threads \ {t} : where'[u] = where[u] /\ doing'[u] = doing[u]
  BY <1>1 DEF Sleep, WakeAlone, Moves
<1>4. Calling' = [Calling EXCEPT ![t] = OtherCall(t)'] /\ Calling[t] = OtherCall(t)
  <2>1. Calling' = [Calling EXCEPT ![t] = OtherCall(t)']
    BY <1>2, <1>3, OtherCalling
  <2> QED BY <2>1 DEF Calling
<1>5. ASSUME Sleep(t) PROVE Posix!Sleeps(t)
  <2>1. OtherCall(t) \in {"wait", "timedwait"} /\ OtherCall(t)' = "asleep"
    BY <1>1, <1>5 DEF Sleep, Moves, OtherCall, InCond
  <2> QED BY <1>2, <1>4, <2>1 DEF Posix!Sleeps, Posix!Goes
<1>6. ASSUME WakeAlone(t) PROVE Posix!Wakes(t)
  <2>1. OtherCall(t) = "asleep" /\ OtherCall(t)' = "out"
    BY <1>1, <1>6 DEF WakeAlone, Moves, OtherCall, InCond
  <2> QED BY <1>2, <1>4, <2>1 DEF Posix!Wakes, Posix!Goes
<1> QED BY <1>5, <1>6

\* Those whom a signal can reach are those who sleep, on whichever object.
LEMMA SleepersWait ==
  ASSUME WaitInv, use # "mutex", NEW t \in Threads, where[t] = "enter"
  PROVE  waiting[real[t]] = Posix!Asleep
<1>1. real[t] = word /\ word # 0 /\ word \in Made
  BY DEF WaitInv, PastCheck, WaitTypeOK, WordSound, Made
<1>2. \A u \in Threads : u \in waiting[word] <=> where[u] = "asleep"
  BY <1>1 DEF WaitInv, MonitorSound
<1>3. waiting[word] \subseteq Threads
  BY <1>1 DEF WaitInv, WaitTypeOK
<1>4. \A u \in Threads : Calling[u] = "asleep" <=> where[u] = "asleep"
  BY DEF Calling, OtherCall, WaitInv, WaitTypeOK
<1> QED BY <1>1, <1>2, <1>3, <1>4 DEF Posix!Asleep

LEMMA SignalsOrBroadcasts ==
  ASSUME WaitInv, use # "mutex", UNCHANGED vars, NEW t \in Threads, Signal(t)
  PROVE  Posix!Signals(t) \/ Posix!Broadcasts(t)
<1>1. use' = use /\ holds' = holds /\ once' = once /\ has' = has /\ doing' = doing
  BY DEF Signal, vars, rwlock
<1>2. PICK woken \in SUBSET waiting[real[t]] :
        /\ IF doing[t] = "broadcast" THEN woken = waiting[real[t]]
           ELSE Cardinality(woken) = (IF waiting[real[t]] = {} THEN 0 ELSE 1)
        /\ where' = [u \in Threads |-> IF u = t THEN "idle" ELSE IF u \in woken THEN "woken"
                                       ELSE where[u]]
  BY DEF Signal
<1>3. doing[t] \in {"signal", "broadcast"} /\ where[t] = "enter"
  BY DEF Signal
<1>4. waiting[real[t]] = Posix!Asleep
  BY <1>3, SleepersWait
<1>5. Calling[t] = doing[t]
  BY <1>3 DEF Calling, OtherCall, InCond
<1>6. Calling' = [u \in Threads |-> IF u \in woken \cup {t} THEN "out" ELSE Calling[u]]
  BY <1>1, <1>2 DEF Calling, OtherCall, InCond
<1>7. CASE doing[t] = "broadcast"
  BY <1>1, <1>2, <1>4, <1>5, <1>6, <1>7 DEF Posix!Broadcasts
<1>8. CASE doing[t] = "signal"
  <2>1. IF Posix!Asleep = {} THEN woken = {} ELSE \E u \in Posix!Asleep : woken = {u}
    <3>1. CASE Posix!Asleep = {}
      BY <1>2, <1>4, <3>1
    <3>2. CASE Posix!Asleep # {}
      <4>1. IsFiniteSet(woken)
        BY <1>2, <1>4, FS_Subset, WaitAssumption DEF Posix!Asleep
      <4>2. Cardinality(woken) = 1
        BY <1>2, <1>4, <1>8, <3>2
      <4>3. PICK u : woken = {u}
        BY <4>1, <4>2, FS_Singleton
      <4> QED BY <1>2, <1>4, <3>2, <4>3
    <3> QED BY <3>1, <3>2
  <2> QED BY <1>1, <1>2, <1>4, <1>5, <1>6, <1>8, <2>1 DEF Posix!Signals
<1> QED BY <1>3, <1>7, <1>8

LEMMA LocksReadWrite ==
  ASSUME WaitInv, use # "mutex", UNCHANGED vars, NEW t \in Threads, EnterRwlock(t)
  PROVE  Posix!ReadLocks(t) \/ Posix!WriteLocks(t) \/ Posix!GivesBack(t)
<1>1. use' = use /\ holds' = holds /\ once' = once /\ doing' = doing /\ DOMAIN where = Threads
      /\ where[t] = "enter" /\ where' = [where EXCEPT ![t] = "idle"]
  BY DEF EnterRwlock, Moves, vars, WaitInv, WaitTypeOK
<1>2. doing[t] \in {"rdlock", "wrlock", "unlock"}
  BY DEF EnterRwlock
<1>3. use = "rwlock" /\ real[t] = word /\ word # 0
  BY <1>1, <1>2 DEF WaitInv, Apart, PastCheck
<1>4. Calling' = [Calling EXCEPT ![t] = "out"]
  <2>1. Calling' = [Calling EXCEPT ![t] = OtherCall(t)']
    BY <1>1, OtherCalling
  <2>2. OtherCall(t)' = "out"
    BY <1>1 DEF OtherCall, InCond
  <2> QED BY <2>1, <2>2
<1>5. Calling[t] = IF doing[t] = "unlock" THEN "rwunlock" ELSE doing[t]
  BY <1>1, <1>2 DEF Calling, OtherCall, InCond
<1>6. writer[word] = Nobody => \A u \in Threads : has[u] # "write"
  BY <1>3, BridgeAssumption DEF WaitInv, LockSound
<1>7. readers[word] = {} => \A u \in Threads : has[u] # "read"
  BY <1>3 DEF WaitInv, LockSound
<1>8. has \in [Threads -> {"none", "read", "write"}]
  BY DEF WaitInv, WaitTypeOK
<1>9. CASE doing[t] = "rdlock"
  BY <1>1, <1>3, <1>4, <1>5, <1>6, <1>9 DEF EnterRwlock, Posix!ReadLocks, Posix!Goes
<1>10. CASE doing[t] = "wrlock"
  BY <1>1, <1>3, <1>4, <1>5, <1>6, <1>7, <1>8, <1>10 DEF EnterRwlock, Posix!WriteLocks, Posix!Goes
<1>11. CASE doing[t] = "unlock"
  BY <1>1, <1>3, <1>4, <1>5, <1>11 DEF EnterRwlock, Posix!GivesBack, Posix!Goes
<1> QED BY <1>2, <1>9, <1>10, <1>11

LEMMA OtherSimulates ==
  ASSUME WaitInv, use # "mutex", UNCHANGED vars, WaitNext
  PROVE  Posix!Next \/ UNCHANGED Posix!vars
BY OtherStutter, OtherBegins, SleepsAndWakes, SignalsOrBroadcasts, LocksReadWrite
DEF WaitNext, Posix!Next, WaitInv

\* Every call of the game on a mutex, a once control, a condition or a read-write lock
\* takes effect in one step between its beginning and its return, as if there were one
\* object from the start: the game cannot tell the bridge from POSIX, if stores become
\* visible in order.
THEOREM BridgeIsPosix == ASSUME StoresInOrder PROVE BridgeSpec => CallsAreAtomic
<1>1. BridgeInit => Posix!Init
  BY DEF BridgeInit, Init, WaitInit, Posix!Init, Calling, MutexCall, OtherCall, InCall, InCond
<1>2. MutexInv /\ CallbackRuns /\ WaitInv /\ [BridgeNext]_<<vars, waitVars>> => [Posix!Next]_(Posix!vars)
  <2> SUFFICES ASSUME MutexInv, CallbackRuns, WaitInv, [BridgeNext]_<<vars, waitVars>>
               PROVE  Posix!Next \/ UNCHANGED Posix!vars
    OBVIOUS
  <2>1. CASE UNCHANGED <<vars, waitVars>>
    BY <2>1 DEF vars, waitVars, rwlock, Posix!vars, Calling, MutexCall, OtherCall, InCall
  <2>2. CASE BridgeNext
    BY <2>2, MutexSimulates, OtherSimulates DEF BridgeNext
  <2> QED BY <2>1, <2>2
<1> QED BY <1>1, <1>2, MutexInvariant, CallbackInvariant, WaitInvariant, PTL
        DEF BridgeSpec, CallsAreAtomic, Posix!Spec
=============================================================================
