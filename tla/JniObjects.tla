----------------------------- MODULE JniObjects -----------------------------
(***************************************************************************)
(* The tables of src/src/jni_shim.c that only grow: method and field ids,  *)
(* fake objects with a payload each, and the objects made once.  Classes   *)
(* are names; an object is the index of its entry, or Saturated when the   *)
(* table was full.  Each table has its lock, so a lookup is one step; what *)
(* is made once is looked up and made in two.                              *)
(***************************************************************************)
EXTENDS Integers, Sequences, FiniteSets, SequencesExt

CONSTANTS Threads,
          Methods,      \* name and signature of the methods that are asked for
          Singletons,   \* EGL_NO_CONTEXT and its like: made under g_fake_singletons_lock
          Unlocked,     \* the input device, the vibrator, and "looper"
          MaxReg,       \* MAX_REG
          MaxObjects,   \* MAX_FAKE_OBJECTS
          Saturated,    \* the token 0xC1A501
          Nothing

ASSUME ObjectsAssumption ==
  /\ MaxReg \in Nat \ {0} /\ MaxObjects \in Nat
  /\ "looper" \in Unlocked /\ Singletons \cap Unlocked = {}
  /\ Saturated \notin 1..MaxObjects /\ Saturated # Nothing
  /\ Nothing \notin Nat /\ Nothing \notin Threads \cup Singletons \cup Unlocked

VARIABLES
  reg,         \* reg_names, reg_sigs
  objects,     \* g_fake_objects: class and payload
  single,      \* the g_egl_* singletons, g_input_device, g_input_vibrator, g_main_looper
  singleLock,  \* holder of g_fake_singletons_lock
  making,      \* making[t]: the singleton that t found missing, else Nothing
  looperReady, \* g_main_looper_ready
  told         \* history: ids[m] and singletons[s] that callers were given

objectVars == <<reg, objects, single, singleLock, making, looperReady, told>>

-----------------------------------------------------------------------------
\* reg_id: the index of the name and signature; 1 when the table is full.
RegId(m) == IF Contains(reg, m) THEN CHOOSE i \in DOMAIN reg : reg[i] = m
            ELSE IF Len(reg) < MaxReg THEN Len(reg) + 1 ELSE 1

\* GetMethodID, GetStaticMethodID, GetFieldID, GetStaticFieldID.
GetMethodID(m) ==
  /\ LET id == RegId(m) IN
       /\ reg' = IF id = Len(reg) + 1 THEN Append(reg, m) ELSE reg
       /\ told' = [told EXCEPT !.ids[m] = @ \cup {id}]
  /\ UNCHANGED <<objects, single, singleLock, making, looperReady>>

\* What a Call*Method finds behind an id: reg_names[id - 1], reg_sigs[id - 1].
MethodOf(id) == IF id \in DOMAIN reg THEN reg[id] ELSE Nothing

-----------------------------------------------------------------------------
\* jni_make_object: the next entry, or the sentinel that every caller shares.
NewToken == IF Len(objects) < MaxObjects THEN Len(objects) + 1 ELSE Saturated

WithObject(class, payload) ==
  IF NewToken = Saturated THEN objects
  ELSE Append(objects, [class |-> class, payload |-> payload])

\* fake_object_payload and fake_object_set_payload: other tokens have none.
PayloadOf(o) == IF o \in DOMAIN objects THEN objects[o].payload ELSE Nothing
WithPayload(o, p) == IF o \in DOMAIN objects THEN [objects EXCEPT ![o].payload = p] ELSE objects

\* getWindow, getResources, AllocObject, NewObject, ...: one entry for each call.
MakeObject ==
  /\ objects' = WithObject("plain", Nothing)
  /\ UNCHANGED <<reg, single, singleLock, making, looperReady, told>>

\* Answer with the object there is, or go on to make one.
FindOrMake(t, s) ==
  IF single[s] = Nothing
  THEN making' = [making EXCEPT ![t] = s] /\ UNCHANGED told
  ELSE told' = [told EXCEPT !.singletons[s] = @ \cup {single[s]}] /\ UNCHANGED making

\* A variant without the lock.
FakeSingletonUnlocked(t, s) ==
  /\ making[t] = Nothing /\ FindOrMake(t, s)
  /\ UNCHANGED <<singleLock, reg, objects, single, looperReady>>

\* fake_singleton: finding and making are one section of g_fake_singletons_lock.
FakeSingleton(t, s) ==
  /\ making[t] = Nothing /\ singleLock = Nothing
  /\ FindOrMake(t, s)
  /\ singleLock' = IF single[s] = Nothing THEN t ELSE Nothing
  /\ UNCHANGED <<reg, objects, single, looperReady>>

\* input_device and getVibrator take no lock.
InputDevice(t, s) ==
  /\ making[t] = Nothing /\ FindOrMake(t, s)
  /\ UNCHANGED <<singleLock, reg, objects, single, looperReady>>

\* myLooper and getMainLooper: NULL until the gate is open, then main_looper.
MainLooper(t) ==
  /\ looperReady
  /\ making[t] = Nothing /\ FindOrMake(t, "looper")
  /\ UNCHANGED <<singleLock, reg, objects, single, looperReady>>

\* The object is made and stored; fake_singleton releases its lock.
SingletonMake(t) ==
  /\ making[t] # Nothing
  /\ objects' = WithObject("plain", Nothing)
  /\ single' = [single EXCEPT ![making[t]] = NewToken]
  /\ told' = [told EXCEPT !.singletons[making[t]] = @ \cup {NewToken}]
  /\ making' = [making EXCEPT ![t] = Nothing]
  /\ singleLock' = IF making[t] \in Singletons THEN Nothing ELSE singleLock
  /\ UNCHANGED <<reg, looperReady>>

\* jni_set_main_looper_ready(1); until then myLooper and getMainLooper answer NULL.
LooperReady ==
  /\ ~looperReady /\ looperReady' = TRUE
  /\ UNCHANGED <<reg, objects, single, singleLock, making, told>>

-----------------------------------------------------------------------------
ObjectsInit ==
  /\ reg = <<>> /\ objects = <<>>
  /\ single = [s \in Singletons \cup Unlocked |-> Nothing]
  /\ singleLock = Nothing /\ making = [t \in Threads |-> Nothing]
  /\ looperReady = FALSE
  /\ told = [ids |-> [m \in Methods |-> {}],
             singletons |-> [s \in Singletons \cup Unlocked |-> {}]]

-----------------------------------------------------------------------------
\* "FindClass/GetMethodID/GetFieldID devolvem tokens estaveis" (jni_shim.c:5): an
\* id goes on meaning the method it was given for, but for the id 1 of a method that
\* the full table has no entry for; and IsSameObject compares pointers, so whoever
\* asks for EGL_NO_CONTEXT gets the same one, however the first two askers interleave
\* (jni_shim.c:323-330).
TokensStable ==
  /\ \A m \in Methods : \A id \in told.ids[m] :
       MethodOf(id) = m \/ (id = 1 /\ Len(reg) = MaxReg /\ ~Contains(reg, m))
  /\ \A s \in Singletons : Cardinality(told.singletons[s]) <= 1
=============================================================================
