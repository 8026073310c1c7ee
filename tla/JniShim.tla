------------------------------- MODULE JniShim -------------------------------
(***************************************************************************)
(* src/src/jni_shim.c as the game uses it: arrays, objects and asset       *)
(* streams together.  InputStream.read fills an array that the shim looked *)
(* up in its table, and opening a stream takes an entry of the object      *)
(* table that every getWindow or getResources takes one of as well.        *)
(***************************************************************************)
EXTENDS JniArrays, JniStreams

\* Bounds: the arrays, objects and streams made in a behaviour; and next to streams
\* it makes arrays or objects, which share no state, and ids by themselves.
CONSTANT MaxCreated

VARIABLES created, makes

shimVars == <<arrayVars, objectVars, streamVars, created, makes>>

Creates(n) == created < MaxCreated /\ created' = created + n

Array(p) ==
  /\ makes = "arrays"
  /\ \/ NewArray(p) /\ Creates(1)
     \/ /\ \/ NewArrayFails(p) \/ DeleteRef(p) \/ (\E q \in Peers : NewRef(p, q))
           \/ Find(p) \/ FindRefuses(p) \/ Touch(p) \/ Finish(p)
        /\ UNCHANGED created
  /\ UNCHANGED <<objectVars, streamVars>>

Object ==
  /\ makes = "objects"
  /\ \/ MakeObject /\ Creates(1)
     \/ (\E t \in Threads : SingletonMake(t)) /\ Creates(1)
     \/ /\ \/ LooperReady
           \/ (\E t \in Threads, s \in Singletons : FakeSingleton(t, s))
           \/ (\E t \in Threads, s \in Unlocked \ {"looper"} : InputDevice(t, s))
           \/ (\E t \in Threads : MainLooper(t))
        /\ UNCHANGED created
  /\ UNCHANGED <<arrayVars, streamVars>>

Method ==
  /\ makes = "ids" /\ (\E m \in Methods : GetMethodID(m))
  /\ UNCHANGED <<arrayVars, streamVars, created>>

\* InputStream.read(byte[], int, int) or read(byte[]), with the array of p.
ReadCall(s, p) ==
  /\ at[p] # Nil /\ slot[at[p]].kind = "byte"
  /\ UserReads(s, slot[at[p]].len)
  /\ Touch(p)
  /\ UNCHANGED created

Stream ==
  /\ makes # "ids"
  /\ \/ (\E way \in {"copy", "track", "plain"} : Open(way)) /\ Creates(1) /\ UNCHANGED arrayVars
     \/ \E s \in StreamIds :
          \/ (\E p \in Peers : ReadCall(s, p))
          \/ (Close(s) \/ ReadByte(s) \/ Skip(s)) /\ UNCHANGED <<arrayVars, created>>

ShimInit == ArraysInit /\ ObjectsInit /\ StreamsInit /\ created = 0
            /\ makes \in {"arrays", "objects", "ids"}

ShimNext == ((\E p \in Peers : Array(p)) \/ Object \/ Method \/ Stream) /\ UNCHANGED makes

ShimSpec == ShimInit /\ [][ShimNext]_shimVars
=============================================================================
