------------------------------ MODULE Bootstrap ------------------------------
(***************************************************************************)
(* main() of src/src/main.c after its chain of modules: JNI_OnLoad,        *)
(* Runtime_init, the registrations a JVM would make, the life of the       *)
(* activity up to the input loop; with the table of native methods of      *)
(* src/src/jni_shim.c.  The managed side registers more types, and its     *)
(* threads ask the loader for components, from Runtime_init on.            *)
(***************************************************************************)
EXTENDS SoLoader

CONSTANTS Others,      \* types that the managed side registers by itself
          MaxNatives   \* capacity of g_natives

VARIABLES
  natives,   \* g_natives: class and method
  boot,      \* how far main() is
  called,    \* history: the class whose handler each call of main() reached
  looper     \* g_main_looper_ready

bootVars == <<natives, boot, called, looper>>
vars == <<loaderVars, bootVars>>

\* The methods that main() passes to Runtime.register for each type.
Methods == [TypeManager |-> <<"activate">>,
            Base |-> <<"onCreate", "onPause", "onResume">>,
            MainActivity |-> <<"onCreate", "onResume", "onPause">>,
            GameView |-> <<"keys", "surfaces", "touch">>]

ASSUME BootAssumption ==
  MaxNatives \in Nat /\ IsFiniteSet(Others) /\ Nothing \notin DOMAIN Methods

After == [load |-> "TypeManager", TypeManager |-> "Base", Base |-> "MainActivity",
          MainActivity |-> "GameView", GameView |-> "activate", activate |-> "create",
          create |-> "surfaces", surfaces |-> "resume", resume |-> "resuming",
          resuming |-> "hold", hold |-> "input"]

Calls == {"activate", "onCreate", "surfaces", "onResume", "keys"}

\* RegisterNatives: an entry for each method while there is room, and 0.  It has no
\* lock; registrations are assumed not to overlap, so each is one step.
Registered(class, methods) ==
  LET all == natives \o [i \in DOMAIN methods |-> <<class, methods[i]>>]
  IN IF Len(all) <= MaxNatives THEN all ELSE SubSeq(all, 1, MaxNatives)

Named(m) == {i \in DOMAIN natives : natives[i][2] = m}

\* A variant that finds the first registration.
FindNativeFirst(m) == IF Named(m) = {} THEN Nothing
                      ELSE natives[CHOOSE i \in Named(m) : \A j \in Named(m) : i <= j][1]

\* jni_find_registered_native: the last registration of the name.
FindNative(m) == IF Named(m) = {} THEN Nothing
                 ELSE natives[CHOOSE i \in Named(m) : \A j \in Named(m) : i >= j][1]

-----------------------------------------------------------------------------
\* JNI_OnLoad and Runtime_init return; the runtime and its threads exist.
StartRuntime ==
  /\ At(Main, "found") /\ Goto(Main, "running")
  /\ boot' = After[boot]
  /\ UNCHANGED <<mine, image, mapped, globals, lock, active, table, handles, reached,
                 natives, called, looper>>

\* Runtime.register of the four types, one after the other.
RegisterType ==
  /\ boot \in DOMAIN Methods /\ boot' = After[boot]
  /\ natives' = Registered(boot, Methods[boot])
  /\ UNCHANGED <<loaderVars, called, looper>>

\* The managed side registers a type of its own, with methods that main() does not
\* call.
RegisterOther ==
  /\ At(Main, "running")
  /\ \E o \in Others :
       /\ \A j \in DOMAIN natives : natives[j][1] # o
       /\ natives' = Registered(o, <<"run">>)
  /\ UNCHANGED <<loaderVars, boot, called, looper>>

\* main() calls what it finds; without n_onCreate it ends, without the handlers of
\* keys it pauses for ever, without another it goes on.
Reaches(m) == called' = [called EXCEPT ![m] = FindNative(m)]

Follow(stage, m) ==
  /\ boot = stage /\ boot' = After[stage]
  /\ Reaches(m) /\ UNCHANGED <<loaderVars, natives>>

Activate == Follow("activate", "activate") /\ UNCHANGED looper
Surfaces == Follow("surfaces", "surfaces") /\ UNCHANGED looper

OnCreate ==
  /\ FindNative("onCreate") # Nothing
  /\ Follow("create", "onCreate") /\ UNCHANGED looper

\* The call of n_onResume, during which the threads of the managed side go on, ...
Resume == Follow("resume", "onResume") /\ UNCHANGED looper

\* ... and its return: SyncContext.Send is let through only once View.Resume has run.
Resumed ==
  /\ boot = "resuming" /\ boot' = After[boot]
  /\ looper' = (called["onResume"] # Nothing)
  /\ UNCHANGED <<loaderVars, natives, called>>

\* The input loop, when there is a view with handlers for keys.
Hold ==
  /\ FindNative("keys") # Nothing
  /\ Follow("hold", "keys") /\ UNCHANGED looper

-----------------------------------------------------------------------------
Init ==
  /\ LoaderInit
  /\ natives = <<>> /\ boot = "load" /\ looper = FALSE
  /\ called = [m \in Calls |-> Nothing]

MainBoots == StartRuntime \/ RegisterType \/ Activate \/ OnCreate \/ Surfaces \/ Resume \/ Resumed
             \/ Hold

Next == \/ LoaderNext /\ UNCHANGED bootVars
        \/ MainBoots \/ RegisterOther

Spec == Init /\ [][Next]_vars

\* Threads go on, constructors return, and g_so_loader_lock is got in the end.
FairSpec ==
  /\ Spec /\ WF_vars(MainLoads /\ UNCHANGED bootVars) /\ WF_vars(MainBoots)
  /\ \A t \in Threads : WF_vars(Loading(t) /\ UNCHANGED bootVars)
  /\ \A t \in Workers : SF_vars((Lock(t) \/ MapFails(t)) /\ UNCHANGED bootVars)

-----------------------------------------------------------------------------
\* main() calls the handlers of the concrete activity, though its base registered
\* the same names before it (jni_shim.c:1887); the looper stays hidden until its
\* resume has returned (main.c:1110-1113); and when the input loop runs, the activity
\* was activated, created and resumed, and the looper is open.
ConcreteHandlers ==
  /\ called["onCreate"] \in {Nothing, "MainActivity"}
  /\ called["onResume"] \in {Nothing, "MainActivity"}
  /\ looper => called["onResume"] = "MainActivity" /\ boot \in {"hold", "input"}
  /\ boot = "input" => looper /\ \A m \in Calls : called[m] # Nothing

\* A thread that asks for a module is answered, whatever the constructors of
\* modules ask for meanwhile (main.c:102-107).
OpenReturns == \A t \in Workers : pc[t] = "wait" ~> pc[t] = "idle"
=============================================================================
