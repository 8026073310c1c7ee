------------------------------- MODULE SoLoader -------------------------------
(***************************************************************************)
(* The loader of Bionic ELF images: src/src/so_util.c, which keeps the     *)
(* image at hand in globals, and its two callers in src/src/main.c.        *)
(* load_module loads the chain of main() one module after the other;       *)
(* sdv_so_dlopen serves the threads that the runtime starts later, under   *)
(* g_so_loader_lock, and gives each image a handle that lives for ever.    *)
(*                                                                         *)
(* What dlopen is asked for is a kind of file: a Bionic component of the   *)
(* runtime, or one of those that sdv_dlopen answers for otherwise.         *)
(* Constructors of the chain start no thread that opens a module, and the  *)
(* last of them opens none itself.                                         *)
(***************************************************************************)
EXTENDS Naturals, Sequences, FiniteSets

CONSTANTS Workers,    \* threads of the runtime
          Main,       \* the thread of main()
          Components, \* Bionic files that glibc rejects
          CtorOpens,  \* those whose constructors call dlopen
          MaxImages,  \* bound: images mapped, the chain included
          Nothing

Threads == Workers \cup {Main}
Chain == <<"mono", "xamarin", "droid">>

ASSUME LoaderAssumption ==
  /\ Main \notin Workers /\ Nothing \notin Threads
  /\ MaxImages \in Nat /\ MaxImages >= 3 /\ Nothing \notin 1..MaxImages
  /\ CtorOpens \subseteq Components \cup {"mono", "xamarin"}

VARIABLES
  pc, mine,    \* per thread: where it is, and the image it loads
  image,       \* the mapped regions: which file, and what was done to them
  mapped,      \* how many regions were ever mapped
  cur,         \* the globals load_base, text_base, syms: of which image
  copy,        \* so_base, elf_hdr, sec_hdr: of which image, while not freed
  lock,        \* holder of g_so_loader_lock
  active,      \* g_so_loader_active of each thread
  table,       \* g_resolv_tbl is set
  handles,     \* g_so_handles: the image, and the one its snapshot lists
  reached      \* history: images of which a caller has symbols

globals == <<cur, copy>>
loaderVars == <<pc, mine, image, mapped, cur, copy, lock, active, table, handles, reached>>

Images == 1..MaxImages
NoImage == [file |-> Nothing, live |-> FALSE, linked |-> FALSE, ran |-> FALSE]

Goto(t, to) == pc' = [pc EXCEPT ![t] = to]
At(t, from) == pc[t] = from

\* mmap of a fresh region.
Map(t, file) ==
  /\ mapped < MaxImages /\ mapped' = mapped + 1
  /\ mine' = [mine EXCEPT ![t] = mapped + 1]
  /\ image' = [image EXCEPT ![mapped + 1] = [NoImage EXCEPT !.file = file, !.live = TRUE]]

-----------------------------------------------------------------------------
\* so_load: reads the file, and from a certain check on the globals are this
\* image's.
Loads(t) ==
  /\ At(t, "load") /\ Goto(t, "link")
  /\ cur' = mine[t] /\ copy' = mine[t]
  /\ UNCHANGED <<mine, image, mapped, lock, active, table, handles, reached>>

\* A check of so_load fails, before or after it has set load_base, and the copy of
\* the file goes.  sdv_so_dlopen unmaps the region and returns NULL.
LoadFails(t) ==
  /\ At(t, "load") /\ t # Main /\ Goto(t, "idle")
  /\ cur' \in {cur, mine[t]} /\ copy' = Nothing
  /\ image' = [image EXCEPT ![mine[t]].live = FALSE]
  /\ active' = [active EXCEPT ![t] = FALSE] /\ lock' = Nothing
  /\ UNCHANGED <<mine, mapped, table, handles, reached>>

\* load_module gives up: exit(1).
ChainFails ==
  /\ At(Main, "load") /\ Goto(Main, "exit")
  /\ UNCHANGED <<mine, image, mapped, globals, lock, active, table, handles, reached>>

\* so_relocate, so_resolve, so_finalize and so_flush_caches, on the globals.
Link(t) ==
  /\ At(t, "link") /\ Goto(t, "init")
  /\ image' = [image EXCEPT ![cur].linked = TRUE]
  /\ UNCHANGED <<mine, mapped, globals, lock, active, table, handles, reached>>

\* so_execute_init_array: the constructors of what the globals point at.
RunInit(t) ==
  /\ At(t, "init") /\ Goto(t, "snapshot")
  /\ image' = [image EXCEPT ![cur].ran = TRUE]
  /\ UNCHANGED <<mine, mapped, globals, lock, active, table, handles, reached>>

\* A constructor opens another module.  It gets NULL when there is no table yet or
\* when this thread is loading; it would wait for its own lock otherwise.
CtorCalls(t) ==
  /\ At(t, "init") /\ image[mine[t]].file \in CtorOpens
  /\ pc' = IF ~table \/ active[t] THEN pc ELSE [pc EXCEPT ![t] = "stuck"]
  /\ UNCHANGED <<mine, image, mapped, globals, lock, active, table, handles, reached>>

\* so_snapshot_symbols, where main() keeps a table as well, and so_free_temp.
\* load_module frees before main() takes its table; the table needs no copy.
Snapshot(t) ==
  /\ At(t, "snapshot")
  /\ copy' = Nothing
  /\ IF t = Main THEN Goto(t, "loaded") /\ reached' = reached \cup {cur}
                 ELSE Goto(t, "publish") /\ UNCHANGED reached
  /\ UNCHANGED <<mine, image, mapped, cur, lock, active, table, handles>>

-----------------------------------------------------------------------------
\* main(): the next module of the chain.  Before the last one, the tables of the
\* first two and of the shims become g_resolv_tbl.
LoadModule ==
  /\ pc[Main] \in {"start", "loaded"} /\ mapped < Len(Chain)
  /\ Map(Main, Chain[mapped + 1]) /\ Goto(Main, "load")
  /\ table' = (table \/ mapped = 2)
  /\ UNCHANGED <<globals, lock, active, handles, reached>>

\* so_find_addr_safe of JNI_OnLoad and the other entry points: of the image at hand.
FindEntryPoints ==
  /\ At(Main, "loaded") /\ mapped = Len(Chain)
  /\ Goto(Main, "found")
  /\ UNCHANGED <<mine, image, mapped, globals, lock, active, table, handles, reached>>

-----------------------------------------------------------------------------
\* sdv_dlopen and android_dlopen_ext: what never gets to the lock is answered at
\* once, and leaves nothing behind here.
OpenElsewhere(t) ==
  /\ At(t, "idle") /\ At(Main, "running")
  /\ UNCHANGED loaderVars

\* sdv_so_dlopen of a file that can be read: wait for g_so_loader_lock.
Open(t) ==
  /\ At(t, "idle") /\ At(Main, "running")
  /\ table /\ ~active[t] /\ mapped < MaxImages
  /\ Goto(t, "wait")
  /\ UNCHANGED <<mine, image, mapped, globals, lock, active, table, handles, reached>>

\* A variant that does not say that this thread is loading.
LockUnmarked(t) ==
  /\ At(t, "wait") /\ lock = Nothing
  /\ lock' = t /\ UNCHANGED active
  /\ (\E f \in Components : Map(t, f)) /\ Goto(t, "load")
  /\ UNCHANGED <<globals, table, handles, reached>>

\* A variant that lets loads of two threads overlap.
LockShared(t) ==
  /\ At(t, "wait")
  /\ lock' = t /\ active' = [active EXCEPT ![t] = TRUE]
  /\ (\E f \in Components : Map(t, f)) /\ Goto(t, "load")
  /\ UNCHANGED <<globals, table, handles, reached>>

\* The lock, the flag and the 48 MiB region.
Lock(t) ==
  /\ At(t, "wait") /\ lock = Nothing
  /\ lock' = t /\ active' = [active EXCEPT ![t] = TRUE]
  /\ (\E f \in Components : Map(t, f)) /\ Goto(t, "load")
  /\ UNCHANGED <<globals, table, handles, reached>>

\* mmap fails: the lock is given back and NULL returned.
MapFails(t) ==
  /\ At(t, "wait") /\ lock = Nothing /\ Goto(t, "idle")
  /\ UNCHANGED <<mine, image, mapped, globals, lock, active, table, handles, reached>>

\* The handle enters the list, or there is no memory for it and the image stays
\* without one.
Publish(t) ==
  /\ At(t, "publish") /\ Goto(t, "idle")
  /\ handles' \in {handles, handles \cup {[image |-> mine[t], snap |-> cur]}}
  /\ active' = [active EXCEPT ![t] = FALSE] /\ lock' = Nothing
  /\ UNCHANGED <<mine, image, mapped, globals, table, reached>>

\* sdv_dlsym of a handle of the list: the snapshot answers, never glibc.
Dlsym(t) ==
  /\ At(t, "idle")
  /\ \E h \in handles : reached' = reached \cup {h.snap}
  /\ UNCHANGED <<pc, mine, image, mapped, globals, lock, active, table, handles>>

\* A variant that unmaps the image.
DlcloseUnmapping(t) ==
  /\ At(t, "idle")
  /\ \E h \in handles : /\ image' = [image EXCEPT ![h.image].live = FALSE]
                        /\ handles' = handles \ {h}
  /\ UNCHANGED <<pc, mine, mapped, globals, lock, active, table, reached>>

\* sdv_so_dlclose: recognises the handle and keeps the image.
Dlclose(t) ==
  /\ At(t, "idle") /\ handles # {}
  /\ UNCHANGED loaderVars

-----------------------------------------------------------------------------
LoaderInit ==
  /\ pc = [t \in Threads |-> IF t = Main THEN "start" ELSE "idle"]
  /\ mine = [t \in Threads |-> Nothing]
  /\ image = [i \in Images |-> NoImage] /\ mapped = 0
  /\ cur = Nothing /\ copy = Nothing /\ lock = Nothing
  /\ active = [t \in Threads |-> FALSE] /\ table = FALSE
  /\ handles = {} /\ reached = {}

\* What a thread inside a load does next.
Loading(t) == Loads(t) \/ LoadFails(t) \/ Link(t) \/ RunInit(t) \/ Snapshot(t) \/ Publish(t)

MainLoads == LoadModule \/ ChainFails \/ FindEntryPoints
Asks(t) == OpenElsewhere(t) \/ Open(t) \/ Dlsym(t) \/ Dlclose(t)

LoaderNext ==
  \/ MainLoads
  \/ \E t \in Threads : Loading(t) \/ CtorCalls(t)
  \/ \E t \in Workers : Asks(t) \/ Lock(t) \/ MapFails(t)

-----------------------------------------------------------------------------
LoaderTypeOK ==
  /\ pc \in [Threads -> {"start", "loaded", "found", "running", "exit", "idle", "wait",
                         "load", "link", "init", "snapshot", "publish", "stuck"}]
  /\ mine \in [Threads -> Images \cup {Nothing}]
  /\ image \in [Images -> [file : Components \cup {"mono", "xamarin", "droid", Nothing},
                           live : BOOLEAN, linked : BOOLEAN, ran : BOOLEAN]]
  /\ mapped \in 0..MaxImages
  /\ cur \in Images \cup {Nothing} /\ copy \in Images \cup {Nothing}
  /\ lock \in Workers \cup {Nothing} /\ active \in [Threads -> BOOLEAN]
  /\ table \in BOOLEAN /\ handles \subseteq [image : Images, snap : Images]
  /\ reached \subseteq Images

\* "uma carga deve terminar completamente antes da seguinte iniciar" (main.c:110):
\* between so_load and the snapshot, a thread finds its own image in the globals,
\* still mapped and with the copy of its file; and main() looks for JNI_OnLoad in
\* the last module of its chain.
OwnImage ==
  /\ \A t \in Threads :
       /\ pc[t] \in {"link", "init", "snapshot"} =>
            cur = mine[t] /\ copy = mine[t] /\ image[cur].live
       /\ pc[t] = "publish" => cur = mine[t]
  /\ pc[Main] = "found" => image[cur].file = "droid"

\* Whatever is opened, refused or closed meanwhile, a symbol that a caller has, and
\* any that a handle may still give, lies in a region that is mapped, and whose
\* relocations and constructors are done (main.c:189).
SymbolsLive ==
  \A i \in reached \cup {h.snap : h \in handles} :
    image[i].live /\ image[i].linked /\ image[i].ran
=============================================================================
