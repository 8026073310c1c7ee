--------------------------- MODULE Bootstrap_proofs ---------------------------
(***************************************************************************)
(* Proofs about SoLoader as main() uses it: for any number of threads and  *)
(* modules, a thread that loads finds its own image in the globals, and    *)
(* every symbol given out leads into an image that is complete.            *)
(*                                                                         *)
(* load_module takes no lock and needs none: while main() is at its chain  *)
(* no other thread opens a module, and when another does main() has left   *)
(* its chain for ever (MainFirst).  From then on g_so_loader_lock keeps    *)
(* the loads apart (Solo).                                                 *)
(***************************************************************************)
EXTENDS Bootstrap, FiniteSetTheorems, TLAPS

InLoad == {"load", "link", "init", "snapshot", "publish"}

\* main() and the threads of the runtime have program points of their own.
Parts ==
  /\ pc[Main] \in {"start", "load", "link", "init", "snapshot", "loaded", "found", "running",
                   "exit", "stuck"}
  /\ \A w \in Workers : pc[w] \in InLoad \cup {"idle", "wait", "stuck"}

\* Nobody else opens a module before main() is through with its chain.
MainFirst == pc[Main] # "running" =>
               /\ lock = Nothing /\ handles = {} /\ \A w \in Workers : pc[w] = "idle"

\* From then on who loads has the lock.
Solo == \A w \in Workers : pc[w] \in InLoad => lock = w

\* The images of which symbols are or can be given out.
Given == reached \cup {h.snap : h \in handles}

\* An image that is being loaded is mapped and not given out, and is linked before its
\* constructors run.
Loaded(t) ==
  /\ pc[t] \in InLoad =>
       mine[t] \in 1..mapped /\ image[mine[t]].live /\ mine[t] \notin Given
  /\ pc[t] \in {"link", "init", "snapshot", "publish"} => cur = mine[t]
  /\ pc[t] \in {"link", "init", "snapshot"} => copy = mine[t]
  /\ pc[t] \in {"init", "snapshot", "publish"} => image[mine[t]].linked
  /\ pc[t] \in {"snapshot", "publish"} => image[mine[t]].ran

\* The chain of main(): the file of each image, and the image the globals show after it.
ChainInv ==
  pc[Main] # "running" =>
    /\ mapped \in 0..3 /\ \A i \in 1..mapped : image[i].file = Chain[i]
    /\ pc[Main] \in InLoad => mine[Main] = mapped
    /\ pc[Main] \in {"loaded", "found"} => cur = mapped /\ mapped > 0
    /\ pc[Main] = "found" => mapped = 3

LoaderInv == /\ LoaderTypeOK /\ Parts /\ MainFirst /\ Solo /\ ChainInv /\ SymbolsLive
             /\ Given \subseteq 1..mapped /\ \A t \in Threads : Loaded(t)

-----------------------------------------------------------------------------
LEMMA ChainFiles == Len(Chain) = 3 /\ Chain[1] = "mono" /\ Chain[2] = "xamarin" /\ Chain[3] = "droid"
BY DEF Chain

\* What an image is, and that mapping and marking one keeps it so.
Image == [file : Components \cup {"mono", "xamarin", "droid", Nothing},
          live : BOOLEAN, linked : BOOLEAN, ran : BOOLEAN]

LEMMA MapTyped ==
  ASSUME LoaderTypeOK, NEW t \in Threads, NEW file \in Components \cup {"mono", "xamarin", "droid"},
         Map(t, file)
  PROVE  /\ mapped \in Nat /\ mapped' = mapped + 1 /\ mapped' \in 1..MaxImages
         /\ mine' \in [Threads -> Images \cup {Nothing}] /\ image' \in [Images -> Image]
<1>1. NoImage \in Image
  BY DEF NoImage, Image
<1>2. [NoImage EXCEPT !.file = file, !.live = TRUE] \in Image
  BY <1>1 DEF Image
<1>3. image \in [Images -> Image] /\ mapped + 1 \in Images
  BY LoaderAssumption DEF Map, LoaderTypeOK, Images, Image
<1>4. image' \in [Images -> Image]
  BY <1>2, <1>3 DEF Map
<1> QED
  BY <1>4, LoaderAssumption DEF Map, LoaderTypeOK

LEMMA MarkTyped ==
  ASSUME image \in [Images -> Image], NEW i \in Images, NEW b \in BOOLEAN
  PROVE  /\ [image EXCEPT ![i].live = b] \in [Images -> Image]
         /\ [image EXCEPT ![i].linked = b] \in [Images -> Image]
         /\ [image EXCEPT ![i].ran = b] \in [Images -> Image]
<1>1. /\ [image[i] EXCEPT !.live = b] \in Image /\ [image[i] EXCEPT !.linked = b] \in Image
      /\ [image[i] EXCEPT !.ran = b] \in Image
  BY DEF Image
<1> QED
  BY <1>1

LEMMA InvOwnImage == LoaderInv => OwnImage
BY ChainFiles DEF LoaderInv, Loaded, ChainInv, OwnImage, InLoad

LEMMA LoadModuleInv == ASSUME LoaderInv, LoadModule PROVE LoaderInv'
<1>1. LoaderTypeOK'
  <2>1. Chain[mapped + 1] \in {"mono", "xamarin", "droid"}
    BY ChainFiles DEF LoadModule, LoaderInv, LoaderTypeOK
  <2>2. mine' \in [Threads -> Images \cup {Nothing}] /\ image' \in [Images -> Image] /\ mapped' \in 1..MaxImages
    BY <2>1, MapTyped DEF LoadModule, LoaderInv, Threads
  <2> QED
    BY <2>2 DEF LoadModule, Goto, globals, LoaderInv, LoaderTypeOK, Image, Threads
<1>2. (Parts /\ MainFirst /\ Solo)'
  BY DEF LoadModule, Goto, LoaderInv, Parts, MainFirst, Solo
<1>3. (ChainInv /\ SymbolsLive /\ Given \subseteq 1..mapped)'
  BY LoaderAssumption, ChainFiles
  DEF LoadModule, Goto, Map, LoaderInv, LoaderTypeOK, MainFirst, ChainInv, SymbolsLive, Given,
      Threads, Images
<1>4. (\A u \in Threads : Loaded(u))'
  BY LoaderAssumption
  DEF LoadModule, Goto, Map, LoaderInv, LoaderTypeOK, MainFirst, Given, Loaded, Threads, Images
<1> QED
  BY <1>1, <1>2, <1>3, <1>4 DEF LoaderInv

LEMMA ChainFailsInv == ASSUME LoaderInv, ChainFails PROVE LoaderInv'
<1>1. (LoaderTypeOK /\ Parts /\ MainFirst /\ Solo)'
  BY DEF ChainFails, At, Goto, globals, LoaderInv, LoaderTypeOK, Parts, MainFirst, Solo, Threads
<1>2. (ChainInv /\ SymbolsLive /\ Given \subseteq 1..mapped)'
  BY DEF ChainFails, At, Goto, LoaderInv, ChainInv, SymbolsLive, Given, InLoad
<1>3. (\A u \in Threads : Loaded(u))'
  BY DEF ChainFails, Goto, globals, LoaderInv, Given, Loaded, InLoad
<1> QED
  BY <1>1, <1>2, <1>3 DEF LoaderInv

LEMMA FindEntryPointsInv == ASSUME LoaderInv, FindEntryPoints PROVE LoaderInv'
<1>1. (LoaderTypeOK /\ Parts /\ MainFirst /\ Solo)'
  BY DEF FindEntryPoints, At, Goto, globals, LoaderInv, LoaderTypeOK, Parts, MainFirst, Solo,
     Threads
<1>2. (ChainInv /\ SymbolsLive /\ Given \subseteq 1..mapped)'
  BY ChainFiles
  DEF FindEntryPoints, At, Goto, globals, LoaderInv, MainFirst, ChainInv, SymbolsLive, Given,
      InLoad
<1>3. (\A u \in Threads : Loaded(u))'
  BY DEF FindEntryPoints, Goto, globals, LoaderInv, Given, Loaded, InLoad
<1> QED
  BY <1>1, <1>2, <1>3 DEF LoaderInv

LEMMA LoadsInv == ASSUME LoaderInv, NEW t \in Threads, Loads(t) PROVE LoaderInv'
<1>1. (LoaderTypeOK /\ Parts /\ MainFirst /\ Solo)'
  BY DEF Loads, At, Goto, LoaderInv, LoaderTypeOK, Parts, MainFirst, Solo, InLoad
<1>2. (ChainInv /\ SymbolsLive /\ Given \subseteq 1..mapped)'
  BY DEF Loads, At, Goto, LoaderInv, MainFirst, ChainInv, SymbolsLive, Given, Threads, InLoad
<1>3. (\A u \in Threads : Loaded(u))'
  BY DEF Loads, At, Goto, LoaderInv, MainFirst, Solo, Given, Loaded, Threads, InLoad
<1> QED
  BY <1>1, <1>2, <1>3 DEF LoaderInv

LEMMA LoadFailsInv == ASSUME LoaderInv, NEW t \in Threads, LoadFails(t) PROVE LoaderInv'
<1>1. LoaderTypeOK'
  <2>1. mine[t] \in Images
    BY LoaderAssumption DEF LoadFails, At, LoaderInv, LoaderTypeOK, Loaded, InLoad
  <2>2. image' \in [Images -> Image]
    BY DEF LoadFails, LoaderInv, LoaderTypeOK, Image
  <2> QED
    BY DEF LoadFails, Goto, LoaderInv, LoaderTypeOK, Image
<1>2. (Parts /\ MainFirst /\ Solo)'
  BY DEF LoadFails, At, Goto, LoaderInv, LoaderTypeOK, Parts, MainFirst, Solo, Threads, InLoad
<1>3. (ChainInv /\ SymbolsLive /\ Given \subseteq 1..mapped)'
  BY DEF LoadFails, At, Goto, LoaderInv, Parts, MainFirst, ChainInv, SymbolsLive, Given, Loaded,
     Threads
<1>4. (\A u \in Threads : Loaded(u))'
  BY DEF LoadFails, At, Goto, LoaderInv, LoaderTypeOK, MainFirst, Solo, Loaded, Threads, InLoad
<1> QED
  BY <1>1, <1>2, <1>3, <1>4 DEF LoaderInv

LEMMA LinkInv == ASSUME LoaderInv, NEW t \in Threads, Link(t) PROVE LoaderInv'
<1>1. LoaderTypeOK'
  <2>1. cur \in Images
    BY LoaderAssumption DEF Link, At, LoaderInv, LoaderTypeOK, Loaded, InLoad
  <2>2. image' \in [Images -> Image]
    BY DEF Link, LoaderInv, LoaderTypeOK, Image
  <2> QED
    BY DEF Link, Goto, globals, LoaderInv, LoaderTypeOK, Image
<1>2. (Parts /\ MainFirst /\ Solo)'
  BY DEF Link, At, Goto, LoaderInv, Parts, MainFirst, Solo, InLoad
<1>3. (ChainInv /\ SymbolsLive /\ Given \subseteq 1..mapped)'
  BY DEF Link, At, Goto, globals, LoaderInv, ChainInv, SymbolsLive, Given, InLoad
<1>4. (\A u \in Threads : Loaded(u))'
  BY LoaderAssumption DEF Link, At, Goto, globals, LoaderInv, LoaderTypeOK, Given, Loaded, InLoad
<1> QED
  BY <1>1, <1>2, <1>3, <1>4 DEF LoaderInv

LEMMA RunInitInv == ASSUME LoaderInv, NEW t \in Threads, RunInit(t) PROVE LoaderInv'
<1>1. LoaderTypeOK'
  <2>1. cur \in Images
    BY LoaderAssumption DEF RunInit, At, LoaderInv, LoaderTypeOK, Loaded, InLoad
  <2>2. image' \in [Images -> Image]
    BY DEF RunInit, LoaderInv, LoaderTypeOK, Image
  <2> QED
    BY DEF RunInit, Goto, globals, LoaderInv, LoaderTypeOK, Image
<1>2. (Parts /\ MainFirst /\ Solo)'
  BY DEF RunInit, At, Goto, LoaderInv, Parts, MainFirst, Solo, InLoad
<1>3. (ChainInv /\ SymbolsLive /\ Given \subseteq 1..mapped)'
  BY DEF RunInit, At, Goto, globals, LoaderInv, ChainInv, SymbolsLive, Given, InLoad
<1>4. (\A u \in Threads : Loaded(u))'
  BY LoaderAssumption
  DEF RunInit, At, Goto, globals, LoaderInv, LoaderTypeOK, Given, Loaded, InLoad
<1> QED
  BY <1>1, <1>2, <1>3, <1>4 DEF LoaderInv

LEMMA CtorCallsInv == ASSUME LoaderInv, NEW t \in Threads, CtorCalls(t) PROVE LoaderInv'
<1>1. (LoaderTypeOK /\ Parts /\ MainFirst /\ Solo)'
  BY DEF CtorCalls, At, globals, LoaderInv, LoaderTypeOK, Parts, MainFirst, Solo
<1>2. (ChainInv /\ SymbolsLive /\ Given \subseteq 1..mapped)'
  BY DEF CtorCalls, At, globals, LoaderInv, ChainInv, SymbolsLive, Given, InLoad
<1>3. (\A u \in Threads : Loaded(u))'
  BY DEF CtorCalls, globals, LoaderInv, Given, Loaded, InLoad
<1> QED
  BY <1>1, <1>2, <1>3 DEF LoaderInv

LEMMA SnapshotInv == ASSUME LoaderInv, NEW t \in Threads, Snapshot(t) PROVE LoaderInv'
<1>1. (LoaderTypeOK /\ Parts /\ MainFirst /\ Solo)'
  <2>1. LoaderTypeOK'
    BY LoaderAssumption DEF Snapshot, At, Goto, LoaderInv, LoaderTypeOK, MainFirst, Parts, Given, Loaded, Threads, InLoad
  <2>2. (Parts /\ MainFirst /\ Solo)'
    BY DEF Snapshot, At, Goto, LoaderInv, LoaderTypeOK, Parts, MainFirst, Solo, Threads, InLoad
  <2> QED BY <2>1, <2>2
<1>2. (ChainInv /\ SymbolsLive /\ Given \subseteq 1..mapped)'
  BY DEF Snapshot, At, Goto, LoaderInv, LoaderTypeOK, ChainInv, SymbolsLive, Given, Loaded,
     Threads, InLoad
<1>3. (\A u \in Threads : Loaded(u))'
  BY DEF Snapshot, At, Goto, LoaderInv, LoaderTypeOK, MainFirst, Solo, Given, Loaded, Threads,
     InLoad
<1> QED
  BY <1>1, <1>2, <1>3 DEF LoaderInv

LEMMA PublishInv == ASSUME LoaderInv, NEW t \in Threads, Publish(t) PROVE LoaderInv'
<1>1. (LoaderTypeOK /\ Parts /\ MainFirst /\ Solo)'
  BY LoaderAssumption
  DEF Publish, At, Goto, globals, LoaderInv, LoaderTypeOK, Parts, MainFirst, Solo, Loaded,
      Threads, InLoad
<1>2. (ChainInv /\ SymbolsLive /\ Given \subseteq 1..mapped)'
  BY DEF Publish, At, Goto, globals, LoaderInv, Parts, ChainInv, SymbolsLive, Given, Loaded,
     Threads
<1>3. (\A u \in Threads : Loaded(u))'
  BY DEF Publish, At, Goto, LoaderInv, LoaderTypeOK, MainFirst, Solo, Loaded, Threads, InLoad
<1> QED
  BY <1>1, <1>2, <1>3 DEF LoaderInv

LEMMA OpenInv == ASSUME LoaderInv, NEW t \in Workers, Open(t) PROVE LoaderInv'
<1>1. (LoaderTypeOK /\ Parts /\ MainFirst /\ Solo)'
  BY DEF Open, At, Goto, globals, LoaderInv, LoaderTypeOK, Parts, MainFirst, Solo, Threads, InLoad
<1>2. (ChainInv /\ SymbolsLive /\ Given \subseteq 1..mapped)'
  BY DEF Open, At, Goto, LoaderInv, ChainInv, SymbolsLive, Given
<1>3. (\A u \in Threads : Loaded(u))'
  BY DEF Open, Goto, globals, LoaderInv, Given, Loaded, InLoad
<1> QED
  BY <1>1, <1>2, <1>3 DEF LoaderInv

LEMMA LockInv == ASSUME LoaderInv, NEW t \in Workers, Lock(t) PROVE LoaderInv'
<1>1. LoaderTypeOK'
  <2>1. mine' \in [Threads -> Images \cup {Nothing}] /\ image' \in [Images -> Image] /\ mapped' \in 1..MaxImages
    BY MapTyped DEF Lock, LoaderInv, Threads
  <2> QED
    BY <2>1 DEF Lock, Goto, globals, LoaderInv, LoaderTypeOK, Image, Threads
<1>2. (Parts /\ MainFirst /\ Solo)'
  BY LoaderAssumption DEF Lock, At, Goto, LoaderInv, Parts, MainFirst, Solo, Threads, InLoad
<1>3. (ChainInv /\ SymbolsLive /\ Given \subseteq 1..mapped)'
  BY ChainFiles
  DEF Lock, At, Goto, Map, NoImage, LoaderInv, LoaderTypeOK, Parts, MainFirst, ChainInv,
      SymbolsLive, Given, Loaded, Images
<1>4. (\A u \in Threads : Loaded(u))'
  BY LoaderAssumption, ChainFiles
  DEF Lock, Goto, Map, NoImage, globals, LoaderInv, LoaderTypeOK, Solo, ChainInv, Given, Loaded,
      Images, InLoad
<1> QED
  BY <1>1, <1>2, <1>3, <1>4 DEF LoaderInv

LEMMA MapFailsInv == ASSUME LoaderInv, NEW t \in Workers, MapFails(t) PROVE LoaderInv'
<1>1. (LoaderTypeOK /\ Parts /\ MainFirst /\ Solo)'
  BY DEF MapFails, Goto, globals, LoaderInv, LoaderTypeOK, Parts, MainFirst, Solo, Threads, InLoad
<1>2. (ChainInv /\ SymbolsLive /\ Given \subseteq 1..mapped)'
  BY LoaderAssumption DEF MapFails, Goto, globals, LoaderInv, ChainInv, SymbolsLive, Given
<1>3. (\A u \in Threads : Loaded(u))'
  BY DEF MapFails, Goto, globals, LoaderInv, Given, Loaded, InLoad
<1> QED
  BY <1>1, <1>2, <1>3 DEF LoaderInv

LEMMA DlsymInv == ASSUME LoaderInv, NEW t \in Workers, Dlsym(t) PROVE LoaderInv'
<1>1. (LoaderTypeOK /\ Parts /\ MainFirst /\ Solo)'
  BY DEF Dlsym, globals, LoaderInv, LoaderTypeOK, Parts, MainFirst, Solo
<1>2. (ChainInv /\ SymbolsLive /\ Given \subseteq 1..mapped)'
  BY DEF Dlsym, globals, LoaderInv, ChainInv, SymbolsLive, Given
<1>3. (\A u \in Threads : Loaded(u))'
  BY DEF Dlsym, globals, LoaderInv, Given, Loaded
<1> QED
  BY <1>1, <1>2, <1>3 DEF LoaderInv

-----------------------------------------------------------------------------
LEMMA InitInv == Init => LoaderInv
<1> SUFFICES ASSUME Init PROVE LoaderInv
  OBVIOUS
<1>1. NoImage \in Image /\ image \in [Images -> {NoImage}]
  BY DEF Init, LoaderInit, NoImage, Image
<1>2. LoaderTypeOK
  <2>1. /\ handles \subseteq [image : Images, snap : Images] /\ reached \subseteq Images
        /\ mapped \in 0..MaxImages
    BY LoaderAssumption DEF Init, LoaderInit
  <2>2. active \in [Threads -> BOOLEAN] /\ table \in BOOLEAN
    BY DEF Init, LoaderInit
  <2> QED
    BY <1>1, <2>1 DEF Init, LoaderInit, LoaderTypeOK, Image
<1> QED
  BY <1>2, LoaderAssumption
  DEF Init, LoaderInit, LoaderInv, Parts, MainFirst, Solo, ChainInv, SymbolsLive, Given, Loaded,
      Threads, InLoad

\* Of main()'s later steps only the start of the runtime concerns the loader.
LEMMA StartInv == ASSUME LoaderInv, StartRuntime PROVE LoaderInv'
BY DEF StartRuntime, Goto, globals, LoaderInv, LoaderTypeOK, Parts, MainFirst, Solo, ChainInv,
   SymbolsLive, Given, Loaded, Threads, InLoad

LEMMA NextInv == LoaderInv /\ [Next]_vars => LoaderInv'
<1> SUFFICES ASSUME LoaderInv, [Next]_vars PROVE LoaderInv'
  OBVIOUS
<1>1. UNCHANGED loaderVars => LoaderInv'
  BY DEF loaderVars, LoaderInv, LoaderTypeOK, Parts, MainFirst, Solo, ChainInv, SymbolsLive,
     Given, Loaded
<1>2. CASE LoaderNext
  BY <1>1, <1>2, LoadModuleInv, ChainFailsInv, FindEntryPointsInv, LoadsInv, LoadFailsInv,
     LinkInv, RunInitInv, CtorCallsInv, SnapshotInv, PublishInv, OpenInv, LockInv, MapFailsInv,
     DlsymInv
  DEF LoaderNext, MainLoads, Loading, Asks, OpenElsewhere, Dlclose
<1>3. CASE MainBoots \/ RegisterOther
  BY <1>1, <1>3, StartInv
  DEF MainBoots, RegisterOther, RegisterType, Activate, OnCreate, Surfaces, Resume, Resumed, Hold, Follow
<1>4. CASE UNCHANGED vars
  BY <1>1, <1>4 DEF vars
<1> QED
  BY <1>2, <1>3, <1>4 DEF Next

\* Whoever holds the loader lock works on the image it mapped itself, and a published
\* handle holds a finished image: what the theorems below rest on.
THEOREM LoaderInvariant == Spec => []LoaderInv
BY InitInv, NextInv, PTL DEF Spec

\* Through chain, dlopen from several threads, dlopen from constructors and failing
\* loads: between so_load and the snapshot a thread finds its own image in the globals,
\* though load_module takes no lock (main.c:110-112, :825).
THEOREM LoadsDoNotMix == Spec => []OwnImage
BY InvOwnImage, LoaderInvariant, PTL

\* A symbol that anybody has or can get leads into an image that is mapped, linked and
\* constructed (main.c:189).
THEOREM SymbolsStayLive == Spec => []SymbolsLive
<1>1. LoaderInv => SymbolsLive
  BY DEF LoaderInv
<1> QED
  BY <1>1, LoaderInvariant, PTL

\* What a caller was given stays: its handles answer for ever, and no later load, refusal
\* or close touches an image that a symbol leads into, though they all write through the
\* same globals.
GivenIsFinal ==
  [][/\ handles \subseteq handles' /\ reached \subseteq reached'
     /\ \A i \in Given : image'[i] = image[i]]_loaderVars

\* A handle lists the symbols of the image that was mapped for it (so_snapshot_symbols).
HandlesAreOwn == \A h \in handles : h.snap = h.image

LEMMA MappingKeeps ==
  ASSUME LoaderInv, NEW t \in Threads, NEW file, Map(t, file), NEW i \in Given
  PROVE  image'[i] = image[i]
<1>1. i \in 1..mapped /\ i # mapped + 1
  BY DEF LoaderInv, LoaderTypeOK
<1> QED BY <1>1 DEF Map, LoaderInv, LoaderTypeOK, Images

\* So does the rest of a load: the image at hand is none of these.
LEMMA LoadingKeeps ==
  ASSUME LoaderInv, NEW t \in Threads, LoadFails(t) \/ Link(t) \/ RunInit(t), NEW i \in Given
  PROVE  image'[i] = image[i]
<1>1. mine[t] # i /\ (pc[t] \in {"link", "init"} => cur = mine[t])
  BY DEF LoadFails, Link, RunInit, At, LoaderInv, Loaded, InLoad
<1>2. i \in Images /\ DOMAIN image = Images
  <2>1. i \in 1..mapped /\ mapped \in 0..MaxImages /\ DOMAIN image = Images
    BY DEF LoaderInv, LoaderTypeOK
  <2> QED BY <2>1, LoaderAssumption DEF Images
<1>3. CASE LoadFails(t)
  BY <1>1, <1>2, <1>3 DEF LoadFails
<1>4. CASE Link(t)
  BY <1>1, <1>2, <1>4 DEF Link, At
<1>5. CASE RunInit(t)
  BY <1>1, <1>2, <1>5 DEF RunInit, At
<1> QED BY <1>3, <1>4, <1>5

LEMMA GivenStep ==
  LoaderInv /\ [Next]_vars =>
    [/\ handles \subseteq handles' /\ reached \subseteq reached'
     /\ \A i \in Given : image'[i] = image[i]]_loaderVars
<1> SUFFICES ASSUME LoaderInv, [Next]_vars, loaderVars' # loaderVars
             PROVE  /\ handles \subseteq handles' /\ reached \subseteq reached'
                    /\ \A i \in Given : image'[i] = image[i]
  OBVIOUS
<1>1. ASSUME NEW t \in Threads, Loading(t) \/ CtorCalls(t)
      PROVE  /\ handles \subseteq handles' /\ reached \subseteq reached'
             /\ \A i \in Given : image'[i] = image[i]
  <2>1. handles \subseteq handles' /\ reached \subseteq reached'
    BY <1>1 DEF Loading, CtorCalls, Loads, LoadFails, Link, RunInit, Snapshot, Publish
  <2>2. LoadFails(t) \/ Link(t) \/ RunInit(t) \/ image' = image
    BY <1>1 DEF Loading, CtorCalls, Loads, Snapshot, Publish
  <2> QED BY <2>1, <2>2, LoadingKeeps
<1>2. ASSUME NEW t \in Workers, Asks(t) \/ Lock(t) \/ MapFails(t)
      PROVE  /\ handles \subseteq handles' /\ reached \subseteq reached'
             /\ \A i \in Given : image'[i] = image[i]
  <2>1. handles \subseteq handles' /\ reached \subseteq reached'
    BY <1>2 DEF Asks, OpenElsewhere, Open, Dlsym, Dlclose, Lock, MapFails, loaderVars
  <2>2. (\E f \in Components : Map(t, f)) \/ image' = image
    BY <1>2 DEF Asks, OpenElsewhere, Open, Dlsym, Dlclose, Lock, MapFails, loaderVars
  <2> QED BY <2>1, <2>2, MappingKeeps DEF Threads
<1>3. CASE MainLoads
  <2>1. handles \subseteq handles' /\ reached \subseteq reached'
    BY <1>3 DEF MainLoads, LoadModule, ChainFails, FindEntryPoints
  <2>2. (\E f : Map(Main, f)) \/ image' = image
    BY <1>3 DEF MainLoads, LoadModule, ChainFails, FindEntryPoints
  <2> QED BY <2>1, <2>2, MappingKeeps DEF Threads
<1>4. CASE MainBoots \/ RegisterOther
  BY <1>4 DEF MainBoots, RegisterOther, StartRuntime, RegisterType, Activate, OnCreate, Surfaces,
     Resume, Resumed, Hold, Follow, loaderVars
<1>5. CASE UNCHANGED vars
  BY <1>5 DEF vars
<1> QED BY <1>1, <1>2, <1>3, <1>4, <1>5 DEF Next, LoaderNext

\* No step of the loader takes back or alters what was given out, for any number of threads
\* and images (sdv_so_dlclose keeps the image, main.c:189).
THEOREM GivenStays == Spec => GivenIsFinal
BY GivenStep, LoaderInvariant, PTL DEF Spec, GivenIsFinal

LEMMA HandlesStep == LoaderInv /\ HandlesAreOwn /\ [Next]_vars => HandlesAreOwn'
<1> SUFFICES ASSUME LoaderInv, HandlesAreOwn, [Next]_vars PROVE HandlesAreOwn'
  OBVIOUS
<1>1. ASSUME NEW t \in Threads, Publish(t) PROVE HandlesAreOwn'
  BY <1>1 DEF Publish, At, HandlesAreOwn, LoaderInv, Loaded
<1>2. handles' = handles \/ \E t \in Threads : Publish(t)
  BY DEF Next, vars, loaderVars, LoaderNext, MainLoads, LoadModule, ChainFails, FindEntryPoints,
     Loading, CtorCalls, Loads, LoadFails, Link, RunInit, Snapshot, Asks, OpenElsewhere, Open,
     Dlsym, Dlclose, Lock, MapFails, MainBoots, RegisterOther, StartRuntime, RegisterType,
     Activate, OnCreate, Surfaces, Resume, Resumed, Hold, Follow
<1> QED BY <1>1, <1>2 DEF HandlesAreOwn

\* The snapshot of the globals that sdv_so_dlopen puts into a handle is that of the image it
\* mapped for it, whoever else loads.
THEOREM HandlesAnswerForTheirs == Spec => []HandlesAreOwn
<1>1. Init => HandlesAreOwn
  BY DEF Init, LoaderInit, HandlesAreOwn
<1> QED BY <1>1, HandlesStep, LoaderInvariant, PTL DEF Spec

-----------------------------------------------------------------------------
(* The table of native methods, and what main() finds in it.                *)

\* What main() calls keeps its place in the table when the managed side has registered all
\* types of its own before: of main()'s ten entries the last one is never called.  The table
\* of the code has 2048 (jni_shim.c:957).
TableSuffices == Cardinality(Others) + 9 <= MaxNatives

\* How many entries main() has made, and which types have one.
Made == IF boot \in {"load", "TypeManager"} THEN 0 ELSE IF boot = "Base" THEN 1
        ELSE IF boot = "MainActivity" THEN 4 ELSE IF boot = "GameView" THEN 7 ELSE 10

Entered == {o \in Others : \E j \in DOMAIN natives : natives[j][1] = o}

\* The methods that are registered.
Names == {"activate", "onCreate", "onPause", "onResume", "keys", "surfaces", "touch", "run"}

Entry == (DOMAIN Methods \cup Others) \X Names

\* The last entry of the name m is that of the class c.
LastOf(m, c) ==
  \E k \in DOMAIN natives :
    /\ natives[k] = <<c, m>>
    /\ \A j \in DOMAIN natives : j > k => natives[j][2] # m

TableInv ==
  /\ natives \in Seq(Entry) /\ Len(natives) <= MaxNatives
  /\ Len(natives) <= Made + Cardinality(Entered)

\* What main() has registered so far is what it will find.
Found ==
  /\ boot \notin {"load", "TypeManager"} => LastOf("activate", "TypeManager")
  /\ boot \notin {"load", "TypeManager", "Base", "MainActivity"} =>
       LastOf("onCreate", "MainActivity") /\ LastOf("onResume", "MainActivity")
  /\ boot \notin {"load", "TypeManager", "Base", "MainActivity", "GameView"} =>
       LastOf("keys", "GameView") /\ LastOf("surfaces", "GameView")

\* What main() has called so far.
Called ==
  /\ called \in [Calls -> DOMAIN Methods \cup {Nothing}]
  /\ called["onCreate"] \in {Nothing, "MainActivity"}
  /\ called["onResume"] \in {Nothing, "MainActivity"}
  /\ boot \in {"create", "surfaces", "resume", "resuming", "hold", "input"} =>
       called["activate"] # Nothing
  /\ boot \in {"surfaces", "resume", "resuming", "hold", "input"} => called["onCreate"] # Nothing
  /\ boot \in {"resume", "resuming", "hold", "input"} => called["surfaces"] # Nothing
  /\ boot \in {"resuming", "hold", "input"} => called["onResume"] # Nothing
  /\ boot \in {"hold", "input"} => looper
  /\ boot \notin {"hold", "input"} => looper = FALSE
  /\ boot = "input" => called["keys"] # Nothing

BootInv ==
  /\ boot \in DOMAIN After \cup {"input"} /\ (boot # "load" => pc[Main] = "running")
  /\ TableInv /\ Found /\ Called

-----------------------------------------------------------------------------
\* RegisterNatives keeps what is there and appends, in order, what there is room for.
LEMMA RegisteredEntries ==
  ASSUME NEW class \in DOMAIN Methods \cup Others, NEW methods \in Seq(Names),
         natives \in Seq(Entry), Len(natives) <= MaxNatives,
         natives' = Registered(class, methods)
  PROVE  /\ natives' \in Seq(Entry) /\ Len(natives') <= MaxNatives
         /\ Len(natives') <= Len(natives) + Len(methods) /\ Len(natives) <= Len(natives')
         /\ \A i \in 1..Len(natives) : natives'[i] = natives[i]
         /\ \A i \in 1..Len(methods) : Len(natives) + i <= MaxNatives =>
              Len(natives) + i <= Len(natives') /\ natives'[Len(natives) + i] = <<class, methods[i]>>
         /\ \A i \in 1..Len(natives') : i > Len(natives) =>
              \E j \in 1..Len(methods) : i = Len(natives) + j /\ natives'[i] = <<class, methods[j]>>
<1> DEFINE new == [i \in DOMAIN methods |-> <<class, methods[i]>>]
           all == natives \o new
<1>0. Len(natives) \in Nat /\ Len(methods) \in Nat /\ DOMAIN methods = 1..Len(methods) /\ MaxNatives \in Nat
  BY BootAssumption
<1>1. new \in Seq(Entry) /\ Len(new) = Len(methods)
  <2>1. \A i \in 1..Len(methods) : methods[i] \in Names /\ new[i] = <<class, methods[i]>> /\ new[i] \in Entry
    BY <1>0 DEF Entry
  <2> QED
    BY <1>0, <2>1
<1>2. \A i \in 1..Len(methods) : new[i] = <<class, methods[i]>>
  OBVIOUS
<1>3. natives' = IF Len(all) <= MaxNatives THEN all ELSE SubSeq(all, 1, MaxNatives)
  BY DEF Registered
<1> HIDE DEF new
<1>4. all \in Seq(Entry) /\ Len(all) = Len(natives) + Len(methods)
  BY <1>1
<1>5. /\ \A i \in 1..Len(natives) : all[i] = natives[i]
      /\ \A i \in 1..Len(methods) : all[Len(natives) + i] = new[i]
  BY <1>1
<1>6. \A i \in 1..Len(methods) : all[Len(natives) + i] = <<class, methods[i]>>
  BY <1>2, <1>5
<1> HIDE DEF all
<1>7. \A i \in 1..Len(all) : i > Len(natives) =>
        \E j \in 1..Len(methods) : i = Len(natives) + j /\ all[i] = <<class, methods[j]>>
  <2> SUFFICES ASSUME NEW i \in 1..Len(all), i > Len(natives)
               PROVE  \E j \in 1..Len(methods) : i = Len(natives) + j /\ all[i] = <<class, methods[j]>>
    OBVIOUS
  <2>1. i - Len(natives) \in 1..Len(methods) /\ i = Len(natives) + (i - Len(natives))
    BY <1>0, <1>4
  <2> QED
    BY <1>6, <2>1
<1>8. /\ natives' \in Seq(Entry)
      /\ Len(natives') = IF Len(all) <= MaxNatives THEN Len(all) ELSE MaxNatives
      /\ \A i \in 1..Len(natives') : natives'[i] = all[i]
  BY <1>0, <1>3, <1>4
<1>9. /\ Len(natives') <= MaxNatives
      /\ Len(natives') <= Len(natives) + Len(methods) /\ Len(natives) <= Len(natives')
      /\ Len(natives') <= Len(all)
  BY <1>0, <1>4, <1>8
<1>10. \A i \in 1..Len(natives) : natives'[i] = natives[i]
  BY <1>0, <1>5, <1>8, <1>9
<1>11. \A i \in 1..Len(methods) : Len(natives) + i <= MaxNatives =>
         Len(natives) + i <= Len(natives') /\ natives'[Len(natives) + i] = <<class, methods[i]>>
  BY <1>0, <1>4, <1>6, <1>8
<1>12. \A i \in 1..Len(natives') : i > Len(natives) =>
         \E j \in 1..Len(methods) : i = Len(natives) + j /\ natives'[i] = <<class, methods[j]>>
  <2> SUFFICES ASSUME NEW i \in 1..Len(natives'), i > Len(natives)
               PROVE  \E j \in 1..Len(methods) : i = Len(natives) + j /\ natives'[i] = <<class, methods[j]>>
    OBVIOUS
  <2>1. i \in 1..Len(all) /\ natives'[i] = all[i]
    BY <1>0, <1>4, <1>8, <1>9
  <2> QED
    BY <1>7, <2>1
<1> QED
  BY <1>8, <1>9, <1>10, <1>11, <1>12

\* jni_find_registered_native finds the last entry of the name.
LEMMA FindsLast == ASSUME NEW m, NEW c, natives \in Seq(Entry), LastOf(m, c) PROVE FindNative(m) = c
<1>1. PICK k \in DOMAIN natives : /\ natives[k] = <<c, m>>
                                  /\ \A j \in DOMAIN natives : j > k => natives[j][2] # m
  BY DEF LastOf
<1>2. DOMAIN natives \subseteq Nat
  OBVIOUS
<1>3. k \in Named(m) /\ \A i \in Named(m) : (\A j \in Named(m) : i >= j) <=> i = k
  BY <1>1, <1>2 DEF Named
<1>4. (CHOOSE i \in Named(m) : \A j \in Named(m) : i >= j) = k
  BY <1>3
<1> QED
  BY <1>1, <1>3, <1>4 DEF FindNative

\* Types are counted by those of the managed side.
LEMMA EnteredFinite == IsFiniteSet(Entered) /\ Cardinality(Entered) \in Nat
                       /\ Cardinality(Entered) <= Cardinality(Others) /\ Cardinality(Others) \in Nat
<1>1. IsFiniteSet(Others) /\ Entered \subseteq Others
  BY BootAssumption DEF Entered
<1> QED
  BY <1>1, FS_Subset, FS_CardinalityType

\* What a registration does to the table, whoever makes it.
Appended(methods, class) ==
  /\ natives' \in Seq(Entry) /\ Len(natives') <= MaxNatives
  /\ Len(natives') <= Len(natives) + Len(methods)
  /\ Entered \subseteq Entered'
  /\ Cardinality(Entered) <= Cardinality(Entered') /\ Cardinality(Entered') \in Nat
  /\ \A m, c : LastOf(m, c) /\ (\A i \in 1..Len(methods) : methods[i] # m) => LastOf(m, c)'
  /\ \A i \in 1..Len(methods) :
       /\ Len(natives) + i <= MaxNatives
       /\ \A j \in 1..Len(methods) : j > i => methods[j] # methods[i]
       => LastOf(methods[i], class)'

\* Every registration appends.
LEMMA Registers ==
  ASSUME TableInv, NEW class \in DOMAIN Methods \cup Others, NEW methods \in Seq(Names),
         natives' = Registered(class, methods)
  PROVE  Appended(methods, class)
<1>1. /\ natives' \in Seq(Entry) /\ Len(natives') <= MaxNatives /\ Len(natives') <= Len(natives) + Len(methods)
      /\ Len(natives) <= Len(natives')
      /\ \A i \in 1..Len(natives) : natives'[i] = natives[i]
      /\ \A i \in 1..Len(methods) : Len(natives) + i <= MaxNatives =>
           Len(natives) + i <= Len(natives') /\ natives'[Len(natives) + i] = <<class, methods[i]>>
      /\ \A i \in 1..Len(natives') : i > Len(natives) =>
           \E j \in 1..Len(methods) : i = Len(natives) + j /\ natives'[i] = <<class, methods[j]>>
  BY RegisteredEntries DEF TableInv
<1>2. /\ DOMAIN natives = 1..Len(natives) /\ DOMAIN natives' = 1..Len(natives')
      /\ Len(natives) \in Nat /\ Len(natives') \in Nat /\ Len(methods) \in Nat
  BY <1>1 DEF TableInv
<1>3. /\ Entered \subseteq Entered'
      /\ Cardinality(Entered) <= Cardinality(Entered') /\ Cardinality(Entered') \in Nat
  <2>1. Entered \subseteq Entered' /\ Entered' \subseteq Others
    BY <1>1, <1>2 DEF Entered
  <2>2. IsFiniteSet(Entered')
    BY <2>1, BootAssumption, FS_Subset
  <2> QED
    BY <2>1, <2>2, FS_Subset, FS_CardinalityType
<1>4. ASSUME NEW m, NEW c, LastOf(m, c), \A i \in 1..Len(methods) : methods[i] # m
      PROVE  LastOf(m, c)'
  <2>1. PICK k \in DOMAIN natives : /\ natives[k] = <<c, m>>
                                    /\ \A j \in DOMAIN natives : j > k => natives[j][2] # m
    BY <1>4 DEF LastOf
  <2>2. k \in DOMAIN natives' /\ natives'[k] = <<c, m>>
    BY <1>1, <1>2, <2>1
  <2>3. \A j \in DOMAIN natives' : j > k => natives'[j][2] # m
    <3> SUFFICES ASSUME NEW j \in 1..Len(natives'), j > k PROVE natives'[j][2] # m
      BY <1>2
    <3>1. CASE j \in 1..Len(natives)
      BY <1>1, <1>2, <2>1, <3>1
    <3>2. CASE j > Len(natives)
      <4>1. PICK i \in 1..Len(methods) : natives'[j] = <<class, methods[i]>>
        BY <1>1, <3>2
      <4> QED
        BY <1>4, <4>1
    <3> QED
      BY <1>2, <3>1, <3>2
  <2> QED
    BY <2>2, <2>3 DEF LastOf
<1>5. ASSUME NEW i \in 1..Len(methods), Len(natives) + i <= MaxNatives,
             \A j \in 1..Len(methods) : j > i => methods[j] # methods[i]
      PROVE  LastOf(methods[i], class)'
  <2>1. Len(natives) + i \in DOMAIN natives' /\ natives'[Len(natives) + i] = <<class, methods[i]>>
    <3>1. Len(natives) + i <= Len(natives') /\ natives'[Len(natives) + i] = <<class, methods[i]>>
      BY <1>1, <1>5
    <3> QED
      BY <1>2, <3>1
  <2>2. \A j \in DOMAIN natives' : j > Len(natives) + i => natives'[j][2] # methods[i]
    <3> SUFFICES ASSUME NEW j \in 1..Len(natives'), j > Len(natives) + i PROVE natives'[j][2] # methods[i]
      BY <1>2
    <3>1. j > Len(natives)
      BY <1>2
    <3>2. PICK e \in 1..Len(methods) : j = Len(natives) + e /\ natives'[j] = <<class, methods[e]>>
      BY <1>1, <3>1
    <3>3. e > i
      BY <1>2, <3>2
    <3> QED
      BY <1>5, <3>2, <3>3
  <2> QED
    BY <2>1, <2>2 DEF LastOf
<1> QED
  BY <1>1, <1>3, <1>4, <1>5 DEF Appended

-----------------------------------------------------------------------------
\* main() registers its types while there is room for what it will call.
LEMMA RegisterTypeInv == ASSUME TableSuffices, BootInv, RegisterType PROVE BootInv'
<1>1. /\ boot \in {"TypeManager", "Base", "MainActivity", "GameView"} /\ boot' = After[boot]
      /\ natives' = Registered(boot, Methods[boot]) /\ UNCHANGED <<called, looper, pc>>
  BY DEF RegisterType, Methods, loaderVars
<1>2. TableInv /\ Len(natives) \in Nat /\ MaxNatives \in Nat
  BY BootAssumption DEF BootInv, TableInv
<1>3. DOMAIN Methods = {"TypeManager", "Base", "MainActivity", "GameView"}
  BY DEF Methods
<1>4. CASE boot = "TypeManager"
  <2> DEFINE ms == <<"activate">>
  <2>1. boot' = "Base" /\ natives' = Registered("TypeManager", ms)
    BY <1>1, <1>4 DEF After, Methods
  <2>2. ms \in Seq(Names) /\ Len(ms) = 1 /\ ms[1] = "activate"
    BY DEF Names
  <2> HIDE DEF ms
  <2>3. Appended(ms, "TypeManager")
    BY <1>2, <1>3, <2>1, <2>2, Registers
  <2>4. TableInv'
    BY <1>2, <1>4, <2>1, <2>2, <2>3, EnteredFinite DEF TableInv, Made, Appended
  <2>5. Len(natives) + 1 <= MaxNatives
    BY <1>2, <1>4, EnteredFinite DEF TableInv, Made, TableSuffices
  <2>6. LastOf(ms[1], "TypeManager")'
    BY <1>2, <2>2, <2>3, <2>5 DEF Appended
  <2> QED
    BY <1>1, <1>4, <2>1, <2>2, <2>4, <2>6 DEF BootInv, Found, Called, After
<1>5. CASE boot = "Base"
  <2> DEFINE ms == <<"onCreate", "onPause", "onResume">>
  <2>1. boot' = "MainActivity" /\ natives' = Registered("Base", ms)
    BY <1>1, <1>5 DEF After, Methods
  <2>2. ms \in Seq(Names) /\ Len(ms) = 3 /\ ms[1] = "onCreate" /\ ms[2] = "onPause" /\ ms[3] = "onResume"
    BY DEF Names
  <2> HIDE DEF ms
  <2>3. Appended(ms, "Base")
    BY <1>2, <1>3, <2>1, <2>2, Registers
  <2>4. TableInv'
    BY <1>2, <1>5, <2>1, <2>2, <2>3, EnteredFinite DEF TableInv, Made, Appended
  <2>5. LastOf("activate", "TypeManager")'
    <3>1. \A i \in 1..Len(ms) : ms[i] \notin {"activate"}
      BY <2>2
    <3> QED
      BY <1>5, <2>3, <3>1 DEF Appended, BootInv, Found
  <2> QED
    BY <1>1, <1>5, <2>1, <2>2, <2>4, <2>5 DEF BootInv, Found, Called, After
<1>6. CASE boot = "MainActivity"
  <2> DEFINE ms == <<"onCreate", "onResume", "onPause">>
  <2>1. boot' = "GameView" /\ natives' = Registered("MainActivity", ms)
    BY <1>1, <1>6 DEF After, Methods
  <2>2. ms \in Seq(Names) /\ Len(ms) = 3 /\ ms[1] = "onCreate" /\ ms[2] = "onResume" /\ ms[3] = "onPause"
    BY DEF Names
  <2> HIDE DEF ms
  <2>3. Appended(ms, "MainActivity")
    BY <1>2, <1>3, <2>1, <2>2, Registers
  <2>4. TableInv'
    BY <1>2, <1>6, <2>1, <2>2, <2>3, EnteredFinite DEF TableInv, Made, Appended
  <2>5. LastOf("activate", "TypeManager")'
    <3>1. \A i \in 1..Len(ms) : ms[i] \notin {"activate"}
      BY <2>2
    <3> QED
      BY <1>6, <2>3, <3>1 DEF Appended, BootInv, Found
  <2>6. Len(natives) + 2 <= MaxNatives
    BY <1>2, <1>6, EnteredFinite DEF TableInv, Made, TableSuffices
  <2>7. LastOf(ms[1], "MainActivity")' /\ LastOf(ms[2], "MainActivity")'
    BY <1>2, <2>2, <2>3, <2>6 DEF Appended
  <2> QED
    BY <1>1, <1>6, <2>1, <2>2, <2>4, <2>5, <2>7 DEF BootInv, Found, Called, After
<1>7. CASE boot = "GameView"
  <2> DEFINE ms == <<"keys", "surfaces", "touch">>
  <2>1. boot' = "activate" /\ natives' = Registered("GameView", ms)
    BY <1>1, <1>7 DEF After, Methods
  <2>2. ms \in Seq(Names) /\ Len(ms) = 3 /\ ms[1] = "keys" /\ ms[2] = "surfaces" /\ ms[3] = "touch"
    BY DEF Names
  <2> HIDE DEF ms
  <2>3. Appended(ms, "GameView")
    BY <1>2, <1>3, <2>1, <2>2, Registers
  <2>4. TableInv'
    BY <1>2, <1>7, <2>1, <2>2, <2>3, EnteredFinite DEF TableInv, Made, Appended
  <2>5. LastOf("activate", "TypeManager")' /\ LastOf("onCreate", "MainActivity")' /\ LastOf("onResume", "MainActivity")'
    <3>1. \A i \in 1..Len(ms) : ms[i] \notin {"activate", "onCreate", "onResume"}
      BY <2>2
    <3> QED
      BY <1>7, <2>3, <3>1 DEF Appended, BootInv, Found
  <2>6. Len(natives) + 2 <= MaxNatives
    BY <1>2, <1>7, EnteredFinite DEF TableInv, Made, TableSuffices
  <2>7. LastOf(ms[1], "GameView")' /\ LastOf(ms[2], "GameView")'
    BY <1>2, <2>2, <2>3, <2>6 DEF Appended
  <2> QED
    BY <1>1, <1>7, <2>1, <2>2, <2>4, <2>5, <2>7 DEF BootInv, Found, Called, After
<1> QED
  BY <1>1, <1>4, <1>5, <1>6, <1>7

\* A type of the managed side enters with a method that main() does not call.
LEMMA RegisterOtherInv == ASSUME BootInv, RegisterOther PROVE BootInv'
<1> DEFINE ms == <<"run">>
<1>1. PICK o \in Others : /\ \A j \in DOMAIN natives : natives[j][1] # o
                          /\ natives' = Registered(o, ms)
  BY DEF RegisterOther
<1>2. UNCHANGED <<boot, called, looper, pc>>
  BY DEF RegisterOther, loaderVars
<1>3. ms \in Seq(Names) /\ Len(ms) = 1 /\ ms[1] = "run"
  BY DEF Names
<1> HIDE DEF ms
<1>4. TableInv /\ Len(natives) \in Nat /\ MaxNatives \in Nat
  BY BootAssumption DEF BootInv, TableInv
<1>5. Appended(ms, o)
  BY <1>1, <1>3, <1>4, Registers
<1>6. \A m, c : m # "run" /\ LastOf(m, c) => LastOf(m, c)'
  BY <1>3, <1>5 DEF Appended
<1>7. Found'
  BY <1>2, <1>6 DEF BootInv, Found
<1>8. Len(natives') <= Len(natives) \/ Cardinality(Entered') >= Cardinality(Entered) + 1
  <2>1. CASE Len(natives) + 1 <= MaxNatives
    <3>1. LastOf(ms[1], o)'
      BY <1>3, <1>4, <1>5, <2>1 DEF Appended
    <3>2. o \in Entered' /\ o \notin Entered
      BY <1>1, <3>1 DEF LastOf, Entered
    <3>3. Entered \cup {o} \subseteq Entered' /\ IsFiniteSet(Entered')
      <4>1. Entered' \subseteq Others
        BY DEF Entered
      <4> QED
        BY <1>5, <3>2, <4>1, BootAssumption, FS_Subset DEF Appended
    <3>4. Cardinality(Entered \cup {o}) = Cardinality(Entered) + 1
      BY <3>2, EnteredFinite, FS_AddElement
    <3> QED
      BY <3>3, <3>4, FS_Subset
  <2>2. CASE ~(Len(natives) + 1 <= MaxNatives)
    <3>1. Len(natives') \in Nat
      BY <1>5 DEF Appended
    <3> QED
      BY <1>4, <1>5, <2>2, <3>1 DEF Appended
  <2> QED
    BY <2>1, <2>2
<1>9. TableInv'
  BY <1>2, <1>3, <1>4, <1>5, <1>8, EnteredFinite DEF TableInv, Made, Appended
<1> QED
  BY <1>2, <1>7, <1>9 DEF BootInv, Called

\* A call reaches the last handler of its name.
LEMMA CallsInv == ASSUME BootInv, Activate \/ Surfaces \/ OnCreate \/ Resume \/ Resumed \/ Hold
  PROVE  BootInv'
<1> DEFINE Late == {"activate", "create", "surfaces", "resume", "resuming", "hold", "input"}
<1>1. UNCHANGED <<natives, pc>> /\ boot \in Late /\ boot' \in Late
  BY DEF Activate, Surfaces, OnCreate, Resume, Resumed, Hold, Follow, loaderVars, After
<1>2. TableInv' /\ Found'
  BY <1>1 DEF BootInv, TableInv, Made, Entered, Found, LastOf
<1>3. /\ FindNative("activate") = "TypeManager" /\ FindNative("surfaces") = "GameView"
      /\ FindNative("onCreate") = "MainActivity" /\ FindNative("onResume") = "MainActivity"
      /\ FindNative("keys") = "GameView"
  BY <1>1, FindsLast DEF BootInv, TableInv, Found
<1>4. /\ Nothing \notin {"TypeManager", "Base", "MainActivity", "GameView"}
      /\ DOMAIN Methods = {"TypeManager", "Base", "MainActivity", "GameView"}
  BY BootAssumption DEF Methods
<1>5. boot' \in DOMAIN After \cup {"input"} /\ pc'[Main] = "running"
  BY <1>1 DEF BootInv, After
<1>6. Called
  BY DEF BootInv
<1>7. CASE Activate
  <2>1. /\ boot = "activate" /\ boot' = "create" /\ looper' = looper
        /\ called' = [called EXCEPT !["activate"] = "TypeManager"]
    BY <1>3, <1>7 DEF Activate, Follow, Reaches, After
  <2> QED
    BY <1>2, <1>4, <1>5, <1>6, <2>1 DEF BootInv, Called, Calls
<1>8. CASE OnCreate
  <2>1. /\ boot = "create" /\ boot' = "surfaces" /\ looper' = looper
        /\ called' = [called EXCEPT !["onCreate"] = "MainActivity"]
    BY <1>3, <1>8 DEF OnCreate, Follow, Reaches, After
  <2> QED
    BY <1>2, <1>4, <1>5, <1>6, <2>1 DEF BootInv, Called, Calls
<1>9. CASE Surfaces
  <2>1. /\ boot = "surfaces" /\ boot' = "resume" /\ looper' = looper
        /\ called' = [called EXCEPT !["surfaces"] = "GameView"]
    BY <1>3, <1>9 DEF Surfaces, Follow, Reaches, After
  <2> QED
    BY <1>2, <1>4, <1>5, <1>6, <2>1 DEF BootInv, Called, Calls
<1>10. CASE Resume
  <2>1. /\ boot = "resume" /\ boot' = "resuming"
        /\ called' = [called EXCEPT !["onResume"] = "MainActivity"] /\ looper' = looper
    BY <1>3, <1>10 DEF Resume, Follow, Reaches, After
  <2> QED
    BY <1>2, <1>4, <1>5, <1>6, <2>1 DEF BootInv, Called, Calls
<1>11. CASE Hold
  <2>1. /\ boot = "hold" /\ boot' = "input" /\ called' = [called EXCEPT !["keys"] = "GameView"]
        /\ looper' = looper
    BY <1>3, <1>11 DEF Hold, Follow, Reaches, After
  <2> QED
    BY <1>2, <1>4, <1>5, <1>6, <2>1 DEF BootInv, Called, Calls
<1>12. CASE Resumed
  <2>1. /\ boot = "resuming" /\ boot' = "hold" /\ called' = called
        /\ looper' = TRUE
    BY <1>6, <1>12 DEF Resumed, Called, After
  <2> QED
    BY <1>2, <1>5, <1>6, <2>1 DEF BootInv, Called
<1> QED
  BY <1>7, <1>8, <1>9, <1>10, <1>11, <1>12

\* main() is never taken from its place by the loader once the runtime runs.
LEMMA MainKeepsRunning ==
  ASSUME LoaderTypeOK, LoaderNext, pc[Main] = "running" PROVE pc'[Main] = "running"
<1> USE DEF Goto, At, LoaderTypeOK, Threads
<1>1. Main \in Threads /\ \A w \in Workers : w # Main /\ w \in Threads
  BY LoaderAssumption
<1>2. CASE MainLoads
  BY <1>2 DEF MainLoads, LoadModule, ChainFails, FindEntryPoints
<1>3. CASE \E t \in Threads : Loading(t) \/ CtorCalls(t)
  <2>1. PICK t \in Threads : Loading(t) \/ CtorCalls(t)
    BY <1>3
  <2>2. t # Main
    BY <2>1 DEF Loading, Loads, LoadFails, Link, RunInit, Snapshot, Publish, CtorCalls
  <2> QED
    BY <1>1, <2>1, <2>2 DEF Loading, Loads, LoadFails, Link, RunInit, Snapshot, Publish, CtorCalls
<1>4. CASE \E t \in Workers : Asks(t) \/ Lock(t) \/ MapFails(t)
  BY <1>1, <1>4 DEF Asks, OpenElsewhere, Open, Dlsym, Dlclose, Lock, MapFails, loaderVars
<1> QED
  BY <1>2, <1>3, <1>4 DEF LoaderNext

\* BootInv is inductive, beside the loader's types.
LEMMA BootInit == Init => BootInv
<1> SUFFICES ASSUME Init PROVE BootInv
  OBVIOUS
<1>1. natives \in Seq(Entry) /\ Len(natives) = 0
  BY DEF Init
<1>2. TableInv
  BY <1>1, EnteredFinite, BootAssumption DEF Init, TableInv, Made
<1>3. boot = "load" /\ looper = FALSE
  BY Zenon DEF Init
<1> QED
  BY <1>2, <1>3 DEF Init, BootInv, After, Found, Called, Calls

LEMMA BootStep == ASSUME TableSuffices, LoaderTypeOK, BootInv, [Next]_vars PROVE BootInv'
<1>1. CASE LoaderNext /\ UNCHANGED bootVars
  BY <1>1, MainKeepsRunning
  DEF bootVars, BootInv, TableInv, Made, Entered, Found, LastOf, Called
<1>2. CASE StartRuntime
  <2>1. boot = "load" /\ boot' = "TypeManager" /\ pc'[Main] = "running"
    BY <1>2, LoaderAssumption DEF StartRuntime, At, Goto, LoaderTypeOK, Threads, BootInv, After
  <2>2. UNCHANGED <<natives, called, looper>>
    BY <1>2 DEF StartRuntime
  <2> QED
    BY <2>1, <2>2 DEF BootInv, TableInv, Made, Entered, Found, Called, After
<1>3. CASE UNCHANGED vars
  BY <1>3 DEF vars, loaderVars, bootVars, BootInv, TableInv, Made, Entered, Found, LastOf, Called
<1> QED
  BY <1>1, <1>2, <1>3, RegisterTypeInv, RegisterOtherInv, CallsInv DEF Next, MainBoots

\* Whatever the managed side registers between main()'s own types, main() creates and resumes
\* the concrete activity and not its base, and the input loop runs only when everything
\* before it was called (jni_shim.c:1887).
THEOREM HandlersAreConcrete == ASSUME TableSuffices PROVE Spec => []ConcreteHandlers
<1>1. BootInv => ConcreteHandlers
  <2> SUFFICES ASSUME BootInv PROVE ConcreteHandlers
    OBVIOUS
  <2>1. Nothing # "MainActivity"
    BY BootAssumption DEF Methods
  <2>2. looper => boot \in {"hold", "input"}
    BY DEF BootInv, Called
  <2>3. boot = "input" => \A m \in Calls : called[m] # Nothing
    BY DEF BootInv, Called, Calls
  <2>4. boot \in {"hold", "input"} => called["onResume"] = "MainActivity"
    BY <2>1 DEF BootInv, Called
  <2>5. boot = "input" => looper
    BY DEF BootInv, Called
  <2> QED
    BY <2>2, <2>3, <2>4, <2>5 DEF BootInv, Called, ConcreteHandlers
<1>2. LoaderTypeOK /\ BootInv /\ [Next]_vars => BootInv'
  BY BootStep
<1>3. LoaderInv => LoaderTypeOK
  BY DEF LoaderInv
<1> QED
  BY <1>1, <1>2, <1>3, BootInit, LoaderInvariant, PTL DEF Spec
=============================================================================
