# Formal model of the Stardew Valley port

The repository runs the Android build of Stardew Valley on Linux AArch64: a C program
(`src/src/`) loads the bionic libraries of the APK and stands in for Android around them, a
Python installer (`src/nxextract.py`, `src/tools/prepare_stardew_data.py`) makes the game
data from the player's package, and shell scripts (`src/run.sh`, `src/run-extractor.sh`)
start first the one, then the other. The modules here state, model-check and partly prove
what these programs promise where several threads, several launches or an interruption make
that hard to see. Paths are relative to the repository root, which is `src/`.

Every module names the code it translates; the `map` of `PROJECT.json` gives the lines of
each definition, its `hazards` what is hard to test and where.

## 1. Inventory

| Component | State it keeps | Operations | Modelled in |
|---|---|---|---|
| POSIX semaphore shim, `imports.gen.c:860-938` | the 32-bit word in the caller's `sem_t` | init, post, wait, trywait, timedwait | `Semaphore`, `FutexSemaphore` |
| Install transaction, `nxextract.py:2176-2413` | game directory, `stage/`, `backup/`, `transaction.json`, install marker | commit, rollback, recover, finish, check, adopt | `RecoverableSwap`, `NxTransaction` |
| Data preparation and resume, `run-extractor.sh`, `nxextract.py:1867-2173, 2496-2705`, `prepare_stardew_data.py` | the assembly store, the sentinel `.stardew-data.json`, hook marker, `state.json` | prepare the live directory, resume the stage, run the hook, validate, commit | `NxInstall` |
| Pthread bridge, `pthread_bridge.c` | a pointer in each bionic object, `g_lock`, once controls | mutex, once; conditions, read-write locks | `PthreadBridge`, `WaitBridge` |
| Input loop, `main.c:536-764`, zoom `main.c:381-489` | the previous keys, the cursor, the role of R3, the zoom state | poll, cursor, R3, zoom, disconnect, hide, key edges, exit | `InputLoop` |
| Dynamic loader, `main.c:60-193, 818-840`, `so_util.c`; import table, `imports.gen.c:607-770` | the image at hand in globals, handles with their snapshots, which `dl*` call goes where | map, load, link, construct, snapshot, dlopen, dlsym, dlclose | `SoLoader` |
| Bootstrap, `main.c:842-1140` | how far the start-up is, the natives registered, the looper gate | the chain of modules, `JNI_OnLoad`, the activity's life | `Bootstrap` |
| EGL bridge, `sdv_egl_bridge.c`, and the `egl*` calls of `jni_shim.c` | one SDL window and context, surfaces, Java payloads | init ladder, create, make current, swap, destroy, terminate | `EglBridge` |
| JNI shim, `jni_shim.c` | arrays with reference counts in reused slots, ids, objects with payloads, singletons, streams | new, retain, release, find, access; register; open, read, skip, close | `RefHeap`, `JniArrays`, `JniObjects`, `JniStreams`, `JniShim` |
| Assembly store patcher, `prepare_stardew_data.py:375-516` | slots of fixed capacity in one file | recognise, patch, write | its outcome, in `NxInstall` |
| Source discovery and plan, `nxextract.py:900-1735` | none | candidate groups, ABI choice, plan | its outcome, in `NxInstall` |
| Bionic shims and signals, launcher, progress file and UI, patch tools, packaging, unbuilt sources | little or none | | section 9 |

**How they interact.** `run.sh` calls `run-extractor.sh` in the foreground and starts the game
if it returns 0, so installer and game never run together; all they share is the disk. In the
game process, the main thread builds the world (loader, JNI, EGL) and then becomes the input
loop; the Mono runtime and the game bring their own threads, which call back into the shims
at any time. The shims share state with the input loop at three places: the touch and key
callbacks, the cursor that the next buffer swap draws, and the game's zoom level, which the
loop writes through Mono.

**What is hard, and what makes each part correct.**

- *Semaphore.* Any number of threads between the load, the compare-and-swap and the futex
  call. Correct when tokens are neither lost nor made up, when no thread sleeps beside a token
  that nobody will take or wake it for, and when timed calls keep their deadline.
- *Install transaction.* Power loss between any two of its renames and journal writes, and
  again in the recovery from that. Correct when the game starts on a whole payload only, when
  there is one commit point, when the earlier payload survives until it, and when another
  launch always gets on.
- *Preparation.* Three things vouch for data that they do not contain: the install marker, the
  hook marker and the sentinel. Correct when what they vouch for is still there on every
  path: resumed, updated from an earlier release, interrupted, adopted.
- *Pthread bridge.* The first use of a static mutex, condition or lock by several threads at
  once, before which it is a magic number and after which a pointer. Correct when there is one
  glibc object behind each bionic one: when a mutex excludes, a signal reaches those who wait, a
  writer is alone, and `pthread_once` runs its callback once without holding anybody else up.
- *Input loop.* The order of stick, R3, disconnects, timers and exit. Correct when the game
  sees whole touches, under a cursor that the player sees, and when nothing stays pressed.
- *Loader and bootstrap.* One set of globals for every image, threads of the runtime that ask
  for components, constructors that ask for them in the middle of a load. Correct when each
  load works on its own image, when a symbol that was handed out stays live, when every request
  is answered, and when `main()` calls the handlers of the concrete activity.
- *EGL bridge.* One context and several threads; Java payloads that are read before the bridge
  is entered and written after it. Correct when nothing is lost on the ladder or at the end, when
  a thread has the context exactly if it was told so, and when a presented frame is opaque, has
  the arrow as last asked for, and leaves the game's GL state alone.
- *JNI shim.* Slots that are used again while other threads hold references, tables that run
  full, what is made at the first request. Correct when a reference designates the array it was
  made for until it is deleted, and when ids and singletons stay what they were.
- *Asset streams.* The reads that the shim turns into seeks. Correct when the game never looks at
  a byte that was not read, and reaches the end where the file or its metadata ends.

## 2. Modules

| Module | What it is |
|---|---|
| `Semaphore` | the counting semaphore: what `sem_post`, `sem_wait`, `sem_trywait` and `sem_timedwait` promise |
| `FutexSemaphore` | the shim, each shared access a step; `ImplementsSemaphore` maps it to `Semaphore` |
| `FutexSemaphore_proofs` | its theorems |
| `RecoverableSwap` | what a transaction of the installer promises: paths exchanged whole and in order, all of it taken back or none |
| `NxTransaction` | commit, recovery and rollback, each rename, removal and write a step; `ImplementsSwap` maps it to `RecoverableSwap` |
| `NxTransaction_proofs` | its theorems |
| `NxInstall` | one launch around the transaction: preparing, resuming, the hook, adopting; `ImplementsTransaction` takes its transaction from `RecoverableSwap` |
| `NxInstall_proofs` | its theorems |
| `PosixSync` | what POSIX promises of a mutex, once control, condition and read-write lock: each call takes effect in one step |
| `PthreadBridge` | one bionic mutex and one once control, with `g_lock` |
| `WaitBridge` | extends it: a condition in a monitor, or a read-write lock; `CallsAreAtomic` maps both to `PosixSync` |
| `WaitBridge_proofs` | the theorems of both |
| `InputLoop` | one tick of the loop in steps, the game's reaction beside it |
| `InputLoop_proofs` | its theorems |
| `SoLoader` | the image globals, the chain of `main()`, `dlopen` from other threads |
| `Bootstrap` | extends it: the start-up around the chain, and the registered natives |
| `Bootstrap_proofs` | the theorems of both |
| `EglBridge` | ladder, context, surfaces, frames |
| `EglBridge_proofs` | its theorems |
| `RefHeap` | what JNI promises of array references |
| `JniArrays` | the table of arrays; `ImplementsRefHeap` maps it to `RefHeap` |
| `JniObjects` | ids, objects with payloads, what is made once |
| `JniStreams` | extends it: asset streams, each the payload of an object |
| `JniShim` | arrays, objects and streams together: a read fills an array |
| `JniShim_proofs` | its theorems and those of its parts |
| `MC...` | instances for TLC |

### FutexSemaphore

`count` is the word at offset 0 of the `sem_t`. For each thread, `pc` is its place in the C
function, `seen` the local `v`, and `deadline` what the code can tell of a `timespec`: ahead,
passed or malformed. `SemPostAdd` and `SemPostWake` are the two halves of `sdv_sem_post`;
`WaitLoad`, `WaitCas` and `WaitFutex` the loop of `sdv_sem_wait`; the `Timed` actions the loop
of `sdv_sem_timedwait`, whose lost compare-and-swap falls through to the deadline test where
that of `sdv_sem_wait` goes round again. The kernel is part of the model: `FUTEX_WAIT`
compares and sleeps in one step, `FUTEX_WAKE` picks any one sleeper, and a sleeper may return
without a wake. `posted` and `acquired` are history.

### NxTransaction

`dest`, `stage` and `backup` give for every commit path what lies there: nothing, the earlier
payload, the new one or a half-removed tree. `journal` and `marker` are the two files. These
five are the disk and survive a crash; `pc`, `pos`, `log` and `raised` are the memory of the
installer. `MoveToBackup` ... `LogInstall` are the loop of `commit_stage`; `UndoInstalled` ...
`UndoDropJournal` are `rollback_transaction`; `Recover` decides between finishing and undoing.
`Crash` may strike at every point in `CrashAt`; a tree removal that it cuts short leaves any
part of the tree (`HalfRemoved`). `FaultInTry` and `FaultOutside` are a failing system call
inside and outside the `try` block of `commit_stage`. `cut` is history: it notes the first
interruption in a gap of the journal, or a failing write of the published journal.

`RecoverableSwap` is the promise of `README.md:325` ("one recoverable transaction") without
journal and renames: a transaction begins when nothing staged is missing, exchanges path after
path, and either marks the directory or gives back what was there, the stage included (`View`);
between transactions the stage is filled, or dropped as a whole. `NxTransaction` maps to it by
what the journal accounts for (`Account`): a path counts as exchanged with the rename that
installs it, a path that is only in the backup counts as still in place, and a rollback counts as
made with the decision to make it, so `DestView` and `StageView` are what it will have restored.
`ImplementsSwap` speaks of the steps up to the first gap (`cut' = "none"`); behind one the
journal is wrong about the disk and the promise is not kept, as `NxBackupGap` shows.

### NxInstall

The same disk at a coarser grain (a rename with its journal write is one step, and so is a
rollback), but with the contents told apart that `NxTransaction` does not care about: the
store in `libs/` is raw, patched by an earlier release, foreign or final; the sentinel is
absent, the earlier release's or this one's. `Launch`, `PrepareLive...` are
`run-extractor.sh`; `Check`, `Adopt`, `Plan`, `Extract...`, `Hook...`, `ValidateStage`, `Swap`
and `Publish` are `install_command` in its order. `FullValid`, `FastValid`, `Checkpoint` and
`Recognised` say what the code's validations look at and, above all, what they do not. `Init`
is every state an update of the port may find. Its swap, rollback and publication are steps of
`RecoverableSwap`, with the preparation of the live directory as the only thing that may be done
to a directory in place (`Prepared`); so the coarse module and the detailed one have one contract.

### PthreadBridge and WaitBridge

`slot` is the first word of the bionic mutex: 0 or a static magic, or a pointer. A call
takes `FastPath`, or `Lazy`, `LazyOut` and `Reread`, to its glibc mutex, and `Enter` is the call
into glibc. A section under `g_lock` is one step, but for the first use, whose stores other
threads read without the lock. `Destroy` and `StoreInit` are `b_mutex_destroy` and
`b_mutex_init`. `Once` is the test of the control; the callback runs without `g_lock` and waits
until another thread gets through a lock, which is the case its comment is about. In `WeakSpec`
the initialising stores of a mutex become visible later than its pointer (`late`), as AArch64
allows for plain stores.

`WaitBridge` has the same look-up for conditions and read-write locks (`LooksUp`, `Makes`,
`Rereads`); `use` says which of the three kinds a behaviour is about, since they share no state.
The condition is used as programs use one: waiters take items under a mutex and wait while
there are none, posters signal or broadcast after they have released it. `Makers` destroy the
condition and initialise it again when nobody is at it, as POSIX asks.

`PosixSync` has no words, pointers or first uses: a thread is out of any call, in one, or asleep,
and a call has its effect in one step that also ends it (a signal wakes a sleeper if there is one,
a trylock fails only if another thread has the mutex). `Calling` maps to it: a call begins with the
entry into a function of the bridge and takes effect with the call into glibc. Look-ups, first
uses, destructions and initialisations change nothing there.

### InputLoop

`Poll`, `MoveCursor`, `R3`, `ZoomBegin` and `ZoomStep` (or `Gone` without a controller), `Hide` and
`SendKeys` are the parts of one tick in the order of the code; between two of them the game may
boot, its menu may change the zoom, or a signal may arrive. `ZoomBegin` is the getter and `ZoomStep`
the setter of a press, and what the game sets between them it sets during the press (`Pressed`).
`held` and `touch` are the game's belief, built from the events sent to it; a stream of touch
events that makes no sense puts it into `"broken"`.

### SoLoader and Bootstrap

`cur` and `copy` are the globals of `so_util.c`: the image that `so_relocate`, `so_resolve` and
`so_execute_init_array` work on, and whose file copy is still there. `mine` is what each thread
believes it loads. `Loads`, `Link`, `RunInit` and `Snapshot` are the order of `load_module` and of
`sdv_so_dlopen`; the first runs on the main thread without a lock, the second under `lock` with
the thread-local `active`. `CtorCalls` is a constructor that opens a module in the middle of a
load. `handles` live for ever; `reached` notes images of which somebody has a symbol.

`Bootstrap` continues on the main thread: `StartRuntime` is `JNI_OnLoad`, from which on the workers
exist, `RegisterType` the types whose methods `main()` registers, and `Activate` ... `Hold` the
calls that it makes, each to whatever `FindNative` finds last in `natives`. `Resume` is the call of
`n_onResume` and `Resumed` its return, which lets the looper be seen; the workers go on in between.

### EglBridge

`window`, `context` and `owned` are the globals, `payload` and `surface` what the Java objects carry,
`sdl` and `current` what SDL really has. The steps of the main thread through `sdv_egl_init` are
`InitStart`, `MakeWindow`, `MakeContext`, `Accepts`, `Rejects` and `Release`. A call of a game thread
is two or three steps: `Ask...` reads the payload (`eglMakeCurrent` reads the surface's and then the
context's, a step each), the next is the function of the bridge, `Clear...` the payload's reset. A
frame is `gl` with the back buffer's alpha and arrow; a swap is `PreparePresent`, `DrawCursor` and
the exchange of buffers. `wanted` is what the game last set. `Exit` is the `_exit` of `main()`, which
stops every thread where it is.

### JniArrays, JniObjects, JniStreams, JniShim

`slot` and `used` are the table of arrays; a peer is a place in managed code that holds one
reference (`token`). Accessors take no lock, so `Find`, `Touch` and `Finish` are steps of their
own. An array's identity (`id`) is history: it tells a slot's successive arrays apart, which the
code does not, and `designated` maps a peer's token to it.

`JniObjects` keeps the registry of ids with its limit, the object table that hands out a shared
token when full, and singletons with and without a lock. A stream (`stream`) is the payload of an
object; its `user` counts what it was given, in one of three ways: the constructor's copy of the
sound bank, a track's discard up to its offset in blocks of any size up to the largest, or plain
reads. `makes` says which tables a
behaviour fills, since arrays, objects and ids share no state; streams join the first two.

## 3. Runs

| Run | Shows |
|---|---|
| `Sem` | five threads with posts, waits, trywaits and timed waits: `TypeOK`, `TokenConservation`, `NoStrandedToken` but for a timed waiter that gives up, `TokenReachesSleeper`, `TimedCallsReturn`, and the refinement of `Semaphore` |
| `NxCrash` | two crashes at any point and one failing call at any point: `ReadyMeansComplete`, `MarkerCommits`, `KeptUnlessCut`, `AtomicSwap`, `EventuallyReady`, and the refinement of `RecoverableSwap`, `ImplementsSwap` |
| `NxPrepared` | every earlier install and stage, two crashes and one failure anywhere: `PreparedUnlessCut`, `SentinelVouches`, `RejectedNotStarted`, `Prepares` |
| `Bridge` | three threads at a static mutex with destroy and init, at a once control, at a condition and at a read-write lock: `MutualExclusion`, `NoUseAfterFree`, `OnceOnce`, `OnceReturns`, `NoLostSignal`, and the refinement of `PosixSync`, `CallsAreAtomic` |
| `Input` | every input with disconnects, stalls and exits, against a game that changes its own zoom: `TouchWellFormed`, `TouchAtTip`, `R3OneRole`, `GoneReleasesAll`, `ZoomKeepsMenuChange`, `CursorHides` |
| `So` | the start-up, then two threads that open components, with constructors that open more, failing loads and a full table of natives: `OwnImage`, `SymbolsLive`, `ConcreteHandlers`, `OpenReturns` |
| `Egl` | a ladder with failures, then two threads over one context and two surfaces, with destruction and shutdown: `NothingLeaks`, `HolderKnows`, `PresentsCleanly` |
| `Jni` | two holders over a table of two slots, a registry and an object table that run full, two streams: `RefsAccounted`, `TokensStable`, `BytesAreReal`, `StreamsReachable`, and the refinement of `RefHeap` |

Four runs find a property violated, each a disagreement with the repository's own words
(`findings` of `PROJECT.json`):

| Run | What happens |
|---|---|
| `SemTimedStrands` | Two posts wake two of three sleepers. The timed one loses its compare-and-swap, finds its deadline passed and returns, its wake is spent, and a token lies beside the third sleeper. |
| `NxBackupGap` | Power loss between `os.rename(destination, previous)` and the journal write: the next launch rolls back by the journal, which does not know of the backup, and deletes it. |
| `NxHookSkipped` | Power loss behind the hook marker: the resumed run extracts the raw store over the patched one and then skips the hook. |
| `BridgeWeakMemory` | The unlocked first check of `mtx_real` lets a thread lock a mutex whose initialisation arrives later and frees it for a second thread. |

The properties of the passing runs except just those interruptions, by name (`cut`), and
nothing more. Four more disagreements came up that no run is spent on:

- A rollback is not idempotent (`nxextract.py:2281-2285`): cut and run again, it removes a payload
  that it had restored, since the journal still lists the path as installed and the new payload is
  already back on the stage. `NxBackupGap` shows it with `CrashAt = {"install", "undoBackup"}` and `MaxCrashes = 2`.
- If the write of the published journal fails behind the install marker (`:2401`), the payload
  is rolled back and the marker stays, and the next launch accepts it by its fast check.
  `ReadyMeansComplete` without `cut # "marker"` fails in `NxCrash`.
- Power loss inside the swap over a store that the script rejects: the next launch prepares
  the half-swapped directory before the rollback (`run-extractor.sh:19`), and the sentinel it
  writes then vouches for the rejected store. `RejectedNotStarted` without `cut # "swap"` fails.
- A controller that goes away during a D-pad press and returns pressed goes on from the old
  zoom level (`main.c:727`): the loop does not count the disconnect as a release, and
  `ZoomKeepsMenuChange` therefore speaks of a released D-pad only.

Smaller ones, met while reading:

- `Plan` drops a stage of another recipe digest, so the stage of v1.1.2 is not resumed by a newer
  release as `README.md:357-359` says.
- `b_mutex_destroy` passes the magic word of a static mutex that was never locked to `free`
  (`pthread_bridge.c:92`). `b_cond_init` ignores its attribute and takes `CLOCK_MONOTONIC`, and a
  static condition gets the same clock whatever bionic would use.
- After `eglDestroyContext`, `eglMakeCurrent` with a live surface and the cleared payload answers 1
  although nothing becomes current, and the header's "Repeated calls return that same context"
  cannot hold, since nothing makes another. The V variants of the `egl*` calls answer 1 and do
  nothing (`jni_shim.c:1248-1254`); the swap does not ask which thread has the context.
- A full method table answers id 1, another method (`jni_shim.c:708`); `TokensStable` is about a table
  with room. `RegisterNatives` drops what does not fit and answers 0. The handle-less end of
  `sdv_so_dlopen` keeps the image's 48 MiB (`main.c:123, 147`).
- The sets of `sigaction` are copied for signals below 64 (`s < 64`), so 64 is lost; signal 10
  answers 0 without the old action; after a failure the old action is zeros.
- The loop ends with keys held and sends no key-up for them (`main.c:758`); the process ends too.

`CHECK_DEADLOCK FALSE` stands where the system may stop: in `Sem` all threads may sleep once the
posts are used up, in `Input` and `Egl` the loop ends, in `So` the start-up may give up or the images
run out, and in `Jni` everybody may hold all there is. The other runs check for deadlock.

## 4. Bounds

- *Threads.* Five for the semaphore: a poster, a thread that posts and tries, and three
  sleepers, so that a wake can go to the wrong one and a token can be stolen by a fourth. Three
  for the bridge: two in the race of first uses and one that looks on or destroys.
- *Posts* (`MaxPosts`), three: as many tokens as sleepers. The word cannot wrap below
  2^32 posts; `WordMax` is the width and `SemAssumption` the bound.
- *Crashes and faults.* Two crashes, so that recovery is interrupted too, and one failure.
- *Paths.* The three of the recipe; two in `NxBackupGap`.
- *Bridge objects.* Two glibc mutexes (`MaxObjects`) and two conditions or locks (`MaxMade`): the
  static one, and the one after destroy or init. Recursion (`MaxDepth`) two. Two items
  (`MaxItems`), so that one may be posted while another is on its way.
- *Input.* Two cursor positions (both edges), a cursor timer of two steps (just used, going on,
  expired), a zoom timer of one, three zoom levels. "start" and "select" stand for all buttons that
  map to one key each.
- *Loader.* Two threads, of which each may ask while the other loads, two kinds of component, one
  with constructors that open modules; `MaxImages` five, the chain and one for each thread.
  `MaxNatives` ten lies between what `main()` registers and that plus what the game adds, so that
  the table runs full. `After` and `Methods` keep the order and the names that matter.
- *EGL.* Two rungs: one that fails and one behind it. Two surfaces and two threads: one holds what
  the other takes, destroys or shuts down.
- *JNI.* Two slots and three identities, so that a slot is used again while its former array is
  still remembered; a registry of two (`MaxReg`) for three methods; two objects, so that the third
  gets the shared token. The file of a stream has six positions, metadata end at four, blocks are
  of at most two, a copy asks for three, and the track begins at five: no multiple of a block, as in the
  game's bank. `MaxCreated` three bounds what a behaviour makes.

The theorems of section 6 hold without these bounds.

## 5. Fairness

- *Semaphore.* A thread inside the shim that can run does run, the clock passes a deadline and
  the kernel's timer fires. Nothing makes a thread call, and no signal is promised.
- *Installer.* `WF(Run)`: a started launch goes on, and the player launches again. Crashes and
  failures are bounded and never fair.
- *Bridge.* Threads go on (`Within`). The fairness is strong because of `g_lock`, which the losers
  of `b_once` poll with `usleep(200)` and release in between, so that a waiting thread gets it in
  the end, and because glibc wakes lockers (`Enter`). The lockers keep locking (`Locks`) and
  unlocking (`Unlocks`), otherwise the callback waits for nobody.
- *Loader.* The main thread goes on, and so does a load: constructors return. `SF` for a thread
  that waits for `g_so_loader_lock`. Nobody has to open anything.
- *Input.* `WF(Tick)`: `usleep(8000)` (`main.c:757`) ends and callbacks into the game return.

## 6. Proofs

All theorems hold for every value of the constants under the modules' own assumptions. Three
groups state a further one: `StoresInOrder` for the mutex, `TableSuffices` for the handlers, and
`HarmlessOnly` for the two theorems on a transaction that is never cut.

- `FutexSemaphore_proofs`. `TypeCorrect`, and `Conservation` from it: a compare-and-swap that
  succeeds takes what it loaded. `NoLostWakeup` needs the strengthening that pairs every token
  with a helper: a thread between load and compare-and-swap has seen a positive word, a thread
  before its futex call will compare again, and a post owes a wake. Its one exception, a timed
  waiter that gives up after a lost race, is part of `NoStrandedToken`, and `SemTimedStrands`
  shows that it happens. `RefinesSemaphore` shows that each step is a step of `Semaphore` or leaves
  its variables alone.
- `NxTransaction_proofs`. `TypeCorrect`; then `CommitInvariant`, the inductive invariant: by the
  program point, whether the payload is complete and what marker and journal say. Neither
  `ReadyMeansComplete` nor `MarkerCommits` is inductive alone, because recovery trusts files that
  an earlier process wrote. `ReadyIsComplete` and `MarkerIsCommitPoint` follow for every list of
  paths, every set of crash points and any number of crashes. `KeptInvariant` says for each point
  of the swap and of the rollback which paths the journal can put back (`Recoverable`): all of them
  while it goes on (`Forward`), those that are not back yet while it returns (`Backward`).
  `EarlierPayloadKept` and `SwapIsAtomic` follow. `ImplementsRecoverableSwap` is the refinement, for
  any list of paths: it needs `KeptInvariant`, for what a rollback returns to, and `ExchangeInv`, that
  the journal's installed paths are those before `pos` and have left the stage, whichever launch
  finds the journal. `UninterruptedIsSwap` turns it into an implication between specifications, and
  `HarmlessIsSwap` frees that of its hypothesis for an installer that dies and fails only outside
  of the gaps, as often as it may (`HarmlessOnly` lists the points: they are all that does harm).
  `HarmlessKeeps` is what `KeptUnlessCut` and `AtomicSwap` say then, without exception.
- `NxInstall_proofs`. `TypeCorrect`; `PreparedInvariant` says which of the three vouchers may exist
  at which point and that the store is final then. `RunsPrepared` and `SentinelTruthful` follow.
  `RejectedInvariant` does the same for a store that the preparation rejects, with what was there
  before an open transaction, and gives `ForeignNeverRuns`. `LaunchesAreTransactions` shows that
  the whole specification implements `RecoverableSwap`, however it is interrupted: at this grain a
  crash leaves no gap, and `OpenInv` says that an open journal and the place of the launch fit.
  Together with `ImplementsRecoverableSwap` this is the composition of the two modules, up to the
  gaps, which only `NxTransaction` has.
- `WaitBridge_proofs`, for the composition of both bridge modules. `MutexInvariant` says where the
  pointer of a first use may be: who is past the first look and not past the second has no object,
  and all objects but the one in the slot are unused or freed, so that `MutexExcludes`,
  `MutexAlive` and `CallbackOnce` follow. They assume `StoresInOrder`, and `BridgeWeakMemory` shows
  why. `WaitInvariant` gives the condition the same, and counts: while somebody sleeps, each item
  has a helper of its own, a thread that was woken, holds the mutex or has yet to signal
  (`Covered`). `NoLostSignal` alone is not inductive, since one helper could be spent on one of two
  items. The count needs `IsFiniteSet(Threads)`. `SignalsReach` and `WriterAlone` follow.
  `BridgeIsPosix` is the refinement of `PosixSync` for both modules: `MutexInv` tells that whoever
  comes to glibc has the one mutex of all holders (`HeldByOwner`), `WaitInv` that those who wait on
  the signaller's object are all who sleep (`SleepersWait`), and `CallbackRuns` that one thread
  runs the callback while the control says so. It assumes `StoresInOrder` as well.
- `InputLoop_proofs`. `TypeCorrect`; `LoopInvariant` ties the role of R3 to the press that chose it,
  at every point of the tick, and the game's belief to the loop's own variables. From it
  `TouchesAreWhole`, `TouchUnderCursor`, `OneRolePerPress` and `NothingHeldWhenGone`. For
  `ZoomKeepsChange` a second invariant, `PressIsFresh`, says that while a press can still write a
  level, no change that the game made is unread.
- `Bootstrap_proofs`. `LoaderInvariant`: the main thread loads alone, before `running`, and
  afterwards whoever is inside a load holds the lock (`MainFirst`, `Solo`), so that the globals are
  its own. `LoadsDoNotMix` and `SymbolsStayLive` follow for any number of threads and images, and
  for each step `GivenStays`: no handle or symbol is taken back, and no image behind one is touched
  again. `HandlesAnswerForTheirs` says that a handle lists its own image's symbols.
  `HandlersAreConcrete` is about the table of natives, which is searched from its end: `BootInv`
  says for each point which of the registrations that `main()` calls have been made and that each is
  the last of its name (`LastOf`), so that the concrete activity's hide the base's, and that the looper
  is hidden until the concrete `n_onResume` has returned. It assumes
  `TableSuffices`, room for what `main()` and the game register (the code's table has 2048 entries,
  `jni_shim.c:957`): a full one drops the rest without an error.
- `EglBridge_proofs`. `TypeCorrect`; the invariant `EglInv` rests on the context being made on the
  ladder only, before a thread of the game runs (`Alone`, `OnRung`), and on a thread being told of
  the one context there is (`ToldOfContext`). `NothingIsLost`, `HolderIsTold` and `FramesAreClean`
  follow for any ladder, any threads and any number of surfaces.
- `JniShim_proofs`. `Accounting`, where the step that shares a reference needs that the sharer
  holds one; `ArraysImplementHeap`: through the reuse of slots every step is one of `RefHeap` or a
  stutter, because a slot that is used again has no holder left. `ShimHasArrays` carries both over
  to the whole shim. `ShimInvariant` is for the tables and streams: who makes a singleton holds the
  lock and found none (`MakerLocks`), a token and its stream are each other's (`Owned`), and each
  stream is where its user is by its own count (`Where`): the copy of a bank is limited from its
  first read on, and while a track is skipped what is left is no multiple of the largest block, so
  that a short one comes, which ends the skip before the payload (`TrackWhere`). `TokensStay`,
  `StreamsStayReachable` and `ReadersSeeBytes` follow.

Only model-checked: all liveness (`TokenReachesSleeper`, `TimedCallsReturn`, `EventuallyReady`,
`Prepares`, `OnceReturns`, `OpenReturns`, `CursorHides`), which is beyond the prover.

## 7. Abstractions

- A payload is a model value per path. That validation tells payloads apart as it does is
  read from the code; hashing and archives are not modelled.
- Renames become durable in the order they are made, as on a journalling file system. The
  code calls `fsync` for its own small files only.
- The semaphore's `sched_yield` and the bridge's `usleep` are scheduling, not state.
- The touch stream has one axis, and the sub-pixel remainder of the cursor is not kept.
- `SDV_TEST_KEY`, `--force-source` and `SDV_MONO_JIT` are developer options and left out.
- Constructors of the last module of the chain neither open modules nor start threads that do;
  `load_module` takes no lock, and `OwnImage` rests on that (`main.c:110-112, 825`). A constructor
  does not wait for another thread that opens a module: it would wait for ever (`main.c:118`).
- SDL is there completely or not at all, and `sdv_egl_init` runs once. A surface is destroyed by
  the thread that made it; two threads that destroy the same one would free it twice. The loop
  that waits for the drawable's size (`sdv_egl_bridge.c:540`) is one step.
- `RegisterNatives` takes no lock and counts its table up entry by entry (`jni_shim.c:956-974`);
  `Registered` is one step, so that no two registrations overlap, nor a registration and a lookup.
- A stream has one user at a time: `Close` frees it and clears the payload in one step
  (`jni_shim.c:531-543`), and no other call is in the stream meanwhile.
- `KeyEvent.getAction` is always 0 (the callbacks for down and up are two), so it is no state.
- A position of a stream stands for a stretch of bytes, and `fread` reads what it is asked for.

## 8. What is left

- `XabaStore`: slot capacity and idempotence of the patch over each earlier patch, checked
  against a reference; source discovery and plan as operators in the same way. `NxInstall` has
  their outcomes only.

## 9. Not modelled

- ELF parsing and relocation arithmetic, the ICU aliases (a table of four entries in unlocked
  globals, which `android_dlopen_ext` does not reach), and the GL trace wrappers
  (`imports.gen.c:307-605`), which the import table does not name.
- Drawing and capture beyond the state they touch, and the sources of the display size.
- Translation of constants and structures (`bionic_shims.c`): no state. Section 3 names what it
  gets wrong.
- JNI strings, display metrics and constant answers.
- The calls that the bridge does not table: `pthread_rwlock_init`, `destroy` and the try calls, and
  `dlclose`, reach glibc with a word or a handle that is not its own. Whether the game calls them
  cannot be told from the repository.
- The progress file and the setup UI (output for the player), the C# patch tools, build, packaging
  and provenance scripts (run by developers), and `plan`, `verify` and `scan` of the installer (they
  change nothing).
- `egl_shim.c`, `android_shim.c` and `nx_jni.c`, which `build.sh` does not compile.

## 10. Running

    tlc -config NxCrash.cfg MCNxTransaction.tla
    tlapm NxTransaction_proofs.tla
