------------------------------ MODULE NxInstall ------------------------------
(***************************************************************************)
(* One launch of the port as far as the game data go: run-extractor.sh     *)
(* prepares the store of the live directory (tools/prepare_stardew_data.py)*)
(* and then runs nxextract.py install, which resumes the stage, runs the   *)
(* same script on it as the hook prepare-managed-runtime, and commits.     *)
(*                                                                         *)
(* The interest is in what vouches for what: the sentinel .stardew-data.   *)
(* json and the hook marker stand for "the store in libs/ is prepared".    *)
(* NxTransaction models the swap in detail; here a rename and its journal  *)
(* write, and a whole rollback, are one step each.                         *)
(***************************************************************************)
EXTENDS Naturals

CONSTANTS CrashAt,     \* program points at which the process may die
          FaultAt,     \* program points that may fail with a status or exception
          MaxCrashes, MaxFaults  \* bounds on both

ASSUME InstallAssumption == MaxCrashes \in Nat /\ MaxFaults \in Nat

VARIABLES
  dest,      \* the game directory's libs, assets and sentinel
  stage,     \* the same under workspace/stage
  backup,    \* the same under workspace/backup
  journal,   \* workspace/transaction.json exists
  swapped,   \* how many commit paths it records as installed
  stageFor,  \* recipe digest in workspace/state.json
  hookFor,   \* recipe digest in workspace/hooks/prepare-managed-runtime.json
  marker,    \* the install marker of this recipe exists
  source,    \* a supported package lies in gamedata/
  pc, crashes, faults,
  cut        \* history: whether an interruption fell behind the hook marker

disk == <<dest, stage, backup, journal, swapped, stageFor, hookFor, marker>>
vars == <<dest, stage, backup, journal, swapped, stageFor, hookFor, marker, source, pc, crashes, faults, cut>>

\* libs by its assembly store: as in the APK, patched by an earlier release,
\* one that the script does not recognise, or the final one.
Libs == {"none", "raw", "earlier", "foreign", "final"}
Tree == [libs : Libs, assets : {"none", "ok"}, sentinel : {"none", "earlier", "ok"}]
Empty == [libs |-> "none", assets |-> "none", sentinel |-> "none"]

\* extractor.json, "commit"
CommitOrder == <<"libs", "assets", "sentinel">>

Recipe == {"none", "earlier", "this"}

PC == {"off", "prepare", "prepareMark", "recover", "check", "adopt", "plan", "libs", "assets",
       "hook", "hookStore", "hookSentinel", "hookMark", "validate", "swap", "publish", "ready"}

-----------------------------------------------------------------------------
Goto(from, to) == pc = from /\ pc' = to
NoCount == UNCHANGED <<source, crashes, faults, cut>>
OnlyPc == UNCHANGED disk /\ NoCount

\* validate_recipe_outputs: the libs tree by its file count and size only, the
\* assets by fingerprint, the sentinel by SHA-256 (full) or size and magic.
FullValid(d) == d.libs # "none" /\ d.assets = "ok" /\ d.sentinel = "ok"
FastValid(d) == d.libs # "none" /\ d.assets = "ok" /\ d.sentinel # "none"

\* A variant that misses the earlier releases.
RecognisedOriginalOnly(d) == d.libs \in {"raw", "final"}

\* prepare_store knows the original assembly and every earlier patch of it.
Recognised(d) == d.libs \in {"raw", "earlier", "final"}

Launch == Goto("off", "prepare") /\ OnlyPc

\* run-extractor.sh:19-28 on the live directory, before the lock and before
\* recovery: the store is rewritten in place, then the sentinel beside it.
LivePresent == dest.libs # "none" /\ dest.assets # "none"

PrepareLive ==
  /\ LivePresent /\ Recognised(dest)
  /\ Goto("prepare", "prepareMark")
  /\ dest' = [dest EXCEPT !.libs = "final"]
  /\ UNCHANGED <<stage, backup, journal, swapped, stageFor, hookFor, marker>> /\ NoCount

PrepareLiveMark ==
  /\ Goto("prepareMark", "recover")
  /\ dest' = [dest EXCEPT !.sentinel = "ok"]
  /\ UNCHANGED <<stage, backup, journal, swapped, stageFor, hookFor, marker>> /\ NoCount

\* A variant that refreshes the sentinel whatever became of the store.
PrepareSkippedMarks ==
  /\ ~(LivePresent /\ Recognised(dest))
  /\ Goto("prepare", "prepareMark") /\ OnlyPc

\* Nothing to prepare, or a store that the script rejects with a message.
PrepareSkipped ==
  /\ ~(LivePresent /\ Recognised(dest))
  /\ Goto("prepare", "recover") /\ OnlyPc

\* The paths that the journal records as installed.
Done == {CommitOrder[i] : i \in 1..swapped}

\* rollback_transaction: installed paths return to the stage, what was backed up
\* returns to its place; the other paths are left as they are.
RolledBack ==
  /\ dest' = [p \in DOMAIN dest |-> IF p \in Done THEN backup[p] ELSE dest[p]]
  /\ stage' = [p \in DOMAIN stage |-> IF p \in Done THEN dest[p] ELSE stage[p]]
  /\ backup' = Empty /\ journal' = FALSE /\ swapped' = 0
  /\ UNCHANGED <<stageFor, hookFor, marker>>

\* recover_transaction; a published journal is cleared where it is written.
Recover ==
  /\ Goto("recover", "check")
  /\ IF journal THEN RolledBack ELSE UNCHANGED disk
  /\ NoCount

\* marker_fast_valid
Check ==
  /\ \/ marker /\ FastValid(dest) /\ Goto("check", "ready")
     \/ ~(marker /\ FastValid(dest)) /\ Goto("check", "adopt")
  /\ OnlyPc

\* A variant that adopts on the fast validation.
AdoptFast ==
  /\ \/ FastValid(dest) /\ Goto("adopt", "ready") /\ marker' = TRUE
     \/ ~FastValid(dest) /\ Goto("adopt", "plan") /\ UNCHANGED marker
  /\ UNCHANGED <<dest, stage, backup, journal, swapped, stageFor, hookFor>> /\ NoCount

\* try_adopt_existing: a directory that validates in full is marked as it is.
Adopt ==
  /\ \/ FullValid(dest) /\ Goto("adopt", "ready") /\ marker' = TRUE
     \/ ~FullValid(dest) /\ Goto("adopt", "plan") /\ UNCHANGED marker
  /\ UNCHANGED <<dest, stage, backup, journal, swapped, stageFor, hookFor>> /\ NoCount

-----------------------------------------------------------------------------
\* Without a package discovery raises and the launcher gives up.
NoSource == ~source /\ Goto("plan", "off") /\ OnlyPc

\* _prepare_stage_state: a stage of another recipe goes, with its hook markers.
Plan ==
  /\ source /\ Goto("plan", "libs")
  /\ IF stageFor \in {"none", "this"} THEN UNCHANGED <<stage, hookFor>>
                                      ELSE stage' = Empty /\ hookFor' = "none"
  /\ stageFor' = "this"
  /\ UNCHANGED <<dest, backup, journal, swapped, marker>> /\ NoCount

\* extract_plan with _resume_item_valid: a staged file is kept when it has the
\* size and the CRC of the package's; the store in libs/ when it is still raw.
ExtractLibs ==
  /\ Goto("libs", "assets")
  /\ stage' = [stage EXCEPT !.libs = "raw"]
  /\ UNCHANGED <<dest, backup, journal, swapped, stageFor, hookFor, marker>> /\ NoCount

ExtractAssets ==
  /\ Goto("assets", "hook")
  /\ stage' = [stage EXCEPT !.assets = "ok"]
  /\ UNCHANGED <<dest, backup, journal, swapped, stageFor, hookFor, marker>> /\ NoCount

\* The hook's checkpoint: the sentinel by SHA-256, the store by size and magic.
Checkpoint == stage.sentinel = "ok" /\ stage.libs # "none"

Hook ==
  /\ \/ hookFor = "this" /\ Checkpoint /\ Goto("hook", "validate")
     \/ ~(hookFor = "this" /\ Checkpoint) /\ Goto("hook", "hookStore")
  /\ OnlyPc

\* prepare_root on the stage: the store, then the sentinel; then the marker.
HookStore ==
  /\ Goto("hookStore", "hookSentinel")
  /\ Recognised(stage)
  /\ stage' = [stage EXCEPT !.libs = "final"]
  /\ UNCHANGED <<dest, backup, journal, swapped, stageFor, hookFor, marker>> /\ NoCount

HookSentinel ==
  /\ Goto("hookSentinel", "hookMark")
  /\ stage' = [stage EXCEPT !.sentinel = "ok"]
  /\ UNCHANGED <<dest, backup, journal, swapped, stageFor, hookFor, marker>> /\ NoCount

HookMark ==
  /\ Checkpoint
  /\ Goto("hookMark", "validate")
  /\ hookFor' = "this"
  /\ UNCHANGED <<dest, stage, backup, journal, swapped, stageFor, marker>> /\ NoCount

-----------------------------------------------------------------------------
\* The stage validates; commit_stage opens its journal over an empty backup.
ValidateStage ==
  /\ FullValid(stage)
  /\ Goto("validate", "swap")
  /\ backup' = Empty /\ journal' = TRUE /\ swapped' = 0
  /\ UNCHANGED <<dest, stage, stageFor, hookFor, marker>> /\ NoCount

\* One path: the installed one to backup, the staged one into its place.
Swap ==
  /\ pc = "swap" /\ swapped < 3
  /\ LET p == CommitOrder[swapped + 1] IN
       /\ backup' = [backup EXCEPT ![p] = dest[p]]
       /\ dest' = [dest EXCEPT ![p] = stage[p]]
       /\ stage' = [stage EXCEPT ![p] = "none"]
  /\ swapped' = swapped + 1
  /\ pc' = IF swapped = 2 THEN "publish" ELSE "swap"
  /\ UNCHANGED <<journal, stageFor, hookFor, marker>> /\ NoCount

\* The installed tree validates, the marker is written and the workspace
\* cleared, but for state.json and the hook markers.
Publish ==
  /\ FullValid(dest)
  /\ Goto("publish", "ready")
  /\ marker' = TRUE /\ journal' = FALSE /\ swapped' = 0
  /\ backup' = Empty /\ stage' = Empty
  /\ UNCHANGED <<dest, stageFor, hookFor>> /\ NoCount

GameExits == Goto("ready", "off") /\ OnlyPc

-----------------------------------------------------------------------------
\* From the hook marker to the install marker.
Tail == {"validate", "swap", "publish"}
CutAt(where) == IF pc \notin Tail \/ cut = "swap" THEN cut ELSE where

\* Power loss or a kill between two steps.  Inside the swap the journal stays.
Crash ==
  /\ pc \in CrashAt \ {"off", "ready"} /\ crashes < MaxCrashes
  /\ pc' = "off" /\ crashes' = crashes + 1
  /\ cut' = CutAt(IF pc = "swap" THEN "swap" ELSE "tail")
  /\ UNCHANGED <<disk, source, faults>>

\* A hook that fails, a full disk, an unreadable package: the run ends with
\* status 1, and an open transaction is rolled back on the way.
Fault ==
  /\ pc \in FaultAt \ {"off", "prepare", "prepareMark", "ready"} /\ faults < MaxFaults
  /\ pc' = "off" /\ faults' = faults + 1
  /\ cut' = CutAt("tail")
  /\ IF pc \in {"swap", "publish"} THEN RolledBack ELSE UNCHANGED disk
  /\ UNCHANGED <<source, crashes>>

\* run-extractor.sh goes on when the script fails on the live directory.
PrepareFault ==
  /\ pc \in FaultAt \cap {"prepare", "prepareMark"} /\ faults < MaxFaults
  /\ pc' = "recover" /\ faults' = faults + 1
  /\ UNCHANGED <<disk, source, crashes, cut>>

-----------------------------------------------------------------------------
\* What an update of the port may find: no data, or an install of an earlier
\* release, whole or not, without its sentinel or with its own; and a stage
\* that the earlier release left unfinished.
Init ==
  /\ dest \in {Empty} \cup [libs : {"earlier", "foreign"}, assets : {"none", "ok"},
                            sentinel : {"none", "earlier"}]
  /\ \/ stage = Empty /\ stageFor = "none" /\ hookFor = "none"
     \/ /\ stage \in [libs : {"raw", "earlier"}, assets : {"none", "ok"},
                      sentinel : {"none", "earlier"}]
        /\ stageFor = "earlier" /\ hookFor \in {"none", "earlier"}
  /\ backup = Empty /\ journal = FALSE /\ swapped = 0 /\ marker = FALSE
  /\ source \in BOOLEAN
  /\ pc = "off" /\ crashes = 0 /\ faults = 0 /\ cut = "none"

Run == \/ Launch \/ PrepareLive \/ PrepareLiveMark \/ PrepareSkipped \/ Recover \/ Check \/ Adopt
       \/ NoSource \/ Plan \/ ExtractLibs \/ ExtractAssets
       \/ Hook \/ HookStore \/ HookSentinel \/ HookMark
       \/ ValidateStage \/ Swap \/ Publish \/ GameExits

Next == Run \/ Crash \/ Fault \/ PrepareFault

Spec == Init /\ [][Next]_vars

\* A running launch goes on and the player launches again.
FairSpec == Spec /\ WF_vars(Run)

-----------------------------------------------------------------------------
TypeOK ==
  /\ dest \in Tree /\ stage \in Tree /\ backup \in Tree
  /\ journal \in BOOLEAN /\ marker \in BOOLEAN /\ source \in BOOLEAN
  /\ swapped \in 0..3
  /\ stageFor \in Recipe /\ hookFor \in Recipe
  /\ pc \in PC /\ crashes \in Nat /\ faults \in Nat
  /\ cut \in {"none", "tail", "swap"}

\* The game runs only on the prepared store ("original data and every earlier
\* public assembly patch migrate to the same verified result", README.md:169).
GameRunsPrepared == pc = "ready" => dest.libs = "final"

\* It is so if no launch was interrupted between its two markers.
PreparedUnlessCut == cut = "none" => GameRunsPrepared

\* With no transaction open, a sentinel of this release vouches for its store
\* (the script writes it last, prepare_stardew_data.py:575), unless a launch was
\* interrupted between its two markers.
SentinelVouches == (cut = "none" /\ dest.sentinel = "ok" /\ ~journal) => dest.libs = "final"

\* The inductive strengthening of the two above.
Working == {"plan", "libs", "assets", "hook", "hookStore", "hookSentinel", "hookMark"} \cup Tail
Vouched ==
  /\ ~journal /\ dest.sentinel = "ok" => dest.libs = "final"
  /\ journal <=> pc \in {"swap", "publish"}
  /\ marker => dest.libs = "final" /\ FastValid(dest) /\ pc \notin {"adopt"} \cup Working
  /\ hookFor = "this" => marker \/ pc \in Tail
  /\ pc \in {"prepareMark", "publish", "ready"} => dest.libs = "final"
  /\ pc \in {"hookSentinel", "hookMark", "validate"} => stage.libs = "final"
  /\ pc = "swap" => /\ swapped \in 0..2
                    /\ swapped = 0 => stage.libs = "final"
                    /\ swapped > 0 => dest.libs = "final"
PreparedInv == cut = "none" => Vouched

\* A store the script rejects is not started but repaired from a package
\* (run-extractor.sh:16-17), unless power was lost inside the swap.
RejectedNotStarted == pc = "ready" /\ cut # "swap" => dest.libs # "foreign"

\* Whatever was interrupted outside the swap, launching again starts the game on
\* a prepared store, if there is a package or the install only needs preparing.
Prepares ==
  (source \/ (dest.libs = "earlier" /\ dest.assets = "ok")) /\ [](cut # "swap")
    => []<>(pc = "ready" /\ dest.libs = "final")

-----------------------------------------------------------------------------
(* The transaction at this grain is RecoverableSwap as it stands, however a *)
(* launch is interrupted; what a crash in a gap of the journal does to it   *)
(* is in NxTransaction, which implements RecoverableSwap too.               *)

\* What run-extractor.sh may make of the live directory.
Prepared ==
  {<<d, [d EXCEPT !.libs = "final"]>> : d \in {t \in Tree : Recognised(t)}}
    \cup {<<d, [d EXCEPT !.sentinel = "ok"]>> : d \in {t \in Tree : t.libs = "final"}}

Transaction == INSTANCE RecoverableSwap WITH
  Order <- CommitOrder, Payload <- Libs \cup {"ok"}, None <- "none", Prepares <- Prepared,
  open <- journal, done <- Done, marked <- marker

\* Every behaviour of the launches is one of the recoverable transaction.
ImplementsTransaction == Transaction!Spec
=============================================================================
