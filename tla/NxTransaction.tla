---------------------------- MODULE NxTransaction ----------------------------
(***************************************************************************)
(* How NXExtract (src/nxextract.py) swaps a validated stage into the game  *)
(* directory: commit_stage, rollback_transaction, recover_transaction and  *)
(* the launch around them (install_command).  The disk survives a crash;   *)
(* everything else is the memory of one installer process.  Each rename,   *)
(* tree removal and atomic journal or marker write is one step, so a crash *)
(* (power loss, SIGKILL) or a failing system call may fall between any two.*)
(*                                                                         *)
(* Renames become durable in the order they are made, as on a journalling  *)
(* file system.  Discovery, extraction and hooks are one step here (they   *)
(* write only under stage); NxInstall opens them up.                       *)
(***************************************************************************)
EXTENDS Integers, Sequences, FiniteSets

CONSTANTS Order,       \* the recipe's commit paths, in commit order
          CrashAt,     \* program points at which the process may die
          FaultAt,     \* program points whose system call may raise OSError
          MaxCrashes,  \* bound: crashes in a behaviour
          MaxFaults    \* bound: failing calls in a behaviour

Path == {Order[i] : i \in 1..Len(Order)}

ASSUME NxAssumption == /\ Order \in Seq(Path) /\ Order # <<>>
                       /\ \A i, j \in 1..Len(Order) : Order[i] = Order[j] => i = j
                       /\ MaxCrashes \in Nat /\ MaxFaults \in Nat

VARIABLES
  dest,      \* what each commit path holds in the game directory
  stage,     \* ... under workspace/stage
  backup,    \* ... under workspace/backup
  journal,   \* workspace/transaction.json
  marker,    \* transaction_id in the install marker; 0: none for this recipe
  pc,        \* where the installer stands; "off" when none runs
  pos,       \* index into Order of the loop it is in
  log,       \* the journal object in the installer's memory
  raised,    \* rollback was entered by an exception, not by recovery
  tid,       \* last transaction_id handed out
  crashes, faults,
  was,       \* history: what the game directory held at first
  cut        \* history: whether an interruption fell where it does harm

disk == <<dest, stage, backup, journal, marker>>
vars == <<dest, stage, backup, journal, marker, pc, pos, log, raised, tid, crashes, faults, was, cut>>

\* A tree is absent, the earlier install's, this recipe's, or half removed.
Payload == {"none", "old", "new", "torn"}
Tree == [Path -> Payload]
Nothing == [p \in Path |-> "none"]

\* The journal: which paths were moved to backup, which were installed.
Fresh(t) == [tid |-> t, published |-> FALSE, backedUp |-> {}, installed |-> {}]
NoJournal == Fresh(0)
Journal == [tid : Nat, published : BOOLEAN, backedUp : SUBSET Path, installed : SUBSET Path]

PC == {"off", "recover", "finBackup", "finStage", "finJournal", "check", "adopt", "extract",
       "begin", "open", "backup", "logBackup", "install", "logInstall", "validate", "mark",
       "publish", "dropBackup", "dropStage", "dropJournal", "ready",
       "undoNew", "clearDest", "restore", "undoBackup", "undoJournal"}

\* Points inside the try block of commit_stage: an exception rolls back.
InTry == {"backup", "logBackup", "install", "logInstall", "validate", "mark", "publish"}

\* Inside rollback_transaction.
Undoing == {"undoNew", "clearDest", "restore", "undoBackup", "undoJournal"}

here == Order[pos]

Complete == \A p \in Path : dest[p] = "new"

-----------------------------------------------------------------------------
Goto(from, to) == pc = from /\ pc' = to

NoCount == UNCHANGED <<crashes, faults, was, cut>>

\* run-extractor.sh starts the installer; WorkspaceLock admits one at a time.
Start ==
  /\ Goto("off", "recover")
  /\ pos' = 1 /\ log' = NoJournal /\ raised' = FALSE
  /\ UNCHANGED <<disk, tid>> /\ NoCount

\* A variant that trusts only the journal's own flag.
RecoverByFlagOnly ==
  /\ pc = "recover"
  /\ pc' = IF journal = NoJournal THEN "check"
           ELSE IF journal.published THEN "finBackup" ELSE "undoNew"
  /\ pos' = Len(Order)
  /\ log' = journal
  /\ UNCHANGED <<disk, raised, tid>> /\ NoCount

\* A variant that finishes published transactions and refuses the others.
RecoverPublishedOnly ==
  /\ pc = "recover"
  /\ pc' = IF journal = NoJournal THEN "check"
           ELSE IF journal.published \/ marker = journal.tid THEN "finBackup" ELSE "off"
  /\ pos' = 1
  /\ log' = NoJournal
  /\ UNCHANGED <<disk, raised, tid>> /\ NoCount

\* recover_transaction: a transaction counts as published by its journal or by
\* the marker that carries its id; anything else is rolled back.
Recover ==
  /\ pc = "recover"
  /\ pc' = IF journal = NoJournal THEN "check"
           ELSE IF journal.published \/ marker = journal.tid THEN "finBackup" ELSE "undoNew"
  /\ pos' = Len(Order)
  /\ log' = journal
  /\ UNCHANGED <<disk, raised, tid>> /\ NoCount

\* _finalize_published_transaction, and the tail of commit_stage.
DropBackup ==
  /\ Goto("finBackup", "finStage") \/ Goto("dropBackup", "dropStage")
  /\ backup' = Nothing
  /\ UNCHANGED <<dest, stage, journal, marker, pos, log, raised, tid>> /\ NoCount

DropStage ==
  /\ Goto("finStage", "finJournal") \/ Goto("dropStage", "dropJournal")
  /\ stage' = Nothing
  /\ UNCHANGED <<dest, backup, journal, marker, pos, log, raised, tid>> /\ NoCount

DropJournal ==
  /\ Goto("finJournal", "check") \/ Goto("dropJournal", "ready")
  /\ journal' = NoJournal
  /\ UNCHANGED <<dest, stage, backup, marker, pos, log, raised, tid>> /\ NoCount

-----------------------------------------------------------------------------
\* marker_fast_valid: under a marker of this recipe only anchor paths, sizes and
\* magic are looked at, which an earlier payload or a torn tree may pass or fail.
Check ==
  /\ \/ /\ marker # 0 /\ \A p \in Path : dest[p] # "none"
        /\ Goto("check", "ready")
     \/ /\ marker = 0 \/ ~Complete
        /\ Goto("check", "adopt")
  /\ UNCHANGED <<disk, pos, log, raised, tid>> /\ NoCount

\* A variant that adopts a payload when some of its paths validate.
AdoptSome ==
  /\ \/ /\ \E p \in Path : dest[p] = "new"
        /\ Goto("adopt", "ready")
        /\ tid' = tid + 1 /\ marker' = tid + 1
     \/ /\ \A p \in Path : dest[p] # "new"
        /\ Goto("adopt", "extract")
        /\ UNCHANGED <<tid, marker>>
  /\ UNCHANGED <<dest, stage, backup, journal, pos, log, raised>> /\ NoCount

\* try_adopt_existing: data that validates in full is marked without a source.
Adopt ==
  /\ \/ /\ Complete
        /\ Goto("adopt", "ready")
        /\ tid' = tid + 1 /\ marker' = tid + 1
     \/ /\ ~Complete
        /\ Goto("adopt", "extract")
        /\ UNCHANGED <<tid, marker>>
  /\ UNCHANGED <<dest, stage, backup, journal, pos, log, raised>> /\ NoCount

\* Discovery, extract_plan, run_hooks and the validation of the stage: whatever
\* the stage lacks is made again from the source package.
Extract ==
  /\ Goto("extract", "begin")
  /\ stage' = [p \in Path |-> "new"]
  /\ UNCHANGED <<dest, backup, journal, marker, pos, log, raised, tid>> /\ NoCount

-----------------------------------------------------------------------------
\* commit_stage: an empty backup, then, if nothing staged is missing, a fresh
\* journal naming every path.
CommitBegin ==
  /\ Goto("begin", "open")
  /\ backup' = Nothing
  /\ UNCHANGED <<dest, stage, journal, marker, pos, log, raised, tid>> /\ NoCount

CommitOpen ==
  /\ Goto("open", "backup")
  /\ \A p \in Path : stage[p] # "none"
  /\ tid' = tid + 1
  /\ log' = Fresh(tid + 1)
  /\ journal' = log'
  /\ pos' = 1
  /\ UNCHANGED <<dest, stage, backup, marker, raised>> /\ NoCount

\* The installed path moves to backup; a path that is not there has no backup.
MoveToBackup ==
  /\ \/ /\ dest[here] # "none"
        /\ Goto("backup", "logBackup")
        /\ backup' = [backup EXCEPT ![here] = dest[here]]
        /\ dest' = [dest EXCEPT ![here] = "none"]
        /\ log' = [log EXCEPT !.backedUp = @ \cup {here}]
     \/ /\ dest[here] = "none"
        /\ Goto("backup", "install")
        /\ UNCHANGED <<backup, dest, log>>
  /\ UNCHANGED <<stage, journal, marker, pos, raised, tid>> /\ NoCount

LogBackup ==
  /\ Goto("logBackup", "install")
  /\ journal' = log
  /\ UNCHANGED <<dest, stage, backup, marker, pos, log, raised, tid>> /\ NoCount

InstallStaged ==
  /\ Goto("install", "logInstall")
  /\ dest' = [dest EXCEPT ![here] = stage[here]]
  /\ stage' = [stage EXCEPT ![here] = "none"]
  /\ log' = [log EXCEPT !.installed = @ \cup {here}]
  /\ UNCHANGED <<backup, journal, marker, pos, raised, tid>> /\ NoCount

LogInstall ==
  /\ journal' = log
  /\ \/ pos < Len(Order) /\ Goto("logInstall", "backup") /\ pos' = pos + 1
     \/ pos = Len(Order) /\ Goto("logInstall", "validate") /\ UNCHANGED pos
  /\ UNCHANGED <<dest, stage, backup, marker, log, raised, tid>> /\ NoCount

\* validate_recipe_outputs(game_dir, full=True); anything but the whole payload
\* is an exception inside the try block.
ValidateInstalled ==
  /\ Goto("validate", "mark")
  /\ Complete
  /\ UNCHANGED <<disk, pos, log, raised, tid>> /\ NoCount

\* _write_install_marker
WriteMarker ==
  /\ Goto("mark", "publish")
  /\ marker' = log.tid
  /\ UNCHANGED <<dest, stage, backup, journal, pos, log, raised, tid>> /\ NoCount

Publish ==
  /\ Goto("publish", "dropBackup")
  /\ log' = [log EXCEPT !.published = TRUE]
  /\ journal' = log'
  /\ UNCHANGED <<dest, stage, backup, marker, pos, raised, tid>> /\ NoCount

-----------------------------------------------------------------------------
(* rollback_transaction, from the last path to the first.                   *)

\* A variant that leaves installed paths where they are.
UndoInstalledSkipped ==
  /\ Goto("undoNew", "clearDest")
  /\ UNCHANGED <<disk, pos, log, raised, tid>> /\ NoCount

\* A variant that removes an installed path although the stage has lost it.
UndoInstalledRemoving ==
  /\ Goto("undoNew", "clearDest")
  /\ dest' = IF here \in log.installed THEN [dest EXCEPT ![here] = "none"] ELSE dest
  /\ UNCHANGED <<stage, backup, journal, marker, pos, log, raised, tid>> /\ NoCount

\* An installed path goes back to the stage, or is removed if the stage has one.
UndoInstalled ==
  /\ Goto("undoNew", "clearDest")
  /\ IF here \in log.installed /\ dest[here] # "none"
     THEN /\ dest' = [dest EXCEPT ![here] = "none"]
          /\ stage' = [stage EXCEPT ![here] = IF @ = "none" THEN dest[here] ELSE @]
     ELSE UNCHANGED <<dest, stage>>
  /\ UNCHANGED <<backup, journal, marker, pos, log, raised, tid>> /\ NoCount

MustRestore == here \in log.backedUp /\ backup[here] # "none"

ClearForRestore ==
  /\ Goto("clearDest", "restore")
  /\ IF MustRestore THEN dest' = [dest EXCEPT ![here] = "none"] ELSE UNCHANGED dest
  /\ UNCHANGED <<stage, backup, journal, marker, pos, log, raised, tid>> /\ NoCount

\* A variant that forgets to put the backup back.
RestoreNothing ==
  /\ \/ pos > 1 /\ Goto("restore", "undoNew") /\ pos' = pos - 1
     \/ pos = 1 /\ Goto("restore", "undoBackup") /\ UNCHANGED pos
  /\ UNCHANGED <<disk, log, raised, tid>> /\ NoCount

RestoreBackup ==
  /\ IF MustRestore
     THEN /\ dest' = [dest EXCEPT ![here] = backup[here]]
          /\ backup' = [backup EXCEPT ![here] = "none"]
     ELSE UNCHANGED <<dest, backup>>
  /\ \/ pos > 1 /\ Goto("restore", "undoNew") /\ pos' = pos - 1
     \/ pos = 1 /\ Goto("restore", "undoBackup") /\ UNCHANGED pos
  /\ UNCHANGED <<stage, journal, marker, log, raised, tid>> /\ NoCount

UndoDropBackup ==
  /\ Goto("undoBackup", "undoJournal")
  /\ backup' = Nothing
  /\ UNCHANGED <<dest, stage, journal, marker, pos, log, raised, tid>> /\ NoCount

\* The exception is re-raised after a rollback; recovery goes on to the check.
UndoDropJournal ==
  /\ Goto("undoJournal", IF raised THEN "off" ELSE "check")
  /\ journal' = NoJournal
  /\ UNCHANGED <<dest, stage, backup, marker, pos, log, raised, tid>> /\ NoCount

-----------------------------------------------------------------------------
\* What a tree removal cut short may leave behind.
Torn(from, to) ==
  \A p \in Path : to[p] \in {from[p], "none"} \cup IF from[p] = "none" THEN {} ELSE {"torn"}

HalfRemoved ==
  /\ IF pc \in {"finBackup", "dropBackup", "begin", "undoBackup"}
     THEN backup' \in {b \in Tree : Torn(backup, b)} ELSE UNCHANGED backup
  /\ IF pc \in {"finStage", "dropStage"}
     THEN stage' \in {s \in Tree : Torn(stage, s)} ELSE UNCHANGED stage
  /\ IF \/ pc = "undoNew" /\ here \in log.installed /\ stage[here] # "none"
        \/ pc = "clearDest" /\ MustRestore
     THEN \E h \in {dest[here], IF dest[here] = "none" THEN "none" ELSE "torn"} :
            dest' = [dest EXCEPT ![here] = h]
     ELSE UNCHANGED dest

\* The journal on disk does not tell what the disk holds: a rename is not in it
\* yet, or a rollback has undone part of what is.
Gap == {"logBackup", "logInstall"} \cup Undoing
CutAt(points) == cut' = IF cut = "none" /\ pc \in points THEN "gap" ELSE cut

\* The process dies; the disk stays as it is.
Crash ==
  /\ pc \in CrashAt \ {"off", "ready"} /\ crashes < MaxCrashes
  /\ pc' = "off" /\ crashes' = crashes + 1
  /\ HalfRemoved
  /\ pos' = 1 /\ log' = NoJournal /\ raised' = FALSE
  /\ CutAt(Gap)
  /\ UNCHANGED <<journal, marker, tid, faults, was>>

\* A system call of the try block raises: rollback with the journal in memory.
FaultInTry ==
  /\ pc \in FaultAt \cap InTry /\ faults < MaxFaults
  /\ pc' = "undoNew" /\ pos' = Len(Order) /\ raised' = TRUE
  /\ faults' = faults + 1
  /\ cut' = IF pc = "publish" THEN "marker" ELSE cut
  /\ UNCHANGED <<disk, log, tid, crashes, was>>

\* Anywhere else it ends the run with status 1.
FaultOutside ==
  /\ pc \in FaultAt \ (InTry \cup {"off", "ready"}) /\ faults < MaxFaults
  /\ pc' = "off" /\ faults' = faults + 1
  /\ HalfRemoved
  /\ pos' = 1 /\ log' = NoJournal /\ raised' = FALSE
  /\ CutAt(Undoing)
  /\ UNCHANGED <<journal, marker, tid, crashes, was>>

\* run.sh starts the game; the next launch is another run of the installer.
GameExits ==
  /\ Goto("ready", "off")
  /\ UNCHANGED <<disk, pos, log, raised, tid>> /\ NoCount

-----------------------------------------------------------------------------
\* An earlier install may be there in full or in part, and no marker matches.
Init ==
  /\ dest \in [Path -> {"none", "old"}] /\ was = dest
  /\ stage = Nothing /\ backup = Nothing
  /\ journal = NoJournal /\ marker = 0
  /\ pc = "off" /\ pos = 1 /\ log = NoJournal /\ raised = FALSE
  /\ tid = 0 /\ crashes = 0 /\ faults = 0 /\ cut = "none"

Run == \/ Start \/ Recover \/ DropBackup \/ DropStage \/ DropJournal
       \/ Check \/ Adopt \/ Extract \/ CommitBegin \/ CommitOpen \/ MoveToBackup
       \/ LogBackup \/ InstallStaged \/ LogInstall \/ ValidateInstalled \/ WriteMarker
       \/ Publish \/ UndoInstalled \/ ClearForRestore \/ RestoreBackup
       \/ UndoDropBackup \/ UndoDropJournal \/ GameExits

Next == Run \/ Crash \/ FaultInTry \/ FaultOutside

Spec == Init /\ [][Next]_vars

\* A launched installer keeps running and the player keeps launching; crashes
\* and failing calls need not happen.
FairSpec == Spec /\ WF_vars(Run)

-----------------------------------------------------------------------------
TypeOK ==
  /\ dest \in Tree /\ stage \in Tree /\ backup \in Tree
  /\ journal \in Journal /\ log \in Journal
  /\ marker \in Nat /\ tid \in Nat
  /\ pc \in PC /\ pos \in 1..Len(Order)
  /\ raised \in BOOLEAN
  /\ crashes \in Nat /\ faults \in Nat
  /\ was \in Tree /\ cut \in {"none", "gap", "marker"}

\* The launcher starts the game only on the whole payload of this recipe, never
\* on a half-swapped or earlier one (install_command returning 0), unless the
\* write of the published journal failed behind the marker.
ReadyMeansComplete == pc = "ready" /\ cut # "marker" => Complete

\* The marker is the commit point: from then on no recovery, rollback or
\* clean-up touches the installed payload again.
MarkerCommits == [][marker # 0 /\ cut' # "marker" => dest' = dest]_vars

\* Until the marker is written, every path of the earlier install exists in the
\* game directory or in the backup ("one recoverable transaction", README.md:325).
OldPayloadKept ==
  marker = 0 => \A p \in Path : was[p] = "old" => "old" \in {dest[p], backup[p]}

\* It is so for every interruption but those in a gap of the journal.
KeptUnlessCut == cut = "none" => OldPayloadKept

\* With no transaction open the swap has happened entirely or not at all.
AtomicSwap == cut = "none" /\ journal = NoJournal => Complete \/ dest = was

\* The inductive strengthening of ReadyMeansComplete and MarkerCommits: where
\* each point of the program stands with respect to the marker and the journal.
Settled == {"check", "adopt", "extract", "begin", "open"}
Finishing == {"finBackup", "finStage", "finJournal", "dropBackup", "dropStage", "dropJournal"}
Consistent ==
  /\ marker # 0 => /\ Complete
                   /\ pc \in {"off", "recover", "check", "publish", "ready"} \cup Finishing
                   /\ journal = NoJournal \/ journal.published \/ marker = journal.tid
  /\ pc \in {"mark", "publish", "ready"} => Complete
  /\ pc \in Finishing \cup {"publish"} => marker # 0
  /\ pc \in Settled => journal = NoJournal
  /\ pc \in InTry => log.tid = journal.tid /\ log.tid # 0 /\ (marker # 0 => marker = log.tid)
  /\ journal # NoJournal => journal.tid # 0
  /\ journal.published \/ log.published => marker # 0
CommitInv == cut # "marker" => Consistent

\* However it was interrupted, launching again gets to the game.
EventuallyReady == []<>(pc = "ready")

-----------------------------------------------------------------------------
(* NxTransaction implements RecoverableSwap while no interruption falls in  *)
(* a gap.  A path counts as exchanged with the rename that installs it, a   *)
(* transaction as committed with the marker, and as taken back with the     *)
(* decision to roll back.                                                   *)

\* The journal that counts: in memory while the transaction runs, else on disk.
Account == IF pc \in InTry THEN log ELSE journal
Open == marker = 0 /\ journal # NoJournal /\ pc \notin Undoing

\* Paths that the rollback at work has still to return to the stage.
ToUndo == IF pc \notin {"undoNew", "clearDest", "restore"} THEN {}
          ELSE {Order[i] : i \in {k \in 1..Len(Order) : k < pos \/ (k = pos /\ pc = "undoNew")}}

DestView ==
  [p \in Path |-> IF pc \in Undoing THEN was[p]
                  ELSE IF Open /\ p \in Account.backedUp \ Account.installed THEN backup[p]
                  ELSE dest[p]]
StageView ==
  [p \in Path |-> IF marker # 0 THEN "none"
                  ELSE IF p \in ToUndo \cap log.installed /\ stage[p] = "none" THEN dest[p]
                  ELSE stage[p]]
BackupView ==
  [p \in Path |-> IF Open /\ p \in Account.installed \cap Account.backedUp THEN backup[p]
                  ELSE "none"]

Swap == INSTANCE RecoverableSwap WITH
  Payload <- Payload, None <- "none", Prepares <- {},
  dest <- DestView, stage <- StageView, backup <- BackupView,
  open <- Open, done <- IF Open THEN Account.installed ELSE {}, marked <- marker # 0

\* Every step of the installer that no interruption in a gap precedes or makes is one of
\* the transaction or changes nothing of it.
ImplementsSwap == [][cut' = "none" => Swap!Next \/ UNCHANGED Swap!vars]_vars
=============================================================================
