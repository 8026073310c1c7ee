------------------------ MODULE NxTransaction_proofs ------------------------
(***************************************************************************)
(* TLAPS proofs about NxTransaction, for every list of commit paths, every *)
(* set of crash and fault points and every number of crashes and faults.   *)
(***************************************************************************)
EXTENDS NxTransaction, TLAPS

-----------------------------------------------------------------------------
\* The current path of a loop is one of the recipe's commit paths.
LEMMA OrderFacts ==
  /\ Len(Order) \in Nat /\ Len(Order) >= 1
  /\ \A i \in 1..Len(Order) : Order[i] \in Path
  /\ 1 \in 1..Len(Order) /\ Len(Order) \in 1..Len(Order)
<1>1. Order \in Seq(Path) /\ Order # <<>>
  BY NxAssumption DEF NxAssumption
<1> QED BY <1>1 DEF Path

\* The empty journal and the empty tree have their types.
LEMMA EmptyFacts == NoJournal \in Journal /\ Nothing \in Tree
BY DEF NoJournal, Fresh, Journal, Nothing, Tree, Payload

\* TypeOK holds of the initial states.
LEMMA TypeInit == Init => TypeOK
<1> SUFFICES ASSUME Init PROVE TypeOK
  OBVIOUS
<1> USE DEF Init
<1>1. dest \in Tree /\ was \in Tree
  BY DEF Tree, Payload
<1> QED BY <1>1, OrderFacts, EmptyFacts DEF TypeOK, PC

\* A removal cut short leaves trees.
LEMMA HalfRemovedTypes ==
  TypeOK /\ HalfRemoved => dest' \in Tree /\ stage' \in Tree /\ backup' \in Tree
<1> SUFFICES ASSUME TypeOK, HalfRemoved
             PROVE  dest' \in Tree /\ stage' \in Tree /\ backup' \in Tree
  OBVIOUS
<1>1. backup' \in Tree
  BY DEF HalfRemoved, TypeOK
<1>2. stage' \in Tree
  BY DEF HalfRemoved, TypeOK
<1>3. dest' \in Tree
  <2>1. CASE dest' = dest
    BY <2>1 DEF TypeOK
  <2>2. CASE dest' # dest
    <3>1. PICK h : dest' = [dest EXCEPT ![here] = h]
                   /\ h \in {dest[here], IF dest[here] = "none" THEN "none" ELSE "torn"}
      BY <2>2 DEF HalfRemoved
    <3>2. here \in Path
      BY OrderFacts DEF TypeOK, here
    <3>3. h \in Payload
      BY <3>1, <3>2 DEF TypeOK, Tree, Payload
    <3> QED BY <3>1, <3>3 DEF TypeOK, Tree
  <2> QED BY <2>1, <2>2
<1> QED BY <1>1, <1>2, <1>3

\* No step leaves the types.
LEMMA TypeStep == TypeOK /\ [Next]_vars => TypeOK'
<1> SUFFICES ASSUME TypeOK, [Next]_vars PROVE TypeOK'
  OBVIOUS
<1> USE OrderFacts, EmptyFacts DEF TypeOK, NoCount, Goto, disk
<1>h. here \in Path
  BY DEF here
<1>1. CASE Start
  BY <1>h, <1>1 DEF Start, PC
<1>2. CASE Recover
  BY <1>h, <1>2 DEF Recover, PC
<1>3. CASE DropBackup
  BY <1>h, <1>3 DEF DropBackup, PC
<1>4. CASE DropStage
  BY <1>h, <1>4 DEF DropStage, PC
<1>5. CASE DropJournal
  BY <1>h, <1>5 DEF DropJournal, PC
<1>6. CASE Check
  BY <1>h, <1>6 DEF Check, PC
<1>7. CASE Adopt
  BY <1>h, <1>7 DEF Adopt, PC
<1>8. CASE Extract
  BY <1>h, <1>8 DEF Extract, PC, Tree, Payload
<1>9. CASE CommitBegin
  BY <1>h, <1>9 DEF CommitBegin, PC
<1>10. CASE CommitOpen
  BY <1>h, <1>10 DEF CommitOpen, PC, Journal, Fresh
<1>11. CASE MoveToBackup
  BY <1>h, <1>11 DEF MoveToBackup, PC, Tree, Payload, Journal
<1>12. CASE LogBackup
  BY <1>h, <1>12 DEF LogBackup, PC
<1>13. CASE InstallStaged
  BY <1>h, <1>13 DEF InstallStaged, PC, Tree, Payload, Journal
<1>14. CASE LogInstall
  BY <1>h, <1>14 DEF LogInstall, PC
<1>15. CASE ValidateInstalled
  BY <1>h, <1>15 DEF ValidateInstalled, PC
<1>16. CASE WriteMarker
  BY <1>h, <1>16 DEF WriteMarker, PC, Journal
<1>17. CASE Publish
  BY <1>h, <1>17 DEF Publish, PC, Journal
<1>18. CASE UndoInstalled
  BY <1>h, <1>18 DEF UndoInstalled, PC, Tree, Payload
<1>19. CASE ClearForRestore
  BY <1>h, <1>19 DEF ClearForRestore, PC, Tree, Payload
<1>20. CASE RestoreBackup
  BY <1>h, <1>20 DEF RestoreBackup, PC, MustRestore, Tree, Payload
<1>21. CASE UndoDropBackup
  BY <1>h, <1>21 DEF UndoDropBackup, PC
<1>22. CASE UndoDropJournal
  BY <1>h, <1>22 DEF UndoDropJournal, PC
<1>23. CASE GameExits
  BY <1>h, <1>23 DEF GameExits, PC
<1>24. CASE Crash
  <2>1. HalfRemoved
    BY <1>24 DEF Crash
  <2>2. dest' \in Tree /\ stage' \in Tree /\ backup' \in Tree
    BY <2>1, HalfRemovedTypes
  <2>3. /\ pc' \in PC /\ pos' \in 1..Len(Order) /\ raised' \in BOOLEAN
        /\ log' \in Journal
    BY <1>24 DEF Crash, PC
  <2>4. /\ crashes' \in Nat /\ faults' \in Nat /\ cut' \in {"none", "gap", "marker"}
        /\ UNCHANGED <<journal, marker, tid, was>>
    BY <1>24 DEF Crash, CutAt
  <2> QED BY <2>2, <2>3, <2>4
<1>25. CASE FaultInTry
  BY <1>h, <1>25 DEF FaultInTry, PC
<1>26. CASE FaultOutside
  <2>1. HalfRemoved
    BY <1>26 DEF FaultOutside
  <2>2. dest' \in Tree /\ stage' \in Tree /\ backup' \in Tree
    BY <2>1, HalfRemovedTypes
  <2>3. /\ pc' \in PC /\ pos' \in 1..Len(Order) /\ raised' \in BOOLEAN
        /\ log' \in Journal
    BY <1>26 DEF FaultOutside, PC
  <2>4. /\ crashes' \in Nat /\ faults' \in Nat /\ cut' \in {"none", "gap", "marker"}
        /\ UNCHANGED <<journal, marker, tid, was>>
    BY <1>26 DEF FaultOutside, CutAt
  <2> QED BY <2>2, <2>3, <2>4
<1>27. CASE UNCHANGED vars
  BY <1>27 DEF vars
<1> QED
  BY <1>1, <1>2, <1>3, <1>4, <1>5, <1>6, <1>7, <1>8, <1>9, <1>10, <1>11, <1>12, <1>13, <1>14, <1>15, <1>16, <1>17, <1>18, <1>19, <1>20, <1>21, <1>22, <1>23, <1>24, <1>25, <1>26, <1>27 DEF Next, Run

-----------------------------------------------------------------------------
\* A tree removal cut short touches the game directory only while rolling back.
LEMMA HalfRemovedDest == HalfRemoved /\ pc \notin Undoing => dest' = dest
BY DEF HalfRemoved, Undoing

\* Once the write of the published journal has failed, that stays on record.
LEMMA CutStays == [Next]_vars /\ cut' # "marker" => cut # "marker"
<1> SUFFICES ASSUME [Next]_vars, cut = "marker" PROVE cut' = "marker"
  OBVIOUS
<1>1. CASE Crash \/ FaultInTry \/ FaultOutside
  BY <1>1 DEF Crash, FaultInTry, FaultOutside, CutAt
<1>2. CASE Start \/ Recover \/ DropBackup \/ DropStage \/ DropJournal \/ Check \/ Adopt
           \/ Extract \/ CommitBegin \/ CommitOpen \/ LogBackup \/ LogInstall
  BY <1>2 DEF Start, Recover, DropBackup, DropStage, DropJournal, Check, Adopt, Extract,
              CommitBegin, CommitOpen, LogBackup, LogInstall, NoCount
<1>3. CASE MoveToBackup \/ InstallStaged \/ UndoInstalled \/ ClearForRestore \/ RestoreBackup
  BY <1>3 DEF MoveToBackup, InstallStaged, UndoInstalled, ClearForRestore, RestoreBackup, NoCount
<1>4. CASE ValidateInstalled \/ WriteMarker \/ Publish \/ UndoDropBackup
           \/ UndoDropJournal \/ GameExits
  BY <1>4 DEF ValidateInstalled, WriteMarker, Publish, UndoDropBackup, UndoDropJournal,
              GameExits, NoCount
<1>5. CASE UNCHANGED vars
  BY <1>5 DEF vars
<1> QED BY <1>1, <1>2, <1>3, <1>4, <1>5 DEF Next, Run

\* CommitInv holds of the initial states.
LEMMA CommitInit == Init => CommitInv
BY DEF Init, CommitInv, Consistent, Settled, Finishing, InTry, NoJournal, Fresh

\* Consistent is kept by every step but a failing write of the published journal.
LEMMA ConsistentStep ==
  TypeOK /\ Consistent /\ [Next]_vars /\ cut' # "marker" => Consistent'
<1> SUFFICES ASSUME TypeOK, Consistent, [Next]_vars, cut' # "marker" PROVE Consistent'
  OBVIOUS
<1> USE DEF Consistent, Settled, Finishing, Undoing, InTry, NoCount, Goto, disk
<1>fresh. \A t : Fresh(t).tid = t /\ ~Fresh(t).published
  BY DEF Fresh
<1>1. CASE Start
  BY <1>fresh, <1>1 DEF Start, Complete, NoJournal
<1>2. CASE Recover
  BY <1>2 DEF Recover, Complete
<1>3. CASE DropBackup
  BY <1>3 DEF DropBackup, Complete
<1>4. CASE DropStage
  BY <1>4 DEF DropStage, Complete
<1>5. CASE DropJournal
  BY <1>5 DEF DropJournal, Complete
<1>6. CASE Check
  BY <1>6 DEF Check, Complete
<1>7. CASE Adopt
  BY <1>7 DEF Adopt, Complete
<1>8. CASE Extract
  BY <1>8 DEF Extract
<1>9. CASE CommitBegin
  BY <1>9 DEF CommitBegin
<1>10. CASE CommitOpen
  <2>1. tid + 1 # 0
    BY DEF TypeOK
  <2> QED BY <2>1, <1>fresh, <1>10 DEF CommitOpen, Complete, NoJournal
<1>11. CASE MoveToBackup
  <2>1. log'.tid = log.tid /\ log'.published = log.published
    BY <1>11 DEF MoveToBackup, TypeOK, Journal
  <2>2. marker = 0 /\ marker' = 0 /\ journal' = journal
    BY <1>11 DEF MoveToBackup
  <2>3. pc = "backup" /\ pc' \in {"logBackup", "install"}
    BY <1>11 DEF MoveToBackup
  <2> QED BY <2>1, <2>2, <2>3
<1>12. CASE LogBackup
  BY <1>12 DEF LogBackup
<1>13. CASE InstallStaged
  BY <1>13 DEF InstallStaged
<1>14. CASE LogInstall
  BY <1>14 DEF LogInstall
<1>15. CASE ValidateInstalled
  BY <1>15 DEF ValidateInstalled, Complete
<1>16. CASE WriteMarker
  BY <1>16 DEF WriteMarker, Complete
<1>17. CASE Publish
  BY <1>17 DEF Publish, Complete
<1>18. CASE UndoInstalled
  BY <1>18 DEF UndoInstalled
<1>19. CASE ClearForRestore
  BY <1>19 DEF ClearForRestore
<1>20. CASE RestoreBackup
  BY <1>20 DEF RestoreBackup
<1>21. CASE UndoDropBackup
  BY <1>21 DEF UndoDropBackup
<1>22. CASE UndoDropJournal
  BY <1>fresh, <1>22 DEF UndoDropJournal, NoJournal
<1>23. CASE GameExits
  BY <1>23 DEF GameExits, Complete
<1>24. CASE Crash
  <2>1. marker # 0 => dest' = dest
    BY <1>24, HalfRemovedDest DEF Crash
  <2>2. marker # 0 => Complete'
    BY <2>1 DEF Complete
  <2>3. pc' = "off" /\ log' = NoJournal /\ UNCHANGED <<journal, marker>>
    BY <1>24 DEF Crash
  <2> QED BY <2>2, <2>3, <1>fresh DEF NoJournal
<1>25. CASE FaultInTry
  BY <1>25 DEF FaultInTry
<1>26. CASE FaultOutside
  <2>1. marker # 0 => dest' = dest
    BY <1>26, HalfRemovedDest DEF FaultOutside
  <2>2. marker # 0 => Complete'
    BY <2>1 DEF Complete
  <2>3. pc' = "off" /\ log' = NoJournal /\ UNCHANGED <<journal, marker>>
    BY <1>26 DEF FaultOutside
  <2> QED BY <2>2, <2>3, <1>fresh DEF NoJournal
<1>27. CASE UNCHANGED vars
  BY <1>27 DEF vars, Complete
<1> QED
  BY <1>1, <1>2, <1>3, <1>4, <1>5, <1>6, <1>7, <1>8, <1>9, <1>10, <1>11, <1>12, <1>13, <1>14, <1>15, <1>16, <1>17, <1>18, <1>19, <1>20, <1>21, <1>22, <1>23, <1>24, <1>25, <1>26, <1>27 DEF Next, Run

-----------------------------------------------------------------------------
\* TypeOK holds in every reachable state.
THEOREM TypeCorrect == Spec => []TypeOK
<1> QED BY TypeInit, TypeStep, PTL DEF Spec

\* CommitInv is inductive.
LEMMA CommitStep == TypeOK /\ CommitInv /\ [Next]_vars => CommitInv'
BY ConsistentStep, CutStays DEF CommitInv

\* The strengthening holds in every reachable state.
THEOREM CommitInvariant == Spec => []CommitInv
<1>1. Init => CommitInv
  BY CommitInit
<1>2. TypeOK /\ CommitInv /\ [Next]_vars => CommitInv'
  BY CommitStep
<1> QED BY <1>1, <1>2, TypeCorrect, PTL DEF Spec

\* The game is started only on the whole payload of this recipe, whichever
\* paths it commits and wherever the installer dies or fails, but for a failing
\* write of the published journal.
THEOREM ReadyIsComplete == Spec => []ReadyMeansComplete
<1>1. CommitInv => ReadyMeansComplete
  BY DEF CommitInv, Consistent, ReadyMeansComplete
<1> QED BY <1>1, CommitInvariant, PTL

\* A step taken under the marker leaves the game directory alone.
LEMMA MarkerStep ==
  CommitInv /\ [Next]_vars => [marker # 0 /\ cut' # "marker" => dest' = dest]_vars
<1> SUFFICES ASSUME CommitInv, Next, marker # 0, cut' # "marker" PROVE dest' = dest
  BY DEF vars
<1>c. Consistent
  BY CutStays DEF CommitInv
<1> USE <1>c DEF Consistent, Finishing, Undoing, Goto, disk
<1>1. CASE Crash \/ FaultOutside
  BY <1>1, HalfRemovedDest DEF Crash, FaultOutside
<1>2. CASE FaultInTry
  BY <1>2 DEF FaultInTry
<1>3. CASE MoveToBackup \/ InstallStaged \/ UndoInstalled \/ ClearForRestore \/ RestoreBackup
  BY <1>3 DEF MoveToBackup, InstallStaged, UndoInstalled, ClearForRestore, RestoreBackup
<1>4. CASE Start \/ Recover \/ DropBackup \/ DropStage \/ DropJournal \/ Check \/ Adopt
           \/ Extract \/ CommitBegin \/ CommitOpen \/ LogBackup \/ LogInstall
  BY <1>4 DEF Start, Recover, DropBackup, DropStage, DropJournal, Check, Adopt, Extract,
              CommitBegin, CommitOpen, LogBackup, LogInstall
<1>5. CASE ValidateInstalled \/ WriteMarker \/ Publish \/ UndoDropBackup
           \/ UndoDropJournal \/ GameExits
  BY <1>5 DEF ValidateInstalled, WriteMarker, Publish, UndoDropBackup, UndoDropJournal,
              GameExits
<1> QED BY <1>1, <1>2, <1>3, <1>4, <1>5 DEF Next, Run

\* The marker is the commit point.
THEOREM MarkerIsCommitPoint == Spec => MarkerCommits
<1>1. CommitInv /\ [Next]_vars => [marker # 0 /\ cut' # "marker" => dest' = dest]_vars
  BY MarkerStep
<1> QED BY <1>1, CommitInvariant, PTL DEF Spec, MarkerCommits

-----------------------------------------------------------------------------
\* A rollback by the journal j gives p its earlier state back: it was not touched,
\* or its payload is in the backup and j knows, or it had none and j knows of the new one.
Recoverable(j, p) ==
  \/ p \notin j.installed /\ p \notin j.backedUp /\ dest[p] = was[p]
  \/ p \in j.backedUp /\ was[p] = "old" /\ backup[p] = "old"
  \/ p \in j.installed /\ p \notin j.backedUp /\ was[p] = "none"

\* While committing, the journal in memory covers what was done, and the one on disk
\* is the same outside of the gaps.
Forward ==
  /\ \A p \in Path : Recoverable(log, p)
  /\ pc \notin {"logBackup", "logInstall"} => journal = log
  /\ \A i \in 1..Len(Order) : i > pos \/ (i = pos /\ pc = "backup") =>
       Order[i] \notin log.installed /\ Order[i] \notin log.backedUp
  /\ pc \in {"logBackup", "install"} => here \in log.backedUp \/ was[here] = "none"

\* While rolling back, the paths behind pos are restored and those before it can be.
Backward ==
  /\ journal # NoJournal
  /\ \A i \in 1..Len(Order) :
       /\ i > pos \/ pc \in {"undoBackup", "undoJournal"} => dest[Order[i]] = was[Order[i]]
       /\ \/ i < pos /\ pc \in {"undoNew", "clearDest", "restore"}
          \/ i = pos /\ pc = "undoNew"
          => Recoverable(log, Order[i])
  /\ pc \in {"clearDest", "restore"} =>
       IF here \in log.backedUp THEN was[here] = "old" /\ backup[here] = "old"
       ELSE dest[here] = was[here]

\* Before the marker, the earlier payload is in place or can be put back.
Kept ==
  /\ pc # "ready"
  /\ pc \in Settled => dest = was
  /\ pc \in {"off", "recover"} => IF journal = NoJournal THEN dest = was
                                  ELSE \A p \in Path : Recoverable(journal, p)
  /\ pc \in InTry => Forward
  /\ pc \in Undoing => Backward

KeptInv == /\ was \in [Path -> {"none", "old"}]
           /\ marker = 0 /\ cut = "none" => Kept

-----------------------------------------------------------------------------
\* The commit paths are all of Path, and each has one index.
LEMMA PathIndex ==
  /\ \A p \in Path : \E i \in 1..Len(Order) : p = Order[i]
  /\ \A i, j \in 1..Len(Order) : Order[i] = Order[j] => i = j
BY NxAssumption DEF NxAssumption, Path

\* The marker does not go away.
LEMMA MarkerStays == TypeOK /\ Consistent /\ [Next]_vars /\ marker' = 0 => marker = 0
<1> SUFFICES ASSUME TypeOK, Consistent, [Next]_vars, marker' = 0, marker # 0 PROVE FALSE
  OBVIOUS
<1>1. CASE Adopt
  BY <1>1 DEF Adopt, TypeOK
<1>2. CASE WriteMarker
  BY <1>2 DEF WriteMarker, Consistent, InTry, Goto
<1>3. CASE Crash \/ FaultInTry \/ FaultOutside
  BY <1>3 DEF Crash, FaultInTry, FaultOutside, disk
<1>4. CASE ~(Adopt \/ WriteMarker \/ Crash \/ FaultInTry \/ FaultOutside)
  BY <1>4 DEF Next, Run, vars, disk, Start, Recover, DropBackup, DropStage, DropJournal, Check,
     Extract, CommitBegin, CommitOpen, MoveToBackup, LogBackup, InstallStaged, LogInstall,
     ValidateInstalled, Publish, UndoInstalled, ClearForRestore, RestoreBackup, UndoDropBackup,
     UndoDropJournal, GameExits
<1> QED BY <1>1, <1>2, <1>3, <1>4

\* What was there at first, and that an interruption did harm, stays on record.
LEMMA HistoryStays == [Next]_vars => was' = was /\ (cut' = "none" => cut = "none")
<1> SUFFICES ASSUME [Next]_vars PROVE was' = was /\ (cut' = "none" => cut = "none")
  OBVIOUS
<1>1. CASE Crash \/ FaultInTry \/ FaultOutside
  BY <1>1 DEF Crash, FaultInTry, FaultOutside, CutAt
<1>2. CASE ~(Crash \/ FaultInTry \/ FaultOutside)
  BY <1>2 DEF Next, Run, vars, NoCount, Start, Recover, DropBackup, DropStage, DropJournal, Check,
     Adopt, Extract, CommitBegin, CommitOpen, MoveToBackup, LogBackup, InstallStaged, LogInstall,
     ValidateInstalled, WriteMarker, Publish, UndoInstalled, ClearForRestore, RestoreBackup,
     UndoDropBackup, UndoDropJournal, GameExits
<1> QED BY <1>1, <1>2

\* An interruption that does no harm leaves the payload and a backup in use alone.
LEMMA HalfRemovedKeeps ==
  HalfRemoved /\ pc \notin Undoing =>
    dest' = dest /\ (pc \in InTry \cup {"off", "recover"} => backup' = backup)
BY DEF HalfRemoved, Undoing, InTry

LEMMA KeptInit == Init => KeptInv
BY DEF Init, KeptInv, Kept, Settled, InTry, Undoing

-----------------------------------------------------------------------------
\* The steps of commit_stage keep the journal's account of the backup.
LEMMA ForwardStep ==
  ASSUME TypeOK, TypeOK', was \in [Path -> {"none", "old"}], was' = was, Forward, pc \in InTry,
         MoveToBackup \/ LogBackup \/ InstallStaged \/ LogInstall \/ ValidateInstalled
  PROVE  Forward'
<1> USE OrderFacts, PathIndex DEF Goto
<1>h. here \in Path /\ pos \in 1..Len(Order) /\ here = Order[pos]
  BY DEF here, TypeOK
<1>j. log \in Journal /\ log' \in Journal
  BY DEF TypeOK
<1>1. CASE MoveToBackup
  <2>0. pc = "backup" /\ UNCHANGED <<journal, pos>> /\ here' = here
    BY <1>1 DEF MoveToBackup, here
  <2>1. here \notin log.installed /\ here \notin log.backedUp /\ dest[here] = was[here]
    BY <1>h, <2>0 DEF Forward, Recoverable
  <2>2. log'.installed = log.installed
    BY <1>1, <1>j DEF MoveToBackup, Journal
  <2>3. CASE dest[here] # "none"
    <3>1. /\ pc' = "logBackup" /\ log'.backedUp = log.backedUp \cup {here}
          /\ dest' = [dest EXCEPT ![here] = "none"] /\ backup' = [backup EXCEPT ![here] = "old"]
      BY <1>1, <1>h, <1>j, <2>0, <2>1, <2>3 DEF MoveToBackup, Journal, TypeOK, Tree
    <3>2. was[here] = "old"
      BY <1>h, <2>1, <2>3
    <3>3. \A p \in Path : Recoverable(log, p)'
      <4> SUFFICES ASSUME NEW p \in Path PROVE Recoverable(log, p)'
        OBVIOUS
      <4>1. CASE p = here
        BY <4>1, <3>1, <3>2, <1>h DEF Recoverable, TypeOK, Tree
      <4>2. CASE p # here
        <5>1. dest'[p] = dest[p] /\ backup'[p] = backup[p]
          BY <4>2, <3>1 DEF TypeOK, Tree
        <5>2. Recoverable(log, p)
          BY DEF Forward
        <5> QED BY <4>2, <5>1, <5>2, <3>1, <2>2 DEF Recoverable
      <4> QED BY <4>1, <4>2
    <3>4. \A i \in 1..Len(Order) : i > pos => Order[i] \notin log'.installed /\ Order[i] \notin log'.backedUp
      BY <1>h, <2>0, <2>2, <3>1 DEF Forward
    <3> QED BY <2>0, <3>1, <3>3, <3>4 DEF Forward
  <2>4. CASE dest[here] = "none"
    <3>1. pc' = "install" /\ UNCHANGED <<backup, dest, log>>
      BY <1>1, <2>4 DEF MoveToBackup
    <3>2. \A p \in Path : Recoverable(log, p)'
      BY <3>1 DEF Forward, Recoverable
    <3>3. was[here] = "none"
      BY <2>1, <2>4
    <3> QED BY <2>0, <3>1, <3>2, <3>3 DEF Forward
  <2> QED BY <2>3, <2>4
<1>2. CASE LogBackup
  <2>1. /\ pc = "logBackup" /\ pc' = "install" /\ journal' = log
        /\ UNCHANGED <<dest, backup, log, pos>> /\ here' = here
    BY <1>2 DEF LogBackup, here
  <2>2. here \in log.backedUp \/ was[here] = "none"
    BY <2>1 DEF Forward
  <2> QED BY <2>1, <2>2 DEF Forward, Recoverable
<1>3. CASE InstallStaged
  <2>1. /\ pc = "install" /\ pc' = "logInstall" /\ UNCHANGED <<backup, journal, pos>>
        /\ dest' = [dest EXCEPT ![here] = stage[here]] /\ here' = here
    BY <1>3 DEF InstallStaged, here
  <2>2. log'.installed = log.installed \cup {here} /\ log'.backedUp = log.backedUp
    BY <1>3, <1>j DEF InstallStaged, Journal
  <2>3. \A p \in Path : Recoverable(log, p)'
    <3> SUFFICES ASSUME NEW p \in Path PROVE Recoverable(log, p)'
      OBVIOUS
    <3>1. Recoverable(log, p)
      BY DEF Forward
    <3>2. CASE p = here
      BY <3>1, <3>2, <2>1, <2>2 DEF Forward, Recoverable
    <3>3. CASE p # here
      <4>1. dest'[p] = dest[p]
        BY <3>3, <2>1 DEF TypeOK, Tree
      <4> QED BY <3>1, <3>3, <4>1, <2>1, <2>2 DEF Recoverable
    <3> QED BY <3>2, <3>3
  <2>4. \A i \in 1..Len(Order) : i > pos => Order[i] \notin log'.installed /\ Order[i] \notin log'.backedUp
    BY <1>h, <2>2 DEF Forward
  <2> QED BY <2>1, <2>3, <2>4 DEF Forward
<1>4. CASE LogInstall
  <2>1. journal' = log /\ UNCHANGED <<dest, backup, log>>
    BY <1>4 DEF LogInstall
  <2>2. \/ pc' = "backup" /\ pos' = pos + 1
        \/ pc' = "validate" /\ pos' = pos
    BY <1>4 DEF LogInstall
  <2>3. \A i \in 1..Len(Order) : i > pos => Order[i] \notin log.installed /\ Order[i] \notin log.backedUp
    BY DEF Forward
  <2>4. \A i \in 1..Len(Order) : i > pos' \/ (i = pos' /\ pc' = "backup") => i > pos
    BY <1>h, <2>2
  <2> QED BY <2>1, <2>2, <2>3, <2>4 DEF Forward, Recoverable
<1>5. CASE ValidateInstalled
  BY <1>5 DEF ValidateInstalled, Forward, Recoverable, disk
<1> QED BY <1>1, <1>2, <1>3, <1>4, <1>5

\* The steps of rollback_transaction restore one path after the other.
LEMMA BackwardStep ==
  ASSUME TypeOK, TypeOK', was' = was, Backward, pc \in Undoing,
         UndoInstalled \/ ClearForRestore \/ RestoreBackup \/ UndoDropBackup
  PROVE  Backward'
<1> USE OrderFacts, PathIndex DEF Goto
<1>h. here \in Path /\ pos \in 1..Len(Order) /\ here = Order[pos]
  BY DEF here, TypeOK
<1>o. UNCHANGED <<journal, log>>
  BY DEF UndoInstalled, ClearForRestore, RestoreBackup, UndoDropBackup
<1>i. \A i \in 1..Len(Order) : i # pos => Order[i] # here
  BY <1>h
<1>1. CASE UndoInstalled
  <2>1. pc = "undoNew" /\ pc' = "clearDest" /\ UNCHANGED <<backup, pos>> /\ here' = here
    BY <1>1 DEF UndoInstalled, here
  <2>2. \A i \in 1..Len(Order) : i # pos => dest'[Order[i]] = dest[Order[i]]
    BY <1>1, <1>i, <1>h DEF UndoInstalled, TypeOK, Tree
  <2>3. Recoverable(log, here)
    BY <1>h, <2>1 DEF Backward
  <2>4. here \in log.installed => dest'[here] = "none"
    BY <1>1, <1>h DEF UndoInstalled, TypeOK, Tree
  <2>5. here \notin log.installed => dest'[here] = dest[here]
    BY <1>1 DEF UndoInstalled
  <2>6. IF here \in log.backedUp THEN was[here] = "old" /\ backup[here] = "old"
        ELSE dest'[here] = was[here]
    BY <2>3, <2>4, <2>5 DEF Recoverable
  <2> QED BY <1>h, <1>o, <2>1, <2>2, <2>6 DEF Backward, Recoverable
<1>2. CASE ClearForRestore
  <2>1. pc = "clearDest" /\ pc' = "restore" /\ UNCHANGED <<backup, pos>> /\ here' = here
    BY <1>2 DEF ClearForRestore, here
  <2>2. \A i \in 1..Len(Order) : i # pos => dest'[Order[i]] = dest[Order[i]]
    BY <1>2, <1>i, <1>h DEF ClearForRestore, TypeOK, Tree
  <2>3. here \notin log.backedUp => dest'[here] = dest[here]
    BY <1>2 DEF ClearForRestore, MustRestore
  <2> QED BY <1>h, <1>o, <2>1, <2>2, <2>3 DEF Backward, Recoverable
<1>3. CASE RestoreBackup
  <2>1. /\ pc = "restore"
        /\ \/ pos > 1 /\ pc' = "undoNew" /\ pos' = pos - 1
           \/ pos = 1 /\ pc' = "undoBackup" /\ pos' = pos
    BY <1>3 DEF RestoreBackup
  <2>2. \A i \in 1..Len(Order) : i # pos => dest'[Order[i]] = dest[Order[i]]
                                        /\ backup'[Order[i]] = backup[Order[i]]
    BY <1>3, <1>i, <1>h DEF RestoreBackup, TypeOK, Tree
  <2>3. dest'[here] = was[here]
    <3>1. CASE here \in log.backedUp
      <4>1. was[here] = "old" /\ backup[here] = "old"
        BY <2>1, <3>1 DEF Backward
      <4> QED BY <1>3, <1>h, <3>1, <4>1 DEF RestoreBackup, MustRestore, TypeOK, Tree
    <3>2. CASE here \notin log.backedUp
      BY <1>3, <2>1, <3>2 DEF RestoreBackup, MustRestore, Backward
    <3> QED BY <3>1, <3>2
  <2>4. \A i \in 1..Len(Order) : i >= pos => dest'[Order[i]] = was[Order[i]]
    BY <1>h, <2>2, <2>3 DEF Backward
  <2>5. \A i \in 1..Len(Order) : i < pos => Recoverable(log, Order[i])'
    BY <1>h, <1>o, <2>1, <2>2 DEF Backward, Recoverable
  <2>6. journal' # NoJournal
    BY <1>o DEF Backward
  <2> QED BY <1>h, <2>1, <2>4, <2>5, <2>6 DEF Backward
<1>4. CASE UndoDropBackup
  <2>1. pc = "undoBackup" /\ pc' = "undoJournal" /\ UNCHANGED <<dest, pos>>
    BY <1>4 DEF UndoDropBackup
  <2> QED BY <1>o, <2>1 DEF Backward
<1> QED BY <1>1, <1>2, <1>3, <1>4

-----------------------------------------------------------------------------
LEMMA KeptStep ==
  ASSUME TypeOK, TypeOK', Consistent, [Next]_vars, Kept, was \in [Path -> {"none", "old"}],
         was' = was, marker = 0, marker' = 0, cut = "none", cut' = "none"
  PROVE  Kept'
<1> USE OrderFacts DEF Goto, NoCount, disk, Settled, InTry, Undoing
<1>j. \A t : t # 0 => Fresh(t) # NoJournal
  BY DEF NoJournal, Fresh
<1>t. pc \in InTry => journal # NoJournal
  BY DEF Consistent, NoJournal, Fresh
<1>f. pc \notin Finishing \cup {"publish", "ready"}
  BY DEF Consistent, Kept
<1>1. CASE Start
  BY <1>1 DEF Start, Kept, Recoverable
<1>2. CASE Recover
  <2>1. journal # NoJournal => ~(journal.published \/ marker = journal.tid)
    BY DEF Consistent
  <2>2. CASE journal = NoJournal
    BY <1>2, <2>2 DEF Recover, Kept
  <2>3. CASE journal # NoJournal
    <3>1. pc' = "undoNew" /\ pos' = Len(Order) /\ log' = journal /\ UNCHANGED <<dest, backup, journal>>
      BY <1>2, <2>1, <2>3 DEF Recover
    <3>2. \A p \in Path : Recoverable(journal, p)
      BY <1>2, <2>3 DEF Recover, Kept
    <3>3. \A p \in Path : Recoverable(log, p)'
      BY <3>1, <3>2 DEF Recoverable
    <3> QED BY <2>3, <3>1, <3>3 DEF Kept, Backward
  <2> QED BY <2>2, <2>3
<1>3. CASE DropBackup \/ DropStage \/ DropJournal \/ Publish \/ GameExits
  BY <1>3, <1>f DEF DropBackup, DropStage, DropJournal, Publish, GameExits, Finishing
<1>4. CASE Check \/ Extract \/ CommitBegin
  BY <1>4 DEF Check, Extract, CommitBegin, Kept
<1>5. CASE Adopt
  <2>1. pc' = "extract" /\ dest' = dest /\ pc = "adopt"
    BY <1>5 DEF Adopt, TypeOK
  <2> QED BY <2>1 DEF Kept
<1>6. CASE CommitOpen
  <2>1. /\ pc' = "backup" /\ dest' = dest /\ dest = was /\ journal' = log'
        /\ log'.installed = {} /\ log'.backedUp = {}
    BY <1>6 DEF CommitOpen, Kept, Fresh
  <2>2. \A p \in Path : Recoverable(log, p)'
    BY <2>1 DEF Recoverable
  <2> QED BY <2>1, <2>2 DEF Kept, Forward
<1>7. CASE MoveToBackup \/ LogBackup \/ InstallStaged \/ LogInstall \/ ValidateInstalled
  <2>1. pc \in InTry /\ pc' \in InTry
    BY <1>7 DEF MoveToBackup, LogBackup, InstallStaged, LogInstall, ValidateInstalled
  <2>2. Forward'
    BY <1>7, <2>1, ForwardStep DEF Kept
  <2> QED BY <2>1, <2>2 DEF Kept
<1>8. CASE WriteMarker
  BY <1>8 DEF WriteMarker, Consistent
<1>9. CASE UndoInstalled \/ ClearForRestore \/ RestoreBackup \/ UndoDropBackup
  <2>1. pc \in Undoing /\ pc' \in Undoing
    BY <1>9 DEF UndoInstalled, ClearForRestore, RestoreBackup, UndoDropBackup
  <2>2. Backward'
    BY <1>9, <2>1, BackwardStep DEF Kept
  <2> QED BY <2>1, <2>2 DEF Kept
<1>10. CASE UndoDropJournal
  <2>1. pc = "undoJournal" /\ pc' \in {"off", "check"} /\ dest' = dest /\ journal' = NoJournal
    BY <1>10 DEF UndoDropJournal
  <2>2. \A p \in Path : dest[p] = was[p]
    BY <2>1, PathIndex DEF Kept, Backward
  <2>3. dest = was
    BY <2>2 DEF TypeOK, Tree
  <2> QED BY <2>1, <2>3 DEF Kept
<1>11. CASE Crash \/ FaultOutside
  <2>1. pc' = "off" /\ HalfRemoved /\ journal' = journal /\ pc \notin Undoing
    BY <1>11 DEF Crash, FaultOutside, CutAt, Gap
  <2>2. dest' = dest /\ (pc \in InTry \cup {"off", "recover"} => backup' = backup)
    BY <2>1, HalfRemovedKeeps
  <2>3. pc \notin {"logBackup", "logInstall"}
    BY <1>11 DEF Crash, FaultOutside, CutAt, Gap
  <2>4. CASE pc \in InTry
    <3>1. journal = log /\ \A p \in Path : Recoverable(log, p)
      BY <2>3, <2>4 DEF Kept, Forward
    <3> QED BY <1>t, <2>1, <2>2, <2>4, <3>1 DEF Kept, Recoverable
  <2>5. CASE pc \in Settled
    <3>1. journal = NoJournal /\ dest = was
      BY <2>5 DEF Consistent, Kept
    <3> QED BY <2>1, <2>2, <3>1 DEF Kept
  <2>6. CASE pc \in {"off", "recover"}
    BY <2>1, <2>2, <2>6 DEF Kept, Recoverable
  <2> QED BY <1>f, <2>1, <2>4, <2>5, <2>6 DEF TypeOK, PC, Finishing
<1>12. CASE FaultInTry
  <2>1. /\ pc \in InTry /\ pc' = "undoNew" /\ pos' = Len(Order)
        /\ UNCHANGED <<dest, backup, journal, log>>
    BY <1>12 DEF FaultInTry
  <2>2. \A p \in Path : Recoverable(log, p)'
    BY <2>1 DEF Kept, Forward, Recoverable
  <2> QED BY <1>t, <2>1, <2>2 DEF Kept, Backward
<1>13. CASE UNCHANGED vars
  BY <1>13 DEF vars, Kept, Forward, Backward, Recoverable, here
<1> QED
  BY <1>1, <1>2, <1>3, <1>4, <1>5, <1>6, <1>7, <1>8, <1>9, <1>10, <1>11, <1>12, <1>13 DEF Next, Run

\* The inductive invariant behind the next two theorems.
THEOREM KeptInvariant == Spec => []KeptInv
<1>1. TypeOK /\ TypeOK' /\ CommitInv /\ KeptInv /\ [Next]_vars => KeptInv'
  <2> SUFFICES ASSUME TypeOK, TypeOK', CommitInv, KeptInv, [Next]_vars PROVE KeptInv'
    OBVIOUS
  <2>1. was' = was /\ (cut' = "none" => cut = "none")
    BY HistoryStays
  <2>2. ASSUME marker' = 0, cut' = "none" PROVE Kept'
    <3>1. cut = "none" /\ Consistent
      BY <2>1, <2>2 DEF CommitInv
    <3>2. marker = 0
      BY <2>2, <3>1, MarkerStays
    <3> QED BY <2>1, <2>2, <3>1, <3>2, KeptStep DEF KeptInv
  <2> QED BY <2>1, <2>2 DEF KeptInv
<1> QED BY <1>1, KeptInit, TypeCorrect, CommitInvariant, PTL DEF Spec

\* Wherever the installer stands, each earlier payload is somewhere.
LEMMA KeptSomewhere ==
  ASSUME TypeOK, Consistent, Kept, marker = 0, NEW p \in Path, was[p] = "old"
  PROVE  "old" \in {dest[p], backup[p]}
<1> USE DEF Settled, InTry, Undoing
<1>1. \A j : Recoverable(j, p) => "old" \in {dest[p], backup[p]}
  BY DEF Recoverable
<1>2. CASE pc \in Settled
  BY <1>2 DEF Kept
<1>3. CASE pc \in {"off", "recover"}
  BY <1>1, <1>3 DEF Kept
<1>4. CASE pc \in InTry
  BY <1>1, <1>4 DEF Kept, Forward
<1>5. CASE pc \in Undoing
  <2>1. PICK i \in 1..Len(Order) : p = Order[i]
    BY PathIndex
  <2>2. CASE i < pos \/ (i = pos /\ pc = "undoNew")
    BY <1>1, <1>5, <2>1, <2>2 DEF Kept, Backward
  <2>3. CASE i > pos
    BY <1>5, <2>1, <2>3 DEF Kept, Backward
  <2>4. CASE i = pos /\ pc # "undoNew"
    BY <1>5, <2>1, <2>4 DEF Kept, Backward, here
  <2> QED BY <2>2, <2>3, <2>4, OrderFacts DEF TypeOK
<1> QED BY <1>2, <1>3, <1>4, <1>5 DEF Kept, Consistent, Finishing, TypeOK, PC

\* Before the marker every path of the earlier install is in the game directory or in the
\* backup, whatever fails and wherever the installer dies outside the gaps of its journal.
THEOREM EarlierPayloadKept == Spec => []KeptUnlessCut
<1>1. TypeOK /\ CommitInv /\ KeptInv => KeptUnlessCut
  BY KeptSomewhere DEF CommitInv, KeptInv, KeptUnlessCut, OldPayloadKept
<1> QED BY <1>1, KeptInvariant, CommitInvariant, TypeCorrect, PTL

\* With no journal on disk the swap has happened as a whole or not at all, under the same
\* condition.
THEOREM SwapIsAtomic == Spec => []AtomicSwap
<1>1. TypeOK /\ CommitInv /\ KeptInv => AtomicSwap
  <2> SUFFICES ASSUME TypeOK, Consistent, KeptInv, cut = "none", journal = NoJournal
               PROVE  Complete \/ dest = was
    BY DEF CommitInv, AtomicSwap
  <2>1. CASE marker # 0
    BY <2>1 DEF Consistent
  <2>2. CASE marker = 0
    <3>1. pc \notin InTry \cup Undoing
      BY <2>2 DEF KeptInv, Kept, Backward, Consistent, NoJournal, Fresh
    <3> QED BY <2>2, <3>1
      DEF KeptInv, Kept, Consistent, Finishing, Settled, InTry, Undoing, TypeOK, PC
  <2> QED BY <2>1, <2>2
<1> QED BY <1>1, KeptInvariant, CommitInvariant, TypeCorrect, PTL

-----------------------------------------------------------------------------
(* The refinement of RecoverableSwap.                                       *)

\* What the journal says is installed is no longer in the stage, whichever launch finds the
\* journal, and the loop of commit_stage has installed the paths before pos.
Exchanged ==
  /\ pc \in InTry =>
       /\ \A i \in 1..Len(Order) : Order[i] \in log.installed <=>
            i < pos \/ (i = pos /\ pc \in {"logInstall", "validate", "mark"})
       /\ pc \in {"validate", "mark"} => pos = Len(Order)
  /\ pc \in InTry \cup {"off", "recover"} => \A p \in Account.installed : stage[p] = "none"

ExchangeInv == marker = 0 /\ cut = "none" => Exchanged

\* ExchangeInv holds of the initial states.
LEMMA ExchangeInit == Init => ExchangeInv
BY DEF Init, ExchangeInv, Exchanged, InTry, Account, NoJournal, Fresh

\* A removal cut short leaves the stage alone while a transaction is open.
LEMMA HalfRemovedStage ==
  HalfRemoved /\ pc \notin Finishing => stage' = stage
BY DEF HalfRemoved, Finishing

\* The steps of commit_stage take the paths in order and move each out of the stage.
LEMMA ExchangeForward ==
  ASSUME TypeOK, TypeOK', Exchanged, pc \in InTry, pc # "publish",
         MoveToBackup \/ LogBackup \/ InstallStaged \/ LogInstall \/ ValidateInstalled
  PROVE  Exchanged'
<1> USE OrderFacts, PathIndex DEF Goto, InTry
<1>h. here \in Path /\ pos \in 1..Len(Order) /\ here = Order[pos]
  BY DEF here, TypeOK
<1>j. log \in Journal /\ log' \in Journal
  BY DEF TypeOK
<1>a. \A p \in log.installed : stage[p] = "none"
  BY DEF Exchanged, Account
<1>1. CASE MoveToBackup
  <2>1. log'.installed = log.installed
    BY <1>1, <1>j DEF MoveToBackup, Journal
  <2>2. pc = "backup" /\ pc' \in {"logBackup", "install"} /\ UNCHANGED <<stage, pos>>
    BY <1>1 DEF MoveToBackup
  <2> QED BY <1>a, <2>1, <2>2 DEF Exchanged, Account
<1>2. CASE LogBackup
  BY <1>a, <1>2 DEF LogBackup, Exchanged, Account
<1>3. CASE InstallStaged
  <2>1. log'.installed = log.installed \cup {here}
    BY <1>3, <1>j DEF InstallStaged, Journal
  <2>2. pc = "install" /\ pc' = "logInstall" /\ pos' = pos
        /\ stage' = [stage EXCEPT ![here] = "none"]
    BY <1>3 DEF InstallStaged
  <2>3. \A p \in log'.installed : stage'[p] = "none"
    BY <1>a, <1>h, <1>j, <2>1, <2>2 DEF TypeOK, Tree, Journal
  <2>4. \A i \in 1..Len(Order) : Order[i] \in log'.installed <=> i < pos \/ i = pos
    BY <1>h, <2>1, <2>2 DEF Exchanged
  <2> QED BY <2>2, <2>3, <2>4 DEF Exchanged, Account
<1>4. CASE LogInstall
  <2>1. UNCHANGED <<stage, log>> /\ pc = "logInstall"
    BY <1>4 DEF LogInstall
  <2>2. \/ pc' = "backup" /\ pos' = pos + 1
        \/ pc' = "validate" /\ pos' = pos /\ pos = Len(Order)
    BY <1>4 DEF LogInstall
  <2>3. \A i \in 1..Len(Order) : Order[i] \in log.installed <=> i < pos \/ i = pos
    BY <2>1 DEF Exchanged
  <2> QED BY <1>a, <1>h, <2>1, <2>2, <2>3 DEF Exchanged, Account
<1>5. CASE ValidateInstalled
  BY <1>a, <1>5 DEF ValidateInstalled, Exchanged, Account, disk
<1> QED BY <1>1, <1>2, <1>3, <1>4, <1>5

\* Exchanged is kept until the marker is written.
LEMMA ExchangeStep ==
  ASSUME TypeOK, TypeOK', Consistent, [Next]_vars, Kept, Exchanged,
         marker = 0, marker' = 0, cut = "none", cut' = "none"
  PROVE  Exchanged'
<1> USE DEF Goto, NoCount, disk, Settled, InTry, Undoing
<1>n. NoJournal.installed = {}
  BY DEF NoJournal, Fresh
<1>f. pc \notin Finishing \cup {"publish", "ready"}
  BY DEF Consistent, Kept
<1>1. CASE Start
  BY <1>1 DEF Start, Exchanged, Account
<1>2. CASE Recover
  BY <1>2 DEF Recover, Exchanged
<1>3. CASE DropBackup \/ DropStage \/ DropJournal \/ Publish \/ GameExits
  BY <1>3, <1>f DEF DropBackup, DropStage, DropJournal, Publish, GameExits, Finishing
<1>4. CASE Check \/ Extract \/ CommitBegin
  BY <1>4 DEF Check, Extract, CommitBegin, Exchanged
<1>5. CASE Adopt
  BY <1>5 DEF Adopt, Exchanged, TypeOK
<1>6. CASE CommitOpen
  <2>1. log'.installed = {} /\ pc' = "backup" /\ pos' = 1
    BY <1>6 DEF CommitOpen, Fresh
  <2> QED BY <2>1 DEF Exchanged, Account
<1>7. CASE MoveToBackup \/ LogBackup \/ InstallStaged \/ LogInstall \/ ValidateInstalled
  <2>1. pc \in InTry /\ pc # "publish"
    BY <1>7 DEF MoveToBackup, LogBackup, InstallStaged, LogInstall, ValidateInstalled
  <2> QED BY <1>7, <2>1, ExchangeForward
<1>8. CASE WriteMarker
  BY <1>8 DEF WriteMarker, Consistent
<1>9. CASE UndoInstalled \/ ClearForRestore \/ RestoreBackup \/ UndoDropBackup
  <2>1. pc' \in Undoing
    BY <1>9 DEF UndoInstalled, ClearForRestore, RestoreBackup, UndoDropBackup
  <2> QED BY <2>1 DEF Exchanged
<1>10. CASE UndoDropJournal
  BY <1>n, <1>10 DEF UndoDropJournal, Exchanged, Account
<1>11. CASE Crash \/ FaultOutside
  <2>1. /\ pc' = "off" /\ HalfRemoved /\ journal' = journal
        /\ pc \notin Undoing /\ pc \notin {"logBackup", "logInstall"}
    BY <1>11 DEF Crash, FaultOutside, CutAt, Gap
  <2>2. stage' = stage
    BY <1>f, <2>1, HalfRemovedStage
  <2>3. pc \in InTry => journal = log
    BY <2>1 DEF Kept, Forward
  <2>4. pc \in InTry \cup {"off", "recover"} => Account = journal
    BY <2>3 DEF Account
  <2>5. pc \in Settled => journal = NoJournal
    BY DEF Consistent
  <2>6. pc \in InTry \cup {"off", "recover"} \cup Settled
    BY <1>f, <2>1 DEF TypeOK, PC, Finishing
  <2>7. \A p \in journal.installed : stage[p] = "none"
    BY <1>n, <2>4, <2>5, <2>6 DEF Exchanged
  <2> QED BY <2>1, <2>2, <2>7 DEF Exchanged, Account
<1>12. CASE FaultInTry
  BY <1>12 DEF FaultInTry, Exchanged
<1>13. CASE UNCHANGED vars
  BY <1>13 DEF vars, Exchanged, Account
<1> QED
  BY <1>1, <1>2, <1>3, <1>4, <1>5, <1>6, <1>7, <1>8, <1>9, <1>10, <1>11, <1>12, <1>13 DEF Next, Run

\* ExchangeInv holds in every reachable state.
LEMMA ExchangeInvariant == Spec => []ExchangeInv
<1>1. TypeOK /\ TypeOK' /\ CommitInv /\ KeptInv /\ ExchangeInv /\ [Next]_vars => ExchangeInv'
  <2> SUFFICES ASSUME TypeOK, TypeOK', CommitInv, KeptInv, ExchangeInv, [Next]_vars,
                      marker' = 0, cut' = "none"
               PROVE  Exchanged'
    BY DEF ExchangeInv
  <2>1. cut = "none" /\ Consistent
    BY HistoryStays DEF CommitInv
  <2>2. marker = 0
    BY <2>1, MarkerStays
  <2> QED BY <2>1, <2>2, ExchangeStep DEF KeptInv, ExchangeInv
<1> QED BY <1>1, ExchangeInit, KeptInvariant, TypeCorrect, CommitInvariant, PTL DEF Spec

-----------------------------------------------------------------------------
\* Under the marker there is no transaction to see.
LEMMA MarkedStutters ==
  ASSUME marker # 0, marker' # 0, Consistent, Consistent', dest' = dest
  PROVE  UNCHANGED Swap!vars
<1>1. pc \notin Undoing /\ pc' \notin Undoing
  BY DEF Consistent, Finishing, Undoing
<1>2. ~Open /\ ~Open'
  BY DEF Open
<1>3. DestView' = DestView
  BY <1>1, <1>2 DEF DestView
<1>4. StageView' = StageView /\ BackupView' = BackupView
  BY <1>2 DEF StageView, BackupView
<1>5. (marker' # 0) = (marker # 0) /\ Open' = Open
  BY <1>2 DEF Open
<1>6. (IF Open THEN Account.installed ELSE {})' = IF Open THEN Account.installed ELSE {}
  BY <1>2
<1> QED BY <1>2, <1>3, <1>4, <1>5, <1>6 DEF Swap!vars

\* Outside of a transaction and of a rollback the views are the disk.
LEMMA ClosedViews ==
  ASSUME TypeOK, marker = 0, journal = NoJournal, pc \notin Undoing
  PROVE  /\ ~Open /\ DestView = dest /\ StageView = stage
         /\ BackupView = [p \in Path |-> "none"]
<1>1. ~Open /\ ToUndo = {}
  BY DEF Open, ToUndo, Undoing
<1> QED BY <1>1 DEF DestView, StageView, BackupView, TypeOK, Tree

\* While a transaction is open they follow the journal that counts.
LEMMA OpenViews ==
  ASSUME TypeOK, marker = 0, journal # NoJournal, pc \notin Undoing
  PROVE  /\ Open /\ StageView = stage
         /\ DestView = [p \in Path |-> IF p \in Account.backedUp \ Account.installed THEN backup[p]
                                       ELSE dest[p]]
         /\ BackupView = [p \in Path |-> IF p \in Account.installed \cap Account.backedUp
                                         THEN backup[p] ELSE "none"]
<1>1. Open /\ ToUndo = {}
  BY DEF Open, ToUndo, Undoing
<1> QED BY <1>1 DEF DestView, StageView, BackupView, TypeOK, Tree

\* A rollback at work counts as done, but for what it has still to return to the stage.
LEMMA UndoViews ==
  ASSUME TypeOK, was \in Tree, marker = 0, pc \in Undoing
  PROVE  /\ ~Open /\ DestView = was /\ BackupView = [p \in Path |-> "none"]
         /\ StageView = [p \in Path |-> IF p \in ToUndo \cap log.installed /\ stage[p] = "none"
                                        THEN dest[p] ELSE stage[p]]
<1>1. ~Open
  BY DEF Open
<1> QED BY <1>1 DEF DestView, StageView, BackupView, Tree

\* The steps that only move a path to the backup or write the journal are not seen.
LEMMA QuietForward ==
  ASSUME TypeOK, TypeOK', Consistent, Consistent', Forward, marker = 0, marker' = 0, pc \in InTry,
         MoveToBackup \/ LogBackup \/ LogInstall \/ ValidateInstalled
  PROVE  UNCHANGED Swap!vars
<1>h. here \in Path /\ pos \in 1..Len(Order) /\ here = Order[pos] /\ log \in Journal
  BY OrderFacts DEF here, TypeOK
<1>p. pc' \in InTry
  BY DEF MoveToBackup, LogBackup, LogInstall, ValidateInstalled, Goto, InTry
<1>j. journal # NoJournal /\ journal' # NoJournal
  BY <1>p DEF Consistent, NoJournal, Fresh
<1>v. pc \notin Undoing /\ pc' \notin Undoing /\ Account = log /\ Account' = log'
  BY <1>p DEF InTry, Undoing, Account
<1>1. /\ Open /\ StageView = stage
      /\ DestView = [p \in Path |-> IF p \in log.backedUp \ log.installed THEN backup[p] ELSE dest[p]]
      /\ BackupView = [p \in Path |-> IF p \in log.installed \cap log.backedUp THEN backup[p]
                                      ELSE "none"]
  BY <1>j, <1>v, OpenViews
<1>2. /\ Open' /\ StageView' = stage'
      /\ DestView' = [p \in Path |-> IF p \in log'.backedUp \ log'.installed THEN backup'[p]
                                     ELSE dest'[p]]
      /\ BackupView' = [p \in Path |-> IF p \in log'.installed \cap log'.backedUp THEN backup'[p]
                                       ELSE "none"]
  <2>1. Open' /\ ToUndo' = {} /\ marker' = 0
    BY <1>j, <1>v DEF Open, ToUndo, Undoing
  <2> QED BY <1>v, <2>1 DEF DestView, StageView, BackupView, TypeOK, Tree
<1>3. CASE UNCHANGED <<dest, stage, backup, log>>
  BY <1>1, <1>2, <1>3, <1>v DEF Swap!vars
<1>4. CASE MoveToBackup /\ dest[here] # "none"
  <2>1. /\ pc = "backup" /\ stage' = stage
        /\ backup' = [backup EXCEPT ![here] = dest[here]]
        /\ dest' = [dest EXCEPT ![here] = "none"]
        /\ log'.backedUp = log.backedUp \cup {here} /\ log'.installed = log.installed
    BY <1>4, <1>h DEF MoveToBackup, Goto, Journal
  <2>2. here \notin log.installed /\ here \notin log.backedUp
    BY <1>h, <2>1 DEF Forward
  <2>3. DestView' = DestView
    BY <1>1, <1>2, <1>h, <2>1, <2>2 DEF TypeOK, Tree
  <2>4. BackupView' = BackupView
    BY <1>1, <1>2, <1>h, <2>1, <2>2 DEF TypeOK, Tree
  <2> QED BY <1>1, <1>2, <1>v, <2>1, <2>3, <2>4 DEF Swap!vars
<1> QED BY <1>3, <1>4 DEF MoveToBackup, LogBackup, LogInstall, ValidateInstalled, disk

\* The rename that installs a path is the exchange of that path.
LEMMA InstallExchanges ==
  ASSUME TypeOK, TypeOK', Consistent, Consistent', Forward, Exchanged, marker = 0, marker' = 0,
         was \in Tree, InstallStaged
  PROVE  Swap!Exchange
<1>h. here \in Path /\ pos \in 1..Len(Order) /\ here = Order[pos] /\ log \in Journal
  BY OrderFacts DEF here, TypeOK
<1>i. /\ pc = "install" /\ pc' = "logInstall" /\ backup' = backup
      /\ dest' = [dest EXCEPT ![here] = stage[here]]
      /\ stage' = [stage EXCEPT ![here] = "none"]
      /\ log'.backedUp = log.backedUp /\ log'.installed = log.installed \cup {here}
  BY <1>h DEF InstallStaged, Goto, Journal
<1>j. journal # NoJournal /\ journal' # NoJournal
  BY <1>i DEF Consistent, NoJournal, Fresh, InTry
<1>v. pc \notin Undoing /\ pc' \notin Undoing /\ Account = log /\ Account' = log'
  BY <1>i DEF InTry, Undoing, Account
<1>1. /\ Open /\ StageView = stage
      /\ DestView = [p \in Path |-> IF p \in log.backedUp \ log.installed THEN backup[p] ELSE dest[p]]
      /\ BackupView = [p \in Path |-> IF p \in log.installed \cap log.backedUp THEN backup[p]
                                      ELSE "none"]
  BY <1>j, <1>v, OpenViews
<1>2. /\ Open' /\ StageView' = stage'
      /\ DestView' = [p \in Path |-> IF p \in log'.backedUp \ log'.installed THEN backup'[p]
                                     ELSE dest'[p]]
      /\ BackupView' = [p \in Path |-> IF p \in log'.installed \cap log'.backedUp THEN backup'[p]
                                       ELSE "none"]
  <2>1. Open' /\ ToUndo' = {} /\ marker' = 0
    BY <1>j, <1>v DEF Open, ToUndo, Undoing
  <2> QED BY <1>v, <2>1 DEF DestView, StageView, BackupView, TypeOK, Tree
<1>3. here \notin log.installed /\ \A j \in 1..Len(Order) : j < pos => Order[j] \in log.installed
  BY <1>h, <1>i DEF Exchanged, InTry
<1>4. DestView[here] = IF here \in log.backedUp THEN backup[here] ELSE "none"
  <2>1. CASE here \in log.backedUp
    BY <1>1, <1>3, <1>h, <2>1
  <2>2. CASE here \notin log.backedUp
    <3>1. was[here] = "none" /\ dest[here] = was[here]
      BY <1>h, <1>i, <1>3, <2>2 DEF Forward, Recoverable
    <3> QED BY <1>1, <1>h, <2>2, <3>1
  <2> QED BY <2>1, <2>2
<1>5. DestView' = [DestView EXCEPT ![here] = stage[here]]
  BY <1>1, <1>2, <1>3, <1>h, <1>i DEF TypeOK, Tree
<1>6. BackupView' = [BackupView EXCEPT ![here] = DestView[here]]
  BY <1>1, <1>2, <1>3, <1>4, <1>h, <1>i DEF TypeOK, Tree
<1> QED
  BY <1>1, <1>2, <1>3, <1>5, <1>6, <1>h, <1>i, <1>v DEF Swap!Exchange

\* The steps of a rollback are not seen: it counts as made with the decision to make it.
LEMMA QuietBackward ==
  ASSUME TypeOK, TypeOK', was' = was, was \in Tree, Backward, marker = 0, marker' = 0,
         UndoInstalled \/ ClearForRestore \/ RestoreBackup \/ UndoDropBackup
  PROVE  UNCHANGED Swap!vars
<1> USE OrderFacts, PathIndex
<1>h. here \in Path /\ pos \in 1..Len(Order) /\ here = Order[pos]
  BY DEF here, TypeOK
<1>u. pc \in Undoing /\ pc' \in Undoing /\ log' = log
  BY DEF Undoing, Goto, UndoInstalled, ClearForRestore, RestoreBackup, UndoDropBackup
<1>1. /\ ~Open /\ DestView = was /\ BackupView = [p \in Path |-> "none"]
      /\ StageView = [p \in Path |-> IF p \in ToUndo \cap log.installed /\ stage[p] = "none"
                                     THEN dest[p] ELSE stage[p]]
  BY <1>u, UndoViews
<1>2. /\ ~Open' /\ DestView' = was' /\ BackupView' = [p \in Path |-> "none"]
      /\ StageView' = [p \in Path |-> IF p \in ToUndo' \cap log'.installed /\ stage'[p] = "none"
                                      THEN dest'[p] ELSE stage'[p]]
  <2>1. ~Open'
    BY <1>u DEF Open
  <2> QED BY <1>u, <2>1 DEF DestView, StageView, BackupView, Tree
<1>3. \A p \in Path : (IF p \in ToUndo' \cap log'.installed /\ stage'[p] = "none"
                       THEN dest'[p] ELSE stage'[p])
                    = (IF p \in ToUndo \cap log.installed /\ stage[p] = "none"
                       THEN dest[p] ELSE stage[p])
  <2>1. CASE UndoInstalled
    <3>1. ToUndo' = ToUndo \ {here} /\ here \in ToUndo
      BY <2>1, <1>h DEF UndoInstalled, Goto, ToUndo
    <3>2. \A p \in Path : p # here => dest'[p] = dest[p] /\ stage'[p] = stage[p]
      BY <2>1 DEF UndoInstalled, TypeOK, Tree
    <3>3. stage'[here] = IF here \in log.installed /\ stage[here] = "none" THEN dest[here]
                         ELSE stage[here]
      BY <2>1, <1>h DEF UndoInstalled, TypeOK, Tree
    <3> QED BY <1>u, <3>1, <3>2, <3>3
  <2>2. CASE ClearForRestore
    <3>1. ToUndo' = ToUndo /\ here \notin ToUndo
      BY <2>2, <1>h DEF ClearForRestore, Goto, ToUndo
    <3>2. stage' = stage /\ \A p \in Path : p # here => dest'[p] = dest[p]
      BY <2>2 DEF ClearForRestore, TypeOK, Tree
    <3> QED BY <1>u, <3>1, <3>2
  <2>3. CASE RestoreBackup
    <3>1. ToUndo' = ToUndo /\ here \notin ToUndo
      <4>1. CASE pos = 1
        BY <2>3, <1>h, <4>1 DEF RestoreBackup, Goto, ToUndo
      <4>2. CASE pos > 1
        <5>1. pc = "restore" /\ pc' = "undoNew" /\ pos' = pos - 1
          BY <2>3, <4>2 DEF RestoreBackup, Goto
        <5> QED BY <1>h, <5>1 DEF ToUndo
      <4> QED BY <1>h, <4>1, <4>2
    <3>2. stage' = stage /\ \A p \in Path : p # here => dest'[p] = dest[p]
      BY <2>3 DEF RestoreBackup, TypeOK, Tree
    <3> QED BY <1>u, <3>1, <3>2
  <2>4. CASE UndoDropBackup
    <3>1. ToUndo' = {} /\ ToUndo = {} /\ UNCHANGED <<dest, stage>>
      BY <2>4 DEF UndoDropBackup, Goto, ToUndo
    <3> QED BY <3>1
  <2> QED BY <2>1, <2>2, <2>3, <2>4
<1>4. StageView' = StageView
  BY <1>1, <1>2, <1>3
<1>5. Open' = Open /\ (IF Open THEN Account.installed ELSE {})'
                      = IF Open THEN Account.installed ELSE {}
  BY <1>1, <1>2 DEF Open
<1> QED BY <1>1, <1>2, <1>4, <1>5 DEF Swap!vars

\* A step that leaves the paths, the journal and what it accounts for is not seen.
LEMMA QuietOutside ==
  ASSUME marker = 0, marker' = 0, UNCHANGED <<dest, stage, journal>>,
         pc \notin Undoing, pc' \notin Undoing,
         journal # NoJournal => backup' = backup /\ Account' = Account
  PROVE  UNCHANGED Swap!vars
<1>1. Open' = Open /\ (Open <=> journal # NoJournal)
  BY DEF Open
<1>2. ToUndo = {} /\ ToUndo' = {}
  BY DEF ToUndo, Undoing
<1>3. DestView' = DestView
  BY <1>1 DEF DestView
<1>4. StageView' = StageView
  BY <1>2 DEF StageView
<1>5. BackupView' = BackupView
  BY <1>1 DEF BackupView
<1>6. (IF Open THEN Account.installed ELSE {})' = IF Open THEN Account.installed ELSE {}
  BY <1>1
<1> QED BY <1>1, <1>3, <1>4, <1>5, <1>6 DEF Swap!vars

\* The first journal begins the transaction.
LEMMA OpenBegins ==
  ASSUME TypeOK, TypeOK', Consistent, marker = 0, marker' = 0, CommitOpen
  PROVE  Swap!Begin
<1>1. /\ pc = "open" /\ pc' = "backup" /\ journal = NoJournal /\ UNCHANGED <<dest, stage>>
      /\ log'.backedUp = {} /\ log'.installed = {} /\ journal' # NoJournal
      /\ \A p \in Path : stage[p] # "none"
  BY DEF CommitOpen, Goto, Consistent, Settled, Fresh, NoJournal, TypeOK
<1>2. pc \notin Undoing /\ pc' \notin Undoing /\ Account' = log'
  BY <1>1 DEF Undoing, Account, InTry
<1>3. /\ ~Open /\ DestView = dest /\ StageView = stage
  BY <1>1, <1>2, ClosedViews
<1>4. Open' = TRUE /\ ToUndo' = {}
  BY <1>1, <1>2 DEF Open, ToUndo, Undoing
<1>5. /\ DestView' = dest /\ StageView' = stage /\ BackupView' = [p \in Path |-> "none"]
  BY <1>1, <1>2, <1>4 DEF DestView, StageView, BackupView, TypeOK, Tree
<1>6. (marker' # 0) = (marker # 0)
  OBVIOUS
<1> QED BY <1>1, <1>2, <1>3, <1>4, <1>5, <1>6 DEF Swap!Begin, Swap!Path, Swap!Empty, Path

\* The marker commits it.
LEMMA MarkCommits ==
  ASSUME TypeOK, TypeOK', Consistent, Exchanged, marker = 0, WriteMarker
  PROVE  Swap!Commit
<1>1. /\ pc = "mark" /\ pc' = "publish" /\ marker' = log.tid /\ log.tid # 0 /\ dest' = dest
      /\ journal # NoJournal
  BY DEF WriteMarker, Goto, Consistent, InTry, NoJournal, Fresh
<1>2. pc \notin Undoing /\ pc' \notin Undoing /\ Account = log
  BY <1>1 DEF Undoing, Account, InTry
<1>3. log.installed = Path
  <2>1. \A i \in 1..Len(Order) : Order[i] \in log.installed
    BY <1>1, OrderFacts DEF Exchanged, InTry
  <2>2. log.installed \subseteq Path
    BY DEF TypeOK, Journal
  <2>3. Path \subseteq log.installed
    BY <2>1, PathIndex
  <2> QED BY <2>2, <2>3
<1>4. Open = TRUE /\ Open' = FALSE
  BY <1>1, <1>2 DEF Open
<1>5. DestView = dest /\ DestView' = dest
  BY <1>1, <1>2, <1>3, <1>4 DEF DestView, TypeOK, Tree
<1>6. StageView' = [p \in Path |-> "none"] /\ BackupView' = [p \in Path |-> "none"]
  BY <1>1, <1>4 DEF StageView, BackupView
<1>7. (marker' # 0) = TRUE
  BY <1>1
<1> QED BY <1>2, <1>3, <1>4, <1>5, <1>6, <1>7 DEF Swap!Commit, Swap!Path, Swap!Empty, Path

\* The decision to roll back takes it back, by the journal that counts.
LEMMA UndoRollsBack ==
  ASSUME TypeOK, TypeOK', was \in Tree, was' = was, marker = 0, marker' = 0,
         journal # NoJournal, pc \notin Undoing, pc' = "undoNew", pos' = Len(Order),
         log' = Account, UNCHANGED <<dest, stage>>,
         \A p \in Path : Recoverable(Account, p),
         \A p \in Account.installed : stage[p] = "none"
  PROVE  Swap!RollBack
<1>1. /\ Open /\ StageView = stage
      /\ DestView = [p \in Path |-> IF p \in Account.backedUp \ Account.installed THEN backup[p]
                                    ELSE dest[p]]
      /\ BackupView = [p \in Path |-> IF p \in Account.installed \cap Account.backedUp
                                      THEN backup[p] ELSE "none"]
  BY OpenViews
<1>2. pc' \in Undoing /\ Open' = FALSE
  BY DEF Undoing, Open
<1>3. ToUndo' = Path
  <2>1. \A i \in 1..Len(Order) : i < pos' \/ i = pos'
    BY OrderFacts
  <2> QED BY <2>1 DEF ToUndo, Path
<1>4. /\ DestView' = was /\ BackupView' = [p \in Path |-> "none"]
      /\ StageView' = [p \in Path |-> IF p \in Account.installed /\ stage[p] = "none"
                                      THEN dest[p] ELSE stage[p]]
  BY <1>2, <1>3 DEF DestView, StageView, BackupView, Tree
<1>5. \A p \in Path : was[p] = IF p \in Account.installed THEN BackupView[p] ELSE DestView[p]
  BY <1>1 DEF Recoverable
<1>6. was = [p \in Path |-> IF p \in Account.installed THEN BackupView[p] ELSE DestView[p]]
  BY <1>5 DEF Tree
<1>7. \A p \in Account.installed : DestView[p] = dest[p]
  <2>1. Account.installed \subseteq Path
    BY DEF Account, TypeOK, Journal
  <2> QED BY <1>1, <2>1
<1>8. StageView' = [p \in Path |-> IF p \in Account.installed THEN DestView[p] ELSE StageView[p]]
  BY <1>1, <1>4, <1>7
<1>9. (marker' # 0) = (marker # 0)
  OBVIOUS
<1> QED
  BY <1>1, <1>2, <1>4, <1>6, <1>8, <1>9 DEF Swap!RollBack, Swap!View, Swap!Path, Swap!Empty, Path

\* When the journal of a rollback is dropped, the directory is what it counted as.
LEMMA UndoEnds ==
  ASSUME TypeOK, TypeOK', was \in Tree, was' = was, Backward, marker = 0, marker' = 0,
         UndoDropJournal
  PROVE  UNCHANGED Swap!vars
<1>1. /\ pc = "undoJournal" /\ pc' \in {"off", "check"} /\ journal' = NoJournal
      /\ UNCHANGED <<dest, stage>>
  BY DEF UndoDropJournal, Goto
<1>2. \A p \in Path : dest[p] = was[p]
  BY <1>1, PathIndex DEF Backward
<1>3. dest = was
  BY <1>2 DEF TypeOK, Tree
<1>4. ToUndo = {} /\ Open = FALSE /\ ToUndo' = {} /\ Open' = FALSE
  BY <1>1 DEF ToUndo, Open, Undoing
<1>5. DestView = was /\ StageView = stage /\ BackupView = [p \in Path |-> "none"]
  BY <1>1, <1>4 DEF DestView, StageView, BackupView, Undoing, TypeOK, Tree
<1>6. DestView' = dest /\ StageView' = stage /\ BackupView' = [p \in Path |-> "none"]
  BY <1>1, <1>4 DEF DestView, StageView, BackupView, Undoing, TypeOK, Tree
<1>7. /\ (marker' # 0) = (marker # 0)
      /\ (IF Open THEN Account.installed ELSE {})' = IF Open THEN Account.installed ELSE {}
  BY <1>4
<1> QED BY <1>3, <1>4, <1>5, <1>6, <1>7 DEF Swap!vars

\* Outside of a transaction the stage is filled.
LEMMA ExtractFills ==
  ASSUME TypeOK, TypeOK', Consistent, marker = 0, marker' = 0, Extract
  PROVE  Swap!Fill
<1>1. /\ pc = "extract" /\ pc' = "begin" /\ journal = NoJournal /\ journal' = NoJournal
      /\ dest' = dest
  BY DEF Extract, Goto, Consistent, Settled
<1>2. Open = FALSE /\ Open' = FALSE /\ ToUndo' = {}
  BY <1>1 DEF Open, ToUndo
<1>3. DestView' = DestView
  BY <1>1, <1>2 DEF DestView, Undoing
<1>4. BackupView' = BackupView
  BY <1>2 DEF BackupView
<1>5. StageView' \in Tree /\ \A p \in Path : StageView'[p] # "none"
  BY <1>2 DEF Extract, StageView, TypeOK, Tree
<1>6. (marker' # 0) = (marker # 0)
  OBVIOUS
<1> QED BY <1>2, <1>3, <1>4, <1>5, <1>6 DEF Swap!Fill, Swap!Tree, Swap!Path, Tree, Path

\* Every step before the marker is one of the transaction or leaves it as it is.
LEMMA OpenStep ==
  ASSUME TypeOK, TypeOK', Consistent, Consistent', [Next]_vars, Kept, Exchanged,
         was \in [Path -> {"none", "old"}], was' = was,
         marker = 0, marker' = 0, cut = "none", cut' = "none"
  PROVE  Swap!Next \/ UNCHANGED Swap!vars
<1> USE DEF Goto, NoCount, disk
<1>w. was \in Tree
  BY DEF Tree, Payload
<1>f. pc \notin Finishing \cup {"publish", "ready"}
  BY DEF Consistent, Kept
<1>n. pc \in InTry => journal # NoJournal /\ Account = log
  BY DEF Consistent, NoJournal, Fresh, Account
<1>1. CASE Start
  BY <1>1, QuietOutside DEF Start, Account, InTry, Undoing
<1>2. CASE Recover
  <2>1. /\ pc = "recover" /\ log' = journal /\ pos' = Len(Order) /\ Account = journal
        /\ UNCHANGED <<dest, stage, backup, journal>>
    BY <1>2 DEF Recover, Account, InTry
  <2>2. CASE journal = NoJournal
    <3>1. pc' = "check"
      BY <1>2, <2>2 DEF Recover
    <3> QED BY <2>1, <2>2, <3>1, QuietOutside DEF Undoing
  <2>3. CASE journal # NoJournal
    <3>1. pc' = "undoNew"
      BY <1>2, <2>3 DEF Recover, Consistent
    <3>2. \A p \in Path : Recoverable(journal, p)
      BY <2>1, <2>3 DEF Kept
    <3>3. \A p \in journal.installed : stage[p] = "none"
      BY <2>1 DEF Exchanged
    <3>4. pc \notin Undoing
      BY <2>1 DEF Undoing
    <3> QED BY <1>w, <2>1, <2>3, <3>1, <3>2, <3>3, <3>4, UndoRollsBack DEF Swap!Next
  <2> QED BY <2>2, <2>3
<1>3. CASE DropBackup \/ DropStage \/ DropJournal \/ Publish \/ GameExits
  BY <1>3, <1>f DEF DropBackup, DropStage, DropJournal, Publish, GameExits, Finishing
<1>4. CASE Check \/ CommitBegin
  <2>1. /\ journal = NoJournal /\ UNCHANGED <<dest, stage, journal>>
        /\ pc \notin Undoing /\ pc' \notin Undoing
    BY <1>4 DEF Check, CommitBegin, Consistent, Settled, Undoing
  <2> QED BY <2>1, QuietOutside
<1>5. CASE Adopt
  <2>1. /\ journal = NoJournal /\ UNCHANGED <<dest, stage, journal>>
        /\ pc \notin Undoing /\ pc' \notin Undoing
    BY <1>5 DEF Adopt, Consistent, Settled, Undoing
  <2> QED BY <2>1, QuietOutside
<1>6. CASE Extract
  BY <1>6, ExtractFills DEF Swap!Next
<1>7. CASE CommitOpen
  BY <1>7, OpenBegins DEF Swap!Next
<1>8. CASE MoveToBackup \/ LogBackup \/ LogInstall \/ ValidateInstalled
  <2>1. pc \in InTry
    BY <1>8 DEF MoveToBackup, LogBackup, LogInstall, ValidateInstalled, InTry
  <2> QED BY <1>8, <2>1, QuietForward DEF Kept
<1>9. CASE InstallStaged
  <2>1. Forward
    BY <1>9 DEF InstallStaged, InTry, Kept
  <2> QED BY <1>9, <1>w, <2>1, InstallExchanges DEF Swap!Next
<1>10. CASE WriteMarker
  BY <1>10 DEF WriteMarker, Consistent, InTry
<1>11. CASE UndoInstalled \/ ClearForRestore \/ RestoreBackup \/ UndoDropBackup
  <2>1. Backward
    BY <1>11 DEF UndoInstalled, ClearForRestore, RestoreBackup, UndoDropBackup, Undoing, Kept
  <2> QED BY <1>11, <1>w, <2>1, QuietBackward
<1>12. CASE UndoDropJournal
  <2>1. Backward
    BY <1>12 DEF UndoDropJournal, Undoing, Kept
  <2> QED BY <1>12, <1>w, <2>1, UndoEnds
<1>13. CASE Crash \/ FaultOutside
  <2>1. /\ pc' = "off" /\ HalfRemoved /\ journal' = journal
        /\ pc \notin Undoing /\ pc \notin {"logBackup", "logInstall"}
    BY <1>13 DEF Crash, FaultOutside, CutAt, Gap, Undoing, InTry
  <2>2. dest' = dest /\ stage' = stage
    BY <1>f, <2>1, HalfRemovedStage, HalfRemovedKeeps
  <2>3. journal # NoJournal => pc \in InTry \cup {"off", "recover"}
    BY <1>f, <2>1 DEF Consistent, TypeOK, PC, Finishing, Settled, InTry, Undoing
  <2>4. journal # NoJournal => backup' = backup
    BY <2>1, <2>3, HalfRemovedKeeps
  <2>5. pc \in InTry => log = journal
    BY <2>1 DEF Kept, Forward
  <2>6. Account = journal /\ Account' = journal
    BY <2>1, <2>5 DEF Account, InTry
  <2> QED BY <2>1, <2>2, <2>4, <2>6, QuietOutside DEF Undoing
<1>14. CASE FaultInTry
  <2>1. /\ pc \in InTry /\ pc' = "undoNew" /\ pos' = Len(Order) /\ log' = log
        /\ UNCHANGED <<dest, stage, backup, journal>>
    BY <1>14 DEF FaultInTry
  <2>2. \A p \in Path : Recoverable(log, p)
    BY <2>1 DEF Kept, Forward
  <2>3. \A p \in log.installed : stage[p] = "none"
    BY <1>n, <2>1 DEF Exchanged
  <2>4. pc \notin Undoing
    BY <2>1 DEF InTry, Undoing
  <2> QED BY <1>n, <1>w, <2>1, <2>2, <2>3, <2>4, UndoRollsBack DEF Swap!Next
<1>15. CASE UNCHANGED vars
  BY <1>15 DEF vars, Swap!vars, DestView, StageView, BackupView, Open, ToUndo, Account
<1> QED
  BY <1>1, <1>2, <1>3, <1>4, <1>5, <1>6, <1>7, <1>8, <1>9, <1>10, <1>11, <1>12, <1>13, <1>14, <1>15
  DEF Next, Run

\* Before the first marker only a step of the transaction sets it: data that is already in
\* place is the earlier install's and does not validate.
LEMMA MarkingStep ==
  ASSUME TypeOK, TypeOK', Consistent, [Next]_vars, Kept, Exchanged,
         was \in [Path -> {"none", "old"}], marker = 0, marker' # 0
  PROVE  Swap!Next
<1>1. WriteMarker \/ Adopt
  BY DEF Next, Run, vars, disk, Start, Recover, DropBackup, DropStage, DropJournal, Check,
     Extract, CommitBegin, CommitOpen, MoveToBackup, LogBackup, InstallStaged, LogInstall,
     ValidateInstalled, Publish, UndoInstalled, ClearForRestore, RestoreBackup, UndoDropBackup,
     UndoDropJournal, GameExits, Crash, FaultInTry, FaultOutside
<1>2. ASSUME Adopt PROVE FALSE
  <2>1. pc = "adopt" /\ Complete
    BY <1>2 DEF Adopt, Goto
  <2>2. dest[Order[1]] = was[Order[1]] /\ Order[1] \in Path
    BY <2>1, OrderFacts DEF Kept, Settled
  <2> QED BY <2>1, <2>2 DEF Complete
<1> QED BY <1>1, <1>2, MarkCommits DEF Swap!Next

\* A step that no interruption in a gap precedes or makes is one of the transaction or
\* leaves it as it is.
LEMMA SwapStep ==
  TypeOK /\ TypeOK' /\ CommitInv /\ CommitInv' /\ KeptInv /\ ExchangeInv /\ [Next]_vars =>
    [cut' = "none" => Swap!Next \/ UNCHANGED Swap!vars]_vars
<1> SUFFICES ASSUME TypeOK, TypeOK', CommitInv, CommitInv', KeptInv, ExchangeInv, [Next]_vars,
                    cut' = "none"
             PROVE  Swap!Next \/ UNCHANGED Swap!vars
  OBVIOUS
<1>1. cut = "none" /\ was' = was /\ was \in [Path -> {"none", "old"}] /\ Consistent /\ Consistent'
  BY HistoryStays DEF CommitInv, KeptInv
<1>2. CASE marker # 0
  <2>1. marker' # 0
    BY <1>1, <1>2, MarkerStays
  <2>2. dest' = dest
    BY <1>2, MarkerStep DEF vars
  <2> QED BY <1>1, <1>2, <2>1, <2>2, MarkedStutters
<1>3. CASE marker = 0 /\ marker' = 0
  BY <1>1, <1>3, OpenStep DEF KeptInv, ExchangeInv
<1>4. CASE marker = 0 /\ marker' # 0
  BY <1>1, <1>4, MarkingStep DEF KeptInv, ExchangeInv
<1> QED BY <1>2, <1>3, <1>4

\* The initial states are initial states of the transaction.
LEMMA SwapInit == Init => Swap!Init
<1> SUFFICES ASSUME Init PROVE Swap!Init
  OBVIOUS
<1>1. TypeOK /\ marker = 0 /\ journal = NoJournal /\ pc \notin Undoing
  BY TypeInit DEF Init, Undoing
<1>2. Open = FALSE /\ DestView = dest /\ StageView = stage /\ BackupView = [p \in Path |-> "none"]
  BY <1>1, ClosedViews DEF Open
<1>3. (marker # 0) = FALSE
  BY <1>1
<1> QED BY <1>1, <1>2, <1>3
  DEF TypeOK, Swap!Init, Swap!Tree, Swap!Path, Swap!Empty, Tree, Path

\* The installer implements the recoverable transaction, step by step, whichever paths the
\* recipe commits and wherever the installer dies or fails outside of the gaps.
THEOREM ImplementsRecoverableSwap == Spec => Swap!Init /\ ImplementsSwap
<1> QED BY SwapInit, SwapStep, TypeCorrect, CommitInvariant, KeptInvariant, ExchangeInvariant, PTL
        DEF Spec, ImplementsSwap

\* A behaviour without such an interruption is one of the abstract transaction.
THEOREM UninterruptedIsSwap == Spec /\ [](cut = "none") => Swap!Spec
<1>1. (cut = "none")' /\ [cut' = "none" => Swap!Next \/ UNCHANGED Swap!vars]_vars
        => [Swap!Next]_(Swap!vars)
  BY DEF vars, Swap!vars, DestView, StageView, BackupView, Open, ToUndo, Account
<1> QED BY <1>1, ImplementsRecoverableSwap, PTL DEF ImplementsSwap, Swap!Spec

\* The interruptions that do harm: a crash in a gap of the journal, a failing call in a
\* rollback, and a failing write of the published journal behind the marker.
HarmlessOnly == CrashAt \cap Gap = {} /\ FaultAt \cap (Undoing \cup {"publish"}) = {}

\* They are all of them: the installer is never cut if it may only be interrupted elsewhere.
LEMMA NeverCut == ASSUME HarmlessOnly PROVE Spec => [](cut = "none")
<1>1. Init => cut = "none"
  BY DEF Init
<1>2. ASSUME cut = "none", [Next]_vars PROVE (cut = "none")'
  <2>1. CASE Run
    BY <1>2, <2>1
    DEF Run, NoCount, Start, Recover, DropBackup, DropStage, DropJournal, Check, Adopt, Extract,
        CommitBegin, CommitOpen, MoveToBackup, LogBackup, InstallStaged, LogInstall,
        ValidateInstalled, WriteMarker, Publish, UndoInstalled, ClearForRestore, RestoreBackup,
        UndoDropBackup, UndoDropJournal, GameExits
  <2>2. CASE Crash
    BY <1>2, <2>2, HarmlessOnly DEF HarmlessOnly, Crash, CutAt
  <2>3. CASE FaultInTry
    BY <1>2, <2>3, HarmlessOnly DEF HarmlessOnly, FaultInTry
  <2>4. CASE FaultOutside
    BY <1>2, <2>4, HarmlessOnly DEF HarmlessOnly, FaultOutside, CutAt
  <2>5. CASE UNCHANGED vars
    BY <1>2, <2>5 DEF vars
  <2> QED BY <1>2, <2>1, <2>2, <2>3, <2>4, <2>5 DEF Next
<1> QED BY <1>1, <1>2, PTL DEF Spec

\* An installer that dies and fails only elsewhere, as often as it may be, implements the
\* transaction in every behaviour: what is outside of these points is recovered in full.
THEOREM HarmlessIsSwap == ASSUME HarmlessOnly PROVE Spec => Swap!Spec
<1> QED BY NeverCut, UninterruptedIsSwap, PTL

\* So the earlier payload is never lost and the directory is exchanged as a whole or not at all.
THEOREM HarmlessKeeps ==
  ASSUME HarmlessOnly PROVE Spec => [](OldPayloadKept /\ (journal = NoJournal => Complete \/ dest = was))
<1>1. cut = "none" /\ KeptUnlessCut /\ AtomicSwap =>
        OldPayloadKept /\ (journal = NoJournal => Complete \/ dest = was)
  BY DEF KeptUnlessCut, AtomicSwap
<1> QED BY <1>1, NeverCut, EarlierPayloadKept, SwapIsAtomic, PTL
=============================================================================
