-------------------------- MODULE NxInstall_proofs --------------------------
(***************************************************************************)
(* TLAPS proofs about NxInstall, for every set of crash and fault points   *)
(* and every number of them: the game only ever runs on the prepared store *)
(* unless an interruption fell between the hook marker and the install     *)
(* marker, the exception that the run NxHookSkipped shows to be needed.    *)
(***************************************************************************)
EXTENDS NxInstall, TLAPS

-----------------------------------------------------------------------------
\* TypeOK holds of the initial states.
LEMMA TypeInit == Init => TypeOK
<1> SUFFICES ASSUME Init PROVE TypeOK
  OBVIOUS
<1>1. Empty \in Tree
  BY DEF Empty, Tree, Libs
<1>2. dest \in Tree /\ backup \in Tree
  BY <1>1 DEF Init, Tree, Libs
<1>3. stage \in Tree /\ stageFor \in Recipe /\ hookFor \in Recipe
  BY <1>1 DEF Init, Tree, Libs, Recipe
<1>4. journal \in BOOLEAN /\ marker \in BOOLEAN /\ source \in BOOLEAN
  BY Zenon DEF Init
<1>5. swapped \in 0..3 /\ pc \in PC /\ crashes \in Nat /\ faults \in Nat
  BY DEF Init, PC
<1>6. cut \in {"none", "tail", "swap"}
  BY DEF Init
<1> QED BY <1>6, <1>2, <1>3, <1>4, <1>5 DEF TypeOK

\* A rollback leaves trees.
LEMMA RolledBackTypes ==
  TypeOK /\ RolledBack => /\ dest' \in Tree /\ stage' \in Tree /\ backup' \in Tree
                         /\ journal' \in BOOLEAN /\ marker' \in BOOLEAN /\ swapped' \in 0..3
                         /\ stageFor' \in Recipe /\ hookFor' \in Recipe
<1> SUFFICES ASSUME TypeOK, RolledBack
             PROVE  /\ dest' \in Tree /\ stage' \in Tree /\ backup' \in Tree
                    /\ journal' \in BOOLEAN /\ marker' \in BOOLEAN /\ swapped' \in 0..3
                    /\ stageFor' \in Recipe /\ hookFor' \in Recipe
  OBVIOUS
<1> USE DEF TypeOK, RolledBack
<1>1. /\ dest' = [libs |-> IF "libs" \in Done THEN backup.libs ELSE dest.libs,
                  assets |-> IF "assets" \in Done THEN backup.assets ELSE dest.assets,
                  sentinel |-> IF "sentinel" \in Done THEN backup.sentinel ELSE dest.sentinel]
      /\ stage' = [libs |-> IF "libs" \in Done THEN dest.libs ELSE stage.libs,
                   assets |-> IF "assets" \in Done THEN dest.assets ELSE stage.assets,
                   sentinel |-> IF "sentinel" \in Done THEN dest.sentinel ELSE stage.sentinel]
  BY DEF Tree
<1>2. dest' \in Tree /\ stage' \in Tree
  BY <1>1 DEF Tree
<1>3. backup' \in Tree
  BY DEF Empty, Tree, Libs
<1>4. journal' \in BOOLEAN /\ marker' \in BOOLEAN
  BY Zenon
<1>5. swapped' \in 0..3 /\ stageFor' \in Recipe /\ hookFor' \in Recipe
  OBVIOUS
<1> QED BY <1>2, <1>3, <1>4, <1>5

\* No step leaves the types.
LEMMA TypeStep == TypeOK /\ [Next]_vars => TypeOK'
<1> SUFFICES ASSUME TypeOK, [Next]_vars PROVE TypeOK'
  OBVIOUS
<1> USE DEF TypeOK, Tree, Libs, Recipe, PC, NoCount, OnlyPc, Goto, disk
<1>1. CASE Launch
  BY <1>1 DEF Launch
<1>2. CASE PrepareLive
  BY <1>2 DEF PrepareLive
<1>3. CASE PrepareLiveMark
  BY <1>3 DEF PrepareLiveMark
<1>4. CASE PrepareSkipped
  BY <1>4 DEF PrepareSkipped
<1>5. CASE Recover
  <2>1. CASE journal
    <3>1. RolledBack
      BY <1>5, <2>1 DEF Recover
    <3> QED BY <3>1, <1>5, RolledBackTypes DEF Recover
  <2>2. CASE ~journal
    BY <1>5, <2>2 DEF Recover
  <2> QED BY <2>1, <2>2
<1>6. CASE Check
  BY <1>6 DEF Check
<1>7. CASE Adopt
  <2>1. marker' \in BOOLEAN
    BY <1>7, Zenon DEF Adopt
  <2>2. pc' \in PC
    BY <1>7 DEF Adopt
  <2> QED BY <2>1, <2>2, <1>7 DEF Adopt
<1>8. CASE NoSource
  BY <1>8 DEF NoSource
<1>9. CASE Plan
  BY <1>9 DEF Plan, Empty
<1>10. CASE ExtractLibs
  BY <1>10 DEF ExtractLibs
<1>11. CASE ExtractAssets
  BY <1>11 DEF ExtractAssets
<1>12. CASE Hook
  BY <1>12 DEF Hook
<1>13. CASE HookStore
  BY <1>13 DEF HookStore
<1>14. CASE HookSentinel
  BY <1>14 DEF HookSentinel
<1>15. CASE HookMark
  BY <1>15 DEF HookMark
<1>16. CASE ValidateStage
  BY <1>16 DEF ValidateStage, Empty
<1>17. CASE Swap
  BY <1>17 DEF Swap, CommitOrder
<1>18. CASE Publish
  <2>1. marker' \in BOOLEAN /\ journal' \in BOOLEAN
    BY <1>18, Zenon DEF Publish
  <2>2. pc' \in PC /\ swapped' \in 0..3 /\ backup' \in Tree /\ stage' \in Tree
    BY <1>18 DEF Publish, Empty
  <2> QED BY <2>1, <2>2, <1>18 DEF Publish
<1>19. CASE GameExits
  BY <1>19 DEF GameExits
<1>20. CASE Crash
  BY <1>20 DEF Crash, CutAt
<1>21. CASE Fault
  <2>1. CASE pc \in {"swap", "publish"}
    <3>1. RolledBack
      BY <1>21, <2>1 DEF Fault
    <3> QED BY <3>1, <1>21, RolledBackTypes DEF Fault, CutAt
  <2>2. CASE pc \notin {"swap", "publish"}
    BY <1>21, <2>2 DEF Fault, CutAt
  <2> QED BY <2>1, <2>2
<1>22. CASE PrepareFault
  BY <1>22 DEF PrepareFault
<1>23. CASE UNCHANGED vars
  BY <1>23 DEF vars
<1> QED
  BY <1>1, <1>2, <1>3, <1>4, <1>5, <1>6, <1>7, <1>8, <1>9, <1>10, <1>11, <1>12, <1>13, <1>14, <1>15, <1>16, <1>17, <1>18, <1>19, <1>20, <1>21, <1>22, <1>23 DEF Next, Run

-----------------------------------------------------------------------------
\* An interruption behind the hook marker stays on record.
LEMMA CutStays == [Next]_vars /\ cut' = "none" /\ cut \in {"none", "tail", "swap"} => cut = "none"
<1> SUFFICES ASSUME [Next]_vars, cut \in {"tail", "swap"} PROVE cut' # "none"
  OBVIOUS
<1> USE DEF NoCount, OnlyPc, Goto
<1>1. CASE Crash \/ Fault \/ PrepareFault
  BY <1>1 DEF Crash, Fault, PrepareFault, CutAt
<1>2. CASE Launch \/ PrepareLive \/ PrepareLiveMark \/ PrepareSkipped \/ Recover \/ Check \/ Adopt
  BY <1>2 DEF Launch, PrepareLive, PrepareLiveMark, PrepareSkipped, Recover, Check, Adopt
<1>3. CASE NoSource \/ Plan \/ ExtractLibs \/ ExtractAssets \/ Hook \/ HookStore
  BY <1>3 DEF NoSource, Plan, ExtractLibs, ExtractAssets, Hook, HookStore
<1>4. CASE HookSentinel \/ HookMark \/ ValidateStage \/ Swap \/ Publish \/ GameExits
  BY <1>4 DEF HookSentinel, HookMark, ValidateStage, Swap, Publish, GameExits
<1>5. CASE UNCHANGED vars
  BY <1>5 DEF vars
<1> QED BY <1>1, <1>2, <1>3, <1>4, <1>5 DEF Next, Run

\* PreparedInv holds of the initial states.
LEMMA PreparedInit == Init => PreparedInv
BY DEF Init, PreparedInv, Vouched, Empty, Working, Tail

\* Vouched is kept by every step but an interruption behind the hook marker.
LEMMA VouchedStep ==
  TypeOK /\ Vouched /\ [Next]_vars /\ cut' = "none" => Vouched'
<1> SUFFICES ASSUME TypeOK, Vouched, [Next]_vars, cut' = "none" PROVE Vouched'
  OBVIOUS
<1> USE DEF TypeOK, Vouched, Tail, Working, Tree, FastValid, NoCount, OnlyPc, Goto, disk
<1>1. CASE Launch
  BY <1>1 DEF Launch
<1>2. CASE PrepareLive
  BY <1>2 DEF PrepareLive, LivePresent
<1>3. CASE PrepareLiveMark
  BY <1>3 DEF PrepareLiveMark
<1>4. CASE PrepareSkipped
  BY <1>4 DEF PrepareSkipped
<1>5. CASE Recover
  BY <1>5 DEF Recover
<1>6. CASE Check
  BY <1>6 DEF Check
<1>7. CASE Adopt
  BY <1>7 DEF Adopt, FullValid
<1>8. CASE NoSource
  BY <1>8 DEF NoSource
<1>9. CASE Plan
  BY <1>9 DEF Plan, Empty
<1>10. CASE ExtractLibs
  BY <1>10 DEF ExtractLibs
<1>11. CASE ExtractAssets
  BY <1>11 DEF ExtractAssets
<1>12. CASE Hook
  <2>1. pc = "hook" /\ ~marker /\ hookFor # "this"
    BY <1>12 DEF Hook
  <2>2. pc' = "hookStore"
    BY <1>12, <2>1 DEF Hook
  <2> QED BY <2>1, <2>2, <1>12 DEF Hook
<1>13. CASE HookStore
  BY <1>13 DEF HookStore
<1>14. CASE HookSentinel
  BY <1>14 DEF HookSentinel
<1>15. CASE HookMark
  BY <1>15 DEF HookMark
<1>16. CASE ValidateStage
  BY <1>16 DEF ValidateStage, Empty
<1>17. CASE Swap
  BY <1>17 DEF Swap, CommitOrder
<1>18. CASE Publish
  BY <1>18 DEF Publish, Empty, FullValid
<1>19. CASE GameExits
  BY <1>19 DEF GameExits
<1>20. CASE Crash
  BY <1>20 DEF Crash, CutAt
<1>21. CASE Fault
  BY <1>21 DEF Fault, CutAt
<1>22. CASE PrepareFault
  BY <1>22 DEF PrepareFault
<1>23. CASE UNCHANGED vars
  BY <1>23 DEF vars
<1> QED
  BY <1>1, <1>2, <1>3, <1>4, <1>5, <1>6, <1>7, <1>8, <1>9, <1>10, <1>11, <1>12, <1>13, <1>14, <1>15, <1>16, <1>17, <1>18, <1>19, <1>20, <1>21, <1>22, <1>23 DEF Next, Run

-----------------------------------------------------------------------------
\* TypeOK holds in every reachable state.
THEOREM TypeCorrect == Spec => []TypeOK
<1> QED BY TypeInit, TypeStep, PTL DEF Spec

\* PreparedInv is inductive.
LEMMA PreparedStep == TypeOK /\ PreparedInv /\ [Next]_vars => PreparedInv'
BY VouchedStep, CutStays DEF PreparedInv, TypeOK

\* The strengthening holds in every reachable state.
THEOREM PreparedInvariant == Spec => []PreparedInv
<1> QED BY PreparedInit, PreparedStep, TypeCorrect, PTL DEF Spec

\* Every launch that reaches the game finds the final assembly in libs/, unless
\* one was interrupted between its two markers.
THEOREM RunsPrepared == Spec => []PreparedUnlessCut
<1>1. PreparedInv => PreparedUnlessCut
  BY DEF PreparedInv, Vouched, PreparedUnlessCut, GameRunsPrepared
<1> QED BY <1>1, PreparedInvariant, PTL

\* With no transaction open, the sentinel of this release tells the truth, under
\* the same condition.
THEOREM SentinelTruthful == Spec => []SentinelVouches
<1>1. PreparedInv => SentinelVouches
  BY DEF PreparedInv, Vouched, SentinelVouches
<1> QED BY <1>1, PreparedInvariant, PTL

-----------------------------------------------------------------------------
\* What libs/ and the sentinel were before the open transaction, if there is one.
LibsBefore == IF journal /\ swapped > 0 THEN backup.libs ELSE dest.libs
SentinelBefore == IF journal /\ swapped = 3 THEN backup.sentinel ELSE dest.sentinel

\* A rejected store never has the sentinel of this release or its marker beside
\* it, and never gets into the stage.
Rejected ==
  /\ stage.libs # "foreign"
  /\ journal => pc \in {"off", "prepare", "prepareMark", "recover", "swap", "publish"}
  /\ journal /\ pc # "swap" => swapped = 3
  /\ ~journal => pc \notin {"swap", "publish"}
  /\ pc = "swap" => swapped \in 0..2
  /\ LibsBefore = "foreign" => SentinelBefore # "ok" /\ ~marker
  /\ (journal /\ swapped > 0) \/ pc \in {"prepareMark", "ready"} => dest.libs # "foreign"
RejectedInv == cut # "swap" => Rejected

\* A loss of power inside the swap stays on record.
LEMMA SwapCutStays == [Next]_vars /\ cut = "swap" => cut' = "swap"
<1> SUFFICES ASSUME [Next]_vars, cut = "swap" PROVE cut' = "swap"
  OBVIOUS
<1> USE DEF NoCount, OnlyPc, Goto
<1>1. CASE Crash \/ Fault \/ PrepareFault
  BY <1>1 DEF Crash, Fault, PrepareFault, CutAt
<1>2. CASE Launch \/ PrepareLive \/ PrepareLiveMark \/ PrepareSkipped \/ Recover \/ Check \/ Adopt
  BY <1>2 DEF Launch, PrepareLive, PrepareLiveMark, PrepareSkipped, Recover, Check, Adopt
<1>3. CASE NoSource \/ Plan \/ ExtractLibs \/ ExtractAssets \/ Hook \/ HookStore
  BY <1>3 DEF NoSource, Plan, ExtractLibs, ExtractAssets, Hook, HookStore
<1>4. CASE HookSentinel \/ HookMark \/ ValidateStage \/ Swap \/ Publish \/ GameExits
  BY <1>4 DEF HookSentinel, HookMark, ValidateStage, Swap, Publish, GameExits
<1>5. CASE UNCHANGED vars
  BY <1>5 DEF vars
<1> QED BY <1>1, <1>2, <1>3, <1>4, <1>5 DEF Next, Run

\* RejectedInv holds of the initial states.
LEMMA RejectedInit == Init => RejectedInv
BY DEF Init, RejectedInv, Rejected, LibsBefore, SentinelBefore, Empty

\* A rollback of the journal puts back what was there before.
LEMMA RejectedBack ==
  ASSUME TypeOK, Rejected, journal, RolledBack, pc' \in {"check", "off"}
  PROVE  Rejected'
<1> USE DEF TypeOK, Tree, Rejected, LibsBefore, SentinelBefore
<1>1. swapped > 0 <=> "libs" \in Done
  BY DEF Done, CommitOrder
<1>2. swapped = 3 <=> "sentinel" \in Done
  BY DEF Done, CommitOrder
<1> QED BY <1>1, <1>2 DEF RolledBack

\* Rejected is kept by every step but a loss of power inside the swap.
LEMMA RejectedStep == TypeOK /\ Rejected /\ [Next]_vars /\ cut' # "swap" => Rejected'
<1> SUFFICES ASSUME TypeOK, Rejected, [Next]_vars, cut' # "swap" PROVE Rejected'
  OBVIOUS
<1> USE DEF TypeOK, Rejected, LibsBefore, SentinelBefore, Tail, Tree, FastValid, Recognised, NoCount, OnlyPc, Goto, disk
<1>1. CASE Launch
  BY <1>1 DEF Launch
<1>2. CASE PrepareLive
  BY <1>2 DEF PrepareLive, LivePresent
<1>3. CASE PrepareLiveMark
  BY <1>3 DEF PrepareLiveMark
<1>4. CASE PrepareSkipped
  BY <1>4 DEF PrepareSkipped
<1>5. CASE Recover
  <2>1. CASE journal
    BY <1>5, <2>1, RejectedBack DEF Recover
  <2>2. CASE ~journal
    BY <1>5, <2>2 DEF Recover
  <2> QED BY <2>1, <2>2
<1>6. CASE Check
  BY <1>6 DEF Check
<1>7. CASE Adopt
  BY <1>7 DEF Adopt, FullValid
<1>8. CASE NoSource
  BY <1>8 DEF NoSource
<1>9. CASE Plan
  BY <1>9 DEF Plan, Empty
<1>10. CASE ExtractLibs
  BY <1>10 DEF ExtractLibs
<1>11. CASE ExtractAssets
  BY <1>11 DEF ExtractAssets
<1>12. CASE Hook
  BY <1>12 DEF Hook
<1>13. CASE HookStore
  BY <1>13 DEF HookStore
<1>14. CASE HookSentinel
  BY <1>14 DEF HookSentinel
<1>15. CASE HookMark
  BY <1>15 DEF HookMark
<1>16. CASE ValidateStage
  BY <1>16 DEF ValidateStage, Empty
<1>17. CASE Swap
  BY <1>17 DEF Swap, CommitOrder
<1>18. CASE Publish
  BY <1>18 DEF Publish, Empty, FullValid
<1>19. CASE GameExits
  BY <1>19 DEF GameExits
<1>20. CASE Crash
  BY <1>20 DEF Crash, CutAt
<1>21. CASE Fault
  <2>1. CASE pc \in {"swap", "publish"}
    BY <1>21, <2>1, RejectedBack DEF Fault
  <2>2. CASE pc \notin {"swap", "publish"}
    BY <1>21, <2>2 DEF Fault
  <2> QED BY <2>1, <2>2
<1>22. CASE PrepareFault
  BY <1>22 DEF PrepareFault
<1>23. CASE UNCHANGED vars
  BY <1>23 DEF vars
<1> QED
  BY <1>1, <1>2, <1>3, <1>4, <1>5, <1>6, <1>7, <1>8, <1>9, <1>10, <1>11, <1>12, <1>13, <1>14, <1>15, <1>16, <1>17, <1>18, <1>19, <1>20, <1>21, <1>22, <1>23 DEF Next, Run

\* RejectedInv is inductive.
LEMMA RejectedKept == TypeOK /\ RejectedInv /\ [Next]_vars => RejectedInv'
BY RejectedStep, SwapCutStays DEF RejectedInv

\* The strengthening holds in every reachable state.
THEOREM RejectedInvariant == Spec => []RejectedInv
<1> QED BY RejectedInit, RejectedKept, TypeCorrect, PTL DEF Spec

\* A store that the preparation rejects is never started, unless power was lost
\* inside the swap (run-extractor.sh:16-17, it is repaired from a package).
THEOREM ForeignNeverRuns == Spec => []RejectedNotStarted
<1>1. RejectedInv => RejectedNotStarted
  BY DEF RejectedInv, Rejected, RejectedNotStarted
<1> QED BY <1>1, RejectedInvariant, PTL

-----------------------------------------------------------------------------
(* The refinement of RecoverableSwap.                                       *)

\* An open transaction and the place of the launch fit together, however the launches
\* before it ended.
OpenInv ==
  /\ journal => pc \in {"off", "prepare", "prepareMark", "recover", "swap", "publish"}
  /\ pc \in {"swap", "publish"} => journal
  /\ pc = "swap" => swapped \in 0..2
  /\ pc = "publish" => swapped = 3
  /\ ~journal => swapped = 0
  /\ pc = "prepareMark" => dest.libs = "final"

\* OpenInv is kept by every step, an interruption wherever it falls included.
LEMMA OpenStep == TypeOK /\ OpenInv /\ [Next]_vars => OpenInv'
<1> SUFFICES ASSUME TypeOK, OpenInv, [Next]_vars PROVE OpenInv'
  OBVIOUS
<1> USE DEF TypeOK, OpenInv, NoCount, OnlyPc, Goto, disk
<1>1. CASE Launch \/ PrepareLiveMark \/ PrepareSkipped \/ Check \/ Adopt \/ NoSource
  BY <1>1 DEF Launch, PrepareLiveMark, PrepareSkipped, Check, Adopt, NoSource
<1>2. CASE PrepareLive
  BY <1>2 DEF PrepareLive, Tree
<1>3. CASE Recover
  BY <1>3 DEF Recover, RolledBack
<1>4. CASE Plan \/ ExtractLibs \/ ExtractAssets \/ Hook \/ HookStore \/ HookSentinel \/ HookMark
  BY <1>4 DEF Plan, ExtractLibs, ExtractAssets, Hook, HookStore, HookSentinel, HookMark
<1>5. CASE ValidateStage \/ Publish \/ GameExits
  BY <1>5 DEF ValidateStage, Publish, GameExits
<1>6. CASE Swap
  BY <1>6 DEF Swap
<1>7. CASE Crash \/ PrepareFault
  BY <1>7 DEF Crash, PrepareFault
<1>8. CASE Fault
  BY <1>8 DEF Fault, RolledBack
<1>9. CASE UNCHANGED vars
  BY <1>9 DEF vars
<1> QED BY <1>1, <1>2, <1>3, <1>4, <1>5, <1>6, <1>7, <1>8, <1>9 DEF Next, Run

\* OpenInv holds in every reachable state.
LEMMA OpenInvariant == Spec => []OpenInv
<1>1. Init => OpenInv
  BY DEF Init, OpenInv
<1> QED BY <1>1, OpenStep, TypeCorrect, PTL DEF Spec

\* The commit paths are the fields of a tree, and a tree is a function on them.
LEMMA Paths ==
  /\ Transaction!Path = {"libs", "assets", "sentinel"}
  /\ Transaction!Empty = Empty
  /\ \A t \in Tree : t \in Transaction!Tree
<1>1. Transaction!Path = {"libs", "assets", "sentinel"}
  BY DEF Transaction!Path, CommitOrder
<1>2. Transaction!Empty = Empty
  BY <1>1 DEF Transaction!Empty, Empty
<1>3. \A t \in Tree : t \in Transaction!Tree
  BY <1>1 DEF Transaction!Tree, Tree, Libs
<1> QED BY <1>1, <1>2, <1>3

\* A step of an extraction, a hook or a plan fills the stage.
LEMMA Fills ==
  ASSUME TypeOK, TypeOK', ~journal, ~journal',
         UNCHANGED <<dest, backup, swapped, marker>>,
         stage' = Empty \/ \A p \in {"libs", "assets", "sentinel"} :
                             stage[p] # "none" => stage'[p] # "none"
  PROVE  Transaction!Fill
<1>1. journal = FALSE /\ journal' = FALSE
  BY Zenon DEF TypeOK
<1>2. stage' \in Transaction!Tree
  BY Paths DEF TypeOK
<1> QED BY <1>1, <1>2, Paths DEF Transaction!Fill, Done

\* A rollback of the journal takes the transaction back.
LEMMA TakesBack ==
  ASSUME TypeOK, journal, RolledBack
  PROVE  Transaction!RollBack
<1>1. DOMAIN dest = Transaction!Path /\ DOMAIN stage = Transaction!Path
  BY Paths DEF TypeOK, Tree
<1>2. Done' = {}
  BY DEF RolledBack, Done
<1> QED BY <1>1, <1>2, Paths DEF RolledBack, Transaction!RollBack, Transaction!View

\* One step of the swap exchanges the next path.
LEMMA SwapExchanges ==
  ASSUME TypeOK, OpenInv, Swap
  PROVE  Transaction!Exchange
<1>1. pc = "swap" /\ journal /\ journal' = journal /\ swapped \in 0..2 /\ swapped' = swapped + 1
  BY DEF Swap, OpenInv
<1>2. swapped + 1 \in 1..3
  BY <1>1 DEF CommitOrder
<1>3. CommitOrder[swapped + 1] \notin Done
  BY <1>1 DEF Done, CommitOrder
<1>4. \A j \in 1..3 : j < swapped + 1 => CommitOrder[j] \in Done
  BY <1>1, <1>2 DEF Done
<1>5. Done' = Done \cup {CommitOrder[swapped + 1]}
  BY <1>1 DEF Done
<1>6. /\ backup' = [backup EXCEPT ![CommitOrder[swapped + 1]] = dest[CommitOrder[swapped + 1]]]
      /\ dest' = [dest EXCEPT ![CommitOrder[swapped + 1]] = stage[CommitOrder[swapped + 1]]]
      /\ stage' = [stage EXCEPT ![CommitOrder[swapped + 1]] = "none"]
      /\ marker' = marker
  BY DEF Swap
<1> QED BY <1>1, <1>2, <1>3, <1>4, <1>5, <1>6 DEF CommitOrder, Transaction!Exchange

\* Each step is one of the transaction or leaves it as it is.
LEMMA TransactionStep ==
  TypeOK /\ TypeOK' /\ OpenInv /\ OpenInv' /\ [Next]_vars => [Transaction!Next]_(Transaction!vars)
<1> SUFFICES ASSUME TypeOK, TypeOK', OpenInv, OpenInv', [Next]_vars
             PROVE  Transaction!Next \/ UNCHANGED Transaction!vars
  OBVIOUS
<1> USE DEF NoCount, OnlyPc, Goto, disk
<1>q. UNCHANGED disk => UNCHANGED Transaction!vars
  BY DEF Transaction!vars, Done
<1>1. CASE Launch \/ PrepareSkipped \/ Check \/ NoSource \/ Hook \/ GameExits \/ Crash \/ PrepareFault
  BY <1>1, <1>q DEF Launch, PrepareSkipped, Check, NoSource, Hook, GameExits, Crash, PrepareFault
<1>2. CASE PrepareLive
  <2>1. <<dest, dest'>> \in Prepared
    BY <1>2 DEF PrepareLive, Prepared, TypeOK
  <2> QED BY <1>2, <2>1 DEF PrepareLive, Transaction!Next, Transaction!Prepare, Done
<1>3. CASE PrepareLiveMark
  <2>1. <<dest, dest'>> \in Prepared
    BY <1>3 DEF PrepareLiveMark, Prepared, TypeOK, OpenInv
  <2> QED BY <1>3, <2>1 DEF PrepareLiveMark, Transaction!Next, Transaction!Prepare, Done
<1>4. CASE Recover
  <2>1. CASE journal
    BY <1>4, <2>1, TakesBack DEF Recover, Transaction!Next
  <2>2. CASE ~journal
    BY <1>4, <2>2, <1>q DEF Recover
  <2> QED BY <2>1, <2>2
<1>5. CASE Adopt
  <2>1. CASE marker' = marker
    BY <1>5, <2>1, <1>q DEF Adopt
  <2>2. CASE marker' = TRUE
    BY <1>5, <2>2 DEF Adopt, OpenInv, Transaction!Next, Transaction!Adopt, Done
  <2> QED BY <1>5, <2>1, <2>2 DEF Adopt
<1>6. CASE Plan \/ ExtractLibs \/ ExtractAssets \/ HookStore \/ HookSentinel \/ HookMark
  <2>1. ~journal /\ ~journal' /\ UNCHANGED <<dest, backup, swapped, marker>>
    BY <1>6 DEF Plan, ExtractLibs, ExtractAssets, HookStore, HookSentinel, HookMark, OpenInv
  <2>2. stage' = Empty \/ \A p \in {"libs", "assets", "sentinel"} :
                            stage[p] # "none" => stage'[p] # "none"
    BY <1>6 DEF Plan, ExtractLibs, ExtractAssets, HookStore, HookSentinel, HookMark, TypeOK, Tree
  <2> QED BY <2>1, <2>2, Fills DEF Transaction!Next
<1>7. CASE ValidateStage
  <2>1. /\ ~journal /\ journal' = TRUE /\ swapped = 0 /\ swapped' = 0 /\ backup' = Empty
        /\ UNCHANGED <<dest, stage, marker>>
    BY <1>7 DEF ValidateStage, OpenInv
  <2>2. \A p \in Transaction!Path : stage[p] # "none"
    BY <1>7, Paths DEF ValidateStage, FullValid
  <2> QED BY <2>1, <2>2, Paths DEF Transaction!Next, Transaction!Begin, Done
<1>8. CASE Swap
  BY <1>8, SwapExchanges DEF Transaction!Next
<1>9. CASE Publish
  <2>1. /\ journal /\ swapped = 3 /\ journal' = FALSE /\ swapped' = 0 /\ marker' = TRUE
        /\ backup' = Empty /\ stage' = Empty /\ dest' = dest
    BY <1>9 DEF Publish, OpenInv
  <2>2. Done = Transaction!Path /\ Done' = {}
    BY <2>1 DEF Done, Transaction!Path, CommitOrder
  <2> QED BY <2>1, <2>2, Paths DEF Transaction!Next, Transaction!Commit
<1>10. CASE Fault
  <2>1. CASE pc \in {"swap", "publish"}
    BY <1>10, <2>1, TakesBack DEF Fault, OpenInv, Transaction!Next
  <2>2. CASE pc \notin {"swap", "publish"}
    BY <1>10, <2>2, <1>q DEF Fault
  <2> QED BY <2>1, <2>2
<1>11. CASE UNCHANGED vars
  BY <1>11, <1>q DEF vars
<1> QED
  BY <1>1, <1>2, <1>3, <1>4, <1>5, <1>6, <1>7, <1>8, <1>9, <1>10, <1>11 DEF Next, Run

\* Whatever an update of the port finds is an initial state of the transaction.
LEMMA TransactionInit == Init => Transaction!Init
<1> SUFFICES ASSUME Init PROVE Transaction!Init
  OBVIOUS
<1>1. dest \in Transaction!Tree /\ stage \in Transaction!Tree
  BY TypeInit, Paths DEF TypeOK
<1>2. Done = {} /\ backup = Transaction!Empty /\ journal = FALSE /\ marker = FALSE
  BY Paths DEF Init, Done
<1> QED BY <1>1, <1>2 DEF Transaction!Init

\* Every behaviour of the launches is one of the recoverable transaction, whatever is
\* interrupted or fails.
THEOREM LaunchesAreTransactions == Spec => ImplementsTransaction
<1> QED BY TransactionInit, TransactionStep, TypeCorrect, OpenInvariant, PTL
        DEF Spec, ImplementsTransaction, Transaction!Spec
=============================================================================
