--------------------------- MODULE RecoverableSwap ---------------------------
(***************************************************************************)
(* What a transaction of NXExtract promises (README.md:325): the paths of  *)
(* the game directory are exchanged for the staged ones, each as a whole   *)
(* and in order, and until the last of them is in place all of it can be   *)
(* taken back, the staged payload included.  NxTransaction implements this *)
(* by renames and a journal; the steps of NxInstall are taken from here.   *)
(***************************************************************************)
EXTENDS Naturals, Sequences

CONSTANTS Order,    \* the commit paths, in commit order
          Payload,  \* what a path may hold
          None,     \* nothing
          Prepares  \* pairs of directories: what a launch may make of one in place

VARIABLES
  dest, stage, backup,  \* what the paths hold in the game directory, the stage, the backup
  open,                 \* a transaction is open
  done,                 \* the paths it has exchanged
  marked                \* the directory is marked as installed

vars == <<dest, stage, backup, open, done, marked>>

Path == {Order[i] : i \in 1..Len(Order)}
Tree == [Path -> Payload]
Empty == [p \in Path |-> None]

\* What the directory holds if the transaction is taken back.
View == [p \in Path |-> IF p \in done THEN backup[p] ELSE dest[p]]

-----------------------------------------------------------------------------
\* Outside of a transaction the stage is filled, or dropped as a whole.
Fill ==
  /\ ~open
  /\ \/ stage' = Empty
     \/ stage' \in Tree /\ \A p \in Path : stage[p] # None => stage'[p] # None
  /\ UNCHANGED <<dest, backup, open, done, marked>>

Begin ==
  /\ ~open /\ open' = TRUE
  /\ \A p \in Path : stage[p] # None
  /\ backup' = Empty
  /\ UNCHANGED <<dest, stage, done, marked>>

\* The next path: what is installed goes to the backup, what is staged takes its place.
Exchange ==
  /\ open
  /\ \E i \in 1..Len(Order) :
       LET p == Order[i] IN
       /\ p \notin done /\ \A j \in 1..Len(Order) : j < i => Order[j] \in done
       /\ done' = done \cup {p}
       /\ dest' = [dest EXCEPT ![p] = stage[p]]
       /\ backup' = [backup EXCEPT ![p] = dest[p]]
       /\ stage' = [stage EXCEPT ![p] = None]
  /\ UNCHANGED <<open, marked>>

\* The directory is marked when every path is exchanged, and what was kept is dropped.
Commit ==
  /\ open /\ done = Path
  /\ open' = FALSE /\ done' = {} /\ marked' = TRUE
  /\ backup' = Empty /\ stage' = Empty
  /\ UNCHANGED dest

RollBack ==
  /\ open /\ open' = FALSE /\ done' = {}
  /\ dest' = View
  /\ stage' = [p \in Path |-> IF p \in done THEN dest[p] ELSE stage[p]]
  /\ backup' = Empty
  /\ UNCHANGED marked

\* A directory that validates is marked as it is.
Adopt ==
  /\ ~open /\ marked' = TRUE
  /\ UNCHANGED <<dest, stage, backup, open, done>>

\* The preparation of an installed directory, before the installer runs.
Prepare ==
  /\ <<dest, dest'>> \in Prepares
  /\ UNCHANGED <<stage, backup, open, done, marked>>

Init ==
  /\ dest \in Tree /\ stage \in Tree /\ backup = Empty
  /\ open = FALSE /\ done = {} /\ marked = FALSE

Next == Fill \/ Begin \/ Exchange \/ Commit \/ RollBack \/ Adopt \/ Prepare

Spec == Init /\ [][Next]_vars
=============================================================================
