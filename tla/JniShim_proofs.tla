----------------------------- MODULE JniShim_proofs -----------------------------
(***************************************************************************)
(* Proofs about JniShim and its parts.  For any number of peers, slots and *)
(* arrays the reference counts are right, and the table of slots implements *)
(* RefHeap: the invariant adds to the accounting what ties the steps of an *)
(* accessor together, the slot it found is still the one its reference     *)
(* designates.  For any tables, threads, files and block sizes the tokens  *)
(* stay stable and streams are where their readers think they are.         *)
(***************************************************************************)
EXTENDS JniShim, FiniteSetTheorems, TLAPS

\* A slot has an identity exactly when it holds an array.
Identified == \A s \in Slots : slot[s].active <=> slot[s].id # Nil

\* Nothing was ever put beyond the used part of the table.
Unreached == \A s \in Slots : s > used => ~slot[s].active

\* Between its two halves an accessor stands on the slot of its own reference.
OnOwnSlot == \A p \in Peers : at[p] # Nil => at[p] = token[p]

ArraysInv == /\ ArraysTypeOK /\ RefsAccounted
             /\ Identified /\ Unreached /\ OnOwnSlot

-----------------------------------------------------------------------------
LEMMA HoldersFinite == ASSUME NEW s PROVE IsFiniteSet(Holders(s))
BY FS_Subset, ArraysAssumption DEF Holders

\* The reference of a peer leads to a live slot within the used part.
LEMMA Designates ==
  ASSUME ArraysInv, NEW p \in Peers, token[p] # Nil
  PROVE  token[p] \in Slots /\ Active(token[p]) /\ slot[token[p]].refs > 0
<1>1. token[p] \in Slots
  BY DEF ArraysInv, ArraysTypeOK
<1>2. p \in Holders(token[p])
  BY DEF Holders
<1>3. slot[token[p]].active
  BY <1>1, <1>2 DEF ArraysInv, RefsAccounted
<1>4. token[p] <= used
  BY <1>1, <1>3 DEF ArraysInv, Unreached, ArraysTypeOK, Slots
<1>5. Cardinality(Holders(token[p])) > 0
  BY <1>2, HoldersFinite, FS_EmptySet, FS_CardinalityType
<1> QED
  BY <1>1, <1>3, <1>4, <1>5 DEF Active, ArraysInv, RefsAccounted, ArraysTypeOK, Slots

\* The one who gains or loses a reference changes the holders of that slot only.
LEMMA HoldersChange ==
  ASSUME NEW p \in Peers, token \in [Peers -> Slots \cup {Nil}],
         NEW s \in Slots \cup {Nil}, token' = [token EXCEPT ![p] = s],
         NEW r \in Slots
  PROVE  Holders(r)' = IF r = s THEN Holders(r) \cup {p} ELSE Holders(r) \ {p}
BY DEF Holders

-----------------------------------------------------------------------------
LEMMA InitInv == ArraysInit => ArraysInv
<1> SUFFICES ASSUME ArraysInit PROVE ArraysInv
  OBVIOUS
<1>1. \A s \in Slots : Holders(s) = {}
  BY ArraysAssumption DEF ArraysInit, Holders, Slots
<1>2. ArraysTypeOK
  BY ArraysAssumption DEF ArraysInit, ArraysTypeOK, Slot, Empty
<1>3. RefsAccounted
  BY <1>1, FS_EmptySet DEF ArraysInit, RefsAccounted, Empty
<1> QED
  BY <1>2, <1>3 DEF ArraysInit, ArraysInv, Identified, Unreached, OnOwnSlot, Empty

LEMMA NewArrayInv ==
  ASSUME ArraysInv, NEW p \in Peers, NewArray(p) PROVE ArraysInv'
<1>1. PICK s \in Slots, k \in Kind, n \in Lengths, i \in Ids \ {slot[r].id : r \in Slots} :
        /\ FreeSlot(s)
        /\ used' = IF s > used THEN s ELSE used
        /\ slot' = [slot EXCEPT ![s] = [active |-> TRUE, refs |-> 1, kind |-> k, len |-> n, id |-> i]]
        /\ token' = [token EXCEPT ![p] = s]
  BY DEF NewArray
<1> USE DEF ArraysInv
<1>2. ~slot[s].active /\ s <= used + 1
  BY <1>1 DEF FreeSlot, Unreached, ArraysTypeOK, Slots
<1>3. Holders(s) = {} /\ token[p] = Nil /\ at' = at /\ got' = got
  BY <1>2 DEF RefsAccounted, NewArray
<1>4. \A r \in Slots : Holders(r)' = IF r = s THEN {p} ELSE Holders(r)
  <2> TAKE r \in Slots
  <2>1. Holders(r)' = IF r = s THEN Holders(r) \cup {p} ELSE Holders(r) \ {p}
    BY <1>1, HoldersChange DEF ArraysTypeOK
  <2>2. p \notin Holders(r)
    BY <1>3, ArraysAssumption DEF Holders, Slots
  <2> QED
    BY <2>1, <2>2, <1>3
<1>5. ArraysTypeOK'
  BY <1>1, <1>2, <1>3 DEF ArraysTypeOK, Slot, Slots
<1>6. RefsAccounted'
  BY <1>1, <1>4, FS_Singleton DEF RefsAccounted, ArraysTypeOK
<1>7. Identified' /\ Unreached'
  BY <1>1, <1>2, ArraysAssumption DEF Identified, Unreached, ArraysTypeOK, Slots
<1>8. OnOwnSlot'
  BY <1>1, <1>3 DEF OnOwnSlot, ArraysTypeOK
<1> QED
  BY <1>5, <1>6, <1>7, <1>8

LEMMA NewRefInv ==
  ASSUME ArraysInv, NEW p \in Peers, NEW q \in Peers, NewRef(p, q) PROVE ArraysInv'
<1> DEFINE s == token[p]
<1>1. s \in Slots /\ Active(s) /\ slot[s].refs > 0
  BY Designates DEF NewRef
<1>2. /\ slot' = [slot EXCEPT ![s].refs = @ + 1] /\ token' = [token EXCEPT ![q] = s]
      /\ used' = used /\ at' = at /\ got' = got /\ token[q] = Nil
  BY <1>1 DEF NewRef
<1> HIDE DEF s
<1> USE DEF ArraysInv
<1>3. \A r \in Slots : Holders(r)' = IF r = s THEN Holders(r) \cup {q} ELSE Holders(r)
  <2> TAKE r \in Slots
  <2>1. Holders(r)' = IF r = s THEN Holders(r) \cup {q} ELSE Holders(r) \ {q}
    BY <1>1, <1>2, HoldersChange DEF ArraysTypeOK
  <2>2. q \notin Holders(r)
    BY <1>2, ArraysAssumption DEF Holders, Slots
  <2> QED
    BY <2>1, <2>2
<1>4. Cardinality(Holders(s) \cup {q}) = Cardinality(Holders(s)) + 1
  <2>1. q \notin Holders(s)
    BY <1>1, <1>2, ArraysAssumption DEF Holders, Slots
  <2> QED
    BY <2>1, HoldersFinite, FS_AddElement
<1>5. ArraysTypeOK'
  BY <1>1, <1>2 DEF ArraysTypeOK, Slot
<1>6. RefsAccounted'
  BY <1>1, <1>2, <1>3, <1>4 DEF RefsAccounted, ArraysTypeOK, Active, Slot
<1>7. Identified' /\ Unreached'
  BY <1>1, <1>2 DEF Identified, Unreached, ArraysTypeOK, Slot
<1>8. OnOwnSlot'
  BY <1>2 DEF OnOwnSlot, ArraysTypeOK
<1> QED
  BY <1>5, <1>6, <1>7, <1>8

LEMMA DeleteRefInv ==
  ASSUME ArraysInv, NEW p \in Peers, DeleteRef(p) PROVE ArraysInv'
<1> DEFINE s == token[p]
<1>1. s \in Slots /\ Active(s) /\ slot[s].refs > 0
  BY Designates DEF DeleteRef
<1>2. /\ slot' = IF slot[s].refs > 1 THEN [slot EXCEPT ![s].refs = @ - 1] ELSE [slot EXCEPT ![s] = Empty]
      /\ token' = [token EXCEPT ![p] = Nil] /\ p \in Holders(s)
      /\ used' = used /\ at' = at /\ got' = got /\ at[p] = Nil
  BY <1>1 DEF DeleteRef, Holders
<1> HIDE DEF s
<1> USE DEF ArraysInv
<1>3. \A r \in Slots : Holders(r)' = IF r = s THEN Holders(r) \ {p} ELSE Holders(r)
  <2> TAKE r \in Slots
  <2>1. r # Nil
    BY ArraysAssumption DEF Slots
  <2>2. token[p] = s
    BY <1>2 DEF Holders
  <2> QED
    BY <1>2, <2>1, <2>2 DEF Holders, ArraysTypeOK
<1>4. /\ Cardinality(Holders(s) \ {p}) = slot[s].refs - 1
      /\ Holders(s) \ {p} = {} <=> slot[s].refs = 1
  <2>1. Cardinality(Holders(s)) = slot[s].refs /\ slot[s].refs \in Nat
    BY <1>1 DEF RefsAccounted, ArraysTypeOK, Slot
  <2>2. IsFiniteSet(Holders(s) \ {p}) /\ Cardinality(Holders(s) \ {p}) = slot[s].refs - 1
    BY <1>2, <2>1, HoldersFinite, FS_RemoveElement
  <2> QED
    BY <2>1, <2>2, FS_EmptySet
<1>5. ArraysTypeOK'
  <2>1. [slot[s] EXCEPT !.refs = @ - 1] \in Slot
    BY <1>1 DEF ArraysTypeOK, Slot
  <2>2. Empty \in Slot
    BY DEF Empty, Slot
  <2> QED
    BY <1>1, <1>2, <2>1, <2>2 DEF ArraysTypeOK
<1>6. RefsAccounted'
  <2> SUFFICES ASSUME NEW r \in Slots
               PROVE  slot'[r].refs = Cardinality(Holders(r)') /\ (slot'[r].active <=> Holders(r)' # {})
    BY DEF RefsAccounted
  <2>1. CASE r # s
    BY <2>1, <1>2, <1>3 DEF RefsAccounted, ArraysTypeOK
  <2>2. CASE r = s /\ slot[s].refs > 1
    <3>1. slot'[s].refs = slot[s].refs - 1 /\ slot'[s].active
      BY <2>2, <1>1, <1>2 DEF ArraysTypeOK, Active, Slot
    <3>2. Holders(r)' = Holders(s) \ {p} /\ Holders(r)' # {}
      BY <2>2, <1>1, <1>3, <1>4
    <3> QED
      BY <2>2, <3>1, <3>2, <1>4
  <2>3. CASE r = s /\ slot[s].refs = 1
    <3>1. slot'[s].refs = 0 /\ ~slot'[s].active
      BY <2>3, <1>1, <1>2 DEF ArraysTypeOK, Empty
    <3>2. Holders(r)' = {}
      BY <2>3, <1>1, <1>3, <1>4
    <3> QED
      BY <2>3, <3>1, <3>2, FS_EmptySet
  <2>4. slot[s].refs \in Nat
    BY <1>1 DEF ArraysTypeOK, Slot
  <2> QED
    BY <1>1, <2>1, <2>2, <2>3, <2>4
<1>7. Identified' /\ Unreached'
  BY <1>1, <1>2 DEF Identified, Unreached, ArraysTypeOK, Slot, Empty
<1>8. OnOwnSlot'
  BY <1>2 DEF OnOwnSlot, ArraysTypeOK
<1> QED
  BY <1>5, <1>6, <1>7, <1>8

\* The accessors leave the table and the references alone.
LEMMA AccessInv ==
  ASSUME ArraysInv, NEW p \in Peers, Find(p) \/ Touch(p) \/ Finish(p) PROVE ArraysInv'
<1> USE DEF ArraysInv
<1>1. slot' = slot /\ used' = used /\ token' = token
  BY DEF Find, Touch, Finish
<1>2. RefsAccounted' /\ Identified' /\ Unreached'
  BY <1>1 DEF RefsAccounted, Identified, Unreached, Holders
<1>3. OnOwnSlot'
  BY DEF Find, Touch, Finish, OnOwnSlot, ArraysTypeOK
<1>4. ArraysTypeOK'
  BY DEF Find, Touch, Finish, OnOwnSlot, ArraysTypeOK, Slot
<1> QED
  BY <1>2, <1>3, <1>4

LEMMA StepInv == ArraysInv /\ [ArraysNext]_arrayVars => ArraysInv'
<1> SUFFICES ASSUME ArraysInv, [ArraysNext]_arrayVars PROVE ArraysInv'
  OBVIOUS
<1>1. CASE arrayVars' = arrayVars
  BY <1>1 DEF arrayVars, ArraysInv, ArraysTypeOK, RefsAccounted, Holders, Identified, Unreached, OnOwnSlot
<1>2. CASE ArraysNext
  <2>1. PICK p \in Peers : ArrayCalls(p)
    BY <1>2 DEF ArraysNext
  <2>2. CASE NewArrayFails(p) \/ FindRefuses(p)
    BY <2>2, <1>1 DEF NewArrayFails, FindRefuses
  <2> QED
    BY <2>1, <2>2, NewArrayInv, NewRefInv, DeleteRefInv, AccessInv DEF ArrayCalls
<1> QED
  BY <1>1, <1>2

-----------------------------------------------------------------------------
\* The table, the references and the accessors keep their shapes
\* (jni_shim.c:175-249).
THEOREM ArraysTyped == ArraysSpec => []ArraysTypeOK
<1>1. ArraysInv => ArraysTypeOK
  BY DEF ArraysInv
<1> QED
  BY <1>1, InitInv, StepInv, PTL DEF ArraysSpec

\* However threads copy and give back their references, an array's slot is freed
\* with its last reference and never before (jni_shim.c:217-249).
THEOREM Accounting == ArraysSpec => []RefsAccounted
<1>1. ArraysInv => RefsAccounted
  BY DEF ArraysInv
<1> QED
  BY <1>1, InitInv, StepInv, PTL DEF ArraysSpec

-----------------------------------------------------------------------------
\* A reference designates an array exactly while it is held.
LEMMA DesignatedHeld ==
  ASSUME ArraysInv, NEW p \in Peers
  PROVE  designated[p] = Nil <=> token[p] = Nil
<1>1. CASE token[p] = Nil
  BY <1>1 DEF designated
<1>2. CASE token[p] # Nil
  BY <1>2, Designates DEF designated, ArraysInv, Identified, Active
<1> QED
  BY <1>1, <1>2

LEMMA RefinesInit == ArraysInit => Heap!HeapInit
BY DEF ArraysInit, Heap!HeapInit, designated

LEMMA RefinesNewArray ==
  ASSUME ArraysInv, NEW p \in Peers, NewArray(p) PROVE Heap!Create(p)
<1>1. PICK s \in Slots, k \in Kind, n \in Lengths, i \in Ids \ {slot[r].id : r \in Slots} :
        /\ FreeSlot(s)
        /\ used' = IF s > used THEN s ELSE used
        /\ slot' = [slot EXCEPT ![s] = [active |-> TRUE, refs |-> 1, kind |-> k, len |-> n, id |-> i]]
        /\ token' = [token EXCEPT ![p] = s]
  BY DEF NewArray
<1>2. ASSUME NEW q \in Peers PROVE token[q] # s
  <2>1. ~Active(s)
    BY <1>1 DEF FreeSlot, Active, ArraysInv, ArraysTypeOK, Slots
  <2>2. s # Nil
    BY ArraysAssumption DEF Slots
  <2> QED
    BY <2>1, <2>2, Designates
<1>3. i \notin {designated[q] : q \in Peers}
  BY <1>1, ArraysAssumption DEF designated, ArraysInv, ArraysTypeOK
<1>4. designated' = [designated EXCEPT ![p] = i]
  <2>1. \A q \in Peers : token[q] # Nil => slot'[token[q]] = slot[token[q]]
    BY <1>1, <1>2 DEF ArraysInv, ArraysTypeOK
  <2>2. s # Nil /\ slot'[s].id = i
    BY <1>1, ArraysAssumption DEF ArraysInv, ArraysTypeOK, Slots
  <2> QED
    BY <1>1, <2>1, <2>2 DEF designated, ArraysInv, ArraysTypeOK
<1>5. designated[p] = Nil /\ got' = got
  BY DEF NewArray, designated
<1> QED
  BY <1>1, <1>3, <1>4, <1>5 DEF Heap!Create

LEMMA RefinesNewRef ==
  ASSUME ArraysInv, NEW p \in Peers, NEW q \in Peers, NewRef(p, q) PROVE Heap!Copy(p, q)
<1>1. designated[p] # Nil /\ designated[q] = Nil /\ got' = got
  BY DesignatedHeld DEF NewRef
<1>2. \A s \in Slots : slot'[s].id = slot[s].id
  BY Designates DEF NewRef, ArraysInv, ArraysTypeOK, Slot
<1>3. designated' = [designated EXCEPT ![q] = designated[p]]
  BY <1>2 DEF NewRef, designated, ArraysInv, ArraysTypeOK
<1> QED
  BY <1>1, <1>3 DEF Heap!Copy

LEMMA RefinesDeleteRef ==
  ASSUME ArraysInv, NEW p \in Peers, DeleteRef(p) PROVE Heap!Drop(p)
<1>1. designated[p] # Nil /\ got' = got /\ token' = [token EXCEPT ![p] = Nil]
  BY DesignatedHeld DEF DeleteRef
<1>2. ASSUME NEW q \in Peers, q # p, token[q] # Nil
      PROVE  slot'[token[q]].id = slot[token[q]].id
  <2>1. token[p] \in Slots /\ token[q] \in Slots /\ Active(token[p])
    BY <1>2, Designates DEF DeleteRef
  <2>2. CASE token[q] # token[p]
    BY <2>1, <2>2 DEF DeleteRef, ArraysInv, ArraysTypeOK
  <2>3. CASE token[q] = token[p]
    <3> DEFINE others == Holders(token[p]) \ {p}
    <3>1. q \in others /\ p \in Holders(token[p])
      BY <2>3, <1>2 DEF Holders
    <3>2. IsFiniteSet(others) /\ Cardinality(others) = Cardinality(Holders(token[p])) - 1
      BY <3>1, HoldersFinite, FS_RemoveElement
    <3> HIDE DEF others
    <3>3. slot[token[p]].refs > 1
      <4>1. Cardinality(others) \in Nat /\ Cardinality(others) # 0
        BY <3>1, <3>2, FS_EmptySet, FS_CardinalityType
      <4>2. slot[token[p]].refs = Cardinality(Holders(token[p])) /\ slot[token[p]].refs \in Nat
        BY <2>1 DEF ArraysInv, RefsAccounted, ArraysTypeOK, Slot
      <4> QED
        BY <4>1, <4>2, <3>2
    <3> QED
      BY <2>1, <2>3, <3>3 DEF DeleteRef, ArraysInv, ArraysTypeOK, Slot
  <2> QED
    BY <2>2, <2>3
<1>3. designated' = [designated EXCEPT ![p] = Nil]
  BY <1>1, <1>2 DEF designated, ArraysInv, ArraysTypeOK
<1> QED
  BY <1>1, <1>3 DEF Heap!Drop

LEMMA RefinesTouch ==
  ASSUME ArraysInv, NEW p \in Peers, Touch(p) PROVE Heap!Access(p)
<1>1. at[p] = token[p] /\ token[p] # Nil
  BY DEF Touch, ArraysInv, OnOwnSlot
<1>2. designated[p] # Nil /\ designated[p] = slot[at[p]].id
  BY <1>1, DesignatedHeld DEF designated
<1>3. designated' = designated
  BY DEF Touch, designated
<1> QED
  BY <1>2, <1>3 DEF Heap!Access, Touch

LEMMA RefinesStep ==
  ArraysInv /\ [ArraysNext]_arrayVars => [Heap!HeapNext]_Heap!heapVars
<1> SUFFICES ASSUME ArraysInv, [ArraysNext]_arrayVars PROVE [Heap!HeapNext]_Heap!heapVars
  OBVIOUS
<1>1. CASE slot' = slot /\ token' = token /\ got' = got
  BY <1>1 DEF Heap!heapVars, designated
<1>2. CASE arrayVars' = arrayVars
  BY <1>1, <1>2 DEF arrayVars
<1>3. ASSUME NEW p \in Peers, ArrayCalls(p) PROVE [Heap!HeapNext]_Heap!heapVars
  <2>1. CASE NewArrayFails(p) \/ FindRefuses(p) \/ Find(p) \/ Finish(p)
    BY <2>1, <1>1 DEF NewArrayFails, FindRefuses, Find, Finish, arrayVars
  <2>2. CASE NewArray(p)
    BY <2>2, RefinesNewArray DEF Heap!HeapNext
  <2>3. ASSUME NEW q \in Peers, NewRef(p, q) PROVE Heap!HeapNext
    BY <2>3, RefinesNewRef DEF Heap!HeapNext
  <2>4. CASE DeleteRef(p)
    BY <2>4, RefinesDeleteRef DEF Heap!HeapNext
  <2>5. CASE Touch(p)
    BY <2>5, RefinesTouch DEF Heap!HeapNext
  <2> QED
    BY <1>3, <2>1, <2>2, <2>3, <2>4, <2>5 DEF ArrayCalls
<1> QED
  BY <1>2, <1>3 DEF ArraysNext

\* Through the reuse of slots and the accessors that run without the lock, a
\* reference reaches the array it was made for (jni_shim.c:175-249, 818-956).
THEOREM ArraysImplementHeap == ArraysSpec => ImplementsRefHeap
<1>1. ArraysSpec => []ArraysInv
  BY InitInv, StepInv, PTL DEF ArraysSpec
<1> QED
  BY <1>1, RefinesInit, RefinesStep, PTL DEF ArraysSpec, ImplementsRefHeap, Heap!HeapSpec

-----------------------------------------------------------------------------
\* What tokens lead to.
Token == (1..MaxObjects) \cup {Saturated}
Class == {"plain", "java.io.InputStream"}
Entry == [class : Class, payload : StreamIds \cup {Nothing}]

\* The tables hold what they are for.
ObjectsTypeOK ==
  /\ reg \in Seq(Methods) /\ Len(reg) <= MaxReg
  /\ objects \in Seq(Entry) /\ Len(objects) <= MaxObjects
  /\ single \in [Singletons \cup Unlocked -> Token \cup {Nothing}]
  /\ making \in [Threads -> Singletons \cup Unlocked \cup {Nothing}]
  /\ told \in [ids : [Methods -> SUBSET Nat], singletons : [Singletons \cup Unlocked -> SUBSET Token]]

\* An id that was given out means its method, or the table was full.
IdsMean == \A m \in Methods : \A id \in told.ids[m] :
  (id \in DOMAIN reg /\ reg[id] = m) \/ (id = 1 /\ Len(reg) = MaxReg /\ ~Contains(reg, m))

\* Who makes a singleton holds the lock and found none; the callers were told of the one there is.
MakerLocks == \A t \in Threads : making[t] \in Singletons => singleLock = t /\ single[making[t]] = Nothing
ToldOfSingle == \A s \in Singletons :
  told.singletons[s] \subseteq (IF single[s] = Nothing THEN {} ELSE {single[s]})

ObjectsInv == ObjectsTypeOK /\ IdsMean /\ MakerLocks /\ ToldOfSingle

-----------------------------------------------------------------------------
LEMMA ObjectsInitInv == ObjectsInit => ObjectsInv
BY ObjectsAssumption DEF ObjectsInit, ObjectsInv, ObjectsTypeOK, IdsMean, MakerLocks, ToldOfSingle

\* The next entry of the object table, and its token.
LEMMA NextObject ==
  ASSUME ObjectsTypeOK, NEW class \in Class, NEW p \in StreamIds \cup {Nothing}
  PROVE  /\ NewToken \in Token /\ NewToken # Nothing
         /\ WithObject(class, p) \in Seq(Entry) /\ Len(WithObject(class, p)) <= MaxObjects
<1>1. CASE Len(objects) < MaxObjects
  <2>1. NewToken = Len(objects) + 1 /\ NewToken \in 1..MaxObjects
    BY <1>1, ObjectsAssumption DEF NewToken, ObjectsTypeOK
  <2>2. NewToken # Saturated /\ NewToken # Nothing
    BY <2>1, ObjectsAssumption
  <2>3. WithObject(class, p) = Append(objects, [class |-> class, payload |-> p])
    BY <2>2 DEF WithObject
  <2> QED BY <2>1, <2>2, <2>3, <1>1, ObjectsAssumption DEF ObjectsTypeOK, Token, Entry
<1>2. CASE ~(Len(objects) < MaxObjects)
  BY <1>2, ObjectsAssumption DEF NewToken, WithObject, ObjectsTypeOK, Token
<1> QED BY <1>1, <1>2

\* The id of a method that the table has, gets or has no room for.
LEMMA IdOfMethod ==
  ASSUME ObjectsTypeOK, NEW m \in Methods
  PROVE  \/ RegId(m) \in DOMAIN reg /\ reg[RegId(m)] = m
         \/ ~Contains(reg, m) /\ Len(reg) < MaxReg /\ RegId(m) = Len(reg) + 1
         \/ ~Contains(reg, m) /\ Len(reg) = MaxReg /\ RegId(m) = 1
<1>1. Contains(reg, m) <=> \E i \in DOMAIN reg : reg[i] = m
  BY DEF Contains, ObjectsTypeOK
<1>2. CASE Contains(reg, m)
  <2> DEFINE id == CHOOSE i \in DOMAIN reg : reg[i] = m
  <2>1. id \in DOMAIN reg /\ reg[id] = m
    BY <1>1, <1>2
  <2>2. RegId(m) = id
    BY <1>2 DEF RegId
  <2> QED BY <2>1, <2>2
<1>3. CASE ~Contains(reg, m)
  BY <1>3, ObjectsAssumption DEF RegId, ObjectsTypeOK
<1> QED BY <1>2, <1>3

LEMMA GetMethodInv ==
  ASSUME ObjectsInv, NEW m \in Methods, GetMethodID(m)
  PROVE  ObjectsInv'
<1> USE DEF ObjectsInv
<1>1. /\ UNCHANGED <<objects, single, singleLock, making>>
      /\ told' = [told EXCEPT !.ids[m] = @ \cup {RegId(m)}]
  BY DEF GetMethodID
<1>2. /\ told'.singletons = told.singletons
      /\ \A n \in Methods : told'.ids[n] = IF n = m THEN told.ids[m] \cup {RegId(m)} ELSE told.ids[n]
  BY <1>1 DEF ObjectsTypeOK
<1>3. MakerLocks' /\ ToldOfSingle'
  BY <1>1, <1>2 DEF MakerLocks, ToldOfSingle
<1>4. RegId(m) \in Nat
  BY IdOfMethod DEF ObjectsTypeOK
<1>5. told' \in [ids : [Methods -> SUBSET Nat], singletons : [Singletons \cup Unlocked -> SUBSET Token]]
  BY <1>1, <1>4 DEF ObjectsTypeOK
<1>6. CASE RegId(m) = Len(reg) + 1
  <2>1. reg' = Append(reg, m)
    BY <1>6 DEF GetMethodID
  <2>2. ~(RegId(m) \in DOMAIN reg)
    BY <1>6 DEF ObjectsTypeOK
  <2>3. Len(reg) < MaxReg
    BY <2>2, <1>6, IdOfMethod, ObjectsAssumption DEF ObjectsTypeOK
  <2>4. /\ reg' \in Seq(Methods) /\ Len(reg') = Len(reg) + 1 /\ Len(reg) \in Nat
        /\ reg'[Len(reg) + 1] = m /\ \A i \in DOMAIN reg : i \in DOMAIN reg' /\ reg'[i] = reg[i]
        /\ RegId(m) \in DOMAIN reg'
    BY <2>1, <1>6 DEF ObjectsTypeOK
  <2>5. ObjectsTypeOK'
    <3>1. Len(reg') <= MaxReg
      BY <2>4, <2>3, ObjectsAssumption
    <3> QED BY <3>1, <2>4, <1>1, <1>5 DEF ObjectsTypeOK
  <2>6. IdsMean'
    BY <2>4, <2>3, <1>2, <1>6, ObjectsAssumption DEF IdsMean, ObjectsTypeOK
  <2> QED BY <2>5, <2>6, <1>3
<1>7. CASE RegId(m) # Len(reg) + 1
  <2>1. reg' = reg
    BY <1>7 DEF GetMethodID
  <2>2. ObjectsTypeOK'
    BY <2>1, <1>1, <1>5 DEF ObjectsTypeOK
  <2>3. IdsMean'
    BY <2>1, <1>2, <1>7, IdOfMethod DEF IdsMean
  <2> QED BY <2>2, <2>3, <1>3
<1> QED BY <1>6, <1>7

\* A step of the object table that leaves ids and singletons alone.
LEMMA TableInv ==
  ASSUME ObjectsInv, UNCHANGED <<reg, single, singleLock, making, looperReady, told>>,
         objects' \in Seq(Entry), Len(objects') <= MaxObjects
  PROVE  ObjectsInv'
BY DEF ObjectsInv, ObjectsTypeOK, IdsMean, MakerLocks, ToldOfSingle

\* Whoever is answered at once is told of the singleton there is.
LEMMA AskInv ==
  ASSUME ObjectsInv, NEW t \in Threads, NEW s \in Singletons \cup Unlocked,
         making[t] = Nothing, FindOrMake(t, s), UNCHANGED <<reg, objects, single>>,
         \/ s \in Singletons /\ singleLock = Nothing /\ singleLock' = IF single[s] = Nothing THEN t ELSE Nothing
         \/ s \in Unlocked /\ UNCHANGED singleLock
  PROVE  ObjectsInv'
<1> USE DEF ObjectsInv
<1>0. Nothing \notin Threads /\ Nothing \notin Singletons /\ ~(s \in Singletons /\ s \in Unlocked)
  BY ObjectsAssumption
<1>1. CASE single[s] = Nothing
  <2>1. making' = [making EXCEPT ![t] = s] /\ told' = told
    BY <1>1 DEF FindOrMake
  <2>2. ObjectsTypeOK' /\ IdsMean' /\ ToldOfSingle'
    BY <2>1 DEF ObjectsTypeOK, IdsMean, ToldOfSingle
  <2>3. MakerLocks'
    BY <2>1, <1>0, <1>1 DEF MakerLocks, ObjectsTypeOK
  <2> QED BY <2>2, <2>3
<1>2. CASE single[s] # Nothing
  <2>1. making' = making /\ told' = [told EXCEPT !.singletons[s] = @ \cup {single[s]}]
    BY <1>2 DEF FindOrMake
  <2>2. /\ told'.ids = told.ids /\ single[s] \in Token
        /\ told'.singletons = [told.singletons EXCEPT ![s] = @ \cup {single[s]}]
    BY <2>1, <1>2 DEF ObjectsTypeOK
  <2>3. ObjectsTypeOK'
    BY <2>1, <2>2 DEF ObjectsTypeOK
  <2>4. IdsMean' /\ ToldOfSingle'
    BY <2>2, <1>2 DEF ObjectsTypeOK, IdsMean, ToldOfSingle
  <2>5. singleLock' = singleLock
    BY <1>0, <1>2
  <2>6. MakerLocks'
    BY <2>1, <2>5 DEF MakerLocks
  <2> QED BY <2>3, <2>4, <2>6
<1> QED BY <1>1, <1>2

LEMMA MadeInv ==
  ASSUME ObjectsInv, NEW t \in Threads, SingletonMake(t)
  PROVE  ObjectsInv'
<1> USE DEF ObjectsInv
<1> DEFINE s == making[t]
<1>1. s \in Singletons \cup Unlocked /\ s # Nothing
  BY DEF SingletonMake, ObjectsTypeOK
<1>2. /\ NewToken \in Token /\ NewToken # Nothing
      /\ objects' \in Seq(Entry) /\ Len(objects') <= MaxObjects
  <2>1. "plain" \in Class /\ objects' = WithObject("plain", Nothing)
    BY DEF SingletonMake, Class
  <2> QED BY <2>1, NextObject
<1>3. /\ single' = [single EXCEPT ![s] = NewToken] /\ reg' = reg
      /\ making' = [making EXCEPT ![t] = Nothing]
      /\ singleLock' = IF s \in Singletons THEN Nothing ELSE singleLock
      /\ told'.ids = told.ids
      /\ told'.singletons = [told.singletons EXCEPT ![s] = @ \cup {NewToken}]
      /\ told' \in [ids : [Methods -> SUBSET Nat], singletons : [Singletons \cup Unlocked -> SUBSET Token]]
  BY <1>1, <1>2 DEF SingletonMake, ObjectsTypeOK
<1>4. ObjectsTypeOK'
  BY <1>1, <1>2, <1>3 DEF ObjectsTypeOK
<1>5. IdsMean'
  BY <1>3 DEF IdsMean
<1>6. ToldOfSingle'
  BY <1>1, <1>2, <1>3 DEF ToldOfSingle, MakerLocks, ObjectsTypeOK
<1>7. MakerLocks'
  <2> SUFFICES ASSUME NEW u \in Threads, making'[u] \in Singletons
               PROVE  singleLock' = u /\ single'[making'[u]] = Nothing
    BY DEF MakerLocks
  <2>1. u # t /\ making'[u] = making[u]
    BY <1>3, ObjectsAssumption DEF ObjectsTypeOK
  <2>2. singleLock = u /\ single[making[u]] = Nothing
    BY <2>1 DEF MakerLocks
  <2>3. s \notin Singletons
    BY <2>1, <2>2 DEF MakerLocks
  <2> QED BY <1>3, <2>1, <2>2, <2>3 DEF ObjectsTypeOK
<1> QED BY <1>4, <1>5, <1>6, <1>7

-----------------------------------------------------------------------------
StreamState == [state : {"unused", "open", "freed"}, pos : 0..Length, meta : {0, MetadataEnd},
                limit : {0, MetadataEnd}, phase : 0..2]
UserState == [way : {"none", "copy", "track", "plain"}, token : Token \cup {Nothing}, left : Nat,
              count : Nat, answer : {"none", "real", "skipped", "end"}, inspected : BOOLEAN]
StreamsTypeOK == stream \in [StreamIds -> StreamState] /\ user \in [StreamIds -> UserState]

\* A payload and the stream's token are each other's, but for the shared token.
Owned ==
  /\ \A o \in DOMAIN objects : objects[o].payload # Nothing =>
       IsOpen(objects[o].payload) /\ user[objects[o].payload].token = o
  /\ \A s \in StreamIds : IsOpen(s) =>
       \/ Len(objects) = MaxObjects /\ user[s].token = Saturated
       \/ user[s].token \in DOMAIN objects /\ objects[user[s].token].payload = s

\* How far a stream of each way is: the copy of a bank is limited from its first
\* read on, and a track is skipped until its short block, of which there is one because
\* what is left to discard is no number of full ones.
CopyWhere(st, u) ==
  /\ u.left = 0 /\ st.phase = 0
  /\ st.limit > 0 => st.limit = st.meta /\ st.pos <= st.meta
  /\ st.meta > 0 /\ st.pos > 0 => st.limit > 0
TrackWhere(st, u) ==
  /\ st.limit = 0
  /\ u.left = 0 => st.pos > 0 /\ st.phase # 1
  /\ u.left > 0 => /\ st.pos + u.left < Length
                   /\ st.phase # 0 => st.meta > 0
                   /\ st.meta > 0 /\ st.phase = 0 => st.pos = 0
                   /\ st.meta > 0 /\ st.phase # 2 => \A k \in Nat : u.left # k * Block
PlainWhere(st, u) == u.left = 0 /\ st.meta = 0 /\ st.limit = 0 /\ st.phase = 0
Where(s) ==
  /\ stream[s].pos = user[s].count
  /\ user[s].way \in {"copy", "track", "plain"}
  /\ user[s].way = "copy" => CopyWhere(stream[s], user[s])
  /\ user[s].way = "track" => TrackWhere(stream[s], user[s])
  /\ user[s].way = "plain" => PlainWhere(stream[s], user[s])
  /\ user[s].inspected => user[s].answer # "skipped"
  /\ user[s].answer = "end" =>
       user[s].count = IF user[s].way = "copy" /\ stream[s].meta > 0 THEN stream[s].meta ELSE Length

StreamsInv ==
  /\ StreamsTypeOK /\ Owned
  /\ \A s \in StreamIds : IsOpen(s) /\ user[s].token # Saturated => Where(s)

\* Only s moved, and it is the stream it was.
OnlyStream(s) ==
  /\ \A r \in StreamIds \ {s} : stream'[r] = stream[r] /\ user'[r] = user[r]
  /\ stream'[s].state = stream[s].state /\ user'[s].token = user[s].token

-----------------------------------------------------------------------------
\* A token leads to the stream it was made for, the shared one to none.
LEMMA BehindOwn ==
  ASSUME ObjectsTypeOK, Owned, NEW s \in StreamIds, IsOpen(s)
  PROVE  /\ user[s].token = Saturated => Behind(s) = Nothing
         /\ user[s].token # Saturated => Behind(s) = s
<1>1. Saturated \notin DOMAIN objects
  BY ObjectsAssumption DEF ObjectsTypeOK
<1> QED BY <1>1 DEF Owned, Behind, PayloadOf

\* What a call leaves of a stream and of its user.
Moved(s, pos, limit, phase) ==
  [state |-> stream[s].state, pos |-> pos, meta |-> stream[s].meta, limit |-> limit, phase |-> phase]
Told(s, n, how) ==
  [way |-> user[s].way, token |-> user[s].token, left |-> IF n > user[s].left THEN 0 ELSE user[s].left - n,
   count |-> user[s].count + n, answer |-> how, inspected |-> user[s].left = 0]

Moves(s, pos, limit, phase) == stream' = [stream EXCEPT ![s] = Moved(s, pos, limit, phase)]
Tells(s, n, how) == user' = [user EXCEPT ![s] = Told(s, n, how)]

\* The ways in which the calls write them.
SetsAll(s, pos, limit, phase) ==
  stream' = [stream EXCEPT ![s].pos = pos, ![s].limit = limit, ![s].phase = phase]
SetsPlace(s, pos, phase) == stream' = [stream EXCEPT ![s].pos = pos, ![s].phase = phase]
SetsMode(s, limit, phase) == stream' = [stream EXCEPT ![s].limit = limit, ![s].phase = phase]

\* A call that moves s to a place in the file.
LEMMA MovedTypes ==
  ASSUME StreamsTypeOK, NEW s \in StreamIds, NEW pos \in 0..Length, NEW limit \in {0, MetadataEnd},
         NEW phase \in 0..2, Moves(s, pos, limit, phase),
         NEW n \in Nat, NEW how \in {"real", "skipped", "end"}, Tells(s, n, how)
  PROVE  /\ StreamsTypeOK' /\ OnlyStream(s)
         /\ stream'[s] = Moved(s, pos, limit, phase) /\ user'[s] = Told(s, n, how)
<1>1. stream[s] \in StreamState /\ user[s] \in UserState
  BY DEF StreamsTypeOK
<1>2. Moved(s, pos, limit, phase) \in StreamState
  BY <1>1 DEF Moved, StreamState
<1>3. (user[s].left = 0) \in BOOLEAN
  OBVIOUS
<1>4. Told(s, n, how) \in UserState
  BY <1>1, <1>3 DEF Told, UserState
<1> USE DEF Moves, Tells
<1>5. stream'[s] = Moved(s, pos, limit, phase) /\ user'[s] = Told(s, n, how)
  BY DEF StreamsTypeOK
<1>6. stream'[s].state = stream[s].state /\ user'[s].token = user[s].token
  BY <1>5 DEF Moved, Told
<1>7. \A r \in StreamIds \ {s} : stream'[r] = stream[r] /\ user'[r] = user[r]
  BY DEF StreamsTypeOK
<1>8. StreamsTypeOK'
  BY <1>2, <1>4 DEF StreamsTypeOK
<1> QED BY <1>5, <1>6, <1>7, <1>8 DEF OnlyStream

\* The fields of one stream, set one by one.
LEMMA FieldsMoved ==
  ASSUME StreamsTypeOK, NEW s \in StreamIds, NEW pos, NEW limit, NEW phase,
         \/ SetsAll(s, pos, limit, phase)
         \/ SetsPlace(s, pos, phase) /\ limit = stream[s].limit
         \/ SetsMode(s, limit, phase) /\ pos = stream[s].pos
  PROVE  Moves(s, pos, limit, phase)
<1> USE DEF SetsAll, SetsPlace, SetsMode, Moves
<1>1. stream[s] \in StreamState
  BY DEF StreamsTypeOK
<1>2. \/ stream'[s] = [stream[s] EXCEPT !.pos = pos, !.limit = limit, !.phase = phase]
      \/ stream'[s] = [stream[s] EXCEPT !.pos = pos, !.phase = phase] /\ limit = stream[s].limit
      \/ stream'[s] = [stream[s] EXCEPT !.limit = limit, !.phase = phase] /\ pos = stream[s].pos
  BY DEF StreamsTypeOK
<1>3. stream'[s] = Moved(s, pos, limit, phase)
  BY <1>1, <1>2 DEF StreamState, Moved
<1>4. /\ stream' \in [StreamIds -> {stream'[r] : r \in StreamIds}]
      /\ \A r \in StreamIds \ {s} : stream'[r] = stream[r]
  BY DEF StreamsTypeOK
<1> QED BY <1>3, <1>4 DEF StreamsTypeOK

\* The answer to a call, field by field.
LEMMA AnswerTold ==
  ASSUME StreamsTypeOK, NEW s \in StreamIds, NEW n \in Nat, NEW how \in {"real", "skipped", "end"},
         how = "end" => n = 0, user' = Answer(s, n, how)
  PROVE  Tells(s, n, how)
<1>1. user[s] \in UserState
  BY DEF StreamsTypeOK
<1>2. user[s].left \in Nat /\ user[s].count \in Nat
  BY <1>1 DEF UserState
<1>3. user' \in [StreamIds -> {user'[r] : r \in StreamIds}] /\ \A r \in StreamIds \ {s} : user'[r] = user[r]
  BY DEF StreamsTypeOK, Answer
<1> DEFINE looks == user[s].left = 0
           count == IF how = "end" THEN user[s].count ELSE user[s].count + n
           left == IF how = "end" THEN user[s].left ELSE IF n > user[s].left THEN 0 ELSE user[s].left - n
<1>4. user'[s] = [user[s] EXCEPT !.count = count, !.left = left, !.answer = how, !.inspected = looks]
  BY <1>1 DEF StreamsTypeOK, Answer
<1>5. Told(s, n, how) = [way |-> user[s].way, token |-> user[s].token, left |-> left, count |-> count,
                         answer |-> how, inspected |-> looks]
  <2>1. count = user[s].count + n /\ left = IF n > user[s].left THEN 0 ELSE user[s].left - n
    BY <1>2
  <2> HIDE DEF looks, count, left
  <2>2. looks = (user[s].left = 0)
    BY DEF looks
  <2> QED BY <2>1, <2>2 DEF Told
<1>6. user'[s] = Told(s, n, how)
  <2> HIDE DEF looks, count, left
  <2> QED BY <1>1, <1>4, <1>5 DEF UserState
<1> QED BY <1>3, <1>6 DEF StreamsTypeOK, Tells

-----------------------------------------------------------------------------
\* Bytes are read, or the end is told where it is.
LEMMA ReadBytesMoves ==
  ASSUME StreamsTypeOK, NEW s \in StreamIds, NEW limit \in {0, MetadataEnd}, NEW phase \in 0..2,
         NEW count \in Nat \ {0}, limit > 0 => stream[s].pos <= limit,
         ReadBytes(s, limit, phase, count)
  PROVE  LET end == IF limit > 0 THEN limit ELSE Length IN
         /\ StreamsTypeOK' /\ OnlyStream(s)
         /\ \E n \in Nat :
              /\ stream[s].pos + n <= end /\ n <= count /\ (n < count => stream[s].pos + n = end)
              /\ stream'[s] = Moved(s, stream[s].pos + n, limit, phase)
              /\ user'[s] = Told(s, n, IF n = 0 THEN "end" ELSE "real")
<1> DEFINE end == IF limit > 0 THEN limit ELSE Length
           n == IF count < end - stream[s].pos THEN count ELSE end - stream[s].pos
<1>0. /\ MetadataEnd \in Nat \ {0} /\ Length \in Nat \ {0} /\ MetadataEnd < Length
      /\ stream[s] \in StreamState /\ stream[s].pos \in 0..Length
  BY StreamsAssumption DEF StreamsTypeOK, StreamState
<1>1. /\ end \in Nat /\ end <= Length /\ n \in Nat /\ stream[s].pos + n <= end
      /\ n <= count /\ (n < count => stream[s].pos + n = end)
  BY <1>0
<1>2. /\ user' = Answer(s, n, IF n = 0 THEN "end" ELSE "real")
      /\ Moves(s, stream[s].pos + n, limit, phase)
  <2>1. CASE n = 0
    <3>1. /\ user' = Answer(s, 0, "end")
          /\ SetsMode(s, limit, phase)
      BY <2>1 DEF ReadBytes, SetsMode
    <3>2. stream[s].pos + n = stream[s].pos
      BY <2>1, <1>0
    <3>3. Moves(s, stream[s].pos, limit, phase)
      BY <3>1, FieldsMoved
    <3> QED BY <2>1, <3>1, <3>2, <3>3
  <2>2. CASE n # 0
    <3>1. ~(n <= 0)
      BY <1>1, <2>2
    <3>2. /\ user' = Answer(s, n, "real")
          /\ SetsAll(s, stream[s].pos + n, limit, phase)
      BY <3>1 DEF ReadBytes, SetsAll
    <3> HIDE DEF n
    <3>3. Moves(s, stream[s].pos + n, limit, phase)
      BY <3>2, FieldsMoved
    <3> QED BY <2>2, <3>2, <3>3
  <2> QED BY <2>1, <2>2
<1> HIDE DEF n
<1>3. Tells(s, n, IF n = 0 THEN "end" ELSE "real")
  BY <1>1, <1>2, AnswerTold
<1>4. stream[s].pos + n \in 0..Length
  BY <1>0, <1>1
<1> DEFINE pos == stream[s].pos + n
           how == IF n = 0 THEN "end" ELSE "real"
<1>5. how \in {"real", "skipped", "end"}
  OBVIOUS
<1>6. /\ StreamsTypeOK' /\ OnlyStream(s)
      /\ stream'[s] = Moved(s, stream[s].pos + n, limit, phase)
      /\ user'[s] = Told(s, n, IF n = 0 THEN "end" ELSE "real")
  <2> HIDE DEF pos, how
  <2>1. /\ Moves(s, pos, limit, phase) /\ pos \in 0..Length
        /\ Tells(s, n, how)
    BY <1>2, <1>3, <1>4 DEF pos, how
  <2>2. /\ StreamsTypeOK' /\ OnlyStream(s)
        /\ stream'[s] = Moved(s, pos, limit, phase) /\ user'[s] = Told(s, n, how)
    BY <2>1, <1>1, <1>5, MovedTypes
  <2> QED BY <2>2 DEF pos, how
<1> QED BY <1>1, <1>6

\* A block is skipped.
LEMMA SkipBlockMoves ==
  ASSUME StreamsTypeOK, NEW s \in StreamIds, NEW count \in Nat \ {0}, SkipBlock(s, count)
  PROVE  /\ StreamsTypeOK' /\ OnlyStream(s)
         /\ stream'[s] = Moved(s, stream[s].pos + count, stream[s].limit, IF count < Block THEN 2 ELSE 1)
         /\ user'[s] = Told(s, count, "skipped")
<1> DEFINE pos == stream[s].pos + count
           phase == IF count < Block THEN 2 ELSE 1
<1>1. /\ stream[s] \in StreamState /\ stream[s].pos \in 0..Length /\ Length \in Nat
      /\ stream[s].limit \in {0, MetadataEnd}
  BY StreamsAssumption DEF StreamsTypeOK, StreamState
<1>2. pos \in 0..Length /\ phase \in 0..2
  BY <1>1 DEF SkipBlock
<1>3. Tells(s, count, "skipped")
  BY AnswerTold DEF SkipBlock
<1>4. SetsPlace(s, pos, phase)
  BY DEF SkipBlock, SetsPlace
<1> HIDE DEF pos, phase
<1>5. Moves(s, pos, stream[s].limit, phase)
  BY <1>4, FieldsMoved
<1>6. /\ StreamsTypeOK' /\ OnlyStream(s)
      /\ stream'[s] = Moved(s, pos, stream[s].limit, phase) /\ user'[s] = Told(s, count, "skipped")
  BY <1>1, <1>2, <1>3, <1>5, MovedTypes
<1> QED BY <1>6 DEF pos, phase

-----------------------------------------------------------------------------
\* What is read on an own stream, from where it was by its user's count.
LEMMA RealWhere ==
  ASSUME StreamsTypeOK, NEW s \in StreamIds, Where(s),
         NEW n \in Nat, NEW count \in Nat \ {0}, NEW limit \in {0, MetadataEnd}, NEW phase \in 0..2,
         n <= count,
         n < count => stream[s].pos + n = IF limit > 0 THEN limit ELSE Length,
         stream[s].pos + n <= IF limit > 0 THEN limit ELSE Length,
         limit > 0 => user[s].way = "copy" /\ limit = stream[s].meta,
         user[s].way = "copy" => phase = 0 /\ (stream[s].meta > 0 => limit > 0),
         user[s].way = "track" => phase # 1 /\ phase = stream[s].phase,
         user[s].way = "track" /\ user[s].left > 0 =>
           count <= user[s].left /\ (phase = 0 => stream[s].meta = 0),
         user[s].way = "plain" => phase = 0,
         stream'[s] = Moved(s, stream[s].pos + n, limit, phase),
         user'[s] = Told(s, n, IF n = 0 THEN "end" ELSE "real")
  PROVE  Where(s)'
<1>0. /\ MetadataEnd \in Nat \ {0} /\ Length \in Nat \ {0} /\ MetadataEnd < Length /\ Block \in Nat \ {0}
      /\ stream[s].pos \in 0..Length /\ stream[s].meta \in {0, MetadataEnd}
      /\ user[s].left \in Nat /\ user[s].count \in Nat
  BY StreamsAssumption DEF StreamsTypeOK, StreamState, UserState
<1>1. /\ stream'[s].pos = stream[s].pos + n /\ stream'[s].limit = limit /\ stream'[s].phase = phase
      /\ stream'[s].meta = stream[s].meta /\ user'[s].way = user[s].way
      /\ user'[s].count = user[s].count + n
      /\ user'[s].left = IF n > user[s].left THEN 0 ELSE user[s].left - n
      /\ user'[s].answer = IF n = 0 THEN "end" ELSE "real"
  BY DEF Moved, Told
<1>2. user'[s].way = "copy" => CopyWhere(stream'[s], user'[s])
  BY <1>0, <1>1 DEF Where, CopyWhere
<1>3. user'[s].way = "plain" => PlainWhere(stream'[s], user'[s])
  BY <1>0, <1>1 DEF Where, PlainWhere
<1>4. user'[s].way = "track" => TrackWhere(stream'[s], user'[s])
  <2> SUFFICES ASSUME user[s].way = "track" PROVE TrackWhere(stream'[s], user'[s])
    BY <1>1
  <2>0. limit = 0
    BY <1>0
  <2>1. CASE user[s].left = 0
    BY <2>0, <2>1, <1>0, <1>1 DEF Where, TrackWhere
  <2>2. CASE user[s].left > 0
    <3>1. /\ stream[s].pos + user[s].left < Length
          /\ phase # 0 => stream[s].meta > 0
          /\ phase # 0 => phase = 2
      BY <2>2, <1>0 DEF Where, TrackWhere
    <3>2. n = count /\ count <= user[s].left
      BY <3>1, <2>0, <2>2, <1>0
    <3>3. user'[s].left = user[s].left - count
      BY <3>2, <1>0, <1>1
    <3>4. stream'[s].pos + user'[s].left < Length /\ stream'[s].pos > 0
      BY <3>1, <3>2, <3>3, <1>0, <1>1
    <3> QED BY <3>1, <3>4, <2>0, <2>2, <1>0, <1>1 DEF TrackWhere
  <2> QED BY <2>1, <2>2, <1>0
<1>5. user'[s].answer # "skipped"
  BY <1>1
<1>6. user'[s].answer = "end" =>
        user'[s].count = IF user'[s].way = "copy" /\ stream'[s].meta > 0 THEN stream'[s].meta ELSE Length
  BY <1>0, <1>1 DEF Where
<1>7. stream'[s].pos = user'[s].count
  BY <1>1 DEF Where
<1> QED BY <1>1, <1>2, <1>3, <1>4, <1>5, <1>6, <1>7 DEF Where

\* A track skips one block more; after a full one there is something left to discard.
LEMMA SkippedWhere ==
  ASSUME StreamsTypeOK, NEW s \in StreamIds, Where(s), user[s].way = "track", user[s].left > 0,
         stream[s].meta > 0, stream[s].phase # 2, NEW count \in Nat \ {0},
         count <= user[s].left, count <= Block,
         stream'[s] = Moved(s, stream[s].pos + count, stream[s].limit, IF count < Block THEN 2 ELSE 1),
         user'[s] = Told(s, count, "skipped")
  PROVE  Where(s)'
<1>0. /\ Length \in Nat \ {0} /\ Block \in Nat \ {0}
      /\ stream[s].pos \in 0..Length /\ user[s].left \in Nat /\ user[s].count \in Nat
  BY StreamsAssumption DEF StreamsTypeOK, StreamState, UserState
<1>1. /\ stream'[s].pos = stream[s].pos + count /\ stream'[s].limit = stream[s].limit
      /\ stream'[s].phase = IF count < Block THEN 2 ELSE 1
      /\ stream'[s].meta = stream[s].meta /\ user'[s].way = user[s].way
      /\ user'[s].count = user[s].count + count
      /\ user'[s].left = IF count > user[s].left THEN 0 ELSE user[s].left - count
      /\ user'[s].answer = "skipped"
  BY DEF Moved, Told
<1>2. /\ stream[s].pos + user[s].left < Length /\ stream[s].limit = 0
      /\ \A k \in Nat : user[s].left # k * Block
  BY DEF Where, TrackWhere
<1>3. ~user'[s].inspected
  <2>1. user'[s].inspected = (user[s].left = 0)
    BY DEF Told
  <2>2. user[s].left # 0
    BY <1>0
  <2> QED BY <2>1, <2>2, Zenon
<1>4. user'[s].left = user[s].left - count /\ stream'[s].pos > 0
  BY <1>0, <1>1
<1>5. CASE count < Block
  <2>1. TrackWhere(stream'[s], user'[s])
    BY <1>0, <1>1, <1>2, <1>4, <1>5 DEF TrackWhere
  <2> QED BY <2>1, <1>1, <1>3 DEF Where
<1>6. CASE count = Block
  <2>1. \A k \in Nat : user'[s].left # k * Block
    <3> SUFFICES ASSUME NEW k \in Nat PROVE user[s].left - Block # k * Block
      BY <1>4, <1>6
    <3>1. (k + 1) * Block = k * Block + Block /\ k * Block \in Nat
      BY <1>0
    <3>2. user[s].left # (k + 1) * Block
      BY <1>2
    <3> QED BY <3>1, <3>2, <1>0
  <2>2. user'[s].left # 0
    BY <2>1, <1>0
  <2>3. TrackWhere(stream'[s], user'[s])
    BY <2>1, <2>2, <1>0, <1>1, <1>2, <1>4, <1>6 DEF TrackWhere
  <2> QED BY <2>3, <1>1, <1>3 DEF Where
<1> QED BY <1>5, <1>6, <1>0

-----------------------------------------------------------------------------
\* A read by the stream's user keeps it where its user thinks it is.
LEMMA ReadKeeps ==
  ASSUME StreamsTypeOK, NEW s \in StreamIds, Behind(s) = s, s # Nothing, Where(s),
         NEW offset \in Int, NEW count \in Nat \ {0},
         user[s].way = "copy" => offset = 0 /\ count >= CopyCount,
         user[s].way = "track" =>
           offset = 0 /\ (user[s].left > 0 => count <= user[s].left /\ count <= Block),
         Read(s, offset, count)
  PROVE  StreamsTypeOK' /\ OnlyStream(s) /\ Where(s)'
<1> DEFINE limit == IF Limits(s, offset, count) THEN stream[s].meta ELSE stream[s].limit
           skipping == stream[s].phase = 1 \/ (limit = 0 /\ StartsSkip(s, offset, count))
           phase == IF skipping THEN 2 ELSE stream[s].phase
<1>0. /\ MetadataEnd \in Nat \ {0} /\ Length \in Nat \ {0} /\ MetadataEnd < Length /\ Block \in Nat \ {0}
      /\ CopyCount \in Nat \ {0} /\ Block < CopyCount
      /\ stream[s] \in StreamState /\ user[s] \in UserState
      /\ stream[s].pos \in 0..Length /\ stream[s].meta \in {0, MetadataEnd}
      /\ stream[s].limit \in {0, MetadataEnd} /\ stream[s].phase \in 0..2
      /\ user[s].left \in Nat /\ user[s].count \in Nat
  BY StreamsAssumption DEF StreamsTypeOK, StreamState, UserState
<1>1. IF skipping /\ count <= Length - stream[s].pos THEN SkipBlock(s, count)
                                                      ELSE ReadBytes(s, limit, phase, count)
  BY DEF Read
<1>2. limit \in {0, MetadataEnd} /\ phase \in 0..2
  BY <1>0
<1>3. CASE user[s].way = "copy"
  <2>1. CopyWhere(stream[s], user[s]) /\ offset = 0 /\ count >= CopyCount
    BY <1>3 DEF Where
  <2>2. /\ limit > 0 => limit = stream[s].meta /\ stream[s].pos <= limit
        /\ stream[s].meta > 0 => limit > 0
    BY <2>1, <1>0 DEF CopyWhere, Limits
  <2>3. ~skipping /\ phase = 0
    BY <2>1, <2>2, <1>0 DEF CopyWhere, StartsSkip
  <2> QED BY <1>0, <1>1, <1>2, <1>3, <2>2, <2>3, ReadBytesMoves, RealWhere
<1>4. CASE user[s].way = "plain"
  <2>1. limit = 0 /\ ~skipping /\ phase = 0
    BY <1>4, <1>0 DEF Where, PlainWhere, Limits, StartsSkip
  <2> QED BY <1>0, <1>1, <1>2, <1>4, <2>1, ReadBytesMoves, RealWhere
<1>5. CASE user[s].way = "track"
  <2>1. TrackWhere(stream[s], user[s]) /\ offset = 0
    BY <1>5 DEF Where
  <2>2. CASE user[s].left > 0 /\ stream[s].meta > 0 /\ stream[s].phase # 2
    <3>1. count <= user[s].left /\ count <= Block
      BY <1>5, <2>2
    <3>2. skipping
      BY <3>1, <2>1, <2>2, <1>0 DEF TrackWhere, Limits, StartsSkip
    <3>3. count <= Length - stream[s].pos
      BY <3>1, <2>1, <2>2, <1>0 DEF TrackWhere
    <3>4. SkipBlock(s, count)
      BY <3>2, <3>3, <1>1
    <3> QED BY <3>1, <3>4, <2>2, <1>5, SkipBlockMoves, SkippedWhere
  <2>3. CASE ~(user[s].left > 0 /\ stream[s].meta > 0 /\ stream[s].phase # 2)
    <3>1. limit = 0 /\ ~skipping /\ phase # 1 /\ phase = stream[s].phase
      <4>1. CASE stream[s].pos > 0 \/ stream[s].meta = 0
        BY <4>1, <2>1, <2>3, <1>0 DEF TrackWhere, Limits, StartsSkip
      <4>2. CASE user[s].left > 0 /\ stream[s].phase = 2
        <5>1. count < CopyCount
          BY <4>2, <1>0, <1>5
        <5> QED BY <5>1, <4>2, <2>1, <1>0 DEF TrackWhere, Limits, StartsSkip
      <4> QED BY <4>1, <4>2, <2>1, <2>3, <1>0 DEF TrackWhere
    <3>2. user[s].left > 0 => count <= user[s].left /\ (phase = 0 => stream[s].meta = 0)
      BY <3>1, <2>3, <1>0, <1>5
    <3> QED BY <1>0, <1>1, <1>2, <1>5, <3>1, <3>2, ReadBytesMoves, RealWhere
  <2> QED BY <2>2, <2>3
<1> QED BY <1>3, <1>4, <1>5 DEF Where

\* What objects lead to are streams.
LEMMA Payloads ==
  ASSUME ObjectsTypeOK, NEW o \in DOMAIN objects
  PROVE  objects[o].payload \in StreamIds \cup {Nothing}
<1>1. objects[o] \in Entry
  BY DEF ObjectsTypeOK
<1> QED BY <1>1 DEF Entry

\* The invariant after a step that moves one stream and leaves the objects.
LEMMA OnlyStreamInv ==
  ASSUME ObjectsInv, StreamsInv, NEW s \in StreamIds, IsOpen(s), StreamsTypeOK', OnlyStream(s),
         UNCHANGED objectVars, user[s].token # Saturated => Where(s)'
  PROVE  ObjectsInv' /\ StreamsInv'
<1>1. ObjectsInv' /\ objects' = objects
  BY TableInv DEF objectVars, ObjectsInv, ObjectsTypeOK
<1>2. \A r \in StreamIds : stream'[r].state = stream[r].state /\ user'[r].token = user[r].token
  BY DEF OnlyStream
<1>3. Owned'
  <2>1. \A o \in DOMAIN objects : objects[o].payload \in StreamIds \cup {Nothing}
    BY Payloads DEF ObjectsInv
  <2> QED BY <1>1, <1>2, <2>1 DEF Owned, IsOpen, StreamsInv
<1>4. ASSUME NEW r \in StreamIds, IsOpen(r)', user'[r].token # Saturated PROVE Where(r)'
  <2>1. CASE r = s
    BY <1>2, <1>4, <2>1
  <2>2. CASE r # s
    BY <1>4, <2>2 DEF OnlyStream, Where, IsOpen, StreamsInv
  <2> QED BY <2>1, <2>2
<1> QED BY <1>1, <1>3, <1>4 DEF StreamsInv

-----------------------------------------------------------------------------
LEMMA NothingIsNoStream == Nothing \notin StreamIds /\ Saturated \notin 1..MaxObjects
BY ObjectsAssumption, StreamsAssumption DEF StreamIds

\* A read through the shared token is told of an end.
LEMMA NothingReadInv ==
  ASSUME ObjectsInv, StreamsInv, NEW s \in StreamIds, IsOpen(s), user[s].token = Saturated,
         user' = Answer(s, 0, "end"), UNCHANGED stream, UNCHANGED objectVars
  PROVE  ObjectsInv' /\ StreamsInv'
<1>1. Tells(s, 0, "end")
  BY AnswerTold DEF StreamsInv
<1>2. stream[s] \in StreamState
  BY DEF StreamsInv, StreamsTypeOK
<1>3. Moves(s, stream[s].pos, stream[s].limit, stream[s].phase)
  <2>1. SetsMode(s, stream[s].limit, stream[s].phase)
    BY <1>2 DEF SetsMode, StreamsInv, StreamsTypeOK, StreamState
  <2> QED BY <2>1, FieldsMoved DEF StreamsInv
<1>4. /\ stream[s].pos \in 0..Length /\ stream[s].limit \in {0, MetadataEnd} /\ stream[s].phase \in 0..2
  BY <1>2 DEF StreamState
<1>5. StreamsTypeOK' /\ OnlyStream(s)
  BY <1>1, <1>3, <1>4, MovedTypes DEF StreamsInv
<1> QED BY <1>5, OnlyStreamInv

LEMMA UserReadsInv ==
  ASSUME ObjectsInv, StreamsInv, NEW s \in StreamIds, NEW length, UserReads(s, length)
  PROVE  ObjectsInv' /\ StreamsInv'
<1>0. PICK offset \in 0..length, count \in 1..length :
        /\ user[s].way = "copy" => offset = 0 /\ count = length /\ length >= CopyCount
        /\ user[s].way = "track" =>
             offset = 0 /\ (user[s].left > 0 => count <= user[s].left /\ count <= Block)
        /\ Read(s, offset, count)
  BY DEF UserReads
<1>1. /\ IsOpen(s) /\ UNCHANGED objectVars /\ offset \in Int /\ count \in Nat \ {0}
      /\ user[s].way = "copy" => offset = 0 /\ count >= CopyCount
  BY <1>0 DEF UserReads
<1>2. CASE user[s].token = Saturated
  <2>1. Behind(s) = Nothing
    BY <1>1, <1>2, BehindOwn DEF ObjectsInv, StreamsInv
  <2>2. user' = Answer(s, 0, "end") /\ stream' = stream
    BY <1>0, <2>1 DEF Read, ReadsNothing
  <2> QED BY <1>1, <1>2, <2>2, NothingReadInv
<1>3. CASE user[s].token # Saturated
  <2>1. Behind(s) = s /\ s # Nothing /\ Where(s)
    BY <1>1, <1>3, BehindOwn, NothingIsNoStream DEF ObjectsInv, StreamsInv
  <2> QED BY <1>0, <1>1, <1>3, <2>1, ReadKeeps, OnlyStreamInv DEF StreamsInv
<1> QED BY <1>2, <1>3

LEMMA ReadByteInv ==
  ASSUME ObjectsInv, StreamsInv, NEW s \in StreamIds, ReadByte(s)
  PROVE  ObjectsInv' /\ StreamsInv'
<1>1. IsOpen(s) /\ user[s].way = "plain" /\ UNCHANGED objectVars
  BY DEF ReadByte
<1>2. CASE user[s].token = Saturated
  <2>1. Behind(s) = Nothing
    BY <1>1, <1>2, BehindOwn DEF ObjectsInv, StreamsInv
  <2>2. user' = Answer(s, 0, "end") /\ stream' = stream
    BY <2>1 DEF ReadByte, ReadsNothing
  <2> QED BY <1>1, <1>2, <2>2, NothingReadInv
<1>3. CASE user[s].token # Saturated
  <2>1. Behind(s) = s /\ s # Nothing /\ Where(s)
    BY <1>1, <1>3, BehindOwn, NothingIsNoStream DEF ObjectsInv, StreamsInv
  <2>2. stream[s].limit = 0 /\ stream[s].phase = 0 /\ StreamsTypeOK
    BY <1>1, <2>1 DEF Where, PlainWhere, StreamsInv
  <2>3. ReadBytes(s, 0, 0, 1)
    BY <2>1, <2>2 DEF ReadByte
  <2>4. StreamsTypeOK' /\ OnlyStream(s) /\ Where(s)'
    BY <1>1, <2>1, <2>2, <2>3, ReadBytesMoves, RealWhere
  <2> QED BY <1>1, <2>4, OnlyStreamInv
<1> QED BY <1>2, <1>3

LEMMA SkipInv ==
  ASSUME ObjectsInv, StreamsInv, NEW s \in StreamIds, Skip(s)
  PROVE  ObjectsInv' /\ StreamsInv'
<1>1. IsOpen(s) /\ user[s].way = "plain" /\ UNCHANGED objectVars /\ Available(s) > 0
  BY DEF Skip
<1>2. user[s].token # Saturated /\ Behind(s) = s
  <2>1. Behind(s) # Nothing
    BY <1>1 DEF Available
  <2> QED BY <1>1, <2>1, BehindOwn DEF ObjectsInv, StreamsInv
<1>3. Where(s) /\ StreamsTypeOK
  BY <1>1, <1>2 DEF StreamsInv
<1>4. PlainWhere(stream[s], user[s]) /\ stream[s].pos = user[s].count
  BY <1>1, <1>3 DEF Where
<1>5. /\ Length \in Nat \ {0} /\ stream[s] \in StreamState /\ user[s] \in UserState
      /\ stream[s].pos \in 0..Length /\ user[s].count \in Nat
  BY <1>3, StreamsAssumption DEF StreamsTypeOK, StreamState, UserState
<1>6. Available(s) = Length - stream[s].pos
  BY <1>1, <1>2, <1>4 DEF Available, LogicalEnd, PlainWhere
<1>7. PICK n \in 1..Available(s) : /\ stream' = [stream EXCEPT ![s].pos = @ + n]
                                   /\ user' = [user EXCEPT ![s].count = @ + n]
  <2>1. PICK count \in 1..Length :
          LET m == IF count < Available(s) THEN count ELSE Available(s)
          IN stream' = [stream EXCEPT ![s].pos = @ + m] /\ user' = [user EXCEPT ![s].count = @ + m]
    BY DEF Skip
  <2> DEFINE m == IF count < Available(s) THEN count ELSE Available(s)
  <2>2. m \in 1..Available(s)
    BY <1>1, <1>5, <1>6
  <2> QED BY <2>1, <2>2
<1>8. /\ stream[s].pos + n \in 0..Length /\ user[s].count + n \in Nat
  BY <1>5, <1>6
<1>9. stream'[s] = [stream[s] EXCEPT !.pos = stream[s].pos + n] /\ user'[s] = [user[s] EXCEPT !.count = user[s].count + n]
  BY <1>3, <1>7 DEF StreamsTypeOK
<1>10. stream'[s] \in StreamState /\ user'[s] \in UserState
  BY <1>5, <1>8, <1>9 DEF StreamState, UserState
<1>11. OnlyStream(s)
  BY <1>3, <1>5, <1>7, <1>9 DEF OnlyStream, StreamsTypeOK, StreamState, UserState
<1>12. StreamsTypeOK'
  BY <1>3, <1>7, <1>10 DEF StreamsTypeOK
<1>13. Where(s)'
  <2>1. /\ stream'[s].pos = stream[s].pos + n /\ user'[s].count = user[s].count + n
        /\ stream'[s].meta = stream[s].meta /\ stream'[s].limit = stream[s].limit /\ stream'[s].phase = stream[s].phase
        /\ user'[s].way = "plain" /\ user'[s].left = user[s].left
        /\ user'[s].answer = user[s].answer /\ user'[s].inspected = user[s].inspected
    BY <1>1, <1>5, <1>9 DEF StreamState, UserState
  <2>2. user[s].answer # "end"
    BY <1>1, <1>3, <1>4, <1>5, <1>6 DEF Where
  <2> QED BY <2>1, <2>2, <1>3, <1>4 DEF Where, PlainWhere
<1> QED BY <1>1, <1>11, <1>12, <1>13, OnlyStreamInv

-----------------------------------------------------------------------------
LEMMA StreamsInitInv == ObjectsInit /\ StreamsInit => StreamsInv
<1> SUFFICES ASSUME ObjectsInit, StreamsInit PROVE StreamsInv
  OBVIOUS
<1>1. NoStream \in StreamState
  BY StreamsAssumption DEF NoStream, StreamState
<1>2. NoUser \in UserState
  BY DEF NoUser, UserState
<1>3. \A s \in StreamIds : ~IsOpen(s)
  BY DEF StreamsInit, IsOpen, NoStream
<1> QED BY <1>1, <1>2, <1>3 DEF StreamsInit, ObjectsInit, StreamsInv, StreamsTypeOK, Owned

\* An object without a payload comes into the table.
LEMMA ObjectAdded ==
  ASSUME ObjectsInv, StreamsInv, NEW class \in Class, objects' = WithObject(class, Nothing), UNCHANGED streamVars
  PROVE  StreamsInv'
<1>1. stream' = stream /\ user' = user
  BY DEF streamVars
<1>2. \A o \in DOMAIN objects : o \in DOMAIN objects' /\ objects'[o] = objects[o]
  BY DEF WithObject, ObjectsInv, ObjectsTypeOK
<1>3. \A o \in DOMAIN objects' : o \in DOMAIN objects \/ objects'[o].payload = Nothing
  BY DEF WithObject, ObjectsInv, ObjectsTypeOK
<1>4. Len(objects) = MaxObjects => Len(objects') = MaxObjects
  BY ObjectsAssumption DEF WithObject, NewToken
<1>5. Owned'
  BY <1>1, <1>2, <1>3, <1>4 DEF StreamsInv, Owned, IsOpen
<1> QED BY <1>1, <1>5 DEF StreamsInv, StreamsTypeOK, Where, IsOpen

\* A stream is opened, and its object leads to it unless the table is full.
LEMMA OpenInv ==
  ASSUME ObjectsInv, StreamsInv, NEW way \in {"copy", "track", "plain"}, Open(way)
  PROVE  ObjectsInv' /\ StreamsInv'
<1>1. PICK s \in StreamIds, meta \in {0, MetadataEnd}, left \in Nat :
        /\ stream[s].state = "unused"
        /\ way = "plain" => meta = 0
        /\ IF way = "track" THEN left \in TrackOffsets ELSE left = 0
        /\ stream' = [stream EXCEPT ![s] = [NoStream EXCEPT !.state = "open", !.meta = meta]]
        /\ user' = [user EXCEPT ![s] = [NoUser EXCEPT !.way = way, !.token = NewToken, !.left = left]]
        /\ objects' = WithObject("java.io.InputStream", s)
  <2>1. PICK s \in StreamIds, meta \in IF way = "plain" THEN {0} ELSE {0, MetadataEnd},
             left \in IF way = "track" THEN TrackOffsets ELSE {0} :
          /\ stream[s].state = "unused"
          /\ stream' = [stream EXCEPT ![s] = [NoStream EXCEPT !.state = "open", !.meta = meta]]
          /\ user' = [user EXCEPT ![s] = [NoUser EXCEPT !.way = way, !.token = NewToken, !.left = left]]
          /\ objects' = WithObject("java.io.InputStream", s)
    BY DEF Open
  <2>2. left \in Nat /\ meta \in {0, MetadataEnd}
    BY StreamsAssumption
  <2> QED BY <2>1, <2>2
<1>2. UNCHANGED <<reg, single, singleLock, making, looperReady, told>>
  BY DEF Open
<1>3. /\ "java.io.InputStream" \in Class /\ s # Nothing /\ ObjectsTypeOK
      /\ NewToken \in Token /\ NewToken # Nothing
      /\ objects' \in Seq(Entry) /\ Len(objects') <= MaxObjects
  <2>1. "java.io.InputStream" \in Class
    BY DEF Class
  <2> QED BY <2>1, <1>1, NextObject, NothingIsNoStream DEF ObjectsInv
<1>4. ObjectsInv'
  BY <1>2, <1>3, TableInv
<1>5. /\ stream'[s] = [state |-> "open", pos |-> 0, meta |-> meta, limit |-> 0, phase |-> 0]
      /\ user'[s] = [way |-> way, token |-> NewToken, left |-> left, count |-> 0,
                     answer |-> "none", inspected |-> FALSE]
      /\ \A r \in StreamIds \ {s} : stream'[r] = stream[r] /\ user'[r] = user[r]
  BY <1>1 DEF StreamsInv, StreamsTypeOK, NoStream, NoUser
<1>6. stream'[s] \in StreamState /\ user'[s] \in UserState
  BY <1>3, <1>5, StreamsAssumption DEF StreamState, UserState
<1>7. StreamsTypeOK'
  BY <1>1, <1>6 DEF StreamsInv, StreamsTypeOK
<1>8. Owned'
  <2>1. \A r \in StreamIds \ {s} : (IsOpen(r)' <=> IsOpen(r)) /\ user'[r].token = user[r].token
    BY <1>5 DEF IsOpen
  <2>2. IsOpen(s)' /\ ~IsOpen(s) /\ user'[s].token = NewToken
    BY <1>1, <1>5 DEF IsOpen
  <2>3. \A o \in DOMAIN objects : objects[o].payload # s
    BY <2>2, <1>3 DEF StreamsInv, Owned
  <2>4. CASE NewToken = Saturated
    <3>1. objects' = objects /\ Len(objects) = MaxObjects
      BY <1>1, <1>3, <2>4, ObjectsAssumption DEF WithObject, NewToken, ObjectsTypeOK
    <3>2. \A o \in DOMAIN objects : objects[o].payload \in StreamIds \cup {Nothing}
      BY <1>3, Payloads
    <3> QED BY <2>1, <2>2, <2>3, <2>4, <3>1, <3>2 DEF StreamsInv, Owned
  <2>5. CASE NewToken # Saturated
    <3>1. /\ objects' = Append(objects, [class |-> "java.io.InputStream", payload |-> s])
          /\ NewToken = Len(objects) + 1 /\ Len(objects) < MaxObjects
      BY <1>1, <2>5 DEF WithObject, NewToken
    <3>2. /\ DOMAIN objects' = DOMAIN objects \cup {NewToken} /\ NewToken \notin DOMAIN objects
          /\ objects'[NewToken].payload = s
          /\ \A o \in DOMAIN objects : objects'[o] = objects[o]
      BY <1>3, <3>1 DEF ObjectsTypeOK
    <3>3. Len(objects) # MaxObjects
      BY <3>1, <1>3, ObjectsAssumption DEF ObjectsTypeOK
    <3>4. \A o \in DOMAIN objects : objects[o].payload \in StreamIds \cup {Nothing}
      BY <1>3, Payloads
    <3> QED BY <2>1, <2>2, <2>3, <2>5, <3>2, <3>3, <3>4 DEF StreamsInv, Owned
  <2> QED BY <2>4, <2>5
<1>9. Where(s)'
  <2>0. /\ stream'[s].pos = 0 /\ stream'[s].limit = 0 /\ stream'[s].phase = 0 /\ stream'[s].meta = meta
        /\ user'[s].left = left /\ user'[s].count = 0 /\ user'[s].way = way
        /\ user'[s].answer = "none"
    BY <1>5
  <2>1. way = "plain" => PlainWhere(stream'[s], user'[s])
    BY <1>1, <2>0 DEF PlainWhere
  <2>2. way = "copy" => CopyWhere(stream'[s], user'[s])
    BY <1>1, <2>0 DEF CopyWhere
  <2>3. CASE way = "track"
    <3>1. /\ left \in MetadataEnd..(Length - 1) /\ MetadataEnd \in Nat \ {0} /\ Block \in Nat \ {0} /\ Length \in Nat
          /\ \A k \in 0..left : left # k * Block
      BY <1>1, <2>3, StreamsAssumption
    <3>2. \A k \in Nat : left # k * Block
      <4> SUFFICES ASSUME NEW k \in Nat, k > left PROVE left # k * Block
        BY <3>1
      <4>1. k * Block >= k
        BY <3>1
      <4> QED BY <4>1, <3>1
    <3>3. TrackWhere(stream'[s], user'[s])
      BY <3>1, <3>2, <2>3, <2>0 DEF TrackWhere
    <3> QED BY <3>3, <2>3, <2>0 DEF Where
  <2> QED BY <2>0, <2>1, <2>2, <2>3 DEF Where
<1>10. \A r \in StreamIds \ {s} : IsOpen(r)' /\ user'[r].token # Saturated => Where(r)'
  BY <1>5 DEF StreamsInv, Where, IsOpen
<1> QED BY <1>4, <1>7, <1>8, <1>9, <1>10 DEF StreamsInv

\* A stream is closed, and its object leads nowhere.
LEMMA CloseInv ==
  ASSUME ObjectsInv, StreamsInv, NEW s \in StreamIds, Close(s)
  PROVE  ObjectsInv' /\ StreamsInv'
<1> DEFINE o == user[s].token
<1>1. IsOpen(s) /\ Behind(s) # Nothing /\ UNCHANGED <<user, reg, single, singleLock, making, looperReady, told>>
  BY DEF Close
<1>2. Behind(s) = s /\ o # Saturated
  BY <1>1, BehindOwn DEF ObjectsInv, StreamsInv
<1>3. o \in DOMAIN objects /\ objects[o].payload = s
  BY <1>1, <1>2 DEF StreamsInv, Owned
<1>4. /\ objects' = [objects EXCEPT ![o].payload = Nothing]
      /\ stream' = [stream EXCEPT ![s].state = "freed"]
  BY <1>2, <1>3 DEF Close, WithPayload
<1>5. ObjectsTypeOK /\ StreamsTypeOK
  BY DEF ObjectsInv, StreamsInv
<1>6. objects[o] \in Entry /\ objects \in Seq(Entry) /\ Len(objects) <= MaxObjects /\ Len(objects) \in Nat
  BY <1>3, <1>5 DEF ObjectsTypeOK
<1>7. [objects[o] EXCEPT !.payload = Nothing] \in Entry /\ [objects[o] EXCEPT !.payload = Nothing].payload = Nothing
  BY <1>6 DEF Entry
<1>8. /\ objects' \in Seq(Entry) /\ Len(objects') = Len(objects) /\ DOMAIN objects' = DOMAIN objects
      /\ objects'[o].payload = Nothing /\ \A p \in DOMAIN objects \ {o} : objects'[p] = objects[p]
  <2>1. objects' = [objects EXCEPT ![o] = [objects[o] EXCEPT !.payload = Nothing]]
    BY <1>4
  <2> DEFINE closed == [objects[o] EXCEPT !.payload = Nothing]
  <2> HIDE DEF closed
  <2>2. closed \in Entry /\ closed.payload = Nothing /\ objects' = [objects EXCEPT ![o] = closed]
    BY <2>1, <1>7 DEF closed
  <2>3. objects' \in Seq(Entry) /\ Len(objects') = Len(objects) /\ DOMAIN objects' = DOMAIN objects
    BY <2>2, <1>3, <1>6
  <2>4. objects'[o] = closed /\ \A p \in DOMAIN objects \ {o} : objects'[p] = objects[p]
    BY <2>2, <1>3, <1>6
  <2> QED BY <2>2, <2>3, <2>4
<1>9. ObjectsInv'
  BY <1>1, <1>6, <1>8, TableInv
<1>10. /\ stream'[s] = [stream[s] EXCEPT !.state = "freed"]
       /\ \A r \in StreamIds \ {s} : stream'[r] = stream[r]
  BY <1>4, <1>5 DEF StreamsTypeOK
<1>11. stream[s] \in StreamState
  BY <1>5 DEF StreamsTypeOK
<1>12. stream'[s] \in StreamState /\ stream'[s].state = "freed"
  BY <1>10, <1>11 DEF StreamState
<1>13. StreamsTypeOK'
  BY <1>1, <1>4, <1>5, <1>12 DEF StreamsTypeOK
<1>14. ~IsOpen(s)' /\ \A r \in StreamIds \ {s} : IsOpen(r)' <=> IsOpen(r)
  BY <1>10, <1>12 DEF IsOpen
<1>15. \A p \in DOMAIN objects : objects[p].payload = s => p = o
  BY <1>1, <1>3, NothingIsNoStream DEF StreamsInv, Owned
<1>16. Owned'
  <2>1. \A p \in DOMAIN objects : objects[p].payload \in StreamIds \cup {Nothing}
    BY <1>5, Payloads
  <2> QED BY <1>1, <1>3, <1>8, <1>14, <1>15, <2>1 DEF StreamsInv, Owned
<1>17. \A r \in StreamIds : IsOpen(r)' /\ user'[r].token # Saturated => Where(r)'
  BY <1>1, <1>10, <1>14 DEF StreamsInv, Where
<1> QED BY <1>9, <1>13, <1>16, <1>17 DEF StreamsInv

-----------------------------------------------------------------------------
ShimInv == ObjectsInv /\ StreamsInv

\* Steps beside the objects and the streams.
LEMMA Aside ==
  ASSUME StreamsInv, UNCHANGED streamVars, UNCHANGED objects
  PROVE  StreamsInv'
BY DEF StreamsInv, streamVars, StreamsTypeOK, Owned, Where, IsOpen

\* What the shim makes once, and the objects that it makes for every call.
LEMMA ObjectKeeps == ASSUME ShimInv, Object PROVE ShimInv'
<1> USE DEF ShimInv
<1>1. UNCHANGED streamVars
  BY DEF Object
<1>2. CASE MakeObject
  <2>1. "plain" \in Class /\ objects' = WithObject("plain", Nothing)
    BY <1>2 DEF MakeObject, Class
  <2>2. objects' \in Seq(Entry) /\ Len(objects') <= MaxObjects
    BY <2>1, NextObject DEF ObjectsInv
  <2>3. UNCHANGED <<reg, single, singleLock, making, looperReady, told>>
    BY <1>2 DEF MakeObject
  <2> QED BY <1>1, <2>1, <2>2, <2>3, TableInv, ObjectAdded
<1>3. ASSUME NEW t \in Threads, SingletonMake(t) PROVE ShimInv'
  <2>1. "plain" \in Class /\ objects' = WithObject("plain", Nothing)
    BY <1>3 DEF SingletonMake, Class
  <2> QED BY <1>1, <1>3, <2>1, MadeInv, ObjectAdded
<1>4. CASE LooperReady
  <2>1. UNCHANGED <<reg, objects, single, singleLock, making, told>>
    BY <1>4 DEF LooperReady
  <2>2. ObjectsInv'
    BY <2>1 DEF ObjectsInv, ObjectsTypeOK, IdsMean, MakerLocks, ToldOfSingle
  <2> QED BY <1>1, <2>1, <2>2, Aside
<1>5. ASSUME NEW t \in Threads, NEW s \in Singletons, FakeSingleton(t, s) PROVE ShimInv'
  BY <1>1, <1>5, AskInv, Aside DEF FakeSingleton
<1>6. ASSUME NEW t \in Threads, NEW s \in Unlocked, InputDevice(t, s) PROVE ShimInv'
  BY <1>1, <1>6, AskInv, Aside DEF InputDevice
<1>7. ASSUME NEW t \in Threads, MainLooper(t) PROVE ShimInv'
  BY <1>1, <1>7, AskInv, Aside, ObjectsAssumption DEF MainLooper
<1> QED BY <1>2, <1>3, <1>4, <1>5, <1>6, <1>7 DEF Object

LEMMA StreamKeeps == ASSUME ShimInv, Stream PROVE ShimInv'
<1> USE DEF ShimInv
<1>1. ASSUME NEW way \in {"copy", "track", "plain"}, Open(way) PROVE ShimInv'
  BY <1>1, OpenInv
<1>2. ASSUME NEW s \in StreamIds, NEW p \in Peers, ReadCall(s, p) PROVE ShimInv'
  BY <1>2, UserReadsInv DEF ReadCall
<1>3. ASSUME NEW s \in StreamIds, Close(s) \/ ReadByte(s) \/ Skip(s) PROVE ShimInv'
  BY <1>3, CloseInv, ReadByteInv, SkipInv
<1> QED BY <1>1, <1>2, <1>3 DEF Stream

LEMMA ShimStep == ShimInv /\ [ShimNext]_shimVars => ShimInv'
<1> SUFFICES ASSUME ShimInv, [ShimNext]_shimVars PROVE ShimInv'
  OBVIOUS
<1>1. ASSUME UNCHANGED objectVars, UNCHANGED streamVars PROVE ShimInv'
  <2>1. UNCHANGED <<reg, objects, single, singleLock, making, looperReady, told>>
    BY <1>1 DEF objectVars
  <2>2. ObjectsInv'
    BY <2>1, TableInv DEF ShimInv, ObjectsInv, ObjectsTypeOK
  <2> QED BY <1>1, <2>1, <2>2, Aside DEF ShimInv
<1>2. ASSUME NEW p \in Peers, Array(p) PROVE ShimInv'
  BY <1>1, <1>2 DEF Array
<1>3. CASE Object
  BY <1>3, ObjectKeeps
<1>4. CASE Method
  <2>1. PICK m \in Methods : GetMethodID(m)
    BY <1>4 DEF Method
  <2>2. UNCHANGED objects /\ UNCHANGED streamVars
    BY <2>1, <1>4 DEF Method, GetMethodID
  <2> QED BY <2>1, <2>2, GetMethodInv, Aside DEF ShimInv
<1>5. CASE Stream
  BY <1>5, StreamKeeps
<1>6. CASE UNCHANGED shimVars
  BY <1>1, <1>6 DEF shimVars
<1> QED BY <1>2, <1>3, <1>4, <1>5, <1>6 DEF ShimNext

LEMMA ShimStart == ShimInit => ShimInv
BY ObjectsInitInv, StreamsInitInv DEF ShimInit, ShimInv

\* Ids mean their methods, singletons are told of when there are, tokens and
\* streams belong together, and each stream is where its user thinks it is.
THEOREM ShimInvariant == ShimSpec => []ShimInv
<1> QED BY ShimStart, ShimStep, PTL DEF ShimSpec

\* An id goes on meaning the method it was given for, and a singleton is one
\* object for all who ask (jni_shim.c:5, 323-330).
THEOREM TokensStay == ShimSpec => []TokensStable
<1>1. ShimInv => TokensStable
  <2> SUFFICES ASSUME ShimInv PROVE TokensStable
    OBVIOUS
  <2>1. \A m \in Methods : \A id \in told.ids[m] :
          MethodOf(id) = m \/ (id = 1 /\ Len(reg) = MaxReg /\ ~Contains(reg, m))
    BY DEF ShimInv, ObjectsInv, IdsMean, MethodOf
  <2>2. ASSUME NEW s \in Singletons PROVE Cardinality(told.singletons[s]) <= 1
    <3>1. told.singletons[s] \subseteq {single[s]}
      BY DEF ShimInv, ObjectsInv, ToldOfSingle
    <3>2. Cardinality({single[s]}) = 1 /\ IsFiniteSet({single[s]})
      BY FS_Singleton
    <3> QED BY <3>1, <3>2, FS_Subset
  <2> QED BY <2>1, <2>2 DEF TokensStable
<1> QED BY <1>1, ShimInvariant, PTL

\* The reader of a stream is where it thinks it is and sees the file's bytes
\* wherever it looks, with both shortcuts for music (jni_shim.c:565-601).
THEOREM ReadersSeeBytes == ShimSpec => []BytesAreReal
<1>1. ShimInv => BytesAreReal
  BY DEF ShimInv, StreamsInv, BytesAreReal, Where
<1> QED BY <1>1, ShimInvariant, PTL

\* A close finds every open stream, and no object leads to one that was freed,
\* but for the streams that a full object table lost (jni_shim.c:531).
THEOREM StreamsStayReachable == ShimSpec => []StreamsReachable
<1>1. ShimInv => StreamsReachable
  <2> SUFFICES ASSUME ShimInv PROVE StreamsReachable
    OBVIOUS
  <2>1. \A s \in StreamIds : IsOpen(s) /\ user[s].token # Saturated =>
          {o \in DOMAIN objects : objects[o].payload = s} = {user[s].token}
    BY NothingIsNoStream DEF ShimInv, StreamsInv, Owned
  <2>2. \A o \in DOMAIN objects : objects[o].payload # Nothing => IsOpen(objects[o].payload)
    BY DEF ShimInv, StreamsInv, Owned
  <2>3. \A s \in StreamIds : IsOpen(s) =>
          (Len(objects) = MaxObjects /\ user[s].token = Saturated) \/ user[s].token # Saturated
    <3>1. Saturated \notin DOMAIN objects
      BY ObjectsAssumption DEF ShimInv, ObjectsInv, ObjectsTypeOK
    <3> QED BY <3>1 DEF ShimInv, StreamsInv, Owned
  <2> QED BY <2>1, <2>2, <2>3 DEF StreamsReachable
<1> QED BY <1>1, ShimInvariant, PTL

-----------------------------------------------------------------------------
\* Beside objects and streams the array table behaves as it does alone: a read of a
\* stream touches the array that it looked up (jni_shim.c:565-640).
THEOREM ShimHasArrays == ShimSpec => ArraysSpec
<1>1. ShimInit => ArraysInit
  BY DEF ShimInit
<1>2. [ShimNext]_shimVars => [ArraysNext]_arrayVars
  <2> SUFFICES ASSUME [ShimNext]_shimVars PROVE [ArraysNext]_arrayVars
    OBVIOUS
  <2>1. ASSUME NEW p \in Peers, Array(p) PROVE ArraysNext
    BY <2>1 DEF Array, ArraysNext, ArrayCalls
  <2>2. ASSUME Object \/ Method PROVE UNCHANGED arrayVars
    BY <2>2 DEF Object, Method
  <2>3. ASSUME Stream PROVE [ArraysNext]_arrayVars
    BY <2>3 DEF Stream, ReadCall, ArraysNext, ArrayCalls
  <2> QED BY <2>1, <2>2, <2>3 DEF ShimNext, shimVars
<1> QED BY <1>1, <1>2, PTL DEF ShimSpec, ArraysSpec

\* So the accounting holds of the whole shim.
THEOREM ShimAccounting == ShimSpec => []RefsAccounted
<1> QED BY ShimHasArrays, Accounting, PTL

\* And references of the whole shim reach the arrays they were made for.
THEOREM ShimImplementsHeap == ShimSpec => ImplementsRefHeap
<1> QED BY ShimHasArrays, ArraysImplementHeap, PTL
=============================================================================
