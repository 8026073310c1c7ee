------------------------------ MODULE JniArrays ------------------------------
(***************************************************************************)
(* The Java arrays of src/src/jni_shim.c: a table of slots, each with a    *)
(* reference count.  A jarray is the address of its slot, for local and    *)
(* global references alike, and a slot is used again as soon as its count  *)
(* falls to 0.  The count changes under g_fake_arrays_lock; the accessors  *)
(* look the slot up and copy without it, which are two steps here.         *)
(*                                                                         *)
(* The managed side is a set of peers.  Each holds at most one reference,  *)
(* which it got from a call and gives back once, and makes one call at a   *)
(* time; the calls of different peers interleave.                          *)
(***************************************************************************)
EXTENDS Integers, FiniteSets

CONSTANTS Peers,     \* who holds a reference
          Ids,       \* identities of arrays: more than there are slots
          Kind,      \* FAKE_ARRAY_OBJECT, _BOOLEAN, _INT, _BYTE
          MaxArrays, \* MAX_FAKE_ARRAYS
          Lengths,   \* bound: lengths of arrays, and ends of the ranges asked for
          Nil        \* no array, no slot, no identity

ASSUME ArraysAssumption ==
  /\ IsFiniteSet(Peers) /\ MaxArrays \in Nat /\ Lengths \subseteq Nat
  /\ Nil \notin Ids /\ Nil \notin 1..MaxArrays /\ Ids # {}

VARIABLES
  slot,    \* g_fake_arrays
  used,    \* g_fake_arrays_n
  token,   \* token[p]: the jarray of p
  at,      \* at[p]: the slot that p's accessor found and is about to touch
  got      \* history: the array that p's last completed access touched

arrayVars == <<slot, used, token, at, got>>

Slots == 1..MaxArrays

\* A slot after memset: its identity and length are nobody's.
Empty == [active |-> FALSE, refs |-> 0, kind |-> Nil, len |-> 0, id |-> Nil]

Holders(s) == {p \in Peers : token[p] = s}

\* The slots that fake_array_find looks through.
Active(s) == s \in 1..used /\ slot[s].active

-----------------------------------------------------------------------------
\* The slot fake_array_new takes: the first inactive one, else one more.
FreeSlot(s) ==
  \/ s \in 1..used /\ ~slot[s].active /\ \A r \in 1..(s - 1) : slot[r].active
  \/ s = used + 1 /\ s \in Slots /\ \A r \in 1..used : slot[r].active

\* fake_array_new, called by NewObjectArray, NewIntArray, NewBooleanArray,
\* NewByteArray and deviceHasKeys.
NewArray(p) ==
  /\ token[p] = Nil
  /\ \E s \in Slots, k \in Kind, n \in Lengths, i \in Ids \ {slot[r].id : r \in Slots} :
       /\ FreeSlot(s)
       /\ used' = IF s > used THEN s ELSE used
       /\ slot' = [slot EXCEPT ![s] = [active |-> TRUE, refs |-> 1, kind |-> k, len |-> n, id |-> i]]
       /\ token' = [token EXCEPT ![p] = s]
  /\ UNCHANGED <<at, got>>

\* The table is full: NULL, and nothing changes.
NewArrayFails(p) ==
  /\ token[p] = Nil /\ \A s \in Slots : ~FreeSlot(s)
  /\ UNCHANGED arrayVars

\* A variant that shares the token without counting it.
NewRefUncounted(p, q) ==
  /\ token[p] # Nil /\ at[p] = Nil /\ token[q] = Nil
  /\ slot' = slot
  /\ token' = [token EXCEPT ![q] = token[p]]
  /\ UNCHANGED <<used, at, got>>

\* NewLocalRef and NewGlobalRef: fake_array_add_ref, and the same pointer back.
NewRef(p, q) ==
  /\ token[p] # Nil /\ at[p] = Nil /\ token[q] = Nil
  /\ slot' = IF Active(token[p]) THEN [slot EXCEPT ![token[p]].refs = @ + 1] ELSE slot
  /\ token' = [token EXCEPT ![q] = token[p]]
  /\ UNCHANGED <<used, at, got>>

\* A variant that frees the array with the first reference that goes.
DeleteRefFreeing(p) ==
  /\ token[p] # Nil /\ at[p] = Nil
  /\ slot' = IF Active(token[p]) THEN [slot EXCEPT ![token[p]] = Empty] ELSE slot
  /\ token' = [token EXCEPT ![p] = Nil]
  /\ UNCHANGED <<used, at, got>>

\* DeleteLocalRef and DeleteGlobalRef: fake_array_release.  The last reference
\* frees the data and clears the slot.
DeleteRef(p) ==
  /\ token[p] # Nil /\ at[p] = Nil
  /\ slot' = IF ~Active(token[p]) THEN slot
             ELSE IF slot[token[p]].refs > 1 THEN [slot EXCEPT ![token[p]].refs = @ - 1]
             ELSE [slot EXCEPT ![token[p]] = Empty]
  /\ token' = [token EXCEPT ![p] = Nil]
  /\ UNCHANGED <<used, at, got>>

-----------------------------------------------------------------------------
\* An accessor, first half: fake_array_find without the lock, and the checks of
\* kind and range on what it found.  Get*ArrayElements and the critical pair
\* hand out the array's own data, so the second half may be the caller's.
Find(p) ==
  /\ token[p] # Nil /\ at[p] = Nil
  /\ Active(token[p])
  /\ \E k \in Kind, end \in Lengths : slot[token[p]].kind = k /\ end <= slot[token[p]].len
  /\ at' = [at EXCEPT ![p] = token[p]]
  /\ UNCHANGED <<slot, used, token, got>>

\* Wrong kind, a range outside, or no such array: nothing is touched.
FindRefuses(p) ==
  /\ token[p] # Nil /\ at[p] = Nil
  /\ \/ ~Active(token[p])
     \/ \E k \in Kind, end \in Lengths : slot[token[p]].kind # k \/ end > slot[token[p]].len
  /\ UNCHANGED arrayVars

\* The copy, or the caller's use of the data it was given.
Touch(p) ==
  /\ at[p] # Nil
  /\ got' = [got EXCEPT ![p] = slot[at[p]].id]
  /\ UNCHANGED <<slot, used, token, at>>

\* The copy is done; Release*ArrayElements and ReleasePrimitiveArrayCritical do nothing.
Finish(p) ==
  /\ at[p] # Nil
  /\ at' = [at EXCEPT ![p] = Nil]
  /\ UNCHANGED <<slot, used, token, got>>

-----------------------------------------------------------------------------
ArraysInit ==
  /\ slot = [s \in Slots |-> Empty] /\ used = 0
  /\ token = [p \in Peers |-> Nil] /\ at = [p \in Peers |-> Nil]
  /\ got = [p \in Peers |-> Nil]

ArrayCalls(p) ==
  \/ NewArray(p) \/ NewArrayFails(p) \/ DeleteRef(p)
  \/ (\E q \in Peers : NewRef(p, q))
  \/ Find(p) \/ FindRefuses(p) \/ Touch(p) \/ Finish(p)

ArraysNext == \E p \in Peers : ArrayCalls(p)

ArraysSpec == ArraysInit /\ [][ArraysNext]_arrayVars

-----------------------------------------------------------------------------
Slot == [active : BOOLEAN, refs : Nat, kind : Kind \cup {Nil}, len : Lengths \cup {0}, id : Ids \cup {Nil}]

ArraysTypeOK ==
  /\ slot \in [Slots -> Slot] /\ used \in 0..MaxArrays
  /\ token \in [Peers -> Slots \cup {Nil}] /\ at \in [Peers -> Slots \cup {Nil}]
  /\ got \in [Peers -> Ids \cup {Nil}]

\* An array lives exactly as long as somebody holds a reference to it, and its
\* count is the number of holders: whichever order threads give references back
\* in, no slot is freed under a holder or kept without one (jni_shim.c:217-249).
RefsAccounted ==
  \A s \in Slots :
    /\ slot[s].refs = Cardinality(Holders(s))
    /\ slot[s].active <=> Holders(s) # {}

\* Through the reuse of slots, a reference designates the array it was made for.
designated == [p \in Peers |-> IF token[p] = Nil THEN Nil ELSE slot[token[p]].id]

Heap == INSTANCE RefHeap WITH array <- designated, reached <- got, NoArray <- Nil

ImplementsRefHeap == Heap!HeapSpec
=============================================================================
