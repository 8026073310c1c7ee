------------------------------- MODULE RefHeap -------------------------------
(***************************************************************************)
(* What JNI promises the managed side of its array references: a reference *)
(* keeps designating the array it was made for until it is deleted, and an *)
(* access through it reaches that array and no other.  JniArrays is shown  *)
(* to implement this module.                                               *)
(***************************************************************************)
CONSTANTS Peers,   \* the places of the managed side that hold one reference each
          Ids,     \* identities of arrays
          NoArray

VARIABLES array,   \* array[p]: the array that p's reference designates
          reached  \* reached[p]: the array that p's last access touched

heapVars == <<array, reached>>

HeapTypeOK == array \in [Peers -> Ids \cup {NoArray}] /\ reached \in [Peers -> Ids \cup {NoArray}]

HeapInit == array = [p \in Peers |-> NoArray] /\ reached = [p \in Peers |-> NoArray]

\* NewIntArray, NewByteArray, ...: a new array, or NULL.
Create(p) == /\ array[p] = NoArray
             /\ \E i \in Ids \ {array[q] : q \in Peers} : array' = [array EXCEPT ![p] = i]
             /\ UNCHANGED reached

\* NewLocalRef, NewGlobalRef: q has one more reference to p's array.
Copy(p, q) == /\ array[p] # NoArray /\ array[q] = NoArray
              /\ array' = [array EXCEPT ![q] = array[p]]
              /\ UNCHANGED reached

\* DeleteLocalRef, DeleteGlobalRef: only p's own reference goes.
Drop(p) == /\ array[p] # NoArray
           /\ array' = [array EXCEPT ![p] = NoArray]
           /\ UNCHANGED reached

\* An accessor returns: it touched the array of the reference it was given.
Access(p) == /\ array[p] # NoArray
             /\ reached' = [reached EXCEPT ![p] = array[p]]
             /\ UNCHANGED array

HeapNext == \E p \in Peers : \/ Create(p) \/ Drop(p) \/ Access(p)
                             \/ \E q \in Peers : Copy(p, q)

HeapSpec == HeapInit /\ [][HeapNext]_heapVars
=============================================================================
