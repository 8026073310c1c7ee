-------------------------- MODULE MCFutexSemaphore --------------------------
(* Instances of FutexSemaphore for TLC. *)
EXTENDS FutexSemaphore, TLC

CONSTANTS p1, p2, w1, w2, w3, x1, d1

MCWordMax == 15

\* Threads of one role that no other role shares are interchangeable.
TimedSymmetry == Permutations({w1, w2}) \cup Permutations({p1, p2})
=============================================================================
