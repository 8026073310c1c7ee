------------------------------ MODULE MCJniShim ------------------------------
(***************************************************************************)
(* TLC instance of JniShim.                                                *)
(***************************************************************************)
EXTENDS JniShim, TLC

CONSTANTS p1, p2, i1, i2, i3, t1, t2

\* The reads of InputStream, which only their signatures tell apart: one more than
\* the table of the instance has entries for.
MCMethods == {[name |-> "read", sig |-> g] : g \in {"()I", "([B)I", "([BII)I"}}

MCSymmetry == Permutations({p1, p2}) \cup Permutations({i1, i2, i3}) \cup Permutations({t1, t2})
=============================================================================
