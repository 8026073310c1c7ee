----------------------------- MODULE MCEglBridge -----------------------------
(***************************************************************************)
(* TLC instance of EglBridge: main() and two threads of the game.          *)
(***************************************************************************)
EXTENDS EglBridge, TLC

CONSTANTS main, t1, t2

MCSymmetry == Permutations({t1, t2})
=============================================================================
