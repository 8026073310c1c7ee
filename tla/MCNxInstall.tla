----------------------------- MODULE MCNxInstall -----------------------------
(***************************************************************************)
(* TLC instances of NxInstall.                                             *)
(***************************************************************************)
EXTENDS NxInstall

AllPoints == PC
=============================================================================
