----------------------------- MODULE MCBootstrap -----------------------------
(***************************************************************************)
(* TLC instance of Bootstrap.                                              *)
(***************************************************************************)
EXTENDS Bootstrap

CONSTANTS w1, w2
=============================================================================
