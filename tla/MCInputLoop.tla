----------------------------- MODULE MCInputLoop -----------------------------
(***************************************************************************)
(* TLC instances of InputLoop.                                             *)
(***************************************************************************)
EXTENDS InputLoop

\* "start" and "select" stand for the inputs that map to one key each.
MCInputs == {"r3", "select", "start", "cursorRight", "up", "down"}
=============================================================================
