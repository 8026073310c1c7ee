---------------------------- MODULE MCWaitBridge ----------------------------
(***************************************************************************)
(* TLC instance of WaitBridge, with that of PthreadBridge.                 *)
(***************************************************************************)
EXTENDS WaitBridge

CONSTANTS t1, t2, t3
=============================================================================
