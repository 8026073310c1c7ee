--------------------------- MODULE MCPthreadBridge ---------------------------
(***************************************************************************)
(* TLC instance of PthreadBridge alone.                                    *)
(***************************************************************************)
EXTENDS PthreadBridge

CONSTANTS t1, t2
=============================================================================
