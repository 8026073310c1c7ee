--------------------------- MODULE MCNxTransaction ---------------------------
(***************************************************************************)
(* TLC instances of NxTransaction.  The recipe commits three paths: libs,  *)
(* assets and the sentinel .stardew-data.json (extractor.json, "commit").  *)
(***************************************************************************)
EXTENDS NxTransaction

CONSTANTS libs, assets, sentinel

MCOrder == <<libs, assets, sentinel>>
MCOrder2 == <<libs, assets>>

AllPoints == PC
=============================================================================
