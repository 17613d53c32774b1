--------------------------- MODULE MCSharedFiles ----------------------------
(* Instances of SharedFiles for TLC.                                       *)
EXTENDS SharedFiles

CONSTANTS r1, r2, r3, none
=============================================================================
