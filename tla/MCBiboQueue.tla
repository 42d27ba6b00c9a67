---------------------------- MODULE MCBiboQueue ----------------------------
(* Values of the constants of BiboQueue for TLC.                           *)
EXTENDS BiboQueueProperties

CONSTANTS c1, c2
=============================================================================
