------------------------------- MODULE MCPCp -------------------------------
(* Values of the constants of PCp for TLC.                                 *)
EXTENDS PCpProperties

CONSTANTS f1, f2, f3, f4, f5, f6

(* One file needs two rounds of the copy loop, one is empty.               *)
MCBlocks == [f \in Files |-> CASE f = f1 -> 2 [] f = f2 -> 0 [] OTHER -> 1]
=============================================================================
