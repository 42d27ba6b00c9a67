--------------------------- MODULE MCAppendMeMore ---------------------------
(* Values of the constants of AppendMeMore for TLC.                        *)
EXTENDS AppendMeMore

CONSTANTS p1, p2, p3

MCContents == <<Old>>
MCNumBytes == [p \in Instances |-> CASE p = p1 -> 3 [] p = p2 -> 2 [] OTHER -> 1]
=============================================================================
