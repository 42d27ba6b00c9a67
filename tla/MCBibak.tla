------------------------------ MODULE MCBibak ------------------------------
(* Values of the constants of Bibak for TLC.  A file called "exists" is    *)
(* what makes the client ask for a timestamp.                              *)
EXTENDS Bibak

MCLocalFiles == {"exists"}
MCUserFiles  == {"b"}
MCKept       == {{"b"}, {"exists"}}
=============================================================================
