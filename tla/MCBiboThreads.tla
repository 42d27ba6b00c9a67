--------------------------- MODULE MCBiboThreads ---------------------------
(* Values of the constants of BiboThreads for TLC.                         *)
EXTENDS BiboThreadsProperties

CONSTANTS c1, c2, txt, t1, t2, a, b

MCNames == {txt, Junk}
MCInitial == [n \in Names |-> IF n = txt THEN <<a, NL, b>> ELSE Absent]
NoFile == [n \in Names |-> Absent]

Command(op, n, text) == [op |-> op, name |-> txt, line |-> n, text |-> text]
Plain(op) == Command(op, 0, << >>)

Append1  == Command("writeT", 0, <<t1>>)
Replace1 == Command("writeT", 1, <<t2>>)
Missing  == Command("writeT", 3, <<t1>>)

Alike(commands) == [c \in Clients |-> commands]

WritesReads == Alike({Append1, Replace1, Missing, Command("readF", 1, << >>), Plain("quit")})
Everything  == [c \in Clients |->
                  IF c = c1 THEN {Append1, Plain("empty")}
                            ELSE {Plain(op) : op \in Ops \ {"writeT", "empty"}}]
Appends     == Alike({Append1})
ReadWrite   == Alike({Replace1, Plain("readF")})
KillWrite   == Alike({Replace1, Plain("killServer")})
=============================================================================
