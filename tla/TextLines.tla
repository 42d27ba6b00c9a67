----------------------------- MODULE TextLines -----------------------------
(***************************************************************************)
(* Text files as the servers of HW4 see them: a file is a sequence of      *)
(* pieces of text and newlines, and fgets() cuts it into lines, each       *)
(* ending with its newline or, the last one, at the end of the file.       *)
(***************************************************************************)
EXTENDS Naturals, Sequences, FiniteSets

CONSTANT NL

LineEnds(s) == {i \in DOMAIN s : s[i] = NL \/ i = Len(s)}
LineCount(s) == Cardinality(LineEnds(s))

(* Where line n ends, and where the line before it ended.                  *)
EndOfLine(s, n) ==
    IF n = 0 THEN 0
    ELSE CHOOSE e \in LineEnds(s) : Cardinality({d \in LineEnds(s) : d <= e}) = n

(* strcpy(lines[n - 1], text): the line's newline goes with the line.      *)
ReplaceLine(s, n, text) ==
    SubSeq(s, 1, EndOfLine(s, n - 1)) \o text
        \o SubSeq(s, EndOfLine(s, n) + 1, Len(s))

(* What "writeT <file> <n> <text>" leaves in a file that holds s.          *)
WriteResult(s, n, text) ==
    IF n = 0 THEN s \o text
    ELSE IF n <= LineCount(s) THEN ReplaceLine(s, n, text)
    ELSE s
=============================================================================
