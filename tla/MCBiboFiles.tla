---------------------------- MODULE MCBiboFiles ----------------------------
(* Values of the constants of BiboFiles for TLC.                           *)
EXTENDS BiboFilesProperties

CONSTANTS c1, c2, c3, a, b, n

Ask(op, f, line) == [op |-> op, name |-> f, line |-> line]

(* Two changes of the table in two children, and in the third a reader or  *)
(* a second writer.                                                        *)
MCRequests ==
    c1 :> {Ask("download", a, 0), Ask("readF", a, 0), Ask("writeT", b, 1)}
    @@ c2 :> {Ask("writeT", b, 0), Ask("download", b, 0), Ask("upload", n, 0),
              Ask("other", b, 0)}
    @@ c3 :> {Ask("upload", n, 0), Ask("readF", n, 1), Ask("writeT", b, 0),
              Ask("killServer", NoName, 0)}

(* The values of the run leave room for what it asks.                      *)
ASSUME RunHasRoom == Capacity

MCText == [c \in Children |-> c]
=============================================================================
