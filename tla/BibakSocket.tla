---------------------------- MODULE BibakSocket ----------------------------
(***************************************************************************)
(* The connection of a BibakBOX client to its server (FINAL PROJECT), as   *)
(* the code uses it: two streams.  A send() is a piece, and the stream     *)
(* does not keep its end: recv() gives any number of pieces as one text.   *)
(* A piece is not cut in two: the ones that matter are a few bytes long.   *)
(***************************************************************************)
EXTENDS Integers, Sequences, FiniteSets, SequencesExt

CONSTANT NoFile, Garbled   \* what strtok() gives: nothing, or a text that is no name

ASSUME GarbledAssumption == Garbled \notin {"upload", "delete", "update"}

VARIABLES
    up, down,             \* what is sent and not yet received
    clientEnd, serverEnd  \* "open" or "closed"

socketVars == <<up, down, clientEnd, serverEnd>>

Dir     == <<"dir", "">>
Op(o)   == <<"op", o>>        \* "upload:", "check:", ...
Name(f) == <<"name", f>>
Path(f) == <<"path", f>>      \* the client's directory, a slash, and f
Data    == <<"data", "">>

SocketInit == /\ up = << >> /\ down = << >>
              /\ clientEnd = "open" /\ serverEnd = "open"

Connected == clientEnd = "open" /\ serverEnd = "open"

Batches(stream) == {SubSeq(stream, 1, n) : n \in 1..Len(stream)}
Rest(stream, batch) == SubSeq(stream, Len(batch) + 1, Len(stream))

(* strtok(buffer, ":") twice: the text before the first colon, and the     *)
(* text between it and the next.  Of the pieces, an operation ends in a    *)
(* colon, a name has none, and in the contents of a file anything may be.  *)
ElseDelete(batch) ==      \* mutant
    IF batch[1] \in {Op("upload"), Op("update")} THEN batch[1][2] ELSE "delete"
Operation(batch) == IF batch[1][1] = "op" THEN batch[1][2] ELSE Garbled

(* A request, and nothing else.                                            *)
Alone(batch) == Len(batch) = 2 /\ batch[1][1] = "op" /\ batch[2][1] \in {"name", "path"}

(* Of "delete:" alone the file name is a null pointer: a name that is      *)
(* received later does not count.  Where more pieces follow, the bytes     *)
(* before the next colon are joined ("delete:" "a" "check:" gives acheck): *)
(* it may happen to be any name.  A path remains a path.                   *)
FileNames(batch, there) ==
    CASE Len(batch) = 1                              -> {NoFile}
      [] Alone(batch) \/ batch[2][1] = "path"        -> {batch[2]}
      [] OTHER                                       -> {Garbled} \cup there

(* The pieces the first colon may be in, or stand after.                   *)
Begin(batch) == {batch[i] : i \in {k \in DOMAIN batch : \A j \in 1..k : batch[j][1] # "op"}}

(* What a text may be read as: an operation and a file.                    *)
Readings(batch, there) ==
    IF Data \in Begin(batch)
    THEN {"upload", "delete", "update", Garbled} \X ({NoFile, Garbled} \cup there)
    ELSE {Operation(batch)} \X FileNames(batch, there)
=============================================================================
