----------------------------- MODULE TextStore -----------------------------
(***************************************************************************)
(* What the mutex of HW4's biboServer is there for: a directory of text    *)
(* files in which every writeT happens all at once.                        *)
(***************************************************************************)
EXTENDS TextLines

CONSTANTS Names,       \* names a file in the directory may have
          Absent,      \* the contents of a file that does not exist
          Initial,     \* the directory before the server starts
          Writes       \* the writeT commands: [name, line, text]

VARIABLE contents

Init == contents = Initial

Write(w) ==
    contents' = [contents EXCEPT ![w.name] =
                    IF @ = Absent THEN w.text
                                  ELSE WriteResult(@, w.line, w.text)]

Spec == Init /\ [][\E w \in Writes : Write(w)]_contents
=============================================================================
