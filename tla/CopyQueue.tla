----------------------------- MODULE CopyQueue -----------------------------
(***************************************************************************)
(* What pCp promises, without threads, mutexes, indices or descriptors:    *)
(* directory entries are taken one at a time, an entry is either refused   *)
(* or admitted to a first-in first-out queue of bounded capacity, and the  *)
(* entry at the head of the queue is the next one reported as copied.      *)
(* Once the queue is closed nothing is admitted any more.                  *)
(***************************************************************************)
EXTENDS Naturals, Sequences

CONSTANTS Files,     \* the entries of the source directory
          Capacity   \* how many admitted entries may be waiting

VARIABLES unseen,    \* entries neither admitted nor refused so far
          queue,     \* entries admitted and not yet copied, oldest first
          copied,    \* entries reported as copied
          closed     \* no entry will be admitted any more

vars == <<unseen, queue, copied, closed>>

Init == /\ unseen = Files
        /\ queue = << >>
        /\ copied = {}
        /\ closed = FALSE

Admit(f) == /\ ~closed
            /\ f \in unseen
            /\ Len(queue) < Capacity
            /\ unseen' = unseen \ {f}
            /\ queue' = Append(queue, f)
            /\ UNCHANGED <<copied, closed>>

Refuse(f) == /\ ~closed
             /\ f \in unseen
             /\ unseen' = unseen \ {f}
             /\ UNCHANGED <<queue, copied, closed>>

Deliver == /\ queue # << >>
           /\ copied' = copied \cup {Head(queue)}
           /\ queue' = Tail(queue)
           /\ UNCHANGED <<unseen, closed>>

Close == /\ ~closed
         /\ unseen = {}
         /\ closed' = TRUE
         /\ UNCHANGED <<unseen, queue, copied>>

Next == \/ \E f \in Files : Admit(f) \/ Refuse(f)
        \/ Deliver
        \/ Close

Spec == Init /\ [][Next]_vars
=============================================================================
