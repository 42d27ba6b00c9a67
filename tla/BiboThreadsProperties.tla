----------------------- MODULE BiboThreadsProperties -----------------------
(***************************************************************************)
(* What makes the threaded file server correct, and where it is not.       *)
(***************************************************************************)
EXTENDS BiboThreads

InWriteT == {"fopen", "rewrite", "fclose", "unlock"}

TypeOK ==
    /\ \A f \in Names : contents[f] = Absent \/ contents[f] \in Seq(Pieces)
    /\ mutex \in Clients \cup {NoOne}
    /\ server \in {"up", "interrupted", "down"}
    /\ pc \in [Clients -> {"none", "recv", "work", "lock", "send", "raise", "exited", "crashed"}
                            \cup InWriteT]
    /\ \A c \in Clients : pending[c].new \in Seq(Pieces) /\ pending[c].at \in Nat
    /\ \A c \in Clients : Len(inbox[c]) <= MaxCommands + 1
    /\ link \in [Clients -> {"none", "open", "closed", "broken"}]
    /\ user \in [Clients -> {"start", "prompt", "await", "exited"}]

(* The mutex is held by the one thread between lock and unlock, and by one *)
(* that crashed there.                                                     *)
MutualExclusion == \A c \in Clients : pc[c] \in InWriteT \cup {"crashed"} <=> mutex = c

(* The response buffer is never sent before something was stored in it,    *)
(* though writeT relies on what an earlier command left there.             *)
NothingUndefinedIsSent ==
    \A c \in Clients : \A k \in DOMAIN outbox[c] : outbox[c][k].text # "undefined"

(* The answers to server_pid and to the commands reach the client in the   *)
(* order of the commands, none twice, whatever is received together.       *)
AnswersInOrder ==
    \A c \in Clients :
        /\ \A j, k \in DOMAIN outbox[c] : j < k => outbox[c][j].id < outbox[c][k].id
        /\ \A k \in DOMAIN outbox[c] : \A n \in shown[c] : n < outbox[c][k].id

(* What a client prints after a command answers that command or the one    *)
(* before it: the client is never further behind than by server_pid.       *)
BehindByOne ==
    \A c \in Clients : user[c] = "prompt" => shown[c] \subseteq {typed[c] - 1, typed[c]}

(* Unless its operator interrupts it, the server ends because killServer   *)
(* asked it to, because a writeT could not open its file, or because a     *)
(* user pressed Ctrl-C: a client that ends by itself leaves one answer     *)
(* unread at most, and it takes two to raise SIGPIPE.                      *)
EndsOnRequest ==
    server = "down" => \E c \in Clients :
        \/ pc[c] = "raise"
        \/ pc[c] = "crashed" /\ cmd[c].op = "writeT" /\ mutex = c
        \/ c \in Impatient /\ link[c] = "broken"

(* Each writeT happens all at once, in some order: one that has opened its *)
(* file for writing counts as done, if the server lives to close it.       *)
(* (Without uploads, which take no lock.)                                  *)
Committed(f) ==
    LET writers == {c \in Clients : cmd[c].name = f /\ pc[c] = "fclose"}
    IN  IF writers = {} THEN contents[f]
        ELSE LET c == CHOOSE c \in writers : TRUE
             IN  Stored(contents[f], pending[c].at, pending[c].new)

Store == INSTANCE TextStore
             WITH contents <- [f \in Names |-> Committed(f)],
                  Writes   <- LET writes == {d \in AllCommands : d.op = "writeT"}
                              IN  writes \cup {Garbled(d) : d \in writes}
WritesAreAtomic == Store!Spec

(* A client that waits for the response to a line it has sent gets one, or *)
(* learns that the server has closed the connection.  (An empty line sends *)
(* nothing: its client and its thread then wait for each other.)           *)
WaitingEnds ==
    \A c \in Clients :
        user[c] = "await" /\ asked[c].op # "empty" ~> user[c] # "await"
-----------------------------------------------------------------------------
(* Claims of the code and of the documentation that do not hold.           *)

(* biboServer.c:143-145: a writeT that found its line is confirmed with    *)
(* "Write successful".                                                     *)
WriteIsConfirmed ==
    \A c \in Clients : pc[c] = "send" /\ cmd[c].op = "writeT" =>
        response[c] \in {"Write successful", "not found"}

(* A readF of a file that has text never finds it without any: the one     *)
(* writeT that empties the file is still to put the text back.             *)
ReadsText ==
    [][\A c \in Clients : ReadF(c) /\ Initial[cmd[c].name] # Absent =>
          contents[cmd[c].name] # << >>]_vars

(* Shutting the server down leaves no file emptied that had text.          *)
ShutdownKeepsText ==
    server # "up" =>
        \A f \in Names : Initial[f] # Absent => contents[f] # << >>
=============================================================================
