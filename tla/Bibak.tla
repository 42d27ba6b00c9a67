------------------------------- MODULE Bibak -------------------------------
(***************************************************************************)
(* A BibakBOX client and the server's thread for it, on one connection     *)
(* (FINAL PROJECT), and what holds of them together.                       *)
(***************************************************************************)
EXTENDS BibakClient, BibakServer

vars == <<socketVars, clientVars, serverVars>>

Init == SocketInit /\ ClientInit /\ ServerInit

Next == \/ ClientStep /\ UNCHANGED serverVars
        \/ ServerStep /\ UNCHANGED clientVars

Spec == Init /\ [][Next]_vars

(* As long as a thread of the client, or of the server, can go on, one of  *)
(* them does; no command is owed, and no signal.                           *)
FairSpec ==
    /\ Spec
    /\ WF_vars((SyncStep \/ MainStep) /\ UNCHANGED serverVars)
    /\ WF_vars(ServerThreads /\ UNCHANGED clientVars)
-----------------------------------------------------------------------------
Files == LocalFiles \cup UserFiles \cup UNION Kept
Names == {Name(f) : f \in Files}
Pieces == {Dir, Data} \cup Names \cup {Path(f) : f \in LocalFiles}
          \cup {Op(o) : o \in {"check", "timestamp", "upload", "delete", "update"}}

TypeOK ==
    /\ up \in Seq(Pieces) /\ down \in Seq(Names)
    /\ mainPc \in {"prompt", "join", "done", "aborted", "killed"}
    /\ syncPc \in {"start", "pass", "entry", "answer", "stamp", "freed", "ended"}
    /\ outgoing \in [Threads -> Seq(Pieces)]
    /\ entries \subseteq LocalFiles /\ entry \in LocalFiles \cup {NoFile}
    /\ thread \in {"none", "dir", "list", "loop", "take", "lock", "log", "ended", "stuck"}
    /\ listener \in {"accept", "handler", "ended"}
    /\ server \in {"up", "ended", "killed"}
    /\ locked = (thread \in {"log", "stuck"})
    /\ removed \cup store \in Kept /\ removed \cap store = {} /\ misread \subseteq removed

(* An upload takes all that comes until the client closes (line 127), the  *)
(* commands too: a connection brings one file at most.                     *)
OneFilePerConnection == Len(created) <= 1

(* "check:" is no operation of the server (118-178), so the only answers   *)
(* are the names it sends at the start: the thread offers no more files    *)
(* than that, and none to a server whose directory for it is empty.        *)
NamesBeforeUploads == uploads <= named

(* As long as neither thread sends in the middle of the other's message, a *)
(* file goes away only if the user asked to delete or update it, or if the *)
(* server read its name in several pieces, or in the contents of a file,   *)
(* that one recv() gave it (115-116): a request that is received by itself *)
(* is the user's, however the stream before it was cut.                    *)
DeletesAskedFor == mixed \/ removed \subseteq asked \cup misread

(* "exit" ends the client, whatever the server does; and SIGINT ends a     *)
(* server whose client is gone, but for a second one that found the thread *)
(* writing to the log.                                                     *)
Termination ==
    /\ mainPc = "join" ~> ~ClientRuns
    /\ (interrupts > 0 /\ ~ClientRuns) ~> (server # "up" \/ thread = "stuck")
-----------------------------------------------------------------------------
(* BibakBOXClient.c:277, "Enter filename to delete: ": the file that is    *)
(* deleted is the one the user entered; said here only of a request that   *)
(* the server receives by itself.                                          *)
DeletesEntered == removed \ misread \subseteq asked
=============================================================================
