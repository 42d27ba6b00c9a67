---------------------------- MODULE BibakClient ----------------------------
(***************************************************************************)
(* BibakBOXClient.c: a thread that offers the files of the local directory *)
(* to the server, over and over, and the main thread, which sends what the *)
(* user asks for.  Both send on the same socket, one piece at a time, and  *)
(* nothing keeps them apart.                                               *)
(***************************************************************************)
EXTENDS BibakSocket

CONSTANTS
    LocalFiles,
    UserFiles,     \* names the user may type
    MaxCommands    \* bound on the commands the user gives

ASSUME LocalAssumption == IsFiniteSet(LocalFiles)

Threads == {"main", "sync"}

VARIABLES
    mainPc, syncPc,
    outgoing,      \* pieces each thread has yet to send
    entries, entry,\* what readdir() has yet to return, and what it returned
    commands,      \* commands given so far
    asked,         \* files the user asked to delete or update
    uploads,       \* uploads the synchronising thread began
    mixed          \* whether a thread sent in the middle of the other's message

clientVars == <<mainPc, syncPc, outgoing, entries, entry, commands, asked, uploads, mixed>>

ClientInit ==
    /\ mainPc = "prompt" /\ syncPc = "start"
    /\ outgoing = [t \in Threads |-> << >>]
    /\ entries = {} /\ entry = NoFile
    /\ commands = 0 /\ asked = {} /\ uploads = 0 /\ mixed = FALSE

ClientRuns == mainPc \notin {"done", "aborted", "killed"}
NotCancelled == FALSE    \* mutant
CancelRequested == mainPc = "join"

Runs(t) == ClientRuns /\ (t = "sync" => ~CancelRequested)
Ready(t) == Runs(t) /\ outgoing[t] = << >>
Queue(t, pieces) == outgoing' = [outgoing EXCEPT ![t] = pieces]

(* The process ends and its socket is closed.  The bytes it has not read   *)
(* make the close a reset, and then what is under way to the server may be *)
(* lost.                                                                   *)
ClientEnds(how) ==
    /\ mainPc' = how /\ syncPc' = "ended"
    /\ clientEnd' = "closed"
    /\ up' \in (IF down = << >> THEN {up} ELSE {up, << >>})
    /\ down' = << >>
    /\ entries' = {} /\ entry' = NoFile /\ outgoing' = [t \in Threads |-> << >>]
    /\ commands' = 0
    /\ UNCHANGED <<serverEnd, asked, uploads>>
-----------------------------------------------------------------------------
(* send(): once the server has closed, it is for nothing or raises SIGPIPE. *)
Other(t) == CHOOSE u \in Threads : u # t
MidMessage(t) == outgoing[t] # << >> /\ Head(outgoing[t])[1] # "op"

SendPiece(t) ==
    /\ Runs(t) /\ outgoing[t] # << >>
    /\ mixed' = (mixed \/ (Connected /\ MidMessage(Other(t))))
    /\ \/ /\ up' = IF Connected THEN Append(up, Head(outgoing[t])) ELSE up
          /\ Queue(t, Tail(outgoing[t]))
          /\ UNCHANGED <<down, clientEnd, serverEnd, mainPc, syncPc, entries, entry,
                         commands, asked, uploads>>
       \/ clientEnd = "open" /\ serverEnd = "closed" /\ ClientEnds("killed")

(* synchronize(): the name of the directory, and what is in it unless      *)
(* opendir() fails.                                                        *)
SyncStart ==
    /\ Ready("sync") /\ syncPc = "start"
    /\ \E listing \in SetToSeqs(LocalFiles) \cup {<< >>} :
          Queue("sync", <<Dir>> \o [i \in DOMAIN listing |-> Name(listing[i])])
    /\ syncPc' = "pass"
    /\ UNCHANGED <<mainPc, entries, entry, commands, asked, uploads, mixed, socketVars>>

(* One pass over the directory.  When opendir() fails the thread closes    *)
(* the socket and frees its argument.                                      *)
SyncPass ==
    /\ Ready("sync") /\ syncPc = "pass"
    /\ \/ syncPc' = "entry" /\ entries' = LocalFiles /\ UNCHANGED clientEnd
       \/ syncPc' = "freed" /\ clientEnd' = "closed" /\ UNCHANGED entries
    /\ UNCHANGED <<mainPc, outgoing, entry, commands, asked, uploads, mixed, up, down,
                   serverEnd>>

SyncEntry ==
    /\ Ready("sync") /\ syncPc = "entry"
    /\ \/ \E f \in entries :
             /\ entry' = f /\ entries' = entries \ {f}
             /\ Queue("sync", <<Op("check"), Name(f)>>)
             /\ syncPc' = "answer"
       \/ /\ entries = {} /\ syncPc' = "pass"
          /\ UNCHANGED <<entry, entries, outgoing>>
    /\ UNCHANGED <<mainPc, commands, asked, uploads, mixed, socketVars>>

SendFile(f) ==
    \/ Queue("sync", << >>) /\ UNCHANGED uploads                 \* fopen() fails
    \/ Queue("sync", <<Op("upload"), Path(f), Data>>) /\ uploads' = uploads + 1

(* recv(): whatever is there is the answer.  At the end of the stream the  *)
(* pass is over.                                                           *)
Exists(batch) == batch = <<Name("exists")>>

SendAnyway == SendFile(entry)    \* mutant
GiveUp == UNCHANGED <<outgoing, uploads>>

SyncAnswer ==
    /\ Ready("sync") /\ syncPc \in {"answer", "stamp"}
    /\ \/ \E batch \in Batches(down) :
             /\ down' = Rest(down, batch)
             /\ \/ /\ syncPc = "answer" /\ Exists(batch)
                   /\ Queue("sync", <<Op("timestamp"), Name(entry)>>)
                   /\ syncPc' = "stamp" /\ UNCHANGED uploads
                \/ /\ syncPc = "answer" /\ ~Exists(batch)
                   /\ SendFile(entry)
                   /\ syncPc' = "entry"
                \/ /\ syncPc = "stamp"     \* strtol() against the file's mtime
                   /\ SendFile(entry) \/ UNCHANGED <<outgoing, uploads>>
                   /\ syncPc' = "entry"
             /\ UNCHANGED entries
       \/ /\ down = << >> /\ serverEnd = "closed"
          /\ syncPc' = "pass" /\ entries' = {} /\ GiveUp
          /\ UNCHANGED down
    /\ UNCHANGED <<mainPc, entry, commands, asked, mixed, up, clientEnd, serverEnd>>
-----------------------------------------------------------------------------
(* The main thread: a command, and the pieces it sends.                    *)
Command ==
    /\ Ready("main") /\ mainPc = "prompt" /\ commands < MaxCommands
    /\ commands' = commands + 1
    /\ \E f \in UserFiles :
          \/ /\ \E o \in {"upload", "update"} :
                   /\ \/ Queue("main", <<Op(o), Name(f), Data>>)
                      \/ Queue("main", <<Op(o), Name(f)>>)      \* fopen() fails
                   /\ asked' = IF o = "update" THEN asked \cup {f} ELSE asked
          \/ /\ Queue("main", <<Op("delete"), Name(f)>>)
             /\ asked' = asked \cup {f}
    /\ UNCHANGED <<mainPc, syncPc, entries, entry, uploads, mixed, socketVars>>

Exit ==                \* pthread_cancel()
    /\ Ready("main") /\ mainPc = "prompt"
    /\ mainPc' = "join"
    /\ UNCHANGED <<syncPc, outgoing, entries, entry, commands, asked, uploads, mixed,
                   socketVars>>

(* The thread ends where it is, or at its next send, recv, opendir or sleep. *)
Cancelled ==
    /\ CancelRequested /\ syncPc \notin {"ended", "freed"}
    /\ syncPc' = "ended" /\ Queue("sync", << >>)
    /\ entries' = {} /\ entry' = NoFile
    /\ UNCHANGED <<mainPc, commands, asked, uploads, mixed, socketVars>>

(* A thread that ended by itself has freed its argument already: free()    *)
(* finds it twice and aborts.                                              *)
Joined ==
    /\ mainPc = "join" /\ syncPc \in {"ended", "freed"}
    /\ ClientEnds(IF syncPc = "freed" THEN "aborted" ELSE "done")
    /\ UNCHANGED mixed

handleClientSIGINT ==
    /\ ClientRuns
    /\ ClientEnds("done")
    /\ UNCHANGED mixed

SyncStep == SendPiece("sync") \/ SyncStart \/ SyncPass \/ SyncEntry \/ SyncAnswer \/ Cancelled
MainStep == SendPiece("main") \/ Joined
UserStep == Command \/ Exit \/ handleClientSIGINT
ClientStep == SyncStep \/ MainStep \/ UserStep
=============================================================================
