---------------------------- MODULE BibakServer ----------------------------
(***************************************************************************)
(* BibakBOXServer.c: the main thread accepts, and a thread serves the      *)
(* client it connected; here there is one.  The server runs in another     *)
(* directory than the one it keeps, so an uploaded file, which is opened   *)
(* by the name it came with, is not in the client's directory.             *)
(***************************************************************************)
EXTENDS BibakSocket

CONSTANTS
    Kept,            \* what may be in the client's directory on the server
    MaxInterrupts    \* bound on the SIGINT sent to the server

ASSUME KeptAssumption == \A directory \in Kept : IsFiniteSet(directory)

VARIABLES
    listener,    \* the main thread: "accept", "handler" or "ended"
    thread,      \* where the client's thread is
    home,        \* whether clientDir is the directory of the client
    names,       \* names it has yet to send
    named,       \* how many it has sent
    store,       \* what is in the client's directory
    removed, created,   \* what was deleted from it; files opened for an upload
    misread,     \* what was deleted for a text that is not one request
    locked,      \* logMutex
    interrupts,  \* SIGINT so far
    server       \* "up", "ended" or "killed" by a signal

serverVars == <<listener, thread, home, names, named, store, removed, created, misread,
                locked, interrupts, server>>

ServerInit ==
    /\ listener = "accept" /\ thread = "none"
    /\ home = FALSE /\ names = << >> /\ named = 0
    /\ store \in Kept /\ removed = {} /\ created = << >> /\ misread = {}
    /\ locked = FALSE /\ interrupts = 0 /\ server = "up"

AtThread(label) == server = "up" /\ thread = label

Accept ==
    /\ server = "up" /\ listener = "accept" /\ thread = "none"
    /\ thread' = "dir"
    /\ UNCHANGED <<listener, home, names, named, store, removed, created, misread, locked,
                   interrupts, server, socketVars>>

Receive(batch) == up' = Rest(up, batch) /\ UNCHANGED <<down, clientEnd, serverEnd>>
EndOfStream == up = << >> /\ clientEnd = "closed"

Closed == serverEnd' = "closed" /\ up' = << >> /\ UNCHANGED <<down, clientEnd>>
HangUp == thread' = "ended" /\ Closed

(* The first text received is taken for the name of the directory, and     *)
(* synchronizeDirectory lists it.  There may be no such directory, and     *)
(* there is none when the names of the client's files came with it.        *)
ReceiveDir ==
    /\ AtThread("dir")
    /\ \/ \E batch \in Batches(up) :
             /\ Receive(batch)
             /\ home' \in (IF batch = <<Dir>> THEN BOOLEAN ELSE {FALSE})
             /\ names' \in (IF home' THEN SetToSeqs(store) ELSE {<< >>})
             /\ thread' = "list"
       \/ EndOfStream /\ HangUp /\ UNCHANGED <<home, names>>
    /\ UNCHANGED <<listener, named, store, removed, created, misread, locked, interrupts,
                   server>>

(* One send().  When the client is gone it may raise SIGPIPE, which ends   *)
(* the whole server.                                                       *)
SendName ==
    /\ AtThread("list")
    /\ \/ /\ names # << >>
          /\ down' = IF Connected THEN Append(down, Name(Head(names))) ELSE down
          /\ names' = Tail(names) /\ named' = named + 1
          /\ UNCHANGED <<thread, server, up, clientEnd, serverEnd>>
       \/ /\ names # << >> /\ clientEnd = "closed"
          /\ server' = "killed" /\ Closed
          /\ names' = << >> /\ UNCHANGED <<named, thread>>
       \/ /\ names = << >> /\ thread' = "loop"
          /\ UNCHANGED <<names, named, server, socketVars>>
    /\ UNCHANGED <<listener, home, store, removed, created, misread, locked, interrupts>>
-----------------------------------------------------------------------------
(* remove(clientDir/filename).  A path names nothing in that directory.    *)
Removable(file) == home /\ file \notin {NoFile, Garbled} /\ file[1] = "name"
                        /\ file[2] \in store

RemoveFile(file) == store' = store \ {file[2]} /\ removed' = removed \cup {file[2]}

(* fopen(filename, "wb"), in the directory the server runs in.             *)
Open(file) == \/ file # NoFile /\ created' = Append(created, file) /\ thread' = "take"
              \/ UNCHANGED <<created, thread>>

Upload(file) == Open(file) /\ UNCHANGED <<store, removed>>

Delete(file) ==
    /\ IF Removable(file) THEN RemoveFile(file) /\ thread' = "lock"
                          ELSE UNCHANGED <<store, removed, thread>>
    /\ UNCHANGED created

Update(file) ==
    IF Removable(file) THEN RemoveFile(file) /\ Open(file)
                       ELSE UNCHANGED <<store, removed, created, thread>>

(* One text: whatever one recv() returns.  Of contents that begin with a   *)
(* null byte, or are nothing but colons, there is no operation, and        *)
(* strcmp(NULL) ends the server.                                           *)
Handle(operation, file) ==
    CASE operation = "upload" -> Upload(file)
      [] operation = "delete" -> Delete(file)
      [] operation = "update" -> Update(file)
      [] OTHER -> UNCHANGED <<store, removed, created, thread>>

ReceiveCommand ==
    /\ AtThread("loop")
    /\ \/ /\ \E batch \in Batches(up) :
                /\ Receive(batch)
                /\ \E r \in Readings(batch, {Name(f) : f \in store}) : Handle(r[1], r[2])
                /\ misread' = IF Alone(batch) THEN misread
                                              ELSE misread \cup (removed' \ removed)
          /\ UNCHANGED server
       \/ /\ up # << >> /\ Head(up) = Data
          /\ server' = "killed" /\ Closed
          /\ UNCHANGED <<store, removed, created, misread, thread>>
       \/ EndOfStream /\ HangUp /\ UNCHANGED <<store, removed, created, misread, server>>
    /\ UNCHANGED <<listener, home, names, named, locked, interrupts>>

(* while ((numBytes = recv(...)) > 0): all that comes goes to the file, so  *)
(* it does not matter in which batches.                                    *)
AfterFile(batch) == IF Last(batch) = Data THEN "lock" ELSE "take"     \* mutant
AfterBatch(batch) == "take"

Take ==
    /\ AtThread("take")
    /\ \/ up # << >> /\ Receive(up) /\ thread' = AfterBatch(up)
       \/ EndOfStream /\ thread' = "lock" /\ UNCHANGED socketVars
    /\ UNCHANGED <<listener, home, names, named, store, removed, created, misread, locked,
                   interrupts, server>>

StillLocked == locked    \* mutant
Unlocked == FALSE

(* writeLog: nothing without the client's directory.                       *)
WriteLog ==
    /\ \/ /\ AtThread("lock") /\ home /\ ~locked
          /\ thread' = "log" /\ locked' = TRUE
       \/ /\ AtThread("lock") /\ ~home
          /\ thread' = "loop" /\ UNCHANGED locked
       \/ /\ AtThread("log")
          /\ thread' = "loop" /\ locked' = Unlocked
    /\ UNCHANGED <<listener, home, names, named, store, removed, created, misread, interrupts,
                   server, socketVars>>

ThreadStep == ReceiveDir \/ SendName \/ ReceiveCommand \/ Take \/ WriteLog
-----------------------------------------------------------------------------
(* SIGINT goes to the main thread as long as it is not in the handler or   *)
(* ended, and then to the client's thread.  There the handler ends the     *)
(* thread, or waits for ever for a mutex that the thread itself holds.     *)
Interrupt ==
    /\ server = "up" /\ interrupts < MaxInterrupts
    /\ interrupts' = interrupts + 1
    /\ IF listener = "accept"
       THEN /\ listener' = IF locked THEN "handler" ELSE "ended"
            /\ UNCHANGED <<thread, names>>
       ELSE /\ thread \notin {"none", "ended", "stuck"}
            /\ thread' = IF locked THEN "stuck" ELSE "ended"
            /\ names' = << >>
            /\ UNCHANGED listener
    /\ UNCHANGED <<home, named, store, removed, created, misread, locked, server, socketVars>>

(* pthread_mutex_lock in the main thread's handler; then pthread_exit.     *)
HandlerEnds ==
    /\ server = "up" /\ listener = "handler" /\ ~locked
    /\ listener' = "ended"
    /\ UNCHANGED <<thread, home, names, named, store, removed, created, misread, locked,
                   interrupts, server, socketVars>>

(* The process ends with its last thread; a client that was not accepted   *)
(* is refused.                                                             *)
ProcessEnds ==
    /\ server = "up" /\ listener = "ended" /\ thread \in {"none", "ended"}
    /\ server' = "ended" /\ Closed
    /\ UNCHANGED <<listener, thread, home, names, named, store, removed, created, misread,
                   locked, interrupts>>

ServerThreads == Accept \/ ThreadStep \/ HandlerEnds \/ ProcessEnds
ServerStep == ServerThreads \/ Interrupt
=============================================================================
