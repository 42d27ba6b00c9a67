---------------------------- MODULE BiboThreads ----------------------------
(***************************************************************************)
(* The threaded file server and its client (HW4/biboServer.c,              *)
(* HW4/biboClient.c): one server thread per connection, one user per       *)
(* client, a directory of text files, and one mutex, taken by writeT only. *)
(*                                                                         *)
(* A connection is a byte stream: what was sent separately may be received *)
(* together.  A message is the index of the command it carries (0 for the  *)
(* server_pid the client sends first) and the command; a response is what  *)
(* the server's response buffer holds, and the index it answers.           *)
(***************************************************************************)
EXTENDS TextLines, Integers, SequencesExt

CONSTANTS
    Clients, Names, Junk, Absent, Initial,
    Commands,      \* Commands[c]: what c's user types, [op, name, line, text]
    MaxCommands,   \* bound on the commands of one client
    Impatient,     \* clients whose user may press Ctrl-C
    OperatorStops  \* whether the server's operator may press Ctrl-C

NoOne == "nobody"

(* What may be typed: "other" is no command, "empty" an empty line.        *)
Ops == {"help", "list", "readF", "writeT", "upload", "download", "quit", "killServer",
        "other", "empty"}
Nothing == [op |-> "pid", name |-> Junk, line |-> 0, text |-> << >>]

(* What a file may hold: the text of the commands, of the files that are   *)
(* there at the start, and what coalesced messages make of it.             *)
AllCommands == UNION {Commands[c] : c \in Clients}
Pieces == {NL, Junk} \cup UNION {{d.text[k] : k \in DOMAIN d.text} : d \in AllCommands}
          \cup UNION {IF Initial[f] = Absent THEN {}
                      ELSE {Initial[f][k] : k \in DOMAIN Initial[f]} : f \in Names}

ASSUME ClientsAssumption == NoOne \notin Clients
ASSUME OperatorAssumption == OperatorStops \in BOOLEAN
ASSUME JunkAssumption == Junk \in Names /\ Absent \notin Seq(Pieces)
ASSUME InitialAssumption == Initial \in [Names -> {Absent} \cup Seq(Pieces)]
ASSUME CommandsAssumption ==
    /\ MaxCommands \in Nat
    /\ \A d \in AllCommands :
          d \in [op : Ops, name : Names, line : Nat, text : Seq(Pieces)]

VARIABLES
    contents,  \* the directory: Absent, or the pieces of each file
    mutex,     \* holder of the mutex, or NoOne
    server,    \* "up", "interrupted" by its operator, or "down": killServer was
               \* asked for, or a signal the server does not handle killed it
    pc,        \* where each connection's thread is
    cmd, id,   \* the command it works on, and the index it will answer
    response,  \* its response buffer
    pending,   \* writeT's file: where it will be written, and what
    inbox,     \* bytes sent by the client and not yet received
    outbox,    \* bytes sent by the server and not yet received
    link,      \* the server's end of the connection
    user,      \* where each client's main loop is
    typed, asked, \* number of commands typed so far, and the last one
    shown      \* indices answered by the last response the client printed

fileVars == <<contents, pending>>
taskVars == <<cmd, id>>
userVars == <<user, typed, asked, shown>>
vars == <<fileVars, mutex, server, pc, taskVars, response, inbox, outbox, link,
          userVars>>

Init ==
    /\ contents = Initial
    /\ pending = [c \in Clients |-> [at |-> 0, new |-> << >>]]
    /\ mutex = NoOne /\ server = "up"
    /\ pc = [c \in Clients |-> "none"]
    /\ cmd = [c \in Clients |-> Nothing] /\ id = [c \in Clients |-> 0]
    /\ response = [c \in Clients |-> "undefined"]
    /\ inbox = [c \in Clients |-> << >>] /\ outbox = [c \in Clients |-> << >>]
    /\ link = [c \in Clients |-> "none"]
    /\ user = [c \in Clients |-> "start"]
    /\ typed = [c \in Clients |-> 0] /\ asked = [c \in Clients |-> Nothing]
    /\ shown = [c \in Clients |-> {}]

Goto(c, label) == pc' = [pc EXCEPT ![c] = label]
Answer(c, kind) == response' = [response EXCEPT ![c] = kind] /\ Goto(c, "send")
-----------------------------------------------------------------------------
(* Receiving a command.  The thread parses what recv() returned as one     *)
(* command: the first one, with the bytes of the others at its end, which  *)
(* makes its last argument another one.                                    *)
Garbled(d) ==
    IF d.op = "writeT" THEN [d EXCEPT !.text = Append(@, Junk)]
    ELSE IF d.op \in {"upload", "download"} \/ (d.op = "readF" /\ d.line = 0)
    THEN [d EXCEPT !.name = Junk]
    ELSE d

Recv(c) ==
    /\ pc[c] = "recv"
    /\ \/ \E n \in 1..Len(inbox[c]) :
             /\ inbox' = [inbox EXCEPT ![c] = SubSeq(@, n + 1, Len(@))]
             /\ id' = [id EXCEPT ![c] = inbox[c][1].id]
             /\ cmd' = [cmd EXCEPT ![c] = IF n = 1 THEN inbox[c][1].cmd
                                                   ELSE Garbled(inbox[c][1].cmd)]
             /\ Goto(c, IF cmd'[c].op = "writeT" THEN "lock" ELSE "work")
       \/ /\ inbox[c] = << >> /\ link[c] # "open"
          /\ Goto(c, "exited")
          /\ UNCHANGED <<inbox, taskVars>>
    /\ UNCHANGED <<fileVars, mutex, server, response, outbox, link, userVars>>

(* The commands other than writeT, which take no lock.                     *)
Exists(f) == contents[f] # Absent

Inform(c) ==
    /\ pc[c] = "work" /\ cmd[c].op \in {"help", "list"}
    /\ Answer(c, IF cmd[c].op = "help" THEN "commands" ELSE "names")
    /\ UNCHANGED <<fileVars, mutex, server, taskVars, inbox, outbox, link, userVars>>

Acknowledge(c) ==
    /\ pc[c] = "work" /\ cmd[c].op \notin {"help", "list", "readF", "upload"}
    /\ Answer(c, CASE cmd[c].op = "quit"       -> "Quitting"
                   [] cmd[c].op = "killServer" -> "shutting down"
                   [] cmd[c].op = "download"   ->
                         IF Exists(cmd[c].name) THEN "downloaded" ELSE "not found"
                   [] OTHER                    -> "Invalid command")
    /\ UNCHANGED <<fileVars, mutex, server, taskVars, inbox, outbox, link, userVars>>

ReadF(c) ==
    /\ pc[c] = "work" /\ cmd[c].op = "readF"
    /\ Answer(c, IF /\ Exists(cmd[c].name)
                    /\ cmd[c].line <= LineCount(contents[cmd[c].name])
                 THEN "content" ELSE "not found")
    /\ UNCHANGED <<fileVars, mutex, server, taskVars, inbox, outbox, link, userVars>>

(* fopen(filepath, "w"), which may fail, and fclose(file): no data follows. *)
Upload(c) ==
    /\ pc[c] = "work" /\ cmd[c].op = "upload"
    /\ \/ /\ contents' = [contents EXCEPT ![cmd[c].name] = << >>]
          /\ Answer(c, "uploaded")
       \/ /\ UNCHANGED contents
          /\ Answer(c, "failed")
    /\ UNCHANGED <<pending, mutex, server, taskVars, inbox, outbox, link, userVars>>
-----------------------------------------------------------------------------
(* writeT.  What is printed to the FILE reaches the file at fclose().      *)
NoLocking == TRUE    \* mutant
MutexFree == mutex = NoOne

Lock(c) ==
    /\ pc[c] = "lock" /\ MutexFree
    /\ mutex' = c
    /\ Goto(c, "fopen")
    /\ UNCHANGED <<fileVars, server, taskVars, response, inbox, outbox, link, userVars>>

AppendOffset(s) == Len(s)

Prepare(c, offset, pieces, label) ==
    /\ pending' = [pending EXCEPT ![c] = [at |-> offset, new |-> pieces]]
    /\ Goto(c, label)

(* The result of a fopen() for writing is not looked at: when it fails,    *)
(* fprintf() or fseek() is given NULL, and SIGSEGV ends the process.       *)
Crash(c) ==
    /\ server' = "down"
    /\ Goto(c, "crashed")
    /\ UNCHANGED <<fileVars, response>>

FOpen(c) ==
    LET f == cmd[c].name  s == contents[f]  n == cmd[c].line  t == cmd[c].text
    IN
    /\ pc[c] = "fopen"
    /\ \/ /\ ~Exists(f)
          /\ contents' = [contents EXCEPT ![f] = << >>]
          /\ Prepare(c, 0, t, "fclose")
          /\ UNCHANGED <<response, server>>
       \/ /\ Exists(f) /\ n = 0
          /\ Prepare(c, AppendOffset(s), t, "fclose")
          /\ UNCHANGED <<contents, response, server>>
       \/ /\ Exists(f) /\ n > 0 /\ n <= LineCount(s)
          /\ Prepare(c, 0, ReplaceLine(s, n, t), "rewrite")
          /\ UNCHANGED <<contents, response, server>>
       \/ /\ Exists(f) /\ n > LineCount(s)
          /\ response' = [response EXCEPT ![c] = "not found"]
          /\ Goto(c, "unlock")
          /\ UNCHANGED <<fileVars, server>>
       \/ Crash(c)
    /\ UNCHANGED <<mutex, taskVars, inbox, outbox, link, userVars>>

Rewrite(c) ==        \* fopen(filepath, "w"): the file is empty until fclose()
    /\ pc[c] = "rewrite"
    /\ \/ /\ contents' = [contents EXCEPT ![cmd[c].name] = << >>]
          /\ Goto(c, "fclose")
          /\ UNCHANGED <<pending, server, response>>
       \/ Crash(c)
    /\ UNCHANGED <<mutex, taskVars, inbox, outbox, link, userVars>>

(* Mutant: strlen(text) + 1 bytes, the string's terminator with them.      *)
WithTerminator(s, at, new) == SubSeq(s, 1, at) \o new \o <<0>>

(* Pieces stored at an offset; a file cut short meanwhile gets a hole.     *)
Stored(s, at, new) ==
    [k \in 1..(IF at + Len(new) > Len(s) THEN at + Len(new) ELSE Len(s)) |->
        IF k > at /\ k <= at + Len(new) THEN new[k - at]
        ELSE IF k <= Len(s) THEN s[k] ELSE Junk]

FClose(c) ==
    /\ pc[c] = "fclose"
    /\ contents' = [contents EXCEPT ![cmd[c].name] =
                       Stored(@, pending[c].at, pending[c].new)]
    /\ Goto(c, "unlock")
    /\ UNCHANGED <<pending, mutex, server, taskVars, response, inbox, outbox, link,
                   userVars>>

(* The response buffer still holds the previous response, unless writeT is *)
(* the first command of all: then its first byte is undefined.             *)
Unlock(c) ==
    /\ pc[c] = "unlock"
    /\ mutex' = NoOne
    /\ Goto(c, "send")
    /\ \E blank \in BOOLEAN :
          response' = [response EXCEPT ![c] =
                         IF @ = "undefined" /\ blank THEN "Write successful" ELSE @]
    /\ UNCHANGED <<fileVars, server, taskVars, inbox, outbox, link, userVars>>
-----------------------------------------------------------------------------
(* Answering.  The first send() to a client that is gone breaks the link,  *)
(* the next one raises SIGPIPE, which ends the process.                    *)
Exit == server' = "down" /\ UNCHANGED <<mutex, fileVars>>

AfterSend(c) == CASE cmd[c].op = "quit"       -> "exited"
                  [] cmd[c].op = "killServer" -> "raise"
                  [] OTHER                    -> "recv"

GreetingIgnored(c) == link[c] = "open" /\ cmd[c].op # "pid"   \* mutant
Reaches(c) == link[c] = "open"

Send(c) ==
    /\ pc[c] = "send"
    /\ IF Reaches(c)
       THEN outbox' = [outbox EXCEPT ![c] = Append(@, [id |-> id[c], text |-> response[c]])]
       ELSE UNCHANGED outbox
    /\ IF link[c] = "broken" THEN Exit ELSE UNCHANGED <<server, mutex, fileVars>>
    /\ link' = [link EXCEPT ![c] = IF @ = "open" THEN @ ELSE "broken"]
    /\ Goto(c, AfterSend(c))
    /\ UNCHANGED <<taskVars, response, inbox, userVars>>

(* signal_handler: destroy the mutex and exit(), which flushes what was    *)
(* printed so far of a file being rewritten.                               *)
SignalHandler ==
    /\ \/ UNCHANGED contents
       \/ \E c \in Clients :
             /\ pc[c] = "fclose"
             /\ \E n \in 0..Len(pending[c].new) :
                   contents' = [contents EXCEPT ![cmd[c].name] =
                                  Stored(@, pending[c].at, SubSeq(pending[c].new, 1, n))]
    /\ UNCHANGED <<pending, mutex>>

Raise(c) ==
    /\ pc[c] = "raise"
    /\ server' = "down"
    /\ SignalHandler
    /\ UNCHANGED <<pc, taskVars, response, inbox, outbox, link, userVars>>

Interrupt ==         \* the operator's Ctrl-C, taken by any thread of the server
    /\ OperatorStops /\ server = "up"
    /\ server' = "interrupted"
    /\ SignalHandler
    /\ UNCHANGED <<pc, taskVars, response, inbox, outbox, link, userVars>>

ThreadStep(c) ==
    /\ server = "up"
    /\ \/ Recv(c) \/ Inform(c) \/ Acknowledge(c) \/ ReadF(c) \/ Upload(c)
       \/ Lock(c) \/ FOpen(c) \/ Rewrite(c) \/ FClose(c) \/ Unlock(c) \/ Send(c) \/ Raise(c)
-----------------------------------------------------------------------------
(* The client: connect, send server_pid, then one command after the other. *)
Message(n, d) == [id |-> n, cmd |-> d]

NoGreeting    == << >>                                       \* mutant
GreetingTwice == <<Message(0, Nothing), Message(0, Nothing)>> \* mutant
Greeting      == <<Message(0, Nothing)>>

CloseSocket(c) ==
    /\ user' = [user EXCEPT ![c] = "exited"]
    /\ link' = [link EXCEPT ![c] = IF @ = "open" THEN "closed" ELSE @]

(* accept_clients: a thread of its own for the connection.                 *)
Accept(c) ==
    /\ link' = [link EXCEPT ![c] = "open"]
    /\ Goto(c, "recv")

Connect(c) ==
    /\ user[c] = "start"
    /\ IF server = "up"
       THEN /\ user' = [user EXCEPT ![c] = "prompt"]
            /\ Accept(c)
            /\ inbox' = [inbox EXCEPT ![c] = Greeting]
       ELSE /\ user' = [user EXCEPT ![c] = "exited"]
            /\ UNCHANGED <<link, inbox, pc>>
    /\ UNCHANGED <<fileVars, mutex, server, taskVars, response, outbox, typed, asked,
                   shown>>

(* An empty line is sent as no bytes at all.                               *)
Type(c) ==
    /\ user[c] = "prompt" /\ typed[c] < MaxCommands
    /\ \E d \in Commands[c] :
          /\ asked' = [asked EXCEPT ![c] = d]
          /\ typed' = [typed EXCEPT ![c] = @ + 1]
          /\ inbox' = IF d.op = "empty" THEN inbox
                      ELSE [inbox EXCEPT ![c] = Append(@, Message(typed'[c], d))]
    /\ user' = [user EXCEPT ![c] = "await"]
    /\ UNCHANGED <<fileVars, mutex, server, pc, taskVars, response, outbox, link, shown>>

ServerClosed(c) == server # "up" \/ pc[c] = "exited"

Receive(c) ==
    /\ user[c] = "await"
    /\ \/ \E n \in 1..Len(outbox[c]) :
             /\ outbox' = [outbox EXCEPT ![c] = SubSeq(@, n + 1, Len(@))]
             /\ shown' = [shown EXCEPT ![c] = {outbox[c][k].id : k \in 1..n}]
             /\ IF asked[c].op \in {"quit", "killServer"}
                THEN CloseSocket(c)
                ELSE user' = [user EXCEPT ![c] = "prompt"] /\ UNCHANGED link
       \/ /\ outbox[c] = << >> /\ ServerClosed(c)
          /\ UNCHANGED <<outbox, shown>>
          /\ CloseSocket(c)
    /\ UNCHANGED <<fileVars, mutex, server, pc, taskVars, response, inbox, typed, asked>>

CtrlC(c) ==
    /\ c \in Impatient /\ user[c] \in {"prompt", "await"}
    /\ CloseSocket(c)
    /\ UNCHANGED <<fileVars, mutex, server, pc, taskVars, response, inbox, outbox,
                   typed, asked, shown>>

ClientStep(c) == Connect(c) \/ Type(c) \/ Receive(c) \/ CtrlC(c)

(* The server has ended, or every thread waits for its client to send.     *)
AtRest ==
    /\ \/ server # "up"
       \/ \A c \in Clients :
             \/ pc[c] \in {"none", "exited"}
             \/ pc[c] = "recv" /\ inbox[c] = << >> /\ link[c] = "open"
    /\ UNCHANGED vars

Next == \/ \E c \in Clients : ThreadStep(c) \/ ClientStep(c)
        \/ Interrupt
        \/ AtRest

Spec == Init /\ [][Next]_vars

(* Every thread and every client process keeps running; a user is not      *)
(* obliged to type.                                                        *)
FairSpec == /\ Spec
            /\ \A c \in Clients : WF_vars(ThreadStep(c)) /\ WF_vars(Receive(c))
=============================================================================
