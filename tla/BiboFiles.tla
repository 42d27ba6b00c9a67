----------------------------- MODULE BiboFiles -----------------------------
(***************************************************************************)
(* The table of files of the forking file server (MIDTERM PROJECT/         *)
(* biboServer.c), in shared memory, and the children that work on it, one  *)
(* request each.  There is no lock: every access of a counter is a load or *)
(* a store, and a child keeps an index into the table from one step to the *)
(* next.                                                                   *)
(*                                                                         *)
(* The children inherit the server's descriptors, so they share one offset *)
(* per file that was there when the server started.  The number a child    *)
(* gets for a file it creates (Foreign) means nothing in the others, and   *)
(* one it could not create (NoFd, -1) nothing to anybody.                  *)
(* What an uninitialised descriptor refers to is a choice.  The answer     *)
(* goes to a FIFO named by an uninitialised pid and is left out.           *)
(***************************************************************************)
EXTENDS Integers, Sequences, FiniteSets

CONSTANTS
    MAX_FILES,
    Children,
    Names,
    Listed,      \* the regular files in the directory when the server starts
    Requests,    \* Requests[c]: what may be read from the FIFO of child c
    Text,        \* Text[c]: what child c is asked to write
    Old,         \* what the files contain at the start
    Message,     \* an error message that ends up in a file
    Hole, NoName, Foreign, NoFd

Scanned == {"readF", "writeT", "upload", "download"}
Ops     == Scanned \cup {"killServer", "other"}

ASSUME ListedAssumption ==
    /\ IsFiniteSet(Names) /\ Listed \subseteq Names
    /\ MAX_FILES \in Nat /\ Cardinality(Listed) <= MAX_FILES
    /\ NoFd \notin Listed \cup {Foreign}
ASSUME RequestsAssumption ==
    /\ IsFiniteSet(Children)
    /\ \A c \in Children : \A r \in Requests[c] :
          /\ r \in [op : Ops, name : Names \cup {NoName}, line : Int]
          /\ r.op \in Scanned => r.name \in Names

Indices == 0..(MAX_FILES - 1)
Users   == {"readers", "writers"}
Entry(f, fd) == [name |-> f, fd |-> fd, users |-> [u \in Users |-> 0]]
NoEntry == Entry(NoName, Foreign)
Idle    == [op |-> "none", name |-> NoName, line |-> 0]

VARIABLES
    files, num_files,  \* the table in shared memory
    disk,        \* each name in the directory: "absent", "listed" or "new"
    contents, offset,  \* each listed file, and the offset all children share
    pc,          \* where each child is
    request,     \* the request it read
    index,       \* its variables i and index
    loaded,      \* the counter value it has loaded
    got,         \* pieces it has read from the file
    disturbed    \* whether a change of the table met another use of it, or an
                 \* update of a counter was lost

tableVars == <<files, num_files, disturbed>>
diskVars  == <<disk, contents, offset>>
childVars == <<request, index, loaded, got>>
vars == <<tableVars, diskVars, pc, childVars>>

StartOfFile(s) == 0          \* mutant
EndOfFile(s) == Len(s)

(* list_files: the directory's regular files, in any order, each opened    *)
(* and its size found by lseek(SEEK_END).                                  *)
Init ==
    /\ num_files = Cardinality(Listed)
    /\ \E place \in [0..(num_files - 1) -> Listed] :
          /\ \A f \in Listed : \E i \in DOMAIN place : place[i] = f
          /\ files = [i \in Indices |-> IF i \in DOMAIN place THEN Entry(place[i], place[i])
                                                            ELSE NoEntry]
    /\ disk = [f \in Names |-> IF f \in Listed THEN "listed" ELSE "absent"]
    /\ contents = [f \in Listed |-> <<Old>>]
    /\ offset = [f \in Listed |-> EndOfFile(contents[f])]
    /\ pc = [c \in Children |-> "fifo"]
    /\ request = [c \in Children |-> Idle]
    /\ index = [c \in Children |-> 0]
    /\ loaded = [c \in Children |-> 0]
    /\ got = [c \in Children |-> 0]
    /\ disturbed = FALSE
-----------------------------------------------------------------------------
At(c, label) == pc[c] = label
Goto(c, label) == pc' = [pc EXCEPT ![c] = label]

Op(c)   == request[c].op
Line(c) == request[c].line
Fd(c)   == files[index[c]].fd

Changes  == {"upload", "download"}
Using(c) == pc[c] \notin {"fifo", "close", "kill", "done", "crashed"}
Changing(c) == Using(c) /\ Op(c) \in Changes /\ ~At(c, "scan")

(* A change of the table by child c while somebody else uses it.           *)
Meets(others) == disturbed' = (disturbed \/ others # {})
AnyUser(c)    == {d \in Children \ {c} : Using(d)}
AnyChanger(c) == {d \in Children \ {c} : Changing(d)}

(* handle_client: read the request and dispatch it.                        *)
Read(c) ==
    /\ At(c, "fifo")
    /\ \E r \in Requests[c] :
          /\ request' = [request EXCEPT ![c] = r]
          /\ Goto(c, CASE r.op \in Scanned      -> "scan"
                       [] r.op = "killServer"  -> "kill"
                       [] OTHER                -> "close")
    /\ UNCHANGED <<tableVars, diskVars, index, loaded, got>>

(* unlink(buffer): the buffer no longer holds the name of the FIFO but the *)
(* request, here one that is no command (or help) and only a word.         *)
Close(c) ==
    /\ At(c, "close")
    /\ disk' = [f \in Names |-> IF f = request[c].name THEN "absent" ELSE disk[f]]
    /\ Goto(c, "done")
    /\ UNCHANGED <<tableVars, contents, offset, childVars>>

WhenFound(op) == CASE op = "readF"  -> "load"
                   [] op = "upload" -> "done"
                   [] OTHER         -> "waitReaders"

(* for (i = 0; i < num_files; i++): one entry.                             *)
Scan(c) ==
    /\ At(c, "scan")
    /\ IF index[c] >= num_files
       THEN /\ Goto(c, IF Op(c) = "upload" THEN "claim" ELSE "done")
            /\ UNCHANGED index
       ELSE IF files[index[c]].name = request[c].name
       THEN Goto(c, WhenFound(Op(c))) /\ UNCHANGED index
       ELSE index' = [index EXCEPT ![c] = @ + 1] /\ UNCHANGED pc
    /\ UNCHANGED <<tableVars, diskVars, request, loaded, got>>

(* while (readers > 0 || writers > 0) sleep(1)                             *)
Wait(c) ==
    /\ \/ At(c, "waitReaders") /\ files[index[c]].users["readers"] <= 0
          /\ Goto(c, "waitWriters")
       \/ At(c, "waitWriters")
          /\ Goto(c, IF files[index[c]].users["writers"] > 0 THEN "waitReaders"
                                                             ELSE "load")
    /\ UNCHANGED <<tableVars, diskVars, childVars>>

(* readers++, readers--, writers++, writers--                              *)
Role(c) == IF Op(c) = "readF" THEN "readers" ELSE "writers"

Body(c) == CASE Op(c) = "download"               -> "fetch"
             [] Op(c) = "readF"                  -> "read"
             [] Op(c) = "writeT" /\ Line(c) > 0  -> "rewrite"
             [] Op(c) = "writeT" /\ Line(c) <= 0 -> "seek"

Load(c, from, to) ==
    /\ At(c, from)
    /\ loaded' = [loaded EXCEPT ![c] = files[index[c]].users[Role(c)]]
    /\ Goto(c, to)
    /\ UNCHANGED <<tableVars, diskVars, request, index, got>>

Store(c, from, n, to) ==
    /\ At(c, from)
    /\ files' = [files EXCEPT ![index[c]].users[Role(c)] = n]
    /\ disturbed' = (disturbed \/ files[index[c]].users[Role(c)] # loaded[c])
    /\ Goto(c, to)
    /\ UNCHANGED <<num_files, diskVars, childVars>>

NotCounted(c) == loaded[c]      \* mutant
OneLess(c)    == loaded[c] - 1
OneMore(c)    == loaded[c] + 1

Enter(c) == Load(c, "load", "increment") \/ Store(c, "increment", OneMore(c), Body(c))
Leave(c) == \/ Load(c, "leave", "decrement")
            \/ Store(c, "decrement", OneLess(c),
                     IF Op(c) = "download" THEN "unlink" ELSE "done")
-----------------------------------------------------------------------------
(* Reading to the end of what the shared offset has before it.             *)
Ahead(f) == IF Len(contents[f]) > offset[f] THEN Len(contents[f]) - offset[f] ELSE 0

ReadOn(c) ==
    IF Fd(c) \notin Listed THEN UNCHANGED <<offset, got>>
    ELSE /\ got' = [got EXCEPT ![c] = @ + Ahead(Fd(c))]
         /\ offset' = [offset EXCEPT ![Fd(c)] = @ + Ahead(Fd(c))]

(* fdopen() of a descriptor that is not open gives NULL, and fgets() fails. *)
Crashes(c) == Line(c) > 0 /\ Fd(c) \notin Listed

ReadFile(c) ==
    /\ At(c, "read")
    /\ Goto(c, IF Crashes(c) THEN "crashed" ELSE "leave")
    /\ ReadOn(c)
    /\ UNCHANGED <<tableVars, disk, contents, request, index, loaded>>

Fetch(c) ==          \* download: read to the end, sending what was read
    /\ At(c, "fetch")
    /\ ReadOn(c)
    /\ Goto(c, "leave")
    /\ UNCHANGED <<tableVars, disk, contents, request, index, loaded>>

(* write() of a piece at the shared offset, which it advances.             *)
Put(s, o, piece) ==
    [k \in 1..(IF o >= Len(s) THEN o + 1 ELSE Len(s)) |->
        IF k = o + 1 THEN piece ELSE IF k <= Len(s) THEN s[k] ELSE Hole]

WriteTo(f, piece) ==
    /\ contents' = [contents EXCEPT ![f] = Put(@, offset[f], piece)]
    /\ offset' = [offset EXCEPT ![f] = @ + 1]

AppendText(c) ==     \* lseek(SEEK_END), then write()
    /\ \/ /\ At(c, "seek") /\ Goto(c, "append")
          /\ offset' = IF Fd(c) \notin Listed THEN offset
                       ELSE [offset EXCEPT ![Fd(c)] = EndOfFile(contents[Fd(c)])]
          /\ UNCHANGED contents
       \/ /\ At(c, "append") /\ Goto(c, "leave")
          /\ IF Fd(c) \notin Listed THEN UNCHANGED <<contents, offset>>
                                    ELSE WriteTo(Fd(c), Text[c])
    /\ UNCHANGED <<tableVars, disk, childVars>>

(* Find the line after the offset and print over it; if there is none, an  *)
(* error message goes to a descriptor that was never set.                  *)
Rewrite(c) ==
    /\ At(c, "rewrite")
    /\ IF Crashes(c)
       THEN Goto(c, "crashed") /\ UNCHANGED <<contents, offset>>
       ELSE IF Ahead(Fd(c)) >= Line(c)
       THEN /\ Goto(c, "leave")
            /\ contents' = [contents EXCEPT ![Fd(c)][offset[Fd(c)] + Line(c)] = Text[c]]
            /\ offset' = [offset EXCEPT ![Fd(c)] = @ + Line(c)]
       ELSE /\ Goto(c, "misprint")
            /\ offset' = [offset EXCEPT ![Fd(c)] = @ + Ahead(Fd(c))]
            /\ UNCHANGED contents
    /\ UNCHANGED <<tableVars, disk, childVars>>

Misprint(c) ==
    /\ At(c, "misprint") /\ Goto(c, "leave")
    /\ \/ UNCHANGED <<contents, offset>>
       \/ \E f \in Listed : WriteTo(f, Message)
    /\ UNCHANGED <<tableVars, disk, childVars>>
-----------------------------------------------------------------------------
(* num_files++ and num_files--                                             *)
LoadNum(c, from, to) ==
    /\ At(c, from)
    /\ loaded' = [loaded EXCEPT ![c] = num_files]
    /\ Goto(c, to)
    /\ UNCHANGED <<tableVars, diskVars, request, index, got>>

StoreNum(c, from, n, others) ==
    /\ At(c, from)
    /\ num_files' = n
    /\ Meets(others)
    /\ Goto(c, "done")
    /\ UNCHANGED <<files, diskVars, childVars>>

(* download: close, unlink the name at the index, shift what is behind it. *)
NextOne(c) == files[index[c] + 1].name    \* mutant
Found(c) == files[index[c]].name

Unlink(c) ==
    /\ At(c, "unlink")
    /\ disk' = [f \in Names |-> IF f = Found(c) THEN "absent" ELSE disk[f]]
    /\ Goto(c, "shift")
    /\ UNCHANGED <<tableVars, contents, offset, childVars>>

ShiftsOn(i) == i < num_files - 1

Shift(c) ==
    /\ At(c, "shift")
    /\ IF ShiftsOn(index[c])
       THEN /\ files' = [files EXCEPT ![index[c]] = files[index[c] + 1]]
            /\ index' = [index EXCEPT ![c] = @ + 1]
            /\ UNCHANGED pc
       ELSE Goto(c, "loadLess") /\ UNCHANGED <<files, index>>
    /\ Meets(AnyUser(c))
    /\ UNCHANGED <<num_files, diskVars, request, loaded, got>>

Drop(c) == LoadNum(c, "loadLess", "storeLess")
           \/ StoreNum(c, "storeLess", OneLess(c), AnyUser(c))

(* upload: write the entry behind the last one, create the file.  The      *)
(* code does not look whether there is one; MAX_FILES is large enough.     *)
LastSlot == num_files - 1     \* mutant
NextSlot == num_files

Claim(c) ==
    /\ At(c, "claim") /\ num_files < MAX_FILES
    /\ index' = [index EXCEPT ![c] = NextSlot]
    /\ Goto(c, "name")
    /\ UNCHANGED <<tableVars, diskVars, request, loaded, got>>

Creates(f) ==                  \* open(O_CREAT | O_TRUNC)
    /\ disk' = [disk EXCEPT ![f] = IF @ = "absent" THEN "new" ELSE @]
    /\ contents' = IF disk[f] = "listed" THEN [contents EXCEPT ![f] = << >>]
                                         ELSE contents
    /\ UNCHANGED offset

(* The result of open() is not tested: where the file cannot be created,   *)
(* the entry says so and is counted all the same.                          *)
Describe(c, fd) ==
    files' = [files EXCEPT ![index[c]] = Entry(files[index[c]].name, fd)]

Create(c) ==
    LET f == request[c].name IN
    /\ \/ /\ At(c, "name") /\ Goto(c, "create")
          /\ files' = [files EXCEPT ![index[c]].name = f]
          /\ UNCHANGED diskVars
       \/ /\ At(c, "create") /\ Goto(c, "fill")
          /\ \/ Describe(c, Foreign) /\ Creates(f)
             \/ Describe(c, NoFd) /\ UNCHANGED diskVars
    /\ Meets(AnyChanger(c))
    /\ UNCHANGED <<num_files, childVars>>

(* Read from a descriptor that was never set until nothing comes: a file   *)
(* at its end or no descriptor at all ends the loop, a FIFO blocks it.     *)
(* What a terminal or a FIFO yields goes to the file just created.         *)
Fill(c) ==
    /\ At(c, "fill")
    /\ Goto(c, "loadMore")
    /\ UNCHANGED <<tableVars, diskVars, childVars>>

Publish(c) == LoadNum(c, "loadMore", "storeMore")
              \/ StoreNum(c, "storeMore", OneMore(c), AnyChanger(c))

FileStep(c) == ReadFile(c) \/ Fetch(c) \/ AppendText(c) \/ Rewrite(c) \/ Misprint(c)
TableStep(c) == Unlink(c) \/ Shift(c) \/ Drop(c) \/ Claim(c) \/ Create(c) \/ Publish(c)
ChildStep(c) == Close(c) \/ Scan(c) \/ Wait(c) \/ Enter(c) \/ Leave(c) \/ FileStep(c) \/ TableStep(c)

(* killServer: SIGINT to the server, whose handler kills its whole group.  *)
KillServer(c) ==
    /\ At(c, "kill")
    /\ pc' = [d \in Children |-> "crashed"]
    /\ Meets(AnyChanger(c))
    /\ UNCHANGED <<files, num_files, diskVars, childVars>>

AtRest ==
    /\ \A c \in Children : pc[c] \in {"fifo", "done", "crashed", "fill", "waitReaders"}
    /\ UNCHANGED vars

Next == \/ \E c \in Children : Read(c) \/ ChildStep(c) \/ Fill(c) \/ KillServer(c)
        \/ AtRest

Spec == Init /\ [][Next]_vars

(* A child that has read its request keeps running; nobody is obliged to   *)
(* send one, nor to end what an upload reads.                              *)
FairSpec == Spec /\ \A c \in Children : WF_vars(ChildStep(c))
=============================================================================
