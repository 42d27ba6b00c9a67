------------------------ MODULE BiboFilesProperties ------------------------
(***************************************************************************)
(* What the children do to the files, however they interleave.             *)
(***************************************************************************)
EXTENDS BiboFiles, SequencesExt

(* The code compares num_files neither with MAX_FILES nor with 0, so the   *)
(* table is what the code takes it for only as long as there is an entry   *)
(* for every upload and a file for every download.                         *)
Asking(op) == {c \in Children : \E r \in Requests[c] : r.op = op}

Capacity == /\ Cardinality(Listed) + Cardinality(Asking("upload")) <= MAX_FILES
            /\ Cardinality(Asking("download")) <= Cardinality(Listed)

TypeOK ==
    /\ files \in [Indices -> [name : Names \cup {NoName}, fd : Listed \cup {Foreign, NoFd},
                              users : [Users -> Int]]]
    /\ num_files \in Int /\ num_files <= MAX_FILES
    /\ disk \in [Names -> {"absent", "listed", "new"}]
    /\ offset \in [Listed -> Nat] /\ DOMAIN contents = Listed
    /\ DOMAIN pc = Children /\ \A c \in Children : index[c] \in 0..MAX_FILES

(* The size is found by lseek to the end (biboServer.c:219) and nothing    *)
(* but appends moves the one offset of a file: there is never anything     *)
(* before it, so neither readF nor download reads a byte and no line is    *)
(* found by writeT.                                                        *)
NothingIsRead == /\ \A f \in Listed : offset[f] >= Len(contents[f])
                 /\ \A c \in Children : got[c] = 0

(* The test of the counters and their increment are not one step (375-379) *)
(* and two writers may be at a file, but no text is lost: they share the   *)
(* offset, and the second to write continues behind the first.  Only an    *)
(* upload empties a file.                                                  *)
AppendsKept ==
    [][\A f \in Listed : \/ IsPrefix(contents[f], contents'[f])
                         \/ contents'[f] = << >>]_vars

(* A download whose table nobody else used at the time, and an upload that *)
(* met no other, leave the table as the directory is, each name once: an   *)
(* entry is for a file that is there or for one that could not be created  *)
(* (450) and is then not there; but for files that a refused request has   *)
(* unlinked (290).                                                         *)
InTable  == {i \in Indices : i < num_files}
Refused  == {request[c].name : c \in {d \in Children : Op(d) = "other"}}
OnDisk   == {f \in Names : disk[f] # "absent"}
Present  == {files[i].name : i \in {j \in InTable : files[j].fd # NoFd}}

TableTruthful ==
    ~disturbed /\ ~(\E c \in Children : Changing(c)) =>
        /\ Present \ Refused = OnDisk \ Refused
        /\ \A i, j \in InTable : files[i].name = files[j].name => i = j

(* A file goes away because a request names it: one to download it, or one *)
(* that is refused, when unlink(buffer) takes it for the FIFO's name.  A   *)
(* download that another one overtakes deletes a file nobody named.        *)
DeletesRequested ==
    [][\A f \in Names : disk[f] # "absent" /\ disk'[f] = "absent" =>
          \/ disturbed
          \/ \E c \in Children : request[c].name = f /\ pc'[c] # pc[c]
                                 /\ Op(c) \in {"download", "other"}]_vars

(* A reader never waits, whatever the others do.  A writer or a download   *)
(* waits for ever only when a child died at a file with its counter raised *)
(* (fdopen gives NULL at 313 and 382), or an update of a counter was lost. *)
LeftBehind == disturbed \/ \E d \in Children : At(d, "crashed")

EverybodyEnds ==
    \A c \in Children :
        (At(c, "scan") /\ Op(c) = "readF") \/ At(c, "waitReaders")
        ~> pc[c] \in {"done", "crashed"} \/ (Op(c) # "readF" /\ LeftBehind)
-----------------------------------------------------------------------------
(* biboServer.c:480: a download is to "send and delete a file": it has     *)
(* read the file when it unlinks it.  It has not.                          *)
SentBeforeDeleted ==
    \A c \in Children : At(c, "unlink") /\ Fd(c) \in Listed => got[c] >= Len(contents[Fd(c)])
=============================================================================
