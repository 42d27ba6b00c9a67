----------------------------- MODULE BibakProof -----------------------------
(***************************************************************************)
(* Proofs about Bibak, for every set of files on either side, every number *)
(* of commands and of signals.                                             *)
(***************************************************************************)
EXTENDS Bibak, SequenceTheorems, FiniteSetTheorems, TLAPS

USE KeptAssumption

(* What is received, and what the server has yet to send.                  *)
StreamInv ==
    /\ down \in Seq(Names)
    /\ names \in Seq(Files)
    /\ store \subseteq UNION Kept /\ IsFiniteSet(store)
    /\ uploads \in Nat /\ named \in Nat

(* A file has been opened for an upload: then its loop is still receiving, *)
(* or there is nothing more to receive, or the thread is at its end.       *)
Spent == up = << >> /\ clientEnd = "closed"

OneFileInv ==
    /\ created = << >> \/ \E file : created = <<file>>
    /\ created # << >> => Spent \/ thread \in {"take", "ended", "stuck"}

(* A name under way may still be taken for an answer.                      *)
AnswersInv == uploads + Len(down) <= named

IInv == StreamInv /\ OneFileInv /\ AnswersInv
-----------------------------------------------------------------------------
(* What recv() takes from a stream, and what it leaves.                    *)
LEMMA RestIsShorter ==
    ASSUME NEW S, NEW stream \in Seq(S), NEW batch \in Batches(stream)
    PROVE  /\ Rest(stream, batch) \in Seq(S)
           /\ Len(Rest(stream, batch)) < Len(stream)
<1>1. PICK n \in 1..Len(stream) : batch = SubSeq(stream, 1, n)
  BY DEF Batches
<1>2. Len(batch) = n
  BY <1>1, SubSeqProperties
<1>3. Rest(stream, batch) = SubSeq(stream, n + 1, Len(stream))
  BY <1>2 DEF Rest
<1> QED BY <1>3, SubSeqProperties

LEMMA NothingToReceive == Batches(<< >>) = {}
BY DEF Batches

(* A directory can be listed in several orders.                            *)
LEMMA ListingIsSequence ==
    ASSUME NEW S, IsFiniteSet(S), NEW listing \in SetToSeqs(S)
    PROVE  listing \in Seq(S)
<1>1. listing \in [1..Cardinality(S) -> S]
  BY DEF SetToSeqs
<1>2. Cardinality(S) \in Nat
  BY FS_CardinalityType
<1> QED BY <1>1, <1>2

LEMMA InitIInv == Init => IInv
<1> SUFFICES ASSUME Init PROVE IInv
  OBVIOUS
<1>1. store \in Kept /\ IsFiniteSet(store)
  BY DEF Init, ServerInit
<1> QED
  BY <1>1 DEF Init, SocketInit, ClientInit, ServerInit, IInv, StreamInv, OneFileInv,
              AnswersInv
-----------------------------------------------------------------------------
(* The client.  Nothing is sent on a stream that is closed, and an upload  *)
(* follows a name received.                                                *)
LEMMA EndsKeepStream ==
    ASSUME IInv, NEW how, ClientEnds(how), UNCHANGED serverVars
    PROVE  IInv'
BY DEF IInv, StreamInv, OneFileInv, AnswersInv, Spent, ClientEnds, serverVars

LEMMA SendKeepsIInv ==
    ASSUME IInv, NEW t \in Threads, SendPiece(t), UNCHANGED serverVars
    PROVE  IInv'
<1>1. CASE \E how : ClientEnds(how)
  BY <1>1, EndsKeepStream
<1>2. CASE /\ up' = IF Connected THEN Append(up, Head(outgoing[t])) ELSE up
           /\ UNCHANGED <<down, clientEnd, uploads>>
  BY <1>2 DEF IInv, StreamInv, OneFileInv, AnswersInv, Spent, Connected, serverVars
<1> QED BY <1>1, <1>2 DEF SendPiece

LEMMA AnswerKeepsIInv ==
    ASSUME IInv, SyncAnswer, UNCHANGED serverVars
    PROVE  IInv'
<1>1. OneFileInv'
  BY DEF IInv, OneFileInv, Spent, SyncAnswer, serverVars
<1>2. CASE \E batch \in Batches(down) :
              down' = Rest(down, batch) /\ (uploads' = uploads \/ uploads' = uploads + 1)
  <2>1. PICK batch \in Batches(down) :
              down' = Rest(down, batch) /\ (uploads' = uploads \/ uploads' = uploads + 1)
    BY <1>2
  <2>2. down' \in Seq(Names) /\ Len(down') < Len(down)
    BY <2>1, RestIsShorter DEF IInv, StreamInv
  <2>3. StreamInv' /\ AnswersInv'
    BY <2>1, <2>2 DEF IInv, StreamInv, AnswersInv, serverVars
  <2> QED BY <1>1, <2>3 DEF IInv
<1>3. CASE UNCHANGED <<down, uploads>>
  BY <1>1, <1>3 DEF IInv, StreamInv, AnswersInv, serverVars
<1> QED BY <1>2, <1>3 DEF SyncAnswer, SendFile, GiveUp

LEMMA ClientKeepsIInv ==
    ASSUME IInv, ClientStep, UNCHANGED serverVars
    PROVE  IInv'
<1>1. CASE SyncStart \/ SyncEntry \/ Cancelled \/ Command \/ Exit
  BY <1>1 DEF IInv, StreamInv, OneFileInv, AnswersInv, Spent, SyncStart, SyncEntry,
              Cancelled, Command, Exit, serverVars, socketVars
<1>2. CASE SyncPass
  BY <1>2 DEF IInv, StreamInv, OneFileInv, AnswersInv, Spent, SyncPass, serverVars
<1>3. CASE Joined \/ handleClientSIGINT
  BY <1>3, EndsKeepStream DEF Joined, handleClientSIGINT
<1>4. CASE SyncAnswer
  BY <1>4, AnswerKeepsIInv
<1>5. CASE SendPiece("sync") \/ SendPiece("main")
  BY <1>5, SendKeepsIInv DEF Threads
<1> QED
  BY <1>1, <1>2, <1>3, <1>4, <1>5 DEF ClientStep, SyncStep, MainStep, UserStep
-----------------------------------------------------------------------------
(* The server.                                                             *)
LEMMA ReceiveDirKeepsIInv ==
    ASSUME IInv, ReceiveDir, UNCHANGED clientVars
    PROVE  IInv'
<1>1. names' \in Seq(Files)
  <2>1. names' \in SetToSeqs(store) => names' \in Seq(store)
    BY ListingIsSequence DEF IInv, StreamInv
  <2>2. names' \in Seq(store) => names' \in Seq(Files)
    BY SeqMonotonic DEF IInv, StreamInv, Files
  <2>3. names' = names \/ names' \in SetToSeqs(store) \/ names' = << >>
    BY DEF ReceiveDir
  <2> QED BY <2>1, <2>2, <2>3, EmptySeq DEF IInv, StreamInv
<1>2. OneFileInv'
  BY NothingToReceive
     DEF IInv, OneFileInv, Spent, ReceiveDir, AtThread, Receive, HangUp, Closed
<1> QED
  BY <1>1, <1>2 DEF IInv, StreamInv, AnswersInv, ReceiveDir, Receive, HangUp, Closed,
                    clientVars

LEMMA SendNameKeepsIInv ==
    ASSUME IInv, SendName, UNCHANGED clientVars
    PROVE  IInv'
<1>1. OneFileInv'
  BY DEF IInv, OneFileInv, Spent, SendName, AtThread, Closed, socketVars
<1>2. names' \in Seq(Files)
  <2>1. names \in Seq(Files)
    BY DEF IInv, StreamInv
  <2>2. names' = names \/ names' = << >> \/ (names # << >> /\ names' = Tail(names))
    BY DEF SendName
  <2>3. names # << >> => Tail(names) \in Seq(Files)
    BY <2>1
  <2> QED BY <2>1, <2>2, <2>3, EmptySeq
<1>3. CASE names # << >> /\ named' = named + 1
           /\ down' = IF Connected THEN Append(down, Name(Head(names))) ELSE down
  <2>1. Name(Head(names)) \in Names
    BY <1>3 DEF IInv, StreamInv, Names
  <2>2. down' \in Seq(Names) /\ Len(down') <= Len(down) + 1
    BY <1>3, <2>1 DEF IInv, StreamInv
  <2> QED
    BY <1>1, <1>2, <1>3, <2>2 DEF IInv, StreamInv, AnswersInv, SendName, clientVars
<1>4. CASE UNCHANGED <<named, down>>
  BY <1>1, <1>2, <1>4 DEF IInv, StreamInv, AnswersInv, SendName, clientVars
<1> QED BY <1>3, <1>4 DEF SendName, Closed, socketVars

LEMMA CommandKeepsIInv ==
    ASSUME IInv, ReceiveCommand, UNCHANGED clientVars
    PROVE  IInv'
<1>1. /\ UNCHANGED <<down, clientEnd, names, named>>
      /\ thread = "loop"
      /\ store' = store \/ \E file : RemoveFile(file)
      /\ \/ UNCHANGED created
         \/ /\ up # << >> /\ thread' = "take"
            /\ \E file : created' = Append(created, file)
  <2>1. ASSUME NEW operation, NEW file, Handle(operation, file)
        PROVE  /\ store' = store \/ RemoveFile(file)
               /\ \/ UNCHANGED created
                  \/ thread' = "take" /\ created' = Append(created, file)
    BY <2>1 DEF Handle, Upload, Delete, Update, Open
  <2>2. CASE \E batch \in Batches(up) :
                /\ Receive(batch)
                /\ \E x \in Readings(batch, {Name(f) : f \in store}) : Handle(x[1], x[2])
    BY <2>1, <2>2, NothingToReceive DEF ReceiveCommand, AtThread, Receive
  <2>3. CASE UNCHANGED <<store, created>>
    BY <2>3 DEF ReceiveCommand, AtThread, Receive, HangUp, Closed
  <2> QED BY <2>2, <2>3 DEF ReceiveCommand
<1>2. up = << >> => up' = << >>
  BY NothingToReceive DEF ReceiveCommand, HangUp, Closed
<1>3. OneFileInv'
  BY <1>1, <1>2 DEF IInv, OneFileInv, Spent
<1>4. store' \subseteq UNION Kept /\ IsFiniteSet(store')
  BY <1>1, FS_Subset DEF IInv, StreamInv, RemoveFile
<1> QED
  BY <1>1, <1>3, <1>4 DEF IInv, StreamInv, AnswersInv, clientVars

LEMMA OthersKeepIInv ==
    ASSUME IInv, UNCHANGED clientVars,
           Accept \/ Take \/ WriteLog \/ HandlerEnds \/ ProcessEnds \/ Interrupt
    PROVE  IInv'
<1>1. CASE Accept
  BY <1>1 DEF IInv, StreamInv, OneFileInv, AnswersInv, Spent, Accept, clientVars,
              socketVars
<1>2. CASE Take
  BY <1>2 DEF IInv, StreamInv, OneFileInv, AnswersInv, Spent, Take, AtThread, Receive,
              EndOfStream, AfterBatch, clientVars, socketVars
<1>3. CASE WriteLog
  BY <1>3 DEF IInv, StreamInv, OneFileInv, AnswersInv, Spent, WriteLog, AtThread,
              clientVars, socketVars
<1>4. CASE HandlerEnds
  BY <1>4 DEF IInv, StreamInv, OneFileInv, AnswersInv, Spent, HandlerEnds, clientVars,
              socketVars
<1>5. CASE ProcessEnds
  BY <1>5 DEF IInv, StreamInv, OneFileInv, AnswersInv, Spent, ProcessEnds, Closed,
              clientVars
<1>6. CASE Interrupt
  <2>1. names' \in Seq(Files)
    <3>1. names' = names \/ names' = << >>
      BY <1>6 DEF Interrupt
    <3> QED BY <3>1, EmptySeq DEF IInv, StreamInv
  <2> QED
    BY <1>6, <2>1 DEF IInv, StreamInv, OneFileInv, AnswersInv, Spent, Interrupt,
                      clientVars, socketVars
<1> QED BY <1>1, <1>2, <1>3, <1>4, <1>5, <1>6

LEMMA ServerKeepsIInv ==
    ASSUME IInv, ServerStep, UNCHANGED clientVars
    PROVE  IInv'
BY ReceiveDirKeepsIInv, SendNameKeepsIInv, CommandKeepsIInv, OthersKeepIInv
   DEF ServerStep, ServerThreads, ThreadStep

LEMMA NextKeepsIInv == IInv /\ [Next]_vars => IInv'
<1>1. ASSUME IInv, UNCHANGED vars PROVE IInv'
  BY <1>1 DEF IInv, StreamInv, OneFileInv, AnswersInv, Spent, vars, socketVars,
              clientVars, serverVars
<1> QED BY <1>1, ClientKeepsIInv, ServerKeepsIInv DEF Next
-----------------------------------------------------------------------------
(* The invariant holds in every reachable state of client and server.      *)
THEOREM Invariance == Spec => []IInv
BY InitIInv, NextKeepsIInv, PTL DEF Spec

(* A connection brings the server one file at most, since the upload loop  *)
(* (BibakBOXServer.c:127) takes everything that comes after it.            *)
THEOREM OneFile == Spec => []OneFilePerConnection
<1>1. ASSUME IInv PROVE OneFilePerConnection
  <2>1. CASE created = << >>
    BY <2>1 DEF OneFilePerConnection
  <2>2. CASE created # << >>
    <3>1. PICK file : created = <<file>>
      BY <1>1, <2>2 DEF IInv, OneFileInv
    <3>2. Len(created) = 1
      BY <3>1
    <3> QED BY <3>2 DEF OneFilePerConnection
  <2> QED BY <2>1, <2>2
<1> QED BY <1>1, Invariance, PTL

(* The client's thread begins no more uploads than the server sent names.  *)
THEOREM UploadsFollowNames == Spec => []NamesBeforeUploads
<1>1. IInv => NamesBeforeUploads
  BY DEF IInv, StreamInv, AnswersInv, NamesBeforeUploads
<1> QED BY <1>1, Invariance, PTL
-----------------------------------------------------------------------------
(* Types.  What is sent is made of the pieces of messages, and the thread  *)
(* that waits for an answer asked about a file of its directory.           *)
ClientType ==
    /\ mainPc \in {"prompt", "join", "done", "aborted", "killed"}
    /\ syncPc \in {"start", "pass", "entry", "answer", "stamp", "freed", "ended"}
    /\ outgoing \in [Threads -> Seq(Pieces)]
    /\ entries \subseteq LocalFiles /\ entry \in LocalFiles \cup {NoFile}
    /\ syncPc \in {"answer", "stamp"} => entry \in LocalFiles

ServerType ==
    /\ thread \in {"none", "dir", "list", "loop", "take", "lock", "log", "ended", "stuck"}
    /\ listener \in {"accept", "handler", "ended"}
    /\ server \in {"up", "ended", "killed"}
    /\ locked \in BOOLEAN /\ (locked <=> thread \in {"log", "stuck"})
    /\ removed \cup store \in Kept /\ removed \cap store = {} /\ misread \subseteq removed

TypeInv == up \in Seq(Pieces) /\ ClientType /\ ServerType

LEMMA ShortSequences ==
    ASSUME NEW S, NEW a \in S, NEW b \in S, NEW c \in S
    PROVE  /\ << >> \in Seq(S) /\ <<a>> \in Seq(S)
           /\ <<a, b>> \in Seq(S) /\ <<a, b, c>> \in Seq(S)
OBVIOUS

LEMMA PieceTypes ==
    /\ Dir \in Pieces /\ Data \in Pieces
    /\ \A f \in LocalFiles : Name(f) \in Pieces /\ Path(f) \in Pieces
    /\ \A f \in UserFiles : Name(f) \in Pieces
    /\ \A o \in {"check", "timestamp", "upload", "delete", "update"} : Op(o) \in Pieces
BY DEF Pieces, Names, Files

(* A thread that has new pieces to send.                                   *)
LEMMA QueueType ==
    ASSUME ClientType, NEW t \in Threads, NEW pieces \in Seq(Pieces), Queue(t, pieces)
    PROVE  outgoing' \in [Threads -> Seq(Pieces)]
BY DEF ClientType, Queue

LEMMA EndsKeepType ==
    ASSUME TypeInv, NEW how \in {"done", "aborted", "killed"}, ClientEnds(how),
           UNCHANGED serverVars
    PROVE  TypeInv'
<1>1. outgoing' \in [Threads -> Seq(Pieces)]
  BY EmptySeq DEF ClientEnds
<1>2. up' \in Seq(Pieces)
  BY EmptySeq DEF TypeInv, ClientEnds
<1> QED
  BY <1>1, <1>2 DEF TypeInv, ClientType, ServerType, ClientEnds, serverVars

LEMMA SendKeepsType ==
    ASSUME TypeInv, NEW t \in Threads, SendPiece(t), UNCHANGED serverVars
    PROVE  TypeInv'
<1>1. CASE ClientEnds("killed")
  BY <1>1, EndsKeepType
<1>2. CASE /\ up' = IF Connected THEN Append(up, Head(outgoing[t])) ELSE up
           /\ Queue(t, Tail(outgoing[t]))
           /\ UNCHANGED <<mainPc, syncPc, entries, entry>>
  <2>1. outgoing[t] \in Seq(Pieces) /\ outgoing[t] # << >> /\ up \in Seq(Pieces)
    BY DEF TypeInv, ClientType, SendPiece
  <2>2. Head(outgoing[t]) \in Pieces /\ Tail(outgoing[t]) \in Seq(Pieces)
    BY <2>1
  <2>3. up' \in Seq(Pieces)
    BY <1>2, <2>1, <2>2
  <2>4. outgoing' \in [Threads -> Seq(Pieces)]
    BY <1>2, <2>2, QueueType DEF TypeInv
  <2> QED BY <1>2, <2>3, <2>4 DEF TypeInv, ClientType, ServerType, serverVars
<1> QED BY <1>1, <1>2 DEF SendPiece

LEMMA SyncKeepsType ==
    ASSUME TypeInv, IInv, UNCHANGED serverVars,
           SyncStart \/ SyncPass \/ SyncEntry \/ SyncAnswer \/ Cancelled
    PROVE  TypeInv'
<1> USE DEF TypeInv, ServerType, serverVars, socketVars
<1>0. "sync" \in Threads
  BY DEF Threads
<1>1. CASE SyncStart
  <2>1. PICK listing \in SetToSeqs(LocalFiles) \cup {<< >>} :
             Queue("sync", <<Dir>> \o [i \in DOMAIN listing |-> Name(listing[i])])
    BY <1>1 DEF SyncStart
  <2>2. listing \in Seq(LocalFiles)
    BY <2>1, ListingIsSequence, LocalAssumption, EmptySeq
  <2>3. [i \in DOMAIN listing |-> Name(listing[i])] \in Seq(Pieces)
    BY <2>2, PieceTypes
  <2>4. <<Dir>> \in Seq(Pieces)
    BY PieceTypes, ShortSequences
  <2>5. <<Dir>> \o [i \in DOMAIN listing |-> Name(listing[i])] \in Seq(Pieces)
    BY <2>3, <2>4, ConcatProperties
  <2>6. outgoing' \in [Threads -> Seq(Pieces)]
    BY <1>0, <2>1, <2>5, QueueType
  <2> QED BY <1>1, <2>6 DEF ClientType, SyncStart
<1>2. CASE SyncPass
  BY <1>2 DEF ClientType, SyncPass
<1>3. CASE SyncEntry
  <2>1. CASE UNCHANGED outgoing
    BY <1>3, <2>1 DEF ClientType, SyncEntry
  <2>2. ASSUME NEW f \in entries, entry' = f, entries' = entries \ {f},
               Queue("sync", <<Op("check"), Name(f)>>), syncPc' = "answer"
        PROVE  TypeInv'
    <3>1. f \in LocalFiles
      BY DEF ClientType
    <3>2. <<Op("check"), Name(f)>> \in Seq(Pieces)
      BY <3>1, PieceTypes, ShortSequences
    <3>3. outgoing' \in [Threads -> Seq(Pieces)]
      BY <1>0, <2>2, <3>2, QueueType
    <3> QED BY <1>3, <2>2, <3>1, <3>3 DEF ClientType, SyncEntry
  <2> QED BY <1>3, <2>1, <2>2 DEF SyncEntry
<1>4. CASE SyncAnswer
  <2>1. entry \in LocalFiles /\ syncPc' \in {"stamp", "entry", "pass"}
    BY <1>4 DEF ClientType, SyncAnswer
  <2>2. /\ << >> \in Seq(Pieces)
        /\ <<Op("timestamp"), Name(entry)>> \in Seq(Pieces)
        /\ <<Op("upload"), Path(entry), Data>> \in Seq(Pieces)
    BY <2>1, PieceTypes, ShortSequences
  <2>3. \/ UNCHANGED outgoing
        \/ Queue("sync", << >>)
        \/ Queue("sync", <<Op("timestamp"), Name(entry)>>)
        \/ Queue("sync", <<Op("upload"), Path(entry), Data>>)
    BY <1>4 DEF SyncAnswer, SendFile, GiveUp
  <2>4. outgoing' \in [Threads -> Seq(Pieces)]
    BY <1>0, <2>2, <2>3, QueueType DEF ClientType
  <2> QED BY <1>4, <2>1, <2>4 DEF ClientType, SyncAnswer
<1>5. CASE Cancelled
  <2>1. outgoing' \in [Threads -> Seq(Pieces)]
    BY <1>0, <1>5, EmptySeq, QueueType DEF Cancelled
  <2> QED BY <1>5, <2>1 DEF ClientType, Cancelled
<1> QED BY <1>1, <1>2, <1>3, <1>4, <1>5

LEMMA UserKeepsType ==
    ASSUME TypeInv, UNCHANGED serverVars, Command \/ Exit
    PROVE  TypeInv'
<1> USE DEF TypeInv, ServerType, serverVars, socketVars
<1>1. CASE Command
  <2>1. PICK f \in UserFiles, o \in {"upload", "update", "delete"} :
             \/ Queue("main", <<Op(o), Name(f), Data>>)
             \/ Queue("main", <<Op(o), Name(f)>>)
    BY <1>1 DEF Command
  <2>2. /\ <<Op(o), Name(f), Data>> \in Seq(Pieces)
        /\ <<Op(o), Name(f)>> \in Seq(Pieces)
    BY PieceTypes, ShortSequences
  <2>3. outgoing' \in [Threads -> Seq(Pieces)]
    BY <2>1, <2>2, QueueType DEF Threads
  <2> QED BY <1>1, <2>3 DEF ClientType, Command
<1>2. CASE Exit
  BY <1>2 DEF ClientType, Exit
<1> QED BY <1>1, <1>2

LEMMA ServerKeepsType ==
    ASSUME TypeInv, ServerStep, UNCHANGED clientVars
    PROVE  TypeInv'
<1>1. up' \in Seq(Pieces)
  <2>1. \A batch \in Batches(up) : Rest(up, batch) \in Seq(Pieces)
    BY RestIsShorter DEF TypeInv
  <2>2. up # << >> => up \in Batches(up)
    BY DEF Batches, TypeInv
  <2>3. \/ up' = up \/ up' = << >>
        \/ \E batch \in Batches(up) : up' = Rest(up, batch)
    BY <2>2 DEF ServerStep, ServerThreads, ThreadStep, Accept, ReceiveDir, SendName,
            ReceiveCommand, Take, WriteLog, Interrupt, HandlerEnds, ProcessEnds, Receive,
            HangUp, Closed, socketVars
  <2> QED BY <2>1, <2>3, EmptySeq DEF TypeInv
<1>2. ClientType'
  BY DEF TypeInv, ClientType, clientVars
<1>3. ServerType'
  <2> USE DEF TypeInv, ServerType
  <2>1. CASE Accept
    BY <2>1 DEF Accept
  <2>2. CASE HandlerEnds
    BY <2>2 DEF HandlerEnds
  <2>3. CASE ProcessEnds
    BY <2>3 DEF ProcessEnds
  <2>4. CASE Interrupt
    <3>1. CASE UNCHANGED thread
      BY <2>4, <3>1 DEF Interrupt
    <3>2. CASE locked /\ thread' = "stuck" /\ UNCHANGED listener
      BY <2>4, <3>2 DEF Interrupt
    <3>3. CASE ~locked /\ thread' = "ended" /\ UNCHANGED listener
      BY <2>4, <3>3 DEF Interrupt
    <3> QED BY <2>4, <3>1, <3>2, <3>3 DEF Interrupt
  <2>5. CASE ReceiveDir
    BY <2>5 DEF ReceiveDir, AtThread, HangUp
  <2>6. CASE SendName
    BY <2>6 DEF SendName, AtThread
  <2>7. CASE Take
    BY <2>7 DEF Take, AtThread, AfterBatch
  <2>8. CASE WriteLog
    <3>1. CASE thread = "lock" /\ thread' = "log" /\ locked' = TRUE
      BY <2>8, <3>1 DEF WriteLog
    <3>2. CASE thread = "lock" /\ thread' = "loop" /\ UNCHANGED locked
      BY <2>8, <3>2 DEF WriteLog
    <3>3. CASE thread' = "loop" /\ locked' = FALSE
      BY <2>8, <3>3 DEF WriteLog
    <3> QED BY <2>8, <3>1, <3>2, <3>3 DEF WriteLog, AtThread, Unlocked
  <2>9. CASE ReceiveCommand
    <3>1. /\ thread = "loop" /\ thread' \in {"loop", "take", "lock", "ended"}
          /\ UNCHANGED <<listener, locked>> /\ server' \in {server, "killed"}
      BY <2>9 DEF ReceiveCommand, AtThread, HangUp, Handle, Upload, Delete, Update, Open
    <3>2. \/ UNCHANGED <<store, removed>>
          \/ \E file : Removable(file) /\ RemoveFile(file)
      BY <2>9 DEF ReceiveCommand, Handle, Upload, Delete, Update
    <3>3. removed' \cup store' = removed \cup store /\ removed' \cap store' = {}
      BY <3>2 DEF Removable, RemoveFile
    <3>4. misread' \subseteq misread \cup (removed' \ removed) /\ removed \subseteq removed'
      BY <2>9, <3>2 DEF ReceiveCommand, RemoveFile
    <3> QED BY <3>1, <3>3, <3>4
  <2> QED BY <2>1, <2>2, <2>3, <2>4, <2>5, <2>6, <2>7, <2>8, <2>9
          DEF ServerStep, ServerThreads, ThreadStep
<1> QED BY <1>1, <1>2, <1>3 DEF TypeInv

LEMMA NextKeepsType == IInv /\ TypeInv /\ [Next]_vars => TypeInv'
<1>1. ASSUME TypeInv, UNCHANGED vars PROVE TypeInv'
  BY <1>1 DEF TypeInv, ClientType, ServerType, vars, socketVars, clientVars, serverVars
<1>2. ASSUME IInv, TypeInv, ClientStep, UNCHANGED serverVars PROVE TypeInv'
  BY <1>2, EndsKeepType, SendKeepsType, SyncKeepsType, UserKeepsType
     DEF ClientStep, SyncStep, MainStep, UserStep, Joined, handleClientSIGINT, Threads
<1> QED BY <1>1, <1>2, ServerKeepsType DEF Next

LEMMA InitTypeInv == Init => TypeInv
BY EmptySeq DEF Init, SocketInit, ClientInit, ServerInit, TypeInv, ClientType, ServerType

(* Every variable of client and server keeps its range; the mutex is held  *)
(* only by a thread in writeLog, or one stuck in its own handler there     *)
(* (BibakBOXServer.c:199), and a file is in the directory or removed.      *)
THEOREM TypeCorrect == Spec => []TypeOK
<1>1. IInv /\ TypeInv => TypeOK
  BY DEF IInv, StreamInv, TypeInv, ClientType, ServerType, TypeOK
<1> QED BY <1>1, InitTypeInv, NextKeepsType, Invariance, PTL DEF Spec
-----------------------------------------------------------------------------
(* Deletes.  A request that makes the server remove a file, received by    *)
(* itself, is two pieces, the operation and a name the user entered.       *)
Changes(piece) == piece \in {Op("delete"), Op("update")}
Asked(piece) == \E f \in asked : piece = Name(f)
NamesFollow(s) == \A i \in 1..(Len(s) - 1) : Changes(s[i]) => Asked(s[i + 1])

(* The main thread sends such requests whole, the other one none; and as   *)
(* long as nobody has sent in the middle of a message, they are whole in   *)
(* the stream too, but for a last operation whose name comes next.         *)
MineInv == /\ NamesFollow(outgoing["main"])
           /\ outgoing["main"] # << >> => ~Changes(outgoing["main"][Len(outgoing["main"])])
           /\ \A i \in DOMAIN outgoing["sync"] : ~Changes(outgoing["sync"][i])

OpenInv == Connected /\ up # << >> /\ Changes(up[Len(up)]) =>
               outgoing["main"] # << >> /\ Asked(Head(outgoing["main"]))

OrderInv == MineInv /\ (~mixed => NamesFollow(up) /\ OpenInv /\ removed \subseteq asked \cup misread)

LEMMA KindsDiffer ==
    ASSUME NEW f
    PROVE  /\ ~Changes(Name(f)) /\ ~Changes(Path(f)) /\ ~Changes(Data) /\ ~Changes(Dir)
           /\ \A o \in {"check", "timestamp", "upload"} : ~Changes(Op(o))
           /\ Name(f)[1] # "op"
BY DEF Changes, Op, Name, Path, Data, Dir

(* A stream keeps its order when it loses its beginning, and when a piece  *)
(* is added that may follow its end.                                       *)
LEMMA RestInOrder ==
    ASSUME NEW s \in Seq(Pieces), NamesFollow(s), NEW n \in 1..Len(s)
    PROVE  /\ NamesFollow(SubSeq(s, n + 1, Len(s)))
           /\ SubSeq(s, n + 1, Len(s)) # << >> =>
                 SubSeq(s, n + 1, Len(s))[Len(SubSeq(s, n + 1, Len(s)))] = s[Len(s)]
<1> DEFINE r == SubSeq(s, n + 1, Len(s))
<1>1. /\ r \in Seq(Pieces) /\ Len(r) = Len(s) - n
      /\ \A i \in 1..Len(r) : r[i] = s[i + n]
  BY SubSeqProperties
<1> HIDE DEF r
<1>2. ASSUME NEW i \in 1..(Len(r) - 1), Changes(r[i]) PROVE Asked(r[i + 1])
  <2>1. Len(s) \in Nat /\ Len(r) \in Nat /\ n \in Nat /\ i \in Nat /\ i <= Len(r) - 1
    BY <1>1
  <2>2. i \in 1..Len(r) /\ i + 1 \in 1..Len(r) /\ (i + 1) + n = (i + n) + 1
    BY <2>1
  <2>3. i + n \in 1..(Len(s) - 1)
    BY <1>1, <2>1
  <2>4. r[i] = s[i + n] /\ r[i + 1] = s[(i + n) + 1]
    BY <1>1, <2>2
  <2> QED BY <1>2, <2>3, <2>4 DEF NamesFollow
<1>3. ASSUME r # << >> PROVE r[Len(r)] = s[Len(s)]
  <2>1. Len(r) \in 1..Len(r) /\ Len(r) + n = Len(s)
    BY <1>1, <1>3, EmptySeq
  <2> QED BY <1>1, <2>1
<1> QED BY <1>2, <1>3 DEF NamesFollow, r

LEMMA AppendInOrder ==
    ASSUME NEW s \in Seq(Pieces), NamesFollow(s), NEW piece \in Pieces,
           s # << >> /\ Changes(s[Len(s)]) => Asked(piece)
    PROVE  NamesFollow(Append(s, piece))
<1>1. ASSUME NEW i \in 1..(Len(Append(s, piece)) - 1), Changes(Append(s, piece)[i])
      PROVE  Asked(Append(s, piece)[i + 1])
  <2>1. i \in 1..Len(s) /\ Append(s, piece)[i] = s[i]
    OBVIOUS
  <2>2. CASE i = Len(s)
    <3>1. Append(s, piece)[i + 1] = piece
      BY <2>2
    <3> QED BY <1>1, <2>1, <2>2, <3>1
  <2>3. CASE i # Len(s)
    <3>1. i \in 1..(Len(s) - 1) /\ Append(s, piece)[i + 1] = s[i + 1]
      BY <2>1, <2>3
    <3> QED BY <1>1, <2>1, <3>1 DEF NamesFollow
  <2> QED BY <2>2, <2>3
<1> QED BY <1>1 DEF NamesFollow

(* What the user asked for stays asked for.                                *)
LEMMA AskedGrows ==
    ASSUME asked \subseteq asked'
    PROVE  /\ \A piece : Asked(piece) => Asked(piece)'
           /\ \A s : NamesFollow(s) => NamesFollow(s)'
BY DEF Asked, NamesFollow
(* A step of another actor, and one that only grows asked.                 *)
LEMMA QuietStepKeepsOrder ==
    ASSUME OrderInv, UNCHANGED <<mixed, removed, misread, clientEnd, serverEnd, up, outgoing>>,
           asked \subseteq asked'
    PROVE  OrderInv'
BY AskedGrows DEF OrderInv, MineInv, OpenInv, Changes, Connected

(* The client has ended, or the stream is cut off: nothing more is sent.   *)
LEMMA CutKeepsOrder ==
    ASSUME OrderInv, MineInv', ~Connected', up' \in {up, << >>},
           removed' = removed, misread' = misread, asked' = asked, mixed => mixed'
    PROVE  OrderInv'
<1>1. CASE up' = up
  BY <1>1 DEF OrderInv, OpenInv, NamesFollow, Asked, Changes
<1>2. CASE up' = << >>
  BY <1>2 DEF OrderInv, OpenInv, NamesFollow, Asked, Changes
<1> QED BY <1>1, <1>2

LEMMA EndsKeepOrder ==
    ASSUME OrderInv, NEW how, ClientEnds(how), mixed => mixed', UNCHANGED serverVars
    PROVE  OrderInv'
<1>1. outgoing'["main"] = << >> /\ outgoing'["sync"] = << >>
  BY DEF ClientEnds, Threads
<1>2. MineInv'
  BY <1>1 DEF MineInv, NamesFollow
<1> QED BY <1>2, CutKeepsOrder DEF ClientEnds, Connected, serverVars

(* send() of a piece, where only mixed knows of the other thread.          *)
LEMMA SendKeepsOrder ==
    ASSUME TypeInv, OrderInv, NEW t \in Threads, SendPiece(t), UNCHANGED serverVars
    PROVE  OrderInv'
<1>1. CASE ClientEnds("killed")
  BY <1>1, EndsKeepOrder DEF SendPiece
<1>2. CASE /\ up' = IF Connected THEN Append(up, Head(outgoing[t])) ELSE up
           /\ Queue(t, Tail(outgoing[t]))
           /\ UNCHANGED <<clientEnd, serverEnd, asked>>
  <2> DEFINE piece == Head(outgoing[t])
             tail  == Tail(outgoing[t])
  <2>1. /\ outgoing[t] \in Seq(Pieces) /\ outgoing[t] # << >> /\ up \in Seq(Pieces)
        /\ outgoing \in [Threads -> Seq(Pieces)]
    BY DEF TypeInv, ClientType, SendPiece
  <2>2. /\ piece \in Pieces /\ piece = outgoing[t][1]
        /\ tail \in Seq(Pieces) /\ Len(tail) = Len(outgoing[t]) - 1
        /\ \A i \in 1..Len(tail) : tail[i] = outgoing[t][i + 1]
    BY <2>1
  <2>3. outgoing' = [outgoing EXCEPT ![t] = tail]
    BY <1>2 DEF Queue
  <2>4. tail = SubSeq(outgoing[t], 1 + 1, Len(outgoing[t])) /\ 1 \in 1..Len(outgoing[t])
    BY <2>1, EmptySeq
  <2> HIDE DEF piece, tail
  <2>5. MineInv'
    <3>1. CASE t = "main"
      <4>1. outgoing'["main"] = tail /\ outgoing'["sync"] = outgoing["sync"]
        BY <2>1, <2>3, <3>1 DEF Threads
      <4>2. NamesFollow(outgoing["main"])
        BY DEF OrderInv, MineInv
      <4>3. NamesFollow(tail) /\ (tail # << >> => tail[Len(tail)] = outgoing["main"][Len(outgoing["main"])])
        BY <2>1, <2>4, <3>1, <4>2, RestInOrder
      <4> QED BY <1>2, <2>1, <3>1, <4>1, <4>3 DEF OrderInv, MineInv, Changes, NamesFollow, Asked
    <3>2. CASE t = "sync"
      <4>1. outgoing'["sync"] = tail /\ outgoing'["main"] = outgoing["main"]
        BY <2>1, <2>3, <3>2 DEF Threads
      <4>2. \A i \in 1..Len(tail) : ~Changes(tail[i])
        BY <2>1, <2>2, <3>2 DEF OrderInv, MineInv
      <4> QED BY <1>2, <2>2, <4>1, <4>2 DEF OrderInv, MineInv, NamesFollow, Asked, Changes
    <3> QED BY <3>1, <3>2 DEF Threads
  <2>6. CASE ~Connected
    BY <1>2, <2>5, <2>6, CutKeepsOrder DEF Connected, SendPiece, serverVars
  <2>7. CASE Connected /\ mixed'
    BY <2>5, <2>7 DEF OrderInv
  <2>8. CASE Connected /\ ~mixed'
    <3>1. ~mixed /\ ~MidMessage(Other(t)) /\ up' = Append(up, piece)
      BY <1>2, <2>8 DEF SendPiece, piece
    <3>2. NamesFollow(up) /\ OpenInv /\ removed \subseteq asked \cup misread
      BY <3>1 DEF OrderInv
    <3>3. up # << >> /\ Changes(up[Len(up)]) => Asked(piece)
      <4>1. SUFFICES ASSUME up # << >>, Changes(up[Len(up)]) PROVE Asked(piece)
        OBVIOUS
      <4>2. outgoing["main"] # << >> /\ Asked(Head(outgoing["main"]))
        BY <2>8, <3>2, <4>1 DEF OpenInv
      <4>3. MidMessage("main")
        BY <4>2, KindsDiffer DEF MidMessage, Asked
      <4>4. Other("sync") = "main"
        BY DEF Other, Threads
      <4>5. t = "main"
        BY <3>1, <4>3, <4>4 DEF Threads
      <4> QED BY <4>2, <4>5 DEF piece
    <3>4. NamesFollow(up')
      BY <2>1, <2>2, <3>1, <3>2, <3>3, AppendInOrder
    <3>5. up'[Len(up')] = piece
      BY <2>1, <2>2, <3>1
    <3>6. Changes(piece) => outgoing'["main"] # << >> /\ Asked(Head(outgoing'["main"]))
      <4>1. CASE t = "sync"
        BY <2>1, <2>2, <4>1 DEF OrderInv, MineInv
      <4>2. CASE t = "main"
        <5>1. SUFFICES ASSUME Changes(piece)
                       PROVE  outgoing'["main"] # << >> /\ Asked(Head(outgoing'["main"]))
          OBVIOUS
        <5>2. Len(outgoing["main"]) \in Nat /\ Len(outgoing["main"]) # 1
          BY <2>1, <2>2, <4>2, <5>1 DEF OrderInv, MineInv
        <5>3. 1 \in 1..(Len(outgoing["main"]) - 1)
          <6> DEFINE n == Len(outgoing["main"])
          <6>1. n \in Nat /\ n # 1 /\ n >= 1
            BY <2>4, <4>2, <5>2
          <6> HIDE DEF n
          <6>2. 1 \in 1..(n - 1)
            BY <6>1
          <6> QED BY <6>2 DEF n
        <5>4. Asked(outgoing["main"][2])
          BY <2>2, <4>2, <5>1, <5>3 DEF OrderInv, MineInv, NamesFollow
        <5>5. outgoing'["main"] = tail
          BY <2>1, <2>3, <4>2
        <5>6. tail # << >> /\ tail[1] = outgoing["main"][2]
          BY <2>2, <4>2, <5>3
        <5> QED BY <5>4, <5>5, <5>6
      <4> QED BY <4>1, <4>2 DEF Threads
    <3> QED
      BY <1>2, <2>5, <2>8, <3>1, <3>2, <3>4, <3>5, <3>6
         DEF OrderInv, OpenInv, NamesFollow, Asked, Changes, Connected, serverVars
  <2> QED BY <2>6, <2>7, <2>8
<1> QED BY <1>1, <1>2 DEF SendPiece

(* The synchronising thread queues no request to delete or update.         *)
LEMMA SyncKeepsOrder ==
    ASSUME TypeInv, OrderInv, UNCHANGED serverVars,
           SyncStart \/ SyncPass \/ SyncEntry \/ SyncAnswer \/ Cancelled
    PROVE  OrderInv'
<1>0. outgoing \in [Threads -> Seq(Pieces)] /\ Threads = {"main", "sync"}
  BY DEF TypeInv, ClientType, Threads
<1>1. /\ UNCHANGED <<mixed, removed, misread, serverEnd, up, asked>>
      /\ clientEnd' \in {clientEnd, "closed"}
  BY DEF SyncStart, SyncPass, SyncEntry, SyncAnswer, Cancelled, GiveUp, socketVars, serverVars
<1>2. \/ UNCHANGED outgoing
      \/ \E pieces : /\ Queue("sync", pieces)
                     /\ \A i \in DOMAIN pieces : ~Changes(pieces[i])
  <2>1. CASE SyncStart
    <3>1. PICK listing \in SetToSeqs(LocalFiles) \cup {<< >>} :
               Queue("sync", <<Dir>> \o [i \in DOMAIN listing |-> Name(listing[i])])
      BY <2>1 DEF SyncStart
    <3> DEFINE listed == [i \in DOMAIN listing |-> Name(listing[i])]
               all    == <<Dir>> \o listed
    <3>2. listing \in Seq(LocalFiles)
      BY <3>1, ListingIsSequence, LocalAssumption, EmptySeq
    <3>3. /\ listed \in Seq(Pieces) /\ <<Dir>> \in Seq(Pieces) /\ Len(<<Dir>>) = 1
          /\ \A i \in 1..Len(listed) : listed[i] = Name(listing[i])
      BY <3>2, PieceTypes, ShortSequences
    <3> HIDE DEF listed
    <3>4. /\ Len(all) = 1 + Len(listed)
          /\ \A i \in 1..Len(all) : all[i] = IF i <= 1 THEN Dir ELSE listed[i - 1]
      BY <3>3, ConcatProperties
    <3>5. all \in Seq(Pieces) /\ Len(listed) \in Nat
      BY <3>3, ConcatProperties
    <3> HIDE DEF all
    <3>6. ASSUME NEW i \in DOMAIN all PROVE ~Changes(all[i])
      <4>1. i \in 1..Len(all)
        BY <3>5
      <4>2. CASE i <= 1
        BY <3>4, <4>1, <4>2, KindsDiffer
      <4>3. CASE ~(i <= 1)
        <5>1. i - 1 \in 1..Len(listed) /\ all[i] = listed[i - 1]
          BY <3>4, <3>5, <4>1, <4>3
        <5> QED BY <3>3, <5>1, KindsDiffer
      <4> QED BY <4>2, <4>3
    <3> QED BY <3>1, <3>6 DEF all, listed
  <2>2. CASE SyncPass \/ Cancelled
    <3>1. \A i \in DOMAIN << >> : ~Changes(<< >>[i])
      OBVIOUS
    <3> QED BY <2>2, <3>1 DEF SyncPass, Cancelled
  <2>3. CASE SyncEntry
    <3>1. \A f : \A i \in DOMAIN <<Op("check"), Name(f)>> : ~Changes(<<Op("check"), Name(f)>>[i])
      BY KindsDiffer
    <3> QED BY <2>3, <3>1 DEF SyncEntry
  <2>4. CASE SyncAnswer
    <3>1. /\ \A i \in DOMAIN << >> : ~Changes(<< >>[i])
          /\ \A i \in DOMAIN <<Op("timestamp"), Name(entry)>> :
                ~Changes(<<Op("timestamp"), Name(entry)>>[i])
          /\ \A i \in DOMAIN <<Op("upload"), Path(entry), Data>> :
                ~Changes(<<Op("upload"), Path(entry), Data>>[i])
      BY KindsDiffer
    <3>2. \/ UNCHANGED outgoing
          \/ Queue("sync", << >>)
          \/ Queue("sync", <<Op("timestamp"), Name(entry)>>)
          \/ Queue("sync", <<Op("upload"), Path(entry), Data>>)
      BY <2>4 DEF SyncAnswer, SendFile, GiveUp
    <3> QED BY <3>1, <3>2
  <2> QED BY <2>1, <2>2, <2>3, <2>4
<1>3. /\ outgoing'["main"] = outgoing["main"]
      /\ \A i \in DOMAIN outgoing'["sync"] : ~Changes(outgoing'["sync"][i])
  BY <1>0, <1>2 DEF Queue, OrderInv, MineInv
<1> QED BY <1>1, <1>3 DEF OrderInv, MineInv, OpenInv, NamesFollow, Asked, Changes, Connected

(* The user's command is a message of its own.                             *)
LEMMA UserKeepsOrder ==
    ASSUME TypeInv, OrderInv, UNCHANGED serverVars, Command \/ Exit
    PROVE  OrderInv'
<1>1. CASE Exit
  BY <1>1, QuietStepKeepsOrder DEF Exit, socketVars, serverVars
<1>2. CASE Command
  <2>1. PICK f \in UserFiles, o \in {"upload", "update", "delete"} :
             /\ \/ Queue("main", <<Op(o), Name(f), Data>>)
                \/ Queue("main", <<Op(o), Name(f)>>)
             /\ o # "upload" => f \in asked'
    BY <1>2 DEF Command
  <2>2. /\ asked \subseteq asked' /\ outgoing["main"] = << >>
        /\ UNCHANGED <<mixed, removed, misread, clientEnd, serverEnd, up>>
    BY <1>2 DEF Command, Ready, socketVars, serverVars
  <2>3. /\ outgoing'["sync"] = outgoing["sync"]
        /\ outgoing'["main"] \in {<<Op(o), Name(f), Data>>, <<Op(o), Name(f)>>}
    BY <2>1 DEF Queue, Threads, TypeInv, ClientType
  <2>4. MineInv'
    <3>1. Changes(Op(o)) => Asked(Name(f))'
      BY <2>1 DEF Changes, Op, Asked
    <3>2. CASE outgoing'["main"] = <<Op(o), Name(f), Data>>
      BY <2>3, <3>1, <3>2, KindsDiffer DEF MineInv, NamesFollow, OrderInv, Changes
    <3>3. CASE outgoing'["main"] = <<Op(o), Name(f)>>
      BY <2>3, <3>1, <3>3, KindsDiffer DEF MineInv, NamesFollow, OrderInv, Changes
    <3> QED BY <2>3, <3>2, <3>3
  <2>5. ASSUME ~mixed'
        PROVE  NamesFollow(up)' /\ OpenInv' /\ removed' \subseteq asked' \cup misread'
    <3>1. NamesFollow(up) /\ OpenInv /\ removed \subseteq asked \cup misread
      BY <2>2, <2>5 DEF OrderInv
    <3>2. NamesFollow(up)'
      BY <2>2, <3>1 DEF NamesFollow, Asked, Changes
    <3>3. OpenInv'
      BY <2>2, <3>1 DEF OpenInv, Connected, Changes
    <3> QED BY <2>2, <3>1, <3>2, <3>3
  <2> QED BY <2>4, <2>5 DEF OrderInv
<1> QED BY <1>1, <1>2
-----------------------------------------------------------------------------
(* The server reads a part of the stream, which may leave it empty.        *)
LEMMA ReadKeepsOrder ==
    ASSUME TypeInv, OrderInv, UNCHANGED clientVars, clientEnd' = clientEnd,
           serverEnd' \in {serverEnd, "closed"},
           ~mixed => removed' \subseteq asked \cup misread',
           \/ up' = up \/ up' = << >>
           \/ \E batch \in Batches(up) : up' = Rest(up, batch)
    PROVE  OrderInv'
<1>1. MineInv'
  BY DEF OrderInv, MineInv, NamesFollow, Asked, Changes, clientVars
<1>2. ASSUME ~mixed PROVE NamesFollow(up') /\ (up' = << >> \/ up'[Len(up')] = up[Len(up)])
  <2>1. NamesFollow(up)
    BY <1>2 DEF OrderInv
  <2>2. CASE up' = up \/ up' = << >>
    BY <2>1, <2>2 DEF NamesFollow
  <2>3. ASSUME NEW batch \in Batches(up), up' = Rest(up, batch)
        PROVE  NamesFollow(up') /\ (up' = << >> \/ up'[Len(up')] = up[Len(up)])
    <3>1. PICK n \in 1..Len(up) : batch = SubSeq(up, 1, n)
      BY DEF Batches
    <3>2. Len(batch) = n /\ up \in Seq(Pieces)
      BY <3>1, SubSeqProperties DEF TypeInv
    <3>3. up' = SubSeq(up, n + 1, Len(up))
      BY <2>3, <3>2 DEF Rest
    <3> QED BY <2>1, <3>2, <3>3, RestInOrder
  <2> QED BY <2>2, <2>3
<1>3. ASSUME ~mixed PROVE OpenInv'
  <2>1. OpenInv
    BY <1>3 DEF OrderInv
  <2>2. SUFFICES ASSUME Connected', up' # << >>, Changes(up'[Len(up')])
                 PROVE  outgoing["main"] # << >> /\ Asked(Head(outgoing["main"]))
    BY DEF OpenInv, Changes, Asked, clientVars
  <2>3. Connected /\ up # << >>
    BY <2>2, NothingToReceive DEF Connected
  <2>4. Changes(up[Len(up)])
    BY <1>2, <1>3, <2>2
  <2> QED BY <2>1, <2>3, <2>4 DEF OpenInv
<1>4. ASSUME ~mixed PROVE NamesFollow(up)'
  BY <1>2, <1>4 DEF NamesFollow, Asked, Changes, clientVars
<1> QED BY <1>1, <1>3, <1>4 DEF OrderInv, clientVars

(* A request that is received by itself reads as it was sent.              *)
LEMMA AloneReadsAsSent ==
    ASSUME NEW S, NEW batch \in Seq(S), Alone(batch), NEW there, NEW x \in Readings(batch, there)
    PROVE  x[1] = batch[1][2] /\ x[2] = batch[2]
<1>1. Len(batch) = 2 /\ batch[1][1] = "op"
  BY DEF Alone
<1>2. Data \notin Begin(batch)
  <2>1. SUFFICES ASSUME NEW k \in DOMAIN batch, \A j \in 1..k : batch[j][1] # "op",
                        Data = batch[k]
                 PROVE  FALSE
    BY DEF Begin
  <2>2. k \in Nat /\ k >= 1
    BY <2>1
  <2> QED BY <1>1, <2>1, <2>2
<1>3. x \in {batch[1][2]} \X {batch[2]}
  BY <1>1, <1>2 DEF Readings, Operation, FileNames
<1> QED BY <1>3

(* The file that such a request removes was asked for.                     *)
LEMMA RemovedWasAsked ==
    ASSUME TypeInv, OrderInv, ~mixed, NEW batch \in Batches(up), Alone(batch),
           batch[1][2] \in {"delete", "update"}, Removable(batch[2])
    PROVE  batch[2][2] \in asked
<1>1. PICK n \in 1..Len(up) : batch = SubSeq(up, 1, n)
  BY DEF Batches
<1>2. /\ up \in Seq(Pieces) /\ Len(batch) = n /\ \A i \in 1..n : batch[i] = up[i]
  BY <1>1, SubSeqProperties DEF TypeInv
<1>3. Len(batch) = 2
  BY DEF Alone
<1>4. up[1] \in Pieces /\ Changes(up[1])
  <2>1. up[1] \in Pieces /\ batch[1] = up[1]
    BY <1>2
  <2>2. batch[1][1] = "op" /\ batch[1][2] \in {"delete", "update"}
    BY DEF Alone
  <2>3. up[1] \in {Op(o) : o \in {"check", "timestamp", "upload", "delete", "update"}}
    <3>1. /\ up[1] \notin {Dir, Data}
          /\ \A f : up[1] # Name(f) /\ up[1] # Path(f)
      <4>1. up[1][1] = "op"
        BY <2>1, <2>2
      <4>2. Dir[1] = "dir" /\ Data[1] = "data"
        BY DEF Dir, Data
      <4>3. \A f : Name(f)[1] = "name" /\ Path(f)[1] = "path"
        BY DEF Name, Path
      <4> QED BY <4>1, <4>2, <4>3
    <3>2. up[1] \notin Names
      BY <3>1 DEF Names
    <3>3. up[1] \notin {Path(f) : f \in LocalFiles}
      BY <3>1
    <3> QED BY <2>1, <3>1, <3>2, <3>3 DEF Pieces
  <2> QED BY <2>1, <2>2, <2>3 DEF Changes, Op
<1>5. Asked(up[2])
  <2>1. Len(up) \in Nat /\ 1 \in 1..(Len(up) - 1)
    BY <1>2, <1>3
  <2> QED BY <1>4, <2>1 DEF OrderInv, NamesFollow
<1> QED BY <1>2, <1>3, <1>5 DEF Asked, Name

LEMMA ServerKeepsOrder ==
    ASSUME TypeInv, OrderInv, ServerStep, UNCHANGED clientVars
    PROVE  OrderInv'
<1>1. /\ clientEnd' = clientEnd /\ serverEnd' \in {serverEnd, "closed"}
      /\ \/ up' = up \/ up' = << >>
         \/ \E batch \in Batches(up) : up' = Rest(up, batch)
  <2>1. up # << >> => up \in Batches(up)
    BY DEF Batches, TypeInv
  <2> QED
    BY <2>1 DEF ServerStep, ServerThreads, ThreadStep, Accept, ReceiveDir, SendName,
            ReceiveCommand, Take, WriteLog, Interrupt, HandlerEnds, ProcessEnds, Receive,
            HangUp, Closed, socketVars
<1>0. ASSUME NEW batch \in Batches(up) PROVE batch \in Seq(Pieces)
  <2>1. PICK n \in 1..Len(up) : batch = SubSeq(up, 1, n)
    BY DEF Batches
  <2> QED BY <2>1, SubSeqProperties DEF TypeInv
<1>2. ASSUME ~mixed PROVE removed' \subseteq asked \cup misread'
  <2>1. removed \subseteq asked \cup misread
    BY <1>2 DEF OrderInv
  <2>2. CASE UNCHANGED <<removed, misread>>
    BY <2>1, <2>2
  <2>3. CASE misread' = misread \cup (removed' \ removed)
    BY <2>1, <2>3
  <2>4. ASSUME NEW batch \in Batches(up), Alone(batch), misread' = misread,
               NEW x \in Readings(batch, {Name(f) : f \in store}), Handle(x[1], x[2])
        PROVE  removed' \subseteq asked \cup misread'
    <3>1. x[1] = batch[1][2] /\ x[2] = batch[2]
      BY <1>0, <2>4, AloneReadsAsSent
    <3>2. \/ removed' = removed
          \/ /\ batch[1][2] \in {"delete", "update"}
             /\ Removable(batch[2]) /\ RemoveFile(batch[2])
      BY <2>4, <3>1 DEF Handle, Upload, Delete, Update
    <3> QED BY <1>2, <2>1, <2>4, <3>2, RemovedWasAsked DEF RemoveFile
  <2>5. \/ UNCHANGED <<removed, misread>>
        \/ misread' = misread \cup (removed' \ removed)
        \/ \E batch \in Batches(up) :
              /\ Alone(batch) /\ misread' = misread
              /\ \E x \in Readings(batch, {Name(f) : f \in store}) : Handle(x[1], x[2])
    <3>1. CASE ReceiveCommand
      BY <3>1 DEF ReceiveCommand
    <3>2. CASE Accept \/ ReceiveDir \/ SendName \/ Take \/ WriteLog \/ Interrupt
               \/ HandlerEnds \/ ProcessEnds
      BY <3>2 DEF Accept, ReceiveDir, SendName, Take, WriteLog, Interrupt, HandlerEnds,
                  ProcessEnds
    <3> QED BY <3>1, <3>2 DEF ServerStep, ServerThreads, ThreadStep
  <2> QED BY <2>2, <2>3, <2>4, <2>5
<1> QED BY <1>1, <1>2, ReadKeepsOrder

LEMMA NextKeepsOrder == TypeInv /\ OrderInv /\ [Next]_vars => OrderInv'
<1>1. ASSUME OrderInv, UNCHANGED vars PROVE OrderInv'
  BY <1>1, QuietStepKeepsOrder DEF vars, socketVars, clientVars, serverVars
<1>2. ASSUME TypeInv, OrderInv, ClientStep, UNCHANGED serverVars PROVE OrderInv'
  BY <1>2, EndsKeepOrder, SendKeepsOrder, SyncKeepsOrder, UserKeepsOrder
     DEF ClientStep, SyncStep, MainStep, UserStep, Joined, handleClientSIGINT, Threads
<1> QED BY <1>1, <1>2, ServerKeepsOrder DEF Next

LEMMA InitOrder == Init => OrderInv
<1> SUFFICES ASSUME Init PROVE OrderInv
  OBVIOUS
<1>1. /\ outgoing["main"] = << >> /\ outgoing["sync"] = << >>
      /\ up = << >> /\ removed = {} /\ misread = {}
  BY DEF Init, SocketInit, ClientInit, ServerInit, Threads
<1> QED BY <1>1 DEF OrderInv, MineInv, OpenInv, NamesFollow

(* As long as neither thread of the client sends in the middle of the      *)
(* other's message, the server removes for a request that it receives by   *)
(* itself only what the user asked it to, wherever recv() cut the stream   *)
(* before it (BibakBOXServer.c:107-178).                                   *)
THEOREM DeletesRequested == Spec => []DeletesAskedFor
<1>1. OrderInv => DeletesAskedFor
  BY DEF OrderInv, DeletesAskedFor
<1>2. Init => IInv /\ TypeInv /\ OrderInv
  BY InitIInv, InitTypeInv, InitOrder
<1>3. IInv /\ TypeInv /\ OrderInv /\ [Next]_vars => (IInv /\ TypeInv /\ OrderInv)'
  BY NextKeepsIInv, NextKeepsType, NextKeepsOrder
<1> QED BY <1>1, <1>2, <1>3, PTL DEF Spec
=============================================================================
