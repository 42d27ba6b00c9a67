--------------------------- MODULE PCpProperties ---------------------------
(***************************************************************************)
(* What makes pCp correct: the type invariant, the safety and liveness     *)
(* properties, and the refinement of CopyQueue.                            *)
(***************************************************************************)
EXTENDS PCp, Sequences

ProducerLabels == {"unborn", "opendir", "readdir", "enter", "wait", "opensrc",
                   "opendst", "put", "finish", "exited"}
ConsumerLabels == {"unborn", "enter", "wait", "copy", "recheck", "exited"}

(* Every variable has its C type's range; count never leaves the ring.     *)
ThreadTypeOK ==
    /\ mutex \in Threads \cup {NoThread}
    /\ pc \in [Threads -> ProducerLabels \cup ConsumerLabels]
    /\ pc[Producer] \in ProducerLabels
    /\ \A c \in Consumers : pc[c] \in ConsumerLabels
    /\ main \in {"spawn", "join", "cleanup", "done"}
    /\ next \in Threads
    /\ spurious \in 0..MaxSpurious

BufferTypeOK ==
    /\ in \in Slots /\ out \in Slots
    /\ count \in 0..BUFFER_SIZE
    /\ done \in BOOLEAN
    /\ slots \in [Slots -> Files \cup {NoFile}]

FileTypeOK ==
    /\ toRead \in SUBSET Files
    /\ entry \in Files \cup {NoFile}
    /\ fds \in SUBSET ({"src", "dst"} \X Files)
    /\ srcPos \in [Files -> Nat]
    /\ dst \in [Files -> Int]
    /\ printed \in SUBSET Files

TypeOK == ThreadTypeOK /\ BufferTypeOK /\ FileTypeOK

(* The slots in use are the count slots from out on, around the ring; the  *)
(* entries buffered there, as a set and oldest first.                      *)
Occupied == {s \in Slots : IF s >= out THEN s - out < count
                                       ELSE s - out + BUFFER_SIZE < count}
Queued == {slots[s] : s \in Occupied}
Queue  == [i \in 1..count |-> slots[(out + i - 1) % BUFFER_SIZE]]

(* The descriptors the producer holds between open() and the buffer.       *)
InHand == CASE pc[Producer] = "opendst" -> {<<"src", entry>>}
            [] pc[Producer] = "put"     -> {<<"src", entry>>, <<"dst", entry>>}
            [] OTHER                    -> {}
-----------------------------------------------------------------------------
(* Wherever the code does a sequence of calls on buf or on descriptors it  *)
(* found there, the thread in question, and no other, holds buf.mutex.     *)
InCriticalSection(t) ==
    IF t = Producer THEN pc[t] \in {"opensrc", "opendst", "put"}
                    ELSE pc[t] = "copy"
MutualExclusion == \A t \in Threads : InCriticalSection(t) <=> mutex = t

(* The open descriptors are those of the buffered pairs and those the      *)
(* producer is about to buffer: no error path and no exit leaks one, and   *)
(* no pair is closed while it is still in the buffer.                      *)
DescriptorsAccounted == fds = {"src", "dst"} \X Queued \cup InHand

(* No wakeup is lost: the producer sleeps only on a full buffer; consumers *)
(* sleep only before done is set, and only while enough other consumers    *)
(* are awake (or yet to start) to take every buffered pair.                *)
SleepersHaveReason ==
    /\ pc[Producer] = "wait" => Full
    /\ SleepingConsumers # {} =>
          /\ ~done
          /\ count <= Cardinality({c \in Consumers :
                                     pc[c] \notin {"wait", "exited"}})

(* A destination is truncated only for a pair that will be copied: its     *)
(* source was opened, and the pair is in hand, buffered or copied.  (The   *)
(* source is opened first, so a bad source leaves the old copy alone.)     *)
TruncatedIsOwned ==
    \A f \in Files : dst[f] # Untouched =>
        /\ f \notin BadSource
        /\ f \in printed \/ f \in Queued \/ <<"dst", f>> \in InHand

(* Barring read and write errors, a file reported as copied has every      *)
(* block of its source: no second copy, and no early end of the loop.      *)
ReportedIsComplete ==
    \A f \in printed \ (ReadFails \cup WriteFails) : dst[f] = Blocks[f]

(* When main reaches cleanup_buffer the mutex is free and every thread has *)
(* exited, so no destroyed mutex or condition variable is ever used.       *)
CleanupIsSafe ==
    main \in {"cleanup", "done"} =>
        mutex = NoThread /\ \A t \in Threads : pc[t] = "exited"

(* When main returns no descriptor is open, and every entry that can be    *)
(* opened was copied, provided that the process may have two descriptors   *)
(* per slot: the consumers do not leave while pairs are in the buffer.     *)
EnoughDescriptors == FdLimit >= 2 * BUFFER_SIZE
Openable == Files \ (BadSource \cup BadDest)

NothingLeftBehind ==
    main = "done" => fds = {} /\ (EnoughDescriptors => printed = Openable)

(* pCp does what CopyQueue promises: entries are copied at most once, in   *)
(* the order they were buffered, and none is buffered once done is set.    *)
CQ == INSTANCE CopyQueue
          WITH Capacity <- BUFFER_SIZE,
               unseen   <- toRead \cup ({entry} \ {NoFile}),
               queue    <- Queue,
               copied   <- printed,
               closed   <- done
ImplementsCopyQueue == CQ!Spec
-----------------------------------------------------------------------------
(* Every thread ends and main returns, unless opendir() has failed: then   *)
(* nobody sets done (pCp.c:131-135), the consumers sleep for ever, and so  *)
(* does main in pthread_join.                                              *)
NoDirectory == pc[Producer] = "exited" /\ ~done

Termination == <>(main = "done" \/ NoDirectory)

(* A pair that was put in the buffer is eventually copied and reported.    *)
BufferedGetsCopied == \A f \in Files : f \in Queued ~> f \in printed
-----------------------------------------------------------------------------
(* The inductive invariant behind the safety properties.                   *)

(* in is count slots after out.                                            *)
RingInv == in = IF out + count < BUFFER_SIZE THEN out + count
                                             ELSE out + count - BUFFER_SIZE

(* The occupied slots hold different entries, none of them unread, in the  *)
(* producer's hands or already copied, and all with a source that opened.  *)
SlotsInv ==
    /\ \A s \in Occupied :
          slots[s] \in Files \ (toRead \cup printed \cup {entry} \cup BadSource)
    /\ \A s, u \in Occupied : slots[s] = slots[u] => s = u

(* The producer works on an entry it has taken from the directory, and has *)
(* opened what InHand says it has.                                         *)
EntryInv ==
    /\ entry = NoFile <=>
          pc[Producer] \notin {"enter", "wait", "opensrc", "opendst", "put"}
    /\ entry \notin toRead \cup printed
    /\ toRead \cap printed = {}
    /\ pc[Producer] \in {"opendst", "put"} => entry \notin BadSource

(* Inside the critical section the loop condition still holds.             *)
RoomInv ==
    /\ pc[Producer] \in {"opensrc", "opendst", "put"} => ~Full
    /\ \A c \in Consumers : pc[c] = "copy" => ~Empty

(* done comes after the last entry and wakes every consumer; a consumer    *)
(* exits only when it is set and the buffer is empty.                      *)
DoneInv ==
    /\ pc[Producer] = "finish" \/ done => toRead = {}
    /\ done => pc[Producer] = "exited" /\ SleepingConsumers = {}
    /\ \A c \in Consumers : pc[c] = "exited" => done /\ Empty

SleepingProducerInv == pc[Producer] = "wait" => Full

(* What has been read so far is what has been written so far.              *)
BlocksInv ==
    /\ \A f \in Files :
          /\ srcPos[f] <= Blocks[f]
          /\ f \notin Queued \cup printed => srcPos[f] = 0
          /\ f \in Queued \ (ReadFails \cup WriteFails) => dst[f] = srcPos[f]
    /\ pc[Producer] = "put" => dst[entry] = 0

(* main has started the threads below next, or joined them.                *)
MainInv ==
    /\ \A t \in Threads : pc[t] = "unborn" <=> main = "spawn" /\ t >= next
    /\ main = "join" => \A t \in Threads : t < next => pc[t] = "exited"
    /\ main \in {"cleanup", "done"} => \A t \in Threads : pc[t] = "exited"

(* Who is where, and what that says of the buffer's state ...              *)
ControlInv == /\ TypeOK
              /\ MutualExclusion
              /\ EntryInv
              /\ RoomInv
              /\ DoneInv
              /\ SleepingProducerInv
              /\ MainInv

(* ... and what the buffer, the descriptors and the files hold.            *)
DataInv == /\ RingInv
           /\ SlotsInv
           /\ DescriptorsAccounted
           /\ TruncatedIsOwned
           /\ BlocksInv
           /\ ReportedIsComplete

IInv == ControlInv /\ DataInv

(* What is behind NothingLeftBehind: only entries that can be opened get   *)
(* into the buffer, and with descriptors enough every one of them is still *)
(* unread, in the producer's hands, buffered, or copied.                   *)
CompleteInv ==
    /\ Queued \cup printed \subseteq Openable
    /\ pc[Producer] = "put" => entry \in Openable
    /\ EnoughDescriptors => Openable \subseteq toRead \cup {entry} \cup Queued \cup printed
=============================================================================
