--------------------------- MODULE PCpRefinement ---------------------------
(***************************************************************************)
(* pCp implements CopyQueue, and its wakeups suffice, for every value of   *)
(* the constants.                                                          *)
(***************************************************************************)
EXTENDS PCpProof, FiniteSetTheorems

(* The slot that is n places after slot i.                                 *)
LEMMA SlotAfter ==
    ASSUME NEW i \in Slots, NEW n \in 0..BUFFER_SIZE
    PROVE  (i + n) % BUFFER_SIZE = IF i + n < BUFFER_SIZE THEN i + n
                                                          ELSE i + n - BUFFER_SIZE
BY SizeAssumption DEF Slots

(* Storing a pair at in appends it to the queue.                           *)
LEMMA QueueAfterPut ==
    ASSUME TypeOK, RingInv, ~Full, NEW f \in Files,
           slots' = [slots EXCEPT ![in] = f], count' = count + 1, out' = out
    PROVE  Queue' = Append(Queue, f) /\ Len(Queue) = count
<1>1. /\ in \in Slots /\ out \in Slots /\ count \in 0..BUFFER_SIZE
      /\ count # BUFFER_SIZE /\ slots \in [Slots -> Files \cup {NoFile}]
  BY DEF TypeOK, BufferTypeOK, Full
<1>2. \A i \in 1..count : /\ (out + i - 1) % BUFFER_SIZE \in Slots
                          /\ (out + i - 1) % BUFFER_SIZE # in
  BY <1>1, SizeAssumption DEF RingInv, Slots
<1>3. (out + (count + 1) - 1) % BUFFER_SIZE = in
  BY <1>1, SizeAssumption DEF RingInv, Slots
<1>4. /\ Queue \in Seq(Files \cup {NoFile})
      /\ Len(Queue) = count
      /\ \A i \in 1..count : Queue[i] = slots[(out + i - 1) % BUFFER_SIZE]
  BY <1>1, <1>2 DEF Queue
<1>5. /\ Queue' \in Seq(Files \cup {NoFile})
      /\ Len(Queue') = count + 1
      /\ \A i \in 1..(count + 1) :
            Queue'[i] = slots'[(out + i - 1) % BUFFER_SIZE]
  BY <1>1, <1>2, <1>3 DEF Queue
<1>6. \A i \in 1..(count + 1) : Queue'[i] = Append(Queue, f)[i]
  <2>1. ASSUME NEW i \in 1..count PROVE Queue'[i] = Queue[i]
    BY <1>1, <1>2, <1>4, <1>5
  <2>2. Queue'[count + 1] = f
    BY <1>1, <1>3, <1>5
  <2> QED BY <2>1, <2>2, <1>1, <1>4
<1>7. /\ Append(Queue, f) \in Seq(Files \cup {NoFile})
      /\ Len(Append(Queue, f)) = count + 1
  BY <1>4
<1> QED BY <1>1, <1>4, <1>5, <1>6, <1>7

(* Moving out on takes the oldest pair off the queue.                      *)
LEMMA QueueAfterTake ==
    ASSUME TypeOK, ~Empty, UNCHANGED slots, out' = Advance(out),
           count' = count - 1
    PROVE  Queue # << >> /\ Head(Queue) = Current /\ Queue' = Tail(Queue)
<1>1. /\ out \in Slots /\ count \in 1..BUFFER_SIZE
      /\ slots \in [Slots -> Files \cup {NoFile}]
      /\ out' = (out + 1) % BUFFER_SIZE
  BY DEF TypeOK, BufferTypeOK, Empty, Advance
<1>2. \A i \in 1..count : (out + i - 1) % BUFFER_SIZE \in Slots
  BY <1>1, SizeAssumption DEF Slots
<1>3. /\ (out + 1 - 1) % BUFFER_SIZE = out
      /\ \A i \in 1..(count - 1) : (out' + i - 1) % BUFFER_SIZE = (out + (i + 1) - 1) % BUFFER_SIZE
  BY <1>1, SizeAssumption DEF Slots
<1>4. /\ Queue \in Seq(Files \cup {NoFile})
      /\ Len(Queue) = count
      /\ \A i \in 1..count : Queue[i] = slots[(out + i - 1) % BUFFER_SIZE]
  BY <1>1, <1>2 DEF Queue
<1>5. /\ Queue' \in Seq(Files \cup {NoFile})
      /\ Len(Queue') = count - 1
      /\ \A i \in 1..(count - 1) : Queue'[i] = slots[(out + (i + 1) - 1) % BUFFER_SIZE]
  <2>1. Queue' = [i \in 1..(count - 1) |-> slots[(out' + i - 1) % BUFFER_SIZE]]
    BY <1>1 DEF Queue
  <2>2. \A i \in 1..(count - 1) :
           /\ slots[(out' + i - 1) % BUFFER_SIZE] = slots[(out + (i + 1) - 1) % BUFFER_SIZE]
           /\ slots[(out' + i - 1) % BUFFER_SIZE] \in Files \cup {NoFile}
    <3>1. \A i \in 1..(count - 1) : i + 1 \in 1..count
      BY <1>1
    <3> QED BY <1>1, <1>2, <1>3, <3>1
  <2>3. count - 1 \in Nat
    BY <1>1
  <2> QED BY <2>1, <2>2, <2>3
<1>6. \A i \in 1..(count - 1) : Queue'[i] = Tail(Queue)[i]
  <2>1. \A i \in 1..(count - 1) : i + 1 \in 1..count /\ Tail(Queue)[i] = Queue[i + 1]
    BY <1>1, <1>4
  <2> QED BY <2>1, <1>4, <1>5
<1>7. Queue # << >> /\ Head(Queue) = Current
  BY <1>1, <1>3, <1>4 DEF Current
<1>8. Tail(Queue) \in Seq(Files \cup {NoFile}) /\ Len(Tail(Queue)) = count - 1
  BY <1>1, <1>4, <1>7
<1> QED BY <1>1, <1>5, <1>6, <1>7, <1>8
-----------------------------------------------------------------------------
Unseen == toRead \cup ({entry} \ {NoFile})

(* A step that leaves the buffer's contents, the unread entries, the       *)
(* reports and done alone is a step the abstract queue does not see.       *)
LEMMA QuietStepStutters ==
    ASSUME UNCHANGED <<bufVars, toRead, entry, printed>>
    PROVE  UNCHANGED CQ!vars
BY DEF CQ!vars, bufVars, Queue

(* An entry the producer gives up on is refused.                           *)
LEMMA GiveUpRefuses ==
    ASSUME IInv, UNCHANGED <<bufVars, toRead, printed>>,
           pc[Producer] \in {"opensrc", "opendst"}, entry' = NoFile
    PROVE  CQ!Next
<1>1. entry \in Files /\ entry \notin toRead /\ ~done
  BY DEF IInv, ControlInv, EntryInv, DoneInv, TypeOK, FileTypeOK, BufferTypeOK
<1>2. Unseen' = Unseen \ {entry} /\ entry \in Unseen
  BY <1>1, FilesAssumption DEF Unseen
<1>3. Queue' = Queue
  BY DEF Queue, bufVars
<1>4. CQ!Refuse(entry)
  BY <1>1, <1>2, <1>3 DEF CQ!Refuse, Unseen, bufVars
<1> QED BY <1>1, <1>4 DEF CQ!Next

LEMMA PutAdmits ==
    ASSUME IInv, Put
    PROVE  CQ!Next
<1> USE DEF IInv, ControlInv, DataInv, Put
<1>1. entry \in Files /\ entry \notin toRead /\ ~done
  BY DEF EntryInv, DoneInv, TypeOK, FileTypeOK, BufferTypeOK
<1>2. ~Full
  BY DEF RoomInv
<1>3. Queue' = Append(Queue, entry) /\ Len(Queue) = count
  BY <1>1, <1>2, QueueAfterPut
<1>4. count < BUFFER_SIZE
  BY <1>2, SizeAssumption DEF TypeOK, BufferTypeOK, Full
<1>5. Unseen' = Unseen \ {entry} /\ entry \in Unseen
  BY <1>1, FilesAssumption DEF Unseen
<1>6. CQ!Admit(entry)
  BY <1>1, <1>3, <1>4, <1>5 DEF CQ!Admit, Unseen, fileVars
<1> QED BY <1>1, <1>6 DEF CQ!Next

LEMMA FinishCloses ==
    ASSUME IInv, Finish
    PROVE  CQ!Next
<1>1. ~done /\ toRead = {} /\ entry = NoFile
  BY DEF Finish, IInv, ControlInv, EntryInv, DoneInv, TypeOK, BufferTypeOK
<1>2. Queue' = Queue
  BY DEF Queue, Finish
<1>3. CQ!Close
  BY <1>1, <1>2 DEF CQ!Close, Finish, dirVars, fileVars
<1> QED BY <1>3 DEF CQ!Next

LEMMA FinishCopyDelivers ==
    ASSUME IInv, NEW c \in Consumers, FinishCopy(c)
    PROVE  CQ!Next
<1>1. TypeOK /\ ~Empty
  BY DEF FinishCopy, IInv, ControlInv, RoomInv
<1>2. Queue # << >> /\ Head(Queue) = Current /\ Queue' = Tail(Queue)
  BY <1>1, QueueAfterTake DEF FinishCopy
<1>3. CQ!Deliver
  BY <1>2 DEF CQ!Deliver, FinishCopy, dirVars
<1> QED BY <1>3 DEF CQ!Next

LEMMA NextImplements == IInv /\ [Next]_vars => [CQ!Next]_(CQ!vars)
<1> SUFFICES ASSUME IInv, [Next]_vars PROVE CQ!Next \/ UNCHANGED CQ!vars
  OBVIOUS
<1> USE DEF dirVars, fileVars
<1>1. CASE OpenDir \/ ProducerEnter
  BY <1>1, QuietStepStutters DEF OpenDir, ProducerEnter
<1>2. CASE ReadDir
  <2>1. entry = NoFile
    BY <1>2 DEF ReadDir, IInv, ControlInv, EntryInv
  <2>2. Unseen' = Unseen
    BY <1>2, <2>1, FilesAssumption DEF ReadDir, Unseen, IInv, ControlInv, TypeOK, FileTypeOK
  <2>3. Queue' = Queue
    BY <1>2 DEF Queue, ReadDir, bufVars
  <2> QED BY <1>2, <2>2, <2>3 DEF ReadDir, CQ!vars, Unseen, bufVars
<1>3. CASE OpenSource
  <2>1. CASE SourceOpens
    BY <1>3, <2>1, QuietStepStutters DEF OpenSource
  <2>2. CASE ~SourceOpens
    BY <1>3, <2>2, GiveUpRefuses DEF OpenSource, GiveUpEntry
  <2> QED BY <2>1, <2>2
<1>4. CASE OpenDest
  <2>1. CASE DestOpens
    BY <1>4, <2>1, QuietStepStutters DEF OpenDest
  <2>2. CASE ~DestOpens
    BY <1>4, <2>2, GiveUpRefuses DEF OpenDest, GiveUpEntry
  <2> QED BY <2>1, <2>2
<1>5. CASE Put
  BY <1>5, PutAdmits
<1>6. CASE Finish
  BY <1>6, FinishCloses
<1>7. CASE \E c \in Consumers : ConsumerEnter(c) \/ CopyBlock(c) \/ Recheck(c)
  BY <1>7, QuietStepStutters DEF ConsumerEnter, CopyBlock, Recheck
<1>8. CASE \E c \in Consumers : FinishCopy(c)
  BY <1>8, FinishCopyDelivers
<1>9. CASE MainStep
  BY <1>9, QuietStepStutters DEF MainStep, Spawn, Join, Cleanup
<1>10. CASE \E t \in Threads : SpuriousWakeup(t)
  BY <1>10, QuietStepStutters DEF SpuriousWakeup
<1>11. CASE Terminated \/ UNCHANGED vars
  BY <1>11, QuietStepStutters DEF Terminated, vars
<1> QED BY <1>1, <1>2, <1>3, <1>4, <1>5, <1>6, <1>7, <1>8, <1>9, <1>10, <1>11
        DEF Next, ProducerStep, ConsumerStep

LEMMA InitImplements == Init => CQ!Init
<1> SUFFICES ASSUME Init PROVE CQ!Init
  OBVIOUS
<1>1. Queue = << >>
  BY DEF Queue, Init
<1> QED BY <1>1 DEF CQ!Init, Init

(* Entries are copied at most once and in the order they were buffered,    *)
(* at most BUFFER_SIZE wait at a time, and none comes after done is set.   *)
THEOREM Refinement == Spec => ImplementsCopyQueue
<1>1. Spec => CQ!Init /\ [][CQ!Next]_(CQ!vars)
  BY InitImplements, NextImplements, Invariance, PTL DEF Spec
<1> QED BY <1>1 DEF ImplementsCopyQueue, CQ!Spec
=============================================================================
