------------------------------ MODULE PCpProof ------------------------------
(***************************************************************************)
(* Proofs about pCp for every number of consumers, every buffer size and   *)
(* every set of directory entries: the inductive invariant IInv of         *)
(* PCpProperties, the safety properties that follow from it, and the       *)
(* refinement of CopyQueue.                                                *)
(***************************************************************************)
EXTENDS PCpProperties, FiniteSetTheorems, TLAPS

USE SizeAssumption, ConsumersAssumption, FilesAssumption, BlocksAssumption,
    EnvironmentAssumption

(* Indices wrap at the end of the ring.                                    *)
LEMMA AdvanceWraps ==
    ASSUME NEW i \in Slots
    PROVE  /\ Advance(i) \in Slots
           /\ Advance(i) = IF i = BUFFER_SIZE - 1 THEN 0 ELSE i + 1
BY DEF Advance, Slots

(* Buffering a pair occupies exactly the slot at in, which was free.       *)
LEMMA OccupiedAfterPut ==
    ASSUME TypeOK, RingInv, ~Full, in' = Advance(in), count' = count + 1,
           out' = out
    PROVE  /\ in \notin Occupied
           /\ Occupied' = Occupied \cup {in}
           /\ RingInv'
           /\ in' \in Slots
           /\ count' \in 0..BUFFER_SIZE
<1>1. in \in Slots /\ out \in Slots /\ count \in 0..BUFFER_SIZE /\ count # BUFFER_SIZE
  BY DEF TypeOK, BufferTypeOK, Full
<1>2. in' \in Slots /\ in' = IF in = BUFFER_SIZE - 1 THEN 0 ELSE in + 1
  BY <1>1, AdvanceWraps
<1>3. in \notin Occupied
  BY <1>1 DEF Occupied, RingInv, Slots
<1>4. Occupied' = Occupied \cup {in}
  <2>1. ASSUME NEW s \in Slots
        PROVE  s \in Occupied' <=> s \in Occupied \/ s = in
    BY <1>1 DEF Occupied, RingInv, Slots
  <2> QED BY <1>1, <2>1 DEF Occupied
<1>5. RingInv'
  BY <1>1, <1>2 DEF RingInv, Slots
<1> QED BY <1>1, <1>2, <1>3, <1>4, <1>5

(* Taking a pair frees exactly the slot at out, which was occupied.        *)
LEMMA OccupiedAfterTake ==
    ASSUME TypeOK, RingInv, ~Empty, out' = Advance(out), count' = count - 1,
           in' = in
    PROVE  /\ out \in Occupied
           /\ Occupied' = Occupied \ {out}
           /\ RingInv'
           /\ out' \in Slots
           /\ count' \in 0..BUFFER_SIZE
<1>1. in \in Slots /\ out \in Slots /\ count \in 0..BUFFER_SIZE /\ count # 0
  BY DEF TypeOK, BufferTypeOK, Empty
<1>2. out' \in Slots /\ out' = IF out = BUFFER_SIZE - 1 THEN 0 ELSE out + 1
  BY <1>1, AdvanceWraps
<1>3. out \in Occupied
  BY <1>1 DEF Occupied, Slots
<1>4. Occupied' = Occupied \ {out}
  <2>1. ASSUME NEW s \in Slots
        PROVE  s \in Occupied' <=> s \in Occupied /\ s # out
    BY <1>1, <1>2 DEF Occupied, Slots
  <2> QED BY <1>1, <2>1 DEF Occupied
<1>5. RingInv'
  BY <1>1, <1>2 DEF RingInv, Slots
<1> QED BY <1>1, <1>2, <1>3, <1>4, <1>5
(* The pair at out, which a copying consumer works on, is in the buffer.   *)
LEMMA CurrentIsQueued ==
    ASSUME IInv, NEW c \in Consumers, pc[c] = "copy"
    PROVE  /\ out \in Occupied
           /\ Current \in Queued
           /\ Current \in Files \ (toRead \cup printed \cup {entry} \cup BadSource)
<1>1. out \in Slots /\ count \in 0..BUFFER_SIZE /\ count # 0
  BY DEF IInv, ControlInv, TypeOK, BufferTypeOK, RoomInv, Empty
<1>2. out \in Occupied
  BY <1>1 DEF Occupied, Slots
<1> QED BY <1>2 DEF IInv, DataInv, SlotsInv, Queued, Current

-----------------------------------------------------------------------------
-----------------------------------------------------------------------------
LEMMA ControlInit == Init => ControlInv
<1> SUFFICES ASSUME Init PROVE ControlInv
  OBVIOUS
<1> USE DEF Init, Threads, Consumers, Producer, NoThread
<1>1. ThreadTypeOK
  BY DEF ThreadTypeOK, ProducerLabels, ConsumerLabels
<1>2. BufferTypeOK
  <2>1. 0 \in Slots /\ 0 \in 0..BUFFER_SIZE
    BY SizeAssumption DEF Slots
  <2> QED BY <2>1 DEF BufferTypeOK
<1>3. FileTypeOK
  BY DEF FileTypeOK, Untouched
<1>4. MutualExclusion
  BY DEF MutualExclusion, InCriticalSection
<1>5. EntryInv /\ RoomInv
  BY DEF EntryInv, RoomInv
<1>6. DoneInv /\ SleepingProducerInv
  BY DEF DoneInv, SleepingProducerInv, SleepingConsumers, Sleeping
<1>7. MainInv
  BY DEF MainInv
<1> QED BY <1>1, <1>2, <1>3, <1>4, <1>5, <1>6, <1>7 DEF ControlInv, TypeOK

LEMMA OpenDirKeepsControl ==
    ASSUME ControlInv, OpenDir
    PROVE  ControlInv'
<1> USE DEF ControlInv, TypeOK, OpenDir, Goto, Move, Threads, Consumers, Producer,
            bufVars, dirVars, fileVars, mainVars
<1>1. ThreadTypeOK'
  BY DEF ThreadTypeOK, ProducerLabels, ConsumerLabels
<1>2. BufferTypeOK'
  BY DEF BufferTypeOK
<1>3. FileTypeOK'
  BY DEF FileTypeOK
<1>4. MutualExclusion'
  BY DEF ThreadTypeOK, MutualExclusion, InCriticalSection, MutexFree, NoThread
<1>5. EntryInv'
  BY DEF ThreadTypeOK, FileTypeOK, EntryInv, ProducerLabels
<1>6. RoomInv'
  BY DEF ThreadTypeOK, BufferTypeOK, MutualExclusion, InCriticalSection, RoomInv, Full, Empty
<1>7. DoneInv'
  BY DEF ThreadTypeOK, DoneInv, SleepingConsumers, Sleeping, Empty
<1>8. SleepingProducerInv'
  BY DEF ThreadTypeOK, SleepingProducerInv, Full
<1>9. MainInv'
  BY DEF ThreadTypeOK, MainInv
<1> QED BY <1>1, <1>2, <1>3, <1>4, <1>5, <1>6, <1>7, <1>8, <1>9

LEMMA ReadDirKeepsControl ==
    ASSUME ControlInv, ReadDir
    PROVE  ControlInv'
<1> USE DEF ControlInv, TypeOK, ReadDir, Goto, Move, Threads, Consumers, Producer,
            bufVars, dirVars, fileVars, mainVars
<1>1. ThreadTypeOK'
  BY DEF ThreadTypeOK, ProducerLabels, ConsumerLabels
<1>2. BufferTypeOK'
  BY DEF BufferTypeOK
<1>3. FileTypeOK'
  BY DEF FileTypeOK
<1>4. MutualExclusion'
  BY DEF ThreadTypeOK, MutualExclusion, InCriticalSection, MutexFree, NoThread
<1>5. EntryInv'
  BY DEF ThreadTypeOK, FileTypeOK, EntryInv, ProducerLabels
<1>6. RoomInv'
  BY DEF ThreadTypeOK, BufferTypeOK, MutualExclusion, InCriticalSection, RoomInv, Full, Empty
<1>7. DoneInv'
  BY DEF ThreadTypeOK, DoneInv, SleepingConsumers, Sleeping, Empty
<1>8. SleepingProducerInv'
  BY DEF ThreadTypeOK, SleepingProducerInv, Full
<1>9. MainInv'
  BY DEF ThreadTypeOK, MainInv
<1> QED BY <1>1, <1>2, <1>3, <1>4, <1>5, <1>6, <1>7, <1>8, <1>9

LEMMA ProducerEnterKeepsControl ==
    ASSUME ControlInv, ProducerEnter
    PROVE  ControlInv'
<1> USE DEF ControlInv, TypeOK, ProducerEnter, Goto, Move, Threads, Consumers, Producer,
            bufVars, dirVars, fileVars, mainVars
<1>1. ThreadTypeOK'
  BY DEF ThreadTypeOK, ProducerLabels, ConsumerLabels
<1>2. BufferTypeOK'
  BY DEF BufferTypeOK
<1>3. FileTypeOK'
  BY DEF FileTypeOK
<1>4. MutualExclusion'
  BY DEF ThreadTypeOK, MutualExclusion, InCriticalSection, MutexFree, NoThread
<1>5. EntryInv'
  BY DEF ThreadTypeOK, FileTypeOK, EntryInv, ProducerLabels
<1>6. RoomInv'
  BY DEF ThreadTypeOK, BufferTypeOK, MutualExclusion, InCriticalSection, RoomInv, Full, Empty
<1>7. DoneInv'
  BY DEF ThreadTypeOK, DoneInv, SleepingConsumers, Sleeping, Empty
<1>8. SleepingProducerInv'
  BY DEF ThreadTypeOK, SleepingProducerInv, Full
<1>9. MainInv'
  BY DEF ThreadTypeOK, MainInv
<1> QED BY <1>1, <1>2, <1>3, <1>4, <1>5, <1>6, <1>7, <1>8, <1>9

LEMMA OpenSourceKeepsControl ==
    ASSUME ControlInv, OpenSource
    PROVE  ControlInv'
<1> USE DEF ControlInv, TypeOK, OpenSource, GiveUpEntry, Goto, Move, Threads, Consumers, Producer,
            bufVars, dirVars, fileVars, mainVars
<1>1. ThreadTypeOK'
  BY DEF ThreadTypeOK, ProducerLabels, ConsumerLabels
<1>2. BufferTypeOK'
  BY DEF BufferTypeOK
<1>3. FileTypeOK'
  BY DEF FileTypeOK, EntryInv
<1>4. MutualExclusion'
  BY DEF ThreadTypeOK, MutualExclusion, InCriticalSection, MutexFree, NoThread
<1>5. EntryInv'
  BY DEF ThreadTypeOK, FileTypeOK, EntryInv, SourceOpens
<1>6. RoomInv'
  BY DEF ThreadTypeOK, BufferTypeOK, MutualExclusion, InCriticalSection, RoomInv, Full, Empty
<1>7. DoneInv'
  BY DEF ThreadTypeOK, DoneInv, SleepingConsumers, Sleeping, Empty
<1>8. SleepingProducerInv'
  BY DEF ThreadTypeOK, SleepingProducerInv, Full
<1>9. MainInv'
  BY DEF ThreadTypeOK, MainInv
<1> QED BY <1>1, <1>2, <1>3, <1>4, <1>5, <1>6, <1>7, <1>8, <1>9

LEMMA OpenDestKeepsControl ==
    ASSUME ControlInv, OpenDest
    PROVE  ControlInv'
<1> USE DEF ControlInv, TypeOK, OpenDest, GiveUpEntry, CloseSource, Goto, Move, Threads, Consumers, Producer,
            bufVars, dirVars, fileVars, mainVars
<1>1. ThreadTypeOK'
  BY DEF ThreadTypeOK, ProducerLabels, ConsumerLabels
<1>2. BufferTypeOK'
  BY DEF BufferTypeOK
<1>3. FileTypeOK'
  BY DEF FileTypeOK, EntryInv
<1>4. MutualExclusion'
  BY DEF ThreadTypeOK, MutualExclusion, InCriticalSection, MutexFree, NoThread
<1>5. EntryInv'
  BY DEF ThreadTypeOK, FileTypeOK, EntryInv, ProducerLabels
<1>6. RoomInv'
  BY DEF ThreadTypeOK, BufferTypeOK, MutualExclusion, InCriticalSection, RoomInv, Full, Empty
<1>7. DoneInv'
  BY DEF ThreadTypeOK, DoneInv, SleepingConsumers, Sleeping, Empty
<1>8. SleepingProducerInv'
  BY DEF ThreadTypeOK, SleepingProducerInv, Full
<1>9. MainInv'
  BY DEF ThreadTypeOK, MainInv
<1> QED BY <1>1, <1>2, <1>3, <1>4, <1>5, <1>6, <1>7, <1>8, <1>9

LEMMA PutKeepsControl ==
    ASSUME ControlInv, Put
    PROVE  ControlInv'
<1> USE DEF ControlInv, TypeOK, Put, SignalConsumer, Goto, Move, Threads, Consumers, Producer,
            bufVars, dirVars, fileVars, mainVars
<1>1. ThreadTypeOK'
  BY DEF ThreadTypeOK, ProducerLabels, ConsumerLabels
<1>2. BufferTypeOK'
  <2>1. in' \in Slots
    BY AdvanceWraps DEF BufferTypeOK
  <2>2. count' \in 0..BUFFER_SIZE
    BY DEF BufferTypeOK, RoomInv, Full
  <2>3. slots' \in [Slots -> Files \cup {NoFile}]
    BY DEF BufferTypeOK, FileTypeOK
  <2> QED BY <2>1, <2>2, <2>3 DEF BufferTypeOK
<1>3. FileTypeOK'
  BY DEF FileTypeOK
<1>4. MutualExclusion'
  BY DEF ThreadTypeOK, MutualExclusion, InCriticalSection, MutexFree, NoThread
<1>5. EntryInv'
  BY DEF ThreadTypeOK, FileTypeOK, EntryInv, ProducerLabels
<1>6. RoomInv'
  BY DEF ThreadTypeOK, BufferTypeOK, MutualExclusion, InCriticalSection, RoomInv, Full, Empty
<1>7. DoneInv'
  BY DEF ThreadTypeOK, DoneInv, SleepingConsumers, Sleeping, Empty
<1>8. SleepingProducerInv'
  BY DEF ThreadTypeOK, SleepingProducerInv, Full
<1>9. MainInv'
  BY DEF ThreadTypeOK, MainInv, SleepingConsumers, Sleeping
<1> QED BY <1>1, <1>2, <1>3, <1>4, <1>5, <1>6, <1>7, <1>8, <1>9

LEMMA FinishKeepsControl ==
    ASSUME ControlInv, Finish
    PROVE  ControlInv'
<1> USE DEF ControlInv, TypeOK, Finish, BroadcastConsumers, Goto, Move, Threads, Consumers, Producer,
            bufVars, dirVars, fileVars, mainVars
<1>1. ThreadTypeOK'
  BY DEF ThreadTypeOK, ProducerLabels, ConsumerLabels
<1>2. BufferTypeOK'
  BY DEF BufferTypeOK
<1>3. FileTypeOK'
  BY DEF FileTypeOK
<1>4. MutualExclusion'
  BY DEF ThreadTypeOK, MutualExclusion, InCriticalSection, MutexFree, NoThread
<1>5. EntryInv'
  BY DEF ThreadTypeOK, FileTypeOK, EntryInv, ProducerLabels
<1>6. RoomInv'
  BY DEF ThreadTypeOK, BufferTypeOK, MutualExclusion, InCriticalSection, RoomInv, Full, Empty
<1>7. DoneInv'
  BY DEF ThreadTypeOK, DoneInv, SleepingConsumers, Sleeping, Empty
<1>8. SleepingProducerInv'
  BY DEF ThreadTypeOK, SleepingProducerInv, Full
<1>9. MainInv'
  BY DEF ThreadTypeOK, MainInv, SleepingConsumers, Sleeping
<1> QED BY <1>1, <1>2, <1>3, <1>4, <1>5, <1>6, <1>7, <1>8, <1>9

LEMMA ConsumerEnterKeepsControl ==
    ASSUME ControlInv, NEW c \in Consumers, ConsumerEnter(c)
    PROVE  ControlInv'
<1> USE DEF ControlInv, TypeOK, ConsumerEnter, Goto, Move, Threads, Consumers, Producer,
            bufVars, dirVars, fileVars, mainVars
<1>1. ThreadTypeOK'
  BY DEF ThreadTypeOK, ProducerLabels, ConsumerLabels
<1>2. BufferTypeOK'
  BY DEF BufferTypeOK
<1>3. FileTypeOK'
  BY DEF FileTypeOK
<1>4. MutualExclusion'
  BY DEF ThreadTypeOK, MutualExclusion, InCriticalSection, MutexFree, NoThread
<1>5. EntryInv'
  BY DEF ThreadTypeOK, FileTypeOK, EntryInv, ProducerLabels
<1>6. RoomInv'
  BY DEF ThreadTypeOK, BufferTypeOK, MutualExclusion, InCriticalSection, RoomInv, Full, Empty
<1>7. DoneInv'
  BY DEF ThreadTypeOK, DoneInv, SleepingConsumers, Sleeping, Empty
<1>8. SleepingProducerInv'
  BY DEF ThreadTypeOK, SleepingProducerInv, Full
<1>9. MainInv'
  BY DEF ThreadTypeOK, MainInv
<1> QED BY <1>1, <1>2, <1>3, <1>4, <1>5, <1>6, <1>7, <1>8, <1>9

LEMMA CopyBlockKeepsControl ==
    ASSUME IInv, NEW c \in Consumers, CopyBlock(c)
    PROVE  ControlInv'
<1> USE DEF IInv, ControlInv, TypeOK, CopyBlock, Goto, Move, Threads, Consumers, Producer,
            bufVars, dirVars, fileVars, mainVars
<1>1. ThreadTypeOK'
  BY DEF ThreadTypeOK, ProducerLabels, ConsumerLabels
<1>2. BufferTypeOK'
  BY DEF BufferTypeOK
<1>3. FileTypeOK'
  BY CurrentIsQueued DEF FileTypeOK
<1>4. MutualExclusion'
  BY DEF ThreadTypeOK, MutualExclusion, InCriticalSection, MutexFree, NoThread
<1>5. EntryInv'
  BY DEF ThreadTypeOK, FileTypeOK, EntryInv, ProducerLabels
<1>6. RoomInv'
  BY DEF ThreadTypeOK, BufferTypeOK, MutualExclusion, InCriticalSection, RoomInv, Full, Empty
<1>7. DoneInv'
  BY DEF ThreadTypeOK, DoneInv, SleepingConsumers, Sleeping, Empty
<1>8. SleepingProducerInv'
  BY DEF ThreadTypeOK, SleepingProducerInv, Full
<1>9. MainInv'
  BY DEF ThreadTypeOK, MainInv
<1> QED BY <1>1, <1>2, <1>3, <1>4, <1>5, <1>6, <1>7, <1>8, <1>9

LEMMA FinishCopyKeepsControl ==
    ASSUME IInv, NEW c \in Consumers, FinishCopy(c)
    PROVE  ControlInv'
<1> USE DEF IInv, ControlInv, TypeOK, FinishCopy, SignalProducer, Goto, Move, Threads, Consumers, Producer,
            bufVars, dirVars, fileVars, mainVars
<1>1. ThreadTypeOK'
  BY DEF ThreadTypeOK, ProducerLabels, ConsumerLabels
<1>2. BufferTypeOK'
  <2>1. out' \in Slots
    BY AdvanceWraps DEF BufferTypeOK
  <2>2. count' \in 0..BUFFER_SIZE
    BY DEF BufferTypeOK, RoomInv, Empty
  <2> QED BY <2>1, <2>2 DEF BufferTypeOK
<1>3. FileTypeOK'
  BY CurrentIsQueued DEF FileTypeOK
<1>4. MutualExclusion'
  BY DEF ThreadTypeOK, MutualExclusion, InCriticalSection, MutexFree, NoThread
<1>5. EntryInv'
  BY CurrentIsQueued DEF ThreadTypeOK, FileTypeOK, EntryInv, Sleeping
<1>6. RoomInv'
  BY DEF ThreadTypeOK, BufferTypeOK, MutualExclusion, InCriticalSection, RoomInv, Full, Empty
<1>7. DoneInv'
  BY DEF ThreadTypeOK, BufferTypeOK, DoneInv, RoomInv, SleepingConsumers, Sleeping, Empty
<1>8. SleepingProducerInv'
  BY DEF ThreadTypeOK, SleepingProducerInv, Sleeping
<1>9. MainInv'
  BY DEF ThreadTypeOK, MainInv, Sleeping
<1> QED BY <1>1, <1>2, <1>3, <1>4, <1>5, <1>6, <1>7, <1>8, <1>9

LEMMA RecheckKeepsControl ==
    ASSUME ControlInv, NEW c \in Consumers, Recheck(c)
    PROVE  ControlInv'
<1> USE DEF ControlInv, TypeOK, Recheck, Drained, Goto, Move, Threads, Consumers, Producer,
            bufVars, dirVars, fileVars, mainVars
<1>1. ThreadTypeOK'
  BY DEF ThreadTypeOK, ProducerLabels, ConsumerLabels
<1>2. BufferTypeOK'
  BY DEF BufferTypeOK
<1>3. FileTypeOK'
  BY DEF FileTypeOK
<1>4. MutualExclusion'
  BY DEF ThreadTypeOK, MutualExclusion, InCriticalSection, MutexFree, NoThread
<1>5. EntryInv'
  BY DEF ThreadTypeOK, FileTypeOK, EntryInv, ProducerLabels
<1>6. RoomInv'
  BY DEF ThreadTypeOK, BufferTypeOK, MutualExclusion, InCriticalSection, RoomInv, Full, Empty
<1>7. DoneInv'
  BY DEF ThreadTypeOK, DoneInv, SleepingConsumers, Sleeping, Empty
<1>8. SleepingProducerInv'
  BY DEF ThreadTypeOK, SleepingProducerInv, Full
<1>9. MainInv'
  BY DEF ThreadTypeOK, MainInv
<1> QED BY <1>1, <1>2, <1>3, <1>4, <1>5, <1>6, <1>7, <1>8, <1>9

LEMMA SpawnKeepsControl ==
    ASSUME ControlInv, Spawn
    PROVE  ControlInv'
<1> USE DEF ControlInv, TypeOK, Spawn, NextThread, Goto, Move, Threads, Consumers, Producer,
            bufVars, dirVars, fileVars, mainVars
<1>1. ThreadTypeOK'
  BY DEF ThreadTypeOK, ProducerLabels, ConsumerLabels
<1>2. BufferTypeOK'
  BY DEF BufferTypeOK
<1>3. FileTypeOK'
  BY DEF FileTypeOK
<1>4. MutualExclusion'
  BY DEF ThreadTypeOK, MainInv, MutualExclusion, InCriticalSection, MutexFree, NoThread
<1>5. EntryInv'
  BY DEF ThreadTypeOK, MainInv, EntryInv
<1>6. RoomInv'
  BY DEF ThreadTypeOK, BufferTypeOK, MutualExclusion, InCriticalSection, RoomInv, Full, Empty
<1>7. DoneInv'
  BY DEF ThreadTypeOK, MainInv, DoneInv, SleepingConsumers, Sleeping, Empty
<1>8. SleepingProducerInv'
  BY DEF ThreadTypeOK, SleepingProducerInv, Full
<1>9. MainInv'
  BY DEF ThreadTypeOK, MainInv
<1> QED BY <1>1, <1>2, <1>3, <1>4, <1>5, <1>6, <1>7, <1>8, <1>9

LEMMA JoinKeepsControl ==
    ASSUME ControlInv, Join
    PROVE  ControlInv'
<1> USE DEF ControlInv, TypeOK, Join, NextThread, Joinable, Goto, Move, Threads, Consumers, Producer,
            bufVars, dirVars, fileVars, mainVars
<1>1. ThreadTypeOK'
  BY DEF ThreadTypeOK, ProducerLabels, ConsumerLabels
<1>2. BufferTypeOK'
  BY DEF BufferTypeOK
<1>3. FileTypeOK'
  BY DEF FileTypeOK
<1>4. MutualExclusion'
  BY DEF ThreadTypeOK, MutualExclusion, InCriticalSection, MutexFree, NoThread
<1>5. EntryInv'
  BY DEF ThreadTypeOK, FileTypeOK, EntryInv, ProducerLabels
<1>6. RoomInv'
  BY DEF ThreadTypeOK, BufferTypeOK, MutualExclusion, InCriticalSection, RoomInv, Full, Empty
<1>7. DoneInv'
  BY DEF ThreadTypeOK, DoneInv, SleepingConsumers, Sleeping, Empty
<1>8. SleepingProducerInv'
  BY DEF ThreadTypeOK, SleepingProducerInv, Full
<1>9. MainInv'
  BY DEF ThreadTypeOK, MainInv
<1> QED BY <1>1, <1>2, <1>3, <1>4, <1>5, <1>6, <1>7, <1>8, <1>9

LEMMA CleanupKeepsControl ==
    ASSUME ControlInv, Cleanup
    PROVE  ControlInv'
<1> USE DEF ControlInv, TypeOK, Cleanup, Goto, Move, Threads, Consumers, Producer,
            bufVars, dirVars, fileVars, mainVars
<1>1. ThreadTypeOK'
  BY DEF ThreadTypeOK, ProducerLabels, ConsumerLabels
<1>2. BufferTypeOK'
  BY DEF BufferTypeOK
<1>3. FileTypeOK'
  BY DEF FileTypeOK
<1>4. MutualExclusion'
  BY DEF ThreadTypeOK, MutualExclusion, InCriticalSection, MutexFree, NoThread
<1>5. EntryInv'
  BY DEF ThreadTypeOK, FileTypeOK, EntryInv, ProducerLabels
<1>6. RoomInv'
  BY DEF ThreadTypeOK, BufferTypeOK, MutualExclusion, InCriticalSection, RoomInv, Full, Empty
<1>7. DoneInv'
  BY DEF ThreadTypeOK, DoneInv, SleepingConsumers, Sleeping, Empty
<1>8. SleepingProducerInv'
  BY DEF ThreadTypeOK, SleepingProducerInv, Full
<1>9. MainInv'
  BY DEF ThreadTypeOK, MainInv
<1> QED BY <1>1, <1>2, <1>3, <1>4, <1>5, <1>6, <1>7, <1>8, <1>9

LEMMA SpuriousWakeupKeepsControl ==
    ASSUME ControlInv, NEW t \in Threads, SpuriousWakeup(t)
    PROVE  ControlInv'
<1> USE DEF ControlInv, TypeOK, SpuriousWakeup, Goto, Move, Threads, Consumers, Producer,
            bufVars, dirVars, fileVars, mainVars
<1>1. ThreadTypeOK'
  BY DEF ThreadTypeOK, ProducerLabels, ConsumerLabels
<1>2. BufferTypeOK'
  BY DEF BufferTypeOK
<1>3. FileTypeOK'
  BY DEF FileTypeOK
<1>4. MutualExclusion'
  BY DEF ThreadTypeOK, MutualExclusion, InCriticalSection, MutexFree, NoThread
<1>5. EntryInv'
  BY DEF ThreadTypeOK, FileTypeOK, EntryInv, ProducerLabels
<1>6. RoomInv'
  BY DEF ThreadTypeOK, BufferTypeOK, MutualExclusion, InCriticalSection, RoomInv, Full, Empty
<1>7. DoneInv'
  BY DEF ThreadTypeOK, DoneInv, SleepingConsumers, Sleeping, Empty
<1>8. SleepingProducerInv'
  BY DEF ThreadTypeOK, SleepingProducerInv, Full
<1>9. MainInv'
  BY DEF ThreadTypeOK, MainInv
<1> QED BY <1>1, <1>2, <1>3, <1>4, <1>5, <1>6, <1>7, <1>8, <1>9

LEMMA TerminatedKeepsControl ==
    ASSUME ControlInv, Terminated
    PROVE  ControlInv'
<1> USE DEF ControlInv, TypeOK, Terminated, vars, Goto, Move, Threads, Consumers, Producer,
            bufVars, dirVars, fileVars, mainVars
<1>1. ThreadTypeOK'
  BY DEF ThreadTypeOK, ProducerLabels, ConsumerLabels
<1>2. BufferTypeOK'
  BY DEF BufferTypeOK
<1>3. FileTypeOK'
  BY DEF FileTypeOK
<1>4. MutualExclusion'
  BY DEF ThreadTypeOK, MutualExclusion, InCriticalSection, MutexFree, NoThread
<1>5. EntryInv'
  BY DEF ThreadTypeOK, FileTypeOK, EntryInv, ProducerLabels
<1>6. RoomInv'
  BY DEF ThreadTypeOK, BufferTypeOK, MutualExclusion, InCriticalSection, RoomInv, Full, Empty
<1>7. DoneInv'
  BY DEF ThreadTypeOK, DoneInv, SleepingConsumers, Sleeping, Empty
<1>8. SleepingProducerInv'
  BY DEF ThreadTypeOK, SleepingProducerInv, Full
<1>9. MainInv'
  BY DEF ThreadTypeOK, MainInv
<1> QED BY <1>1, <1>2, <1>3, <1>4, <1>5, <1>6, <1>7, <1>8, <1>9
-----------------------------------------------------------------------------
(* A step that leaves the buffer, the entry and the files alone, and does  *)
(* not change what the producer has in hand, keeps DataInv.                *)
LEMMA QuietStepKeepsData ==
    ASSUME DataInv, UNCHANGED <<in, out, count, slots, dirVars, fileVars>>,
           \/ pc'[Producer] = pc[Producer]
           \/ {pc[Producer], pc'[Producer]} \cap {"opendst", "put"} = {}
    PROVE  DataInv'
<1> USE DEF DataInv, dirVars, fileVars
<1>1. Occupied' = Occupied /\ Queued' = Queued
  BY DEF Occupied, Queued
<1>2. InHand' = InHand
  BY DEF InHand
<1>3. RingInv' /\ SlotsInv'
  BY <1>1 DEF RingInv, SlotsInv
<1>4. DescriptorsAccounted' /\ TruncatedIsOwned'
  BY <1>1, <1>2 DEF DescriptorsAccounted, TruncatedIsOwned
<1>5. BlocksInv' /\ ReportedIsComplete'
  BY <1>1 DEF BlocksInv, ReportedIsComplete
<1> QED BY <1>3, <1>4, <1>5

LEMMA DataInit == Init => DataInv
<1> SUFFICES ASSUME Init PROVE DataInv
  OBVIOUS
<1> USE DEF Init
<1>1. Occupied = {} /\ Queued = {} /\ InHand = {}
  BY SizeAssumption DEF Occupied, Queued, InHand, Slots, Threads, Producer
<1>2. RingInv /\ SlotsInv
  BY <1>1, SizeAssumption DEF RingInv, SlotsInv
<1>3. DescriptorsAccounted /\ TruncatedIsOwned
  BY <1>1 DEF DescriptorsAccounted, TruncatedIsOwned
<1>4. BlocksInv /\ ReportedIsComplete
  BY <1>1, BlocksAssumption DEF BlocksInv, ReportedIsComplete, Threads, Producer
<1> QED BY <1>2, <1>3, <1>4 DEF DataInv

LEMMA ReadDirKeepsData ==
    ASSUME IInv, ReadDir
    PROVE  DataInv'
<1> USE DEF IInv, ControlInv, DataInv, ReadDir, Goto, Move, Threads, Consumers,
            Producer, bufVars, dirVars, fileVars
<1>1. Occupied' = Occupied /\ Queued' = Queued
  BY DEF Occupied, Queued
<1>2. InHand' = InHand /\ InHand = {}
  BY DEF InHand
<1>3. RingInv' /\ SlotsInv'
  BY <1>1 DEF RingInv, SlotsInv
<1>4. DescriptorsAccounted' /\ TruncatedIsOwned'
  BY <1>1, <1>2 DEF DescriptorsAccounted, TruncatedIsOwned
<1>5. BlocksInv' /\ ReportedIsComplete'
  BY <1>1 DEF BlocksInv, ReportedIsComplete
<1> QED BY <1>3, <1>4, <1>5

LEMMA OpenSourceKeepsData ==
    ASSUME IInv, OpenSource
    PROVE  DataInv'
<1> USE DEF IInv, ControlInv, DataInv, OpenSource, GiveUpEntry, Goto, Move,
            Threads, Consumers, Producer, bufVars
<1>1. Occupied' = Occupied /\ Queued' = Queued
  BY DEF Occupied, Queued
<1>2. InHand = {} /\ InHand' = IF SourceOpens THEN {<<"src", entry>>} ELSE {}
  <2>1. CASE SourceOpens
    BY <2>1 DEF InHand
  <2>2. CASE ~SourceOpens
    BY <2>2 DEF InHand
  <2> QED BY <2>1, <2>2
<1>3. RingInv' /\ SlotsInv'
  BY <1>1, FilesAssumption DEF RingInv, SlotsInv
<1>4. DescriptorsAccounted' /\ TruncatedIsOwned'
  BY <1>1, <1>2 DEF DescriptorsAccounted, TruncatedIsOwned
<1>5. BlocksInv' /\ ReportedIsComplete'
  BY <1>1 DEF BlocksInv, ReportedIsComplete
<1> QED BY <1>3, <1>4, <1>5

LEMMA OpenDestKeepsData ==
    ASSUME IInv, OpenDest
    PROVE  DataInv'
<1> USE DEF IInv, ControlInv, DataInv, OpenDest, GiveUpEntry, CloseSource, Goto,
            Move, Threads, Consumers, Producer, bufVars
<1>1. Occupied' = Occupied /\ Queued' = Queued
  BY DEF Occupied, Queued
<1>2. /\ entry \in Files \ (printed \cup Queued \cup BadSource)
      /\ <<"src", entry>> \notin {"src", "dst"} \X Queued
  BY DEF TypeOK, FileTypeOK, EntryInv, SlotsInv, Queued
<1>3. /\ InHand = {<<"src", entry>>}
      /\ InHand' = IF DestOpens THEN {<<"src", entry>>, <<"dst", entry>>} ELSE {}
  <2>1. CASE DestOpens
    BY <2>1 DEF InHand
  <2>2. CASE ~DestOpens
    BY <2>2 DEF InHand
  <2> QED BY <2>1, <2>2
<1>4. RingInv' /\ SlotsInv'
  BY <1>1, FilesAssumption DEF RingInv, SlotsInv
<1>5. DescriptorsAccounted'
  BY <1>1, <1>2, <1>3 DEF DescriptorsAccounted
<1>6. TruncatedIsOwned'
  BY <1>1, <1>2, <1>3 DEF TruncatedIsOwned, TypeOK, FileTypeOK
<1>7. BlocksInv'
  BY <1>1, <1>2 DEF BlocksInv, TypeOK, FileTypeOK
<1>8. ReportedIsComplete'
  BY <1>2 DEF ReportedIsComplete, TypeOK, FileTypeOK
<1> QED BY <1>4, <1>5, <1>6, <1>7, <1>8

(* Buffering a pair adds it to the queued ones.                            *)
LEMMA QueuedAfterPut ==
    ASSUME IInv, Put
    PROVE  /\ in \notin Occupied /\ in \in Slots
           /\ Occupied' = Occupied \cup {in}
           /\ RingInv'
           /\ entry \in Files \ (toRead \cup printed \cup Queued \cup BadSource)
           /\ \A s \in Occupied : slots'[s] = slots[s]
           /\ slots'[in] = entry
           /\ Queued' = Queued \cup {entry}
<1> USE DEF IInv, ControlInv, DataInv, Put
<1>1. /\ in \notin Occupied /\ in \in Slots
      /\ Occupied' = Occupied \cup {in}
      /\ RingInv'
  BY OccupiedAfterPut DEF RoomInv, TypeOK, BufferTypeOK
<1>2. entry \in Files \ (toRead \cup printed \cup Queued \cup BadSource)
  BY DEF TypeOK, FileTypeOK, EntryInv, SlotsInv, Queued
<1>3. /\ slots'[in] = entry
      /\ \A s \in Occupied : slots'[s] = slots[s]
  BY <1>1 DEF Occupied, TypeOK, BufferTypeOK
<1>4. Queued' = Queued \cup {entry}
  BY <1>1, <1>3 DEF Queued
<1> QED BY <1>1, <1>2, <1>3, <1>4

(* Taking the pair at out removes it from the queued ones.                 *)
LEMMA QueuedAfterTake ==
    ASSUME IInv, NEW c \in Consumers, FinishCopy(c)
    PROVE  /\ out \in Occupied
           /\ Current \in Queued
           /\ Current \in Files \ (toRead \cup printed \cup {entry} \cup BadSource)
           /\ Occupied' = Occupied \ {out} /\ RingInv'
           /\ Queued' = Queued \ {Current}
<1> USE DEF IInv, ControlInv, DataInv, FinishCopy
<1>1. /\ out \in Occupied
      /\ Current \in Queued
      /\ Current \in Files \ (toRead \cup printed \cup {entry} \cup BadSource)
  BY CurrentIsQueued
<1>2. Occupied' = Occupied \ {out} /\ RingInv'
  BY OccupiedAfterTake DEF RoomInv
<1>3. Queued' = Queued \ {Current}
  BY <1>1, <1>2 DEF Queued, SlotsInv, Current
<1> QED BY <1>1, <1>2, <1>3

LEMMA PutKeepsData ==
    ASSUME IInv, Put
    PROVE  DataInv'
<1> USE DEF IInv, ControlInv, DataInv, Put, fileVars
<1>1. /\ in \notin Occupied /\ in \in Slots
      /\ Occupied' = Occupied \cup {in}
      /\ RingInv'
  BY QueuedAfterPut
<1>2. /\ entry \in Files \ (toRead \cup printed \cup Queued \cup BadSource)
      /\ dst[entry] = 0 /\ srcPos[entry] = 0
  BY QueuedAfterPut DEF BlocksInv
<1>3. /\ slots'[in] = entry
      /\ \A s \in Occupied : slots'[s] = slots[s]
  BY QueuedAfterPut
<1>4. Queued' = Queued \cup {entry}
  BY QueuedAfterPut
<1>5. InHand = {<<"src", entry>>, <<"dst", entry>>} /\ InHand' = {}
  BY DEF InHand, SignalConsumer, Goto, Move, Threads, Producer, Consumers
<1>6. SlotsInv'
  <2>1. \A s \in Occupied' : slots'[s] \in Files \ (toRead' \cup printed' \cup {entry'} \cup BadSource)
    BY <1>1, <1>2, <1>3, FilesAssumption DEF SlotsInv
  <2>2. \A s, u \in Occupied' : slots'[s] = slots'[u] => s = u
    BY <1>1, <1>2, <1>3 DEF SlotsInv, Queued
  <2> QED BY <2>1, <2>2 DEF SlotsInv
<1>7. DescriptorsAccounted'
  BY <1>4, <1>5 DEF DescriptorsAccounted
<1>8. TruncatedIsOwned'
  BY <1>4, <1>5 DEF TruncatedIsOwned
<1>9. BlocksInv'
  BY <1>2, <1>4 DEF BlocksInv, SignalConsumer, Goto, Move, Threads, Producer, Consumers
<1>10. ReportedIsComplete'
  BY DEF ReportedIsComplete
<1> QED BY <1>1, <1>6, <1>7, <1>8, <1>9, <1>10

LEMMA CopyBlockKeepsData ==
    ASSUME IInv, NEW c \in Consumers, CopyBlock(c)
    PROVE  DataInv'
<1> USE DEF CopyBlock, bufVars, dirVars
<1>1. Occupied' = Occupied /\ Queued' = Queued /\ InHand' = InHand
  BY DEF Occupied, Queued, InHand
<1>2. Current \in Queued /\ Current \in Files \ (printed \cup {entry} \cup BadSource)
  BY CurrentIsQueued
<1>3. RingInv' /\ SlotsInv'
  BY <1>1 DEF IInv, DataInv, RingInv, SlotsInv
<1>4. DescriptorsAccounted'
  BY <1>1 DEF IInv, DataInv, DescriptorsAccounted
<1>5. TruncatedIsOwned'
  BY <1>1, <1>2 DEF IInv, DataInv, TruncatedIsOwned, ControlInv, TypeOK, FileTypeOK
<1>6. BlocksInv'
  BY <1>1, <1>2, BlocksAssumption
     DEF IInv, DataInv, BlocksInv, ControlInv, TypeOK, FileTypeOK, EntryInv
<1>7. ReportedIsComplete'
  BY <1>2 DEF IInv, DataInv, ReportedIsComplete, ControlInv, TypeOK, FileTypeOK
<1> QED BY <1>3, <1>4, <1>5, <1>6, <1>7 DEF DataInv

LEMMA FinishCopyKeepsData ==
    ASSUME IInv, NEW c \in Consumers, FinishCopy(c)
    PROVE  DataInv'
<1> USE DEF IInv, ControlInv, DataInv, FinishCopy, dirVars
<1>1. /\ out \in Occupied
      /\ Current \in Queued
      /\ Current \in Files \ (toRead \cup printed \cup {entry} \cup BadSource)
  BY QueuedAfterTake
<1>2. Occupied' = Occupied \ {out} /\ RingInv'
  BY QueuedAfterTake
<1>3. Queued' = Queued \ {Current}
  BY QueuedAfterTake
<1>4. /\ InHand' = InHand
      /\ pc'[Producer] = "put" => pc[Producer] = "put"
      /\ InHand \subseteq {<<"src", entry>>, <<"dst", entry>>}
  BY DEF InHand, SignalProducer, Move, Threads, Producer, Consumers, Sleeping
<1>5. SlotsInv'
  BY <1>1, <1>2 DEF SlotsInv, Current
<1>6. DescriptorsAccounted'
  BY <1>1, <1>3, <1>4 DEF DescriptorsAccounted
<1>7. TruncatedIsOwned'
  BY <1>1, <1>3, <1>4 DEF TruncatedIsOwned
<1>8. BlocksInv'
  BY <1>1, <1>3, <1>4 DEF BlocksInv
<1>9. ReportedIsComplete'
  BY <1>1 DEF ReportedIsComplete, BlocksInv, LoopEnds
<1> QED BY <1>2, <1>5, <1>6, <1>7, <1>8, <1>9
-----------------------------------------------------------------------------
(* The steps that only move a thread keep DataInv.                         *)
LEMMA MovesKeepData ==
    ASSUME IInv,
           \/ OpenDir \/ ProducerEnter \/ Finish
           \/ \E c \in Consumers : ConsumerEnter(c) \/ Recheck(c)
           \/ MainStep
           \/ \E t \in Threads : SpuriousWakeup(t)
           \/ Terminated
    PROVE  DataInv'
<1> USE DEF IInv, ControlInv, Goto, Move, Threads, Consumers, Producer, bufVars,
            dirVars, fileVars
<1>1. CASE OpenDir
  BY <1>1, QuietStepKeepsData DEF OpenDir
<1>2. CASE ProducerEnter
  BY <1>2, QuietStepKeepsData DEF ProducerEnter
<1>3. CASE Finish
  BY <1>3, QuietStepKeepsData DEF Finish, BroadcastConsumers
<1>4. CASE \E c \in Consumers : ConsumerEnter(c)
  BY <1>4, QuietStepKeepsData DEF ConsumerEnter
<1>5. CASE \E c \in Consumers : Recheck(c)
  BY <1>5, QuietStepKeepsData DEF Recheck
<1>6. CASE Spawn
  BY <1>6, QuietStepKeepsData DEF Spawn, MainInv, TypeOK, ThreadTypeOK
<1>7. CASE Join \/ Cleanup
  BY <1>7, QuietStepKeepsData DEF Join, Cleanup
<1>8. CASE \E t \in Threads : SpuriousWakeup(t)
  BY <1>8, QuietStepKeepsData DEF SpuriousWakeup
<1>9. CASE Terminated
  BY <1>9, QuietStepKeepsData DEF Terminated, vars
<1> QED BY <1>1, <1>2, <1>3, <1>4, <1>5, <1>6, <1>7, <1>8, <1>9 DEF MainStep

LEMMA NextKeepsIInv == IInv /\ [Next]_vars => IInv'
<1> SUFFICES ASSUME IInv, [Next]_vars PROVE IInv'
  OBVIOUS
<1>0. ControlInv
  BY DEF IInv
<1>1. CASE ProducerStep
  BY <1>0, <1>1, OpenDirKeepsControl, ReadDirKeepsControl, ProducerEnterKeepsControl,
     OpenSourceKeepsControl, OpenDestKeepsControl, PutKeepsControl,
     FinishKeepsControl, MovesKeepData, ReadDirKeepsData, OpenSourceKeepsData,
     OpenDestKeepsData, PutKeepsData
  DEF ProducerStep, IInv
<1>2. CASE \E c \in Consumers : ConsumerStep(c)
  BY <1>0, <1>2, ConsumerEnterKeepsControl, CopyBlockKeepsControl,
     FinishCopyKeepsControl, RecheckKeepsControl, MovesKeepData,
     CopyBlockKeepsData, FinishCopyKeepsData
  DEF ConsumerStep, IInv
<1>3. CASE MainStep
  BY <1>0, <1>3, SpawnKeepsControl, JoinKeepsControl, CleanupKeepsControl,
     MovesKeepData
  DEF MainStep, IInv
<1>4. CASE \E t \in Threads : SpuriousWakeup(t)
  BY <1>0, <1>4, SpuriousWakeupKeepsControl, MovesKeepData DEF IInv
<1>5. CASE Terminated
  BY <1>0, <1>5, TerminatedKeepsControl, MovesKeepData DEF IInv
<1>6. CASE UNCHANGED vars
  <2>1. ControlInv'
    BY <1>0, <1>6 DEF ControlInv, TypeOK, ThreadTypeOK, BufferTypeOK, FileTypeOK,
       MutualExclusion, InCriticalSection, EntryInv, RoomInv, Full, Empty, DoneInv,
       SleepingConsumers, Sleeping, SleepingProducerInv, MainInv, vars, bufVars,
       dirVars, fileVars, mainVars
  <2>2. DataInv'
    BY <1>6, QuietStepKeepsData DEF IInv, vars, bufVars, dirVars, fileVars
  <2> QED BY <2>1, <2>2 DEF IInv
<1> QED BY <1>1, <1>2, <1>3, <1>4, <1>5, <1>6 DEF Next

(* IInv is an invariant: for any number of consumers and of entries, any   *)
(* ring size, any pattern of failing calls, and any schedule.              *)
THEOREM Invariance == Spec => []IInv
<1>1. Init => IInv
  BY ControlInit, DataInit DEF IInv
<1> QED BY <1>1, NextKeepsIInv, PTL DEF Spec

(* The variables keep the ranges their C types and the ring give them.     *)
THEOREM TypeCorrect == Spec => []TypeOK
<1>1. IInv => TypeOK
  BY DEF IInv, ControlInv
<1> QED BY <1>1, Invariance, PTL

(* At most one thread is between lock and unlock, the holder of the mutex. *)
THEOREM Exclusion == Spec => []MutualExclusion
<1>1. IInv => MutualExclusion
  BY DEF IInv, ControlInv
<1> QED BY <1>1, Invariance, PTL

(* No descriptor is leaked and none is closed while its pair is buffered.  *)
THEOREM NoLeak == Spec => []DescriptorsAccounted
<1>1. IInv => DescriptorsAccounted
  BY DEF IInv, DataInv
<1> QED BY <1>1, Invariance, PTL

(* Only a destination whose source was opened, and is copied, is emptied.  *)
THEOREM NoStrayTruncation == Spec => []TruncatedIsOwned
<1>1. IInv => TruncatedIsOwned
  BY DEF IInv, DataInv
<1> QED BY <1>1, Invariance, PTL

(* Without I/O errors a reported copy has all blocks of its source.        *)
THEOREM CompleteCopies == Spec => []ReportedIsComplete
<1>1. IInv => ReportedIsComplete
  BY DEF IInv, DataInv
<1> QED BY <1>1, Invariance, PTL

(* main destroys the mutex and the conditions when nobody can use them.    *)
THEOREM SafeCleanup == Spec => []CleanupIsSafe
<1>1. IInv => CleanupIsSafe
  <2> SUFFICES ASSUME IInv, main \in {"cleanup", "done"}
               PROVE  mutex = NoThread /\ \A t \in Threads : pc[t] = "exited"
    BY DEF CleanupIsSafe
  <2>1. \A t \in Threads : pc[t] = "exited"
    BY DEF IInv, ControlInv, MainInv
  <2>2. mutex \notin Threads
    BY <2>1 DEF IInv, ControlInv, MutualExclusion, InCriticalSection
  <2> QED BY <2>1, <2>2 DEF IInv, ControlInv, TypeOK, ThreadTypeOK
<1> QED BY <1>1, Invariance, PTL
-----------------------------------------------------------------------------
(* Lost wakeups.  A consumer that may still take a pair without a wakeup:  *)
Awake == {c \in Consumers : pc[c] \notin {"wait", "exited"}}

LEMMA AwakeFinite ==
    /\ IsFiniteSet(Awake) /\ Cardinality(Awake) \in Nat
    /\ IsFiniteSet(Awake') /\ Cardinality(Awake') \in Nat
<1>1. IsFiniteSet(Consumers)
  BY ConsumersAssumption, FS_Interval DEF Consumers
<1>2. Awake \subseteq Consumers /\ Awake' \subseteq Consumers
  BY DEF Awake
<1> QED BY <1>1, <1>2, FS_Subset, FS_CardinalityType

(* Most steps put no consumer to sleep, take none of the awake ones away   *)
(* and add no pair.                                                        *)
LEMMA CalmStepKeepsSleepers ==
    ASSUME TypeOK, TypeOK', SleepersHaveReason, SleepingProducerInv',
           SleepingConsumers' # {} =>
              /\ SleepingConsumers # {}
              /\ ~done'
              /\ Awake \subseteq Awake'
              /\ count' <= count
    PROVE  SleepersHaveReason'
<1>1. Awake \subseteq Awake' => Cardinality(Awake) <= Cardinality(Awake')
  BY AwakeFinite, FS_Subset
<1>2. count \in Nat /\ count' \in Nat
  BY SizeAssumption DEF TypeOK, BufferTypeOK
<1> QED BY <1>1, <1>2, AwakeFinite
        DEF SleepersHaveReason, SleepingProducerInv, Awake

LEMMA PutKeepsSleepers ==
    ASSUME IInv, IInv', SleepersHaveReason, Put
    PROVE  SleepersHaveReason'
<1> USE DEF IInv, ControlInv, Put, Move, Goto, Threads, Consumers, Producer
<1>1. CASE SleepingConsumers = {} /\ Goto(Producer, "readdir")
  <2>1. SleepingConsumers' = {}
    BY <1>1 DEF SleepingConsumers, Sleeping
  <2> QED BY <2>1 DEF SleepersHaveReason, SleepingProducerInv
<1>2. ASSUME NEW c \in SleepingConsumers, Move(Producer, "readdir", {c})
      PROVE  SleepersHaveReason'
  <2>1. Awake' = Awake \cup {c} /\ c \notin Awake
    BY <1>2 DEF Awake, SleepingConsumers, Sleeping
  <2>2. Cardinality(Awake') = Cardinality(Awake) + 1
    BY <2>1, AwakeFinite, FS_AddElement
  <2>3. count \in Nat /\ count <= Cardinality(Awake) /\ ~done
    BY SizeAssumption DEF SleepersHaveReason, Awake, TypeOK, BufferTypeOK
  <2>4. count' <= Cardinality(Awake') /\ ~done'
    BY <2>2, <2>3, AwakeFinite
  <2> QED BY <2>4 DEF SleepersHaveReason, SleepingProducerInv, Awake
<1> QED BY <1>1, <1>2 DEF SignalConsumer

LEMMA ConsumerEnterKeepsSleepers ==
    ASSUME IInv, IInv', SleepersHaveReason, NEW c \in Consumers, ConsumerEnter(c)
    PROVE  SleepersHaveReason'
<1> USE DEF IInv, ControlInv, ConsumerEnter, Goto, Move, Threads, Consumers,
            Producer, bufVars
<1>1. CASE Empty /\ ~done
  <2>1. count' = 0 /\ ~done'
    BY <1>1 DEF Empty
  <2> QED BY <2>1, AwakeFinite DEF SleepersHaveReason, SleepingProducerInv, Awake
<1>2. CASE ~(Empty /\ ~done)
  <2>1. SleepingConsumers' = SleepingConsumers /\ Awake \subseteq Awake'
    BY <1>2 DEF SleepingConsumers, Sleeping, Awake
  <2>2. count' <= count
    BY SizeAssumption DEF TypeOK, BufferTypeOK
  <2> QED BY <2>1, <2>2, CalmStepKeepsSleepers DEF SleepersHaveReason
<1> QED BY <1>1, <1>2

LEMMA RecheckKeepsSleepers ==
    ASSUME IInv, IInv', SleepersHaveReason, NEW c \in Consumers, Recheck(c)
    PROVE  SleepersHaveReason'
<1> USE DEF IInv, ControlInv, Recheck, Goto, Move, Threads, Consumers, Producer,
            bufVars
<1>1. SleepingConsumers' = SleepingConsumers
  BY DEF SleepingConsumers, Sleeping
<1>2. count' <= count
  BY SizeAssumption DEF TypeOK, BufferTypeOK
<1>3. ~Drained => Awake \subseteq Awake'
  BY DEF Awake
<1>4. Drained => SleepingConsumers = {}
  BY DEF Drained, DoneInv
<1> QED BY <1>1, <1>2, <1>3, <1>4, CalmStepKeepsSleepers DEF SleepersHaveReason

LEMMA NextKeepsSleepers ==
    IInv /\ IInv' /\ SleepersHaveReason /\ [Next]_vars => SleepersHaveReason'
<1> SUFFICES ASSUME IInv, IInv', SleepersHaveReason, [Next]_vars
             PROVE  SleepersHaveReason'
  OBVIOUS
<1> DEFINE Calm == /\ SleepingConsumers' \subseteq SleepingConsumers
                   /\ Awake \subseteq Awake'
                   /\ count' <= count
                   /\ done' = done
<1>1. Calm => SleepersHaveReason'
  BY CalmStepKeepsSleepers DEF IInv, ControlInv, SleepersHaveReason
<1> USE DEF IInv, ControlInv, Goto, Move, Threads, Consumers, Producer, bufVars,
            Sleeping, SleepingConsumers, Awake
<1>2. count <= count /\ count - 1 <= count
  BY SizeAssumption DEF TypeOK, BufferTypeOK
<1>3. CASE OpenDir \/ ReadDir \/ ProducerEnter \/ OpenSource \/ OpenDest
  <2>1. Calm
    BY <1>2, <1>3 DEF OpenDir, ReadDir, ProducerEnter, OpenSource, OpenDest, GiveUpEntry
  <2> QED BY <1>1, <2>1
<1>4. CASE Put
  BY <1>4, PutKeepsSleepers
<1>5. CASE Finish
  <2>1. SleepingConsumers' = {}
    BY <1>5 DEF Finish, BroadcastConsumers
  <2> QED BY <2>1, CalmStepKeepsSleepers
<1>6. CASE \E c \in Consumers : ConsumerEnter(c)
  BY <1>6, ConsumerEnterKeepsSleepers
<1>7. CASE \E c \in Consumers : CopyBlock(c) \/ FinishCopy(c)
  <2>1. Calm
    BY <1>2, <1>7 DEF CopyBlock, FinishCopy, SignalProducer
  <2> QED BY <1>1, <2>1
<1>8. CASE \E c \in Consumers : Recheck(c)
  BY <1>8, RecheckKeepsSleepers
<1>9. CASE Spawn
  <2>1. next \in Threads /\ pc[next] = "unborn"
    BY <1>9 DEF Spawn, MainInv, TypeOK, ThreadTypeOK
  <2>2. Calm
    BY <1>2, <1>9, <2>1 DEF Spawn
  <2> QED BY <1>1, <2>2
<1>10. CASE Join \/ Cleanup \/ Terminated \/ UNCHANGED vars
  <2>1. Calm
    BY <1>2, <1>10 DEF Join, Cleanup, Terminated, vars
  <2> QED BY <1>1, <2>1
<1>11. CASE \E t \in Threads : SpuriousWakeup(t)
  <2>1. Calm
    BY <1>2, <1>11 DEF SpuriousWakeup
  <2> QED BY <1>1, <2>1
<1> QED BY <1>3, <1>4, <1>5, <1>6, <1>7, <1>8, <1>9, <1>10, <1>11
        DEF Next, ProducerStep, ConsumerStep, MainStep

(* No wakeup is lost: with signal for not_full and for not_empty, and one  *)
(* broadcast at the end, no thread sleeps while it has work.               *)
THEOREM NoLostWakeup == Spec => []SleepersHaveReason
<1>1. Init => SleepersHaveReason
  BY DEF Init, SleepersHaveReason, SleepingConsumers, Sleeping, Threads, Producer
<1> QED BY <1>1, NextKeepsSleepers, Invariance, PTL DEF Spec
-----------------------------------------------------------------------------
(* Completeness.  The buffer holds no more pairs than it counts ...        *)
LEMMA QueuedIsSmall ==
    ASSUME IInv
    PROVE  IsFiniteSet(Queued) /\ Cardinality(Queued) \in Nat /\ Cardinality(Queued) <= count
<1> DEFINE SlotNo(i) == IF out + i - 1 < BUFFER_SIZE THEN out + i - 1
                                                     ELSE out + i - 1 - BUFFER_SIZE
           Buffered == [i \in 1..count |-> slots[SlotNo(i)]]
<1>1. out \in Slots /\ count \in 0..BUFFER_SIZE
  BY DEF IInv, ControlInv, TypeOK, BufferTypeOK
<1>2. \A i \in 1..count : SlotNo(i) \in Occupied
  BY <1>1, SizeAssumption DEF Occupied, Slots
<1>3. ASSUME NEW s \in Occupied PROVE \E i \in 1..count : SlotNo(i) = s
  <2>1. CASE s >= out
    <3>1. s - out + 1 \in 1..count /\ SlotNo(s - out + 1) = s
      BY <1>1, <2>1, SizeAssumption DEF Occupied, Slots
    <3> QED BY <3>1
  <2>2. CASE s < out
    <3>1. s - out + BUFFER_SIZE + 1 \in 1..count /\ SlotNo(s - out + BUFFER_SIZE + 1) = s
      BY <1>1, <2>2, SizeAssumption DEF Occupied, Slots
    <3> QED BY <3>1
  <2> QED BY <1>1, <2>1, <2>2, SizeAssumption DEF Occupied, Slots
<1>4. Buffered \in Surjection(1..count, Queued)
  <2>1. Buffered \in [1..count -> Queued]
    BY <1>2 DEF Queued
  <2>2. ASSUME NEW f \in Queued PROVE \E i \in 1..count : Buffered[i] = f
    <3>1. PICK s \in Occupied : slots[s] = f
      BY DEF Queued
    <3>2. PICK i \in 1..count : SlotNo(i) = s
      BY <1>3
    <3> QED BY <3>1, <3>2
  <2> QED BY <2>1, <2>2 DEF Surjection
<1>5. IsFiniteSet(1..count) /\ Cardinality(1..count) = count
  BY <1>1, FS_Interval, SizeAssumption
<1> HIDE DEF Buffered
<1> QED BY <1>4, <1>5, FS_Surjection, FS_CardinalityType

(* ... so with room for two descriptors per slot there is one for the next *)
(* open(), as long as the buffer has a free slot.                          *)
LEMMA DescriptorLeft ==
    ASSUME IInv, EnoughDescriptors, pc[Producer] \in {"opensrc", "opendst"}
    PROVE  CanOpen
<1>1. count \in Nat /\ count <= BUFFER_SIZE - 1
  BY SizeAssumption DEF IInv, ControlInv, TypeOK, BufferTypeOK, RoomInv, Full
<1> DEFINE Pairs == {"src", "dst"} \X Queued
           Held  == Pairs \cup {<<"src", entry>>}
<1>2. fds \subseteq Held
  BY DEF IInv, DataInv, DescriptorsAccounted, InHand
<1>3. IsFiniteSet(Pairs) /\ Cardinality(Pairs) = 2 * Cardinality(Queued)
  <2>1. IsFiniteSet({"src"}) /\ Cardinality({"src"}) = 1
    BY FS_Singleton
  <2>2. IsFiniteSet({"src"} \cup {"dst"}) /\ Cardinality({"src"} \cup {"dst"}) = 2
    BY <2>1, FS_AddElement
  <2>3. {"src"} \cup {"dst"} = {"src", "dst"}
    OBVIOUS
  <2> QED BY <2>2, <2>3, QueuedIsSmall, FS_Product
<1> HIDE DEF Pairs
<1>4. /\ IsFiniteSet(Held)
      /\ Cardinality(Held) <= 2 * Cardinality(Queued) + 1
  <2>1. IsFiniteSet(Held)
    BY <1>3, FS_AddElement
  <2>2. Cardinality(Held) = Cardinality(Pairs) \/ Cardinality(Held) = Cardinality(Pairs) + 1
    BY <1>3, FS_AddElement
  <2> QED BY <1>3, <2>1, <2>2, QueuedIsSmall
<1> HIDE DEF Held
<1>5. Cardinality(fds) \in Nat /\ Cardinality(fds) <= 2 * Cardinality(Queued) + 1
  BY <1>2, <1>4, QueuedIsSmall, FS_Subset, FS_CardinalityType
<1> QED BY <1>1, <1>5, QueuedIsSmall, SizeAssumption, EnvironmentAssumption
        DEF CanOpen, EnoughDescriptors

LEMMA ProducerKeepsComplete ==
    ASSUME IInv, CompleteInv, ReadDir \/ OpenSource \/ OpenDest
    PROVE  CompleteInv'
<1>1. Queued' = Queued /\ printed' = printed
  BY DEF ReadDir, OpenSource, OpenDest, Occupied, Queued, bufVars, fileVars
<1>2. CASE ReadDir
  <2>1. /\ pc'[Producer] # "put"
        /\ toRead \cup {entry} \subseteq toRead' \cup {entry'} \cup {NoFile}
    BY <1>2 DEF ReadDir, Goto, Move, Threads, Producer, dirVars, IInv, ControlInv, EntryInv
  <2> QED BY <1>1, <2>1, FilesAssumption DEF CompleteInv, Openable
<1>3. CASE OpenSource
  <2>1. pc'[Producer] # "put"
    BY <1>3 DEF OpenSource, GiveUpEntry, Goto, Move, Threads, Producer
  <2>2. toRead' = toRead /\ (entry' = entry \/ ~SourceOpens)
    BY <1>3 DEF OpenSource
  <2>3. EnoughDescriptors /\ ~SourceOpens => entry \notin Openable
    BY <1>3, DescriptorLeft DEF OpenSource, SourceOpens, Openable
  <2> QED BY <1>1, <2>1, <2>2, <2>3, FilesAssumption DEF CompleteInv
<1>4. CASE OpenDest
  <2>1. /\ entry \in Files \ BadSource
        /\ toRead' = toRead
    BY <1>4 DEF OpenDest, IInv, ControlInv, TypeOK, FileTypeOK, EntryInv
  <2>2. CASE DestOpens
    BY <1>1, <1>4, <2>1, <2>2 DEF OpenDest, DestOpens, CompleteInv, Openable
  <2>3. CASE ~DestOpens
    <3>1. pc'[Producer] # "put"
      BY <1>4, <2>3 DEF OpenDest, GiveUpEntry, Goto, Move, Threads, Producer
    <3>2. EnoughDescriptors => entry \notin Openable
      BY <1>4, <2>3, DescriptorLeft DEF OpenDest, DestOpens, Openable
    <3> QED BY <1>1, <2>1, <3>1, <3>2 DEF CompleteInv
  <2> QED BY <2>2, <2>3
<1> QED BY <1>2, <1>3, <1>4

LEMMA NextKeepsComplete == IInv /\ CompleteInv /\ [Next]_vars => CompleteInv'
<1> SUFFICES ASSUME IInv, CompleteInv, [Next]_vars PROVE CompleteInv'
  OBVIOUS
<1>1. ASSUME UNCHANGED <<out, count, slots, toRead, entry, printed>>,
             pc'[Producer] = "put" => pc[Producer] = "put"
      PROVE  CompleteInv'
  BY <1>1 DEF CompleteInv, Queued, Occupied
<1> USE DEF Goto, Move, Threads, Consumers, Producer, bufVars, dirVars, fileVars
<1>2. CASE ReadDir \/ OpenSource \/ OpenDest
  BY <1>2, ProducerKeepsComplete
<1>3. CASE OpenDir \/ ProducerEnter \/ Finish
  BY <1>1, <1>3 DEF OpenDir, ProducerEnter, Finish, BroadcastConsumers
<1>4. CASE Put
  <2>1. Queued' = Queued \cup {entry} /\ entry \in Openable
    BY <1>4, QueuedAfterPut DEF Put, CompleteInv
  <2>2. pc'[Producer] # "put" /\ UNCHANGED <<toRead, printed>>
    BY <1>4 DEF Put, SignalConsumer
  <2> QED BY <2>1, <2>2 DEF CompleteInv
<1>5. CASE \E c \in Consumers : ConsumerEnter(c) \/ CopyBlock(c) \/ Recheck(c)
  BY <1>1, <1>5 DEF ConsumerEnter, CopyBlock, Recheck
<1>6. ASSUME NEW c \in Consumers, FinishCopy(c) PROVE CompleteInv'
  <2>1. Current \in Queued /\ Queued' = Queued \ {Current}
    BY <1>6, QueuedAfterTake
  <2>2. /\ printed' = printed \cup {Current}
        /\ pc'[Producer] = "put" => pc[Producer] = "put"
        /\ UNCHANGED <<toRead, entry>>
    BY <1>6 DEF FinishCopy, SignalProducer
  <2> QED BY <2>1, <2>2 DEF CompleteInv
<1>7. CASE MainStep
  <2>1. CASE Spawn
    BY <1>1, <2>1 DEF Spawn, IInv, ControlInv, TypeOK, ThreadTypeOK
  <2>2. CASE Join \/ Cleanup
    BY <1>1, <2>2 DEF Join, Cleanup
  <2> QED BY <1>7, <2>1, <2>2 DEF MainStep
<1>8. CASE \E t \in Threads : SpuriousWakeup(t)
  BY <1>1, <1>8 DEF SpuriousWakeup
<1>9. CASE Terminated \/ UNCHANGED vars
  BY <1>1, <1>9 DEF Terminated, vars
<1> QED BY <1>2, <1>3, <1>4, <1>5, <1>6, <1>7, <1>8, <1>9
        DEF Next, ProducerStep, ConsumerStep

(* When main returns no descriptor is open and, if the process could have  *)
(* two per slot, everything that can be opened has been copied; but there  *)
(* has to be a consumer (pCp.c:190 does not ask for one).                  *)
THEOREM NothingIsLeft == NumConsumers > 0 => (Spec => []NothingLeftBehind)
<1> SUFFICES ASSUME NumConsumers > 0 PROVE Spec => []NothingLeftBehind
  OBVIOUS
<1>1. Init => CompleteInv
  BY SizeAssumption
     DEF Init, CompleteInv, Openable, Queued, Occupied, Slots, Threads, Producer
<1>2. IInv /\ CompleteInv => NothingLeftBehind
  <2> SUFFICES ASSUME IInv, CompleteInv, main = "done"
               PROVE  fds = {} /\ (EnoughDescriptors => printed = Openable)
    BY DEF NothingLeftBehind
  <2>1. 1 \in Consumers /\ \A t \in Threads : pc[t] = "exited"
    BY ConsumersAssumption DEF IInv, ControlInv, MainInv, Consumers
  <2>2. done /\ count = 0 /\ pc[Producer] = "exited"
    BY <2>1 DEF IInv, ControlInv, DoneInv, Empty, Consumers, Threads, Producer
  <2>3. toRead = {} /\ entry = NoFile
    BY <2>2 DEF IInv, ControlInv, DoneInv, EntryInv
  <2>4. Occupied = {}
    BY <2>2, SizeAssumption DEF Occupied, Slots, IInv, ControlInv, TypeOK, BufferTypeOK
  <2>5. Queued = {} /\ InHand = {}
    BY <2>2, <2>4 DEF Queued, InHand
  <2> QED BY <2>3, <2>5, FilesAssumption
          DEF IInv, DataInv, DescriptorsAccounted, CompleteInv, Openable
<1> QED BY <1>1, <1>2, NextKeepsComplete, Invariance, PTL DEF Spec
=============================================================================
