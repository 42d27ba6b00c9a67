-------------------------------- MODULE PCp --------------------------------
(***************************************************************************)
(* The parallel directory copier (HW 5/pCp.c): one producer thread opens   *)
(* pairs of files and puts them in a ring buffer, NumConsumers consumer    *)
(* threads take them out and copy them, and main starts and joins them.    *)
(*                                                                         *)
(* A descriptor, a path name and a block of data are abstracted: the pair  *)
(* of descriptors in a slot is the directory entry it was opened for, and  *)
(* a file is a number of blocks (what one read() returns).  Every access   *)
(* of buf.* in the code is made under buf.mutex, so taking the mutex and   *)
(* testing the loop condition is one step; the calls made while the mutex  *)
(* stays held (open, open, the copy loop) are steps of their own.          *)
(***************************************************************************)
EXTENDS Integers, FiniteSets

CONSTANTS
    NumConsumers,  \* argv[2]
    BUFFER_SIZE,
    Files,         \* entries of the source directory other than "." and ".."
    Blocks,        \* Blocks[f]: blocks in the source file f
    OpenDirResults,\* whether opendir(source_dir) may succeed, may fail
    BadSource,     \* entries whose source cannot be opened
    BadDest,       \* entries whose destination cannot be opened
    ReadFails,     \* entries on which read() may return -1 (directories, EIO)
    WriteFails,    \* entries on which write() fails (the result is ignored)
    Fifos,         \* entries that are FIFOs with no writer: open() blocks
    FdLimit,       \* descriptors this process may still open
    MaxSpurious,   \* bound on spurious wakeups of pthread_cond_wait
    NoFile

ASSUME SizeAssumption == BUFFER_SIZE \in Nat \ {0}
ASSUME ConsumersAssumption == NumConsumers \in Nat
ASSUME FilesAssumption == NoFile \notin Files
ASSUME BlocksAssumption == Blocks \in [Files -> Nat]
ASSUME EnvironmentAssumption ==
    OpenDirResults \subseteq BOOLEAN /\ FdLimit \in Nat /\ MaxSpurious \in Nat

Producer  == 0
Consumers == 1..NumConsumers
Threads   == 0..NumConsumers
NoThread  == -1
Slots     == 0..(BUFFER_SIZE - 1)
Untouched == -1          \* destination as it was before the program ran

VARIABLES
    mutex,      \* holder of buf.mutex, or NoThread
    in, out, count, done,  \* buf.in, buf.out, buf.count, buf.done
    slots,      \* buf.buffer
    pc,         \* where each thread is
    toRead,     \* entries readdir() has not returned yet
    entry,      \* the entry the producer works on, or NoFile
    fds,        \* open descriptors: <<"src", f>> and <<"dst", f>>
    srcPos,     \* blocks read so far through the source descriptor
    dst,        \* blocks in the destination file, or Untouched
    printed,    \* entries for which "Copied file" was printed
    main, next, \* main thread: phase and index of the next thread to handle
    spurious    \* spurious wakeups so far

bufVars  == <<in, out, count, done, slots>>
fileVars == <<fds, srcPos, dst, printed>>
mainVars == <<main, next>>
dirVars  == <<toRead, entry>>
vars == <<mutex, bufVars, pc, dirVars, fileVars, mainVars, spurious>>

Init ==
    /\ mutex = NoThread
    /\ in = 0 /\ out = 0 /\ count = 0 /\ done = FALSE
    /\ slots = [i \in Slots |-> NoFile]
    /\ pc = [t \in Threads |-> "unborn"]
    /\ toRead = Files /\ entry = NoFile
    /\ fds = {}
    /\ srcPos = [f \in Files |-> 0]
    /\ dst = [f \in Files |-> Untouched]
    /\ printed = {}
    /\ main = "spawn" /\ next = Producer
    /\ spurious = 0
-----------------------------------------------------------------------------
Sleeping == {t \in Threads : pc[t] = "wait"}
SleepingConsumers == Sleeping \cap Consumers

(* Thread t goes to label and the threads of woken stop sleeping.          *)
(* pthread_cond_wait gives the mutex up and, once woken, takes it again,   *)
(* so a woken thread is back at the step that takes the mutex.             *)
Move(t, label, woken) ==
    pc' = [u \in Threads |-> IF u = t THEN label
                             ELSE IF u \in woken THEN "enter"
                             ELSE pc[u]]
Goto(t, label) == Move(t, label, {})

SignalConsumer(t, label) ==      \* pthread_cond_signal(&buf.not_empty)
    \/ SleepingConsumers = {} /\ Goto(t, label)
    \/ \E c \in SleepingConsumers : Move(t, label, {c})

SignalNotBroadcast(t, label) == SignalConsumer(t, label)  \* mutant
BroadcastConsumers(t, label) == Move(t, label, SleepingConsumers)

SignalProducer(t, label) ==      \* pthread_cond_signal(&buf.not_full)
    Move(t, label, Sleeping \cap {Producer})

NoLocking == TRUE       \* mutant
MutexFree == mutex = NoThread

AdvanceForgotten(i) == i   \* mutant
AdvanceUnwrapped(i) == i + 1   \* mutant
Advance(i) == (i + 1) % BUFFER_SIZE

Full  == count = BUFFER_SIZE
Empty == count = 0

CanOpen == Cardinality(fds) < FdLimit
SourceUnchecked == CanOpen   \* mutant
SourceOpens == CanOpen /\ entry \notin BadSource
DestOpens   == CanOpen /\ entry \notin BadDest
-----------------------------------------------------------------------------
(* The producer thread: producer_thread and produce_file_descriptor_pair.  *)
OpenDir ==
    /\ pc[Producer] = "opendir"
    /\ \E opened \in OpenDirResults :
          Goto(Producer, IF opened THEN "readdir" ELSE "exited")
    /\ UNCHANGED <<mutex, bufVars, dirVars, fileVars, mainVars, spurious>>

ReadDir ==
    /\ pc[Producer] = "readdir"
    /\ \/ \E f \in toRead :
             /\ entry' = f
             /\ toRead' = toRead \ {f}
             /\ Goto(Producer, "enter")
       \/ /\ toRead = {}
          /\ Goto(Producer, "finish")
          /\ UNCHANGED dirVars
    /\ UNCHANGED <<mutex, bufVars, fileVars, mainVars, spurious>>

ProducerEnter ==
    /\ pc[Producer] = "enter"
    /\ MutexFree
    /\ IF Full
       THEN /\ Goto(Producer, "wait")
            /\ UNCHANGED mutex
       ELSE /\ Goto(Producer, "opensrc")
            /\ mutex' = Producer
    /\ UNCHANGED <<bufVars, dirVars, fileVars, mainVars, spurious>>

(* Unlock and return to the readdir loop without having produced.          *)
GiveUpEntry ==
    /\ mutex' = NoThread
    /\ entry' = NoFile
    /\ Goto(Producer, "readdir")

OpenSource ==
    /\ pc[Producer] = "opensrc"
    /\ entry \notin Fifos
    /\ IF SourceOpens
       THEN /\ fds' = fds \cup {<<"src", entry>>}
            /\ Goto(Producer, "opendst")
            /\ UNCHANGED <<mutex, entry>>
       ELSE GiveUpEntry /\ UNCHANGED fds
    /\ UNCHANGED <<bufVars, toRead, srcPos, dst, printed, mainVars, spurious>>

SourceLeaked == UNCHANGED fds   \* mutant
CloseSource  == fds' = fds \ {<<"src", entry>>}

OpenDest ==
    /\ pc[Producer] = "opendst"
    /\ IF DestOpens
       THEN /\ fds' = fds \cup {<<"dst", entry>>}
            /\ dst' = [dst EXCEPT ![entry] = 0]
            /\ Goto(Producer, "put")
            /\ UNCHANGED <<mutex, entry>>
       ELSE GiveUpEntry /\ CloseSource /\ UNCHANGED dst
    /\ UNCHANGED <<bufVars, toRead, srcPos, printed, mainVars, spurious>>

Put ==
    /\ pc[Producer] = "put"
    /\ slots' = [slots EXCEPT ![in] = entry]
    /\ in' = Advance(in)
    /\ count' = count + 1
    /\ entry' = NoFile
    /\ SignalConsumer(Producer, "readdir")
    /\ mutex' = NoThread
    /\ UNCHANGED <<out, done, toRead, fileVars, mainVars, spurious>>

Finish ==
    /\ pc[Producer] = "finish"
    /\ MutexFree
    /\ done' = TRUE
    /\ BroadcastConsumers(Producer, "exited")
    /\ UNCHANGED <<mutex, in, out, count, slots, dirVars, fileVars, mainVars,
                   spurious>>
-----------------------------------------------------------------------------
(* A consumer thread: consumer_thread and consume_file_descriptor_pair.    *)
ConsumerEnter(c) ==
    /\ pc[c] = "enter"
    /\ MutexFree
    /\ \/ /\ Empty /\ ~done
          /\ Goto(c, "wait")
          /\ UNCHANGED mutex
       \/ /\ Empty /\ done
          /\ Goto(c, "recheck")
          /\ UNCHANGED mutex
       \/ /\ ~Empty
          /\ Goto(c, "copy")
          /\ mutex' = c
    /\ UNCHANGED <<bufVars, dirVars, fileVars, mainVars, spurious>>

Current == slots[out]

(* One round of the read/write loop; write()'s result is not looked at.    *)
CopyBlock(c) ==
    /\ pc[c] = "copy"
    /\ srcPos[Current] < Blocks[Current]
    /\ srcPos' = [srcPos EXCEPT ![Current] = @ + 1]
    /\ dst' = IF Current \in WriteFails
              THEN dst
              ELSE [dst EXCEPT ![Current] = @ + 1]
    /\ UNCHANGED <<mutex, bufVars, pc, dirVars, fds, printed, mainVars,
                   spurious>>

ShortReadEnds == srcPos[Current] + 1 >= Blocks[Current]   \* mutant
LoopEnds == srcPos[Current] = Blocks[Current] \/ Current \in ReadFails

FinishCopy(c) ==
    /\ pc[c] = "copy"
    /\ LoopEnds
    /\ fds' = fds \ {<<"src", Current>>, <<"dst", Current>>}
    /\ printed' = printed \cup {Current}
    /\ out' = Advance(out)
    /\ count' = count - 1
    /\ SignalProducer(c, "recheck")
    /\ mutex' = NoThread
    /\ UNCHANGED <<in, done, slots, dirVars, srcPos, dst, mainVars, spurious>>

LeaveWhenDone == done   \* mutant: pairs may be left in the buffer
GlobalDoneFlag == FALSE \* mutant: tests the other flag named done
Drained == Empty /\ done

Recheck(c) ==
    /\ pc[c] = "recheck"
    /\ MutexFree
    /\ Goto(c, IF Drained THEN "exited" ELSE "enter")
    /\ UNCHANGED <<mutex, bufVars, dirVars, fileVars, mainVars, spurious>>
-----------------------------------------------------------------------------
(* main: create every thread, join them in the same order, clean up.       *)
NextThread(phase, following) ==
    IF next = NumConsumers
    THEN main' = following /\ next' = Producer
    ELSE main' = phase /\ next' = next + 1

Spawn ==
    /\ main = "spawn"
    /\ Goto(next, IF next = Producer THEN "opendir" ELSE "enter")
    /\ NextThread("spawn", "join")
    /\ UNCHANGED <<mutex, bufVars, dirVars, fileVars, spurious>>

JoinProducerOnly(t) == t = Producer => pc[t] = "exited"   \* mutant
Joinable(t) == pc[t] = "exited"

Join ==
    /\ main = "join"
    /\ Joinable(next)
    /\ NextThread("join", "cleanup")
    /\ UNCHANGED <<mutex, bufVars, pc, dirVars, fileVars, spurious>>

Cleanup ==
    /\ main = "cleanup"
    /\ main' = "done"
    /\ UNCHANGED <<mutex, bufVars, pc, dirVars, fileVars, next, spurious>>

(* pthread_cond_wait may return without a signal (MaxSpurious times).      *)
SpuriousWakeup(t) ==
    /\ pc[t] = "wait"
    /\ spurious < MaxSpurious
    /\ spurious' = spurious + 1
    /\ Goto(t, "enter")
    /\ UNCHANGED <<mutex, bufVars, dirVars, fileVars, mainVars>>

(* The process has returned from main: the only way it may come to rest.   *)
Terminated == main = "done" /\ UNCHANGED vars

ProducerStep == OpenDir \/ ReadDir \/ ProducerEnter \/ OpenSource \/ OpenDest
                \/ Put \/ Finish
ConsumerStep(c) == ConsumerEnter(c) \/ CopyBlock(c) \/ FinishCopy(c)
                   \/ Recheck(c)
MainStep == Spawn \/ Join \/ Cleanup

Next == \/ ProducerStep
        \/ \E c \in Consumers : ConsumerStep(c)
        \/ MainStep
        \/ \E t \in Threads : SpuriousWakeup(t)
        \/ Terminated

Spec == Init /\ [][Next]_vars

(* The kernel keeps running every runnable thread.  The default mutex is   *)
(* not fair, so no thread is promised the mutex in preference to others.   *)
FairSpec == /\ Spec
            /\ WF_vars(ProducerStep)
            /\ \A c \in Consumers : WF_vars(ConsumerStep(c))
            /\ WF_vars(MainStep)
=============================================================================
