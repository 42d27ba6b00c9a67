---------------------------- MODULE AppendMeMore ----------------------------
(***************************************************************************)
(* Several instances of appendMeMore (HW1/appendMeMore.c) writing bytes to *)
(* one file.  An instance started without x opens the file with O_APPEND,  *)
(* where the kernel moves to the end and writes in one step; an instance   *)
(* started with x calls lseek(SEEK_END) and write() one after the other.   *)
(* A byte is represented by the instance that wrote it.                    *)
(***************************************************************************)
EXTENDS Integers, Sequences

CONSTANTS
    Instances,
    Appenders,   \* the instances started without the argument x
    NumBytes,    \* NumBytes[p]: num_bytes of p
    Contents,    \* contents of the file before the first instance runs
    Old,         \* the bytes of Contents
    OpenFails,   \* instances whose open() may fail
    WriteMayFail \* whether write() may fail (its result is not looked at)

ASSUME InstancesAssumption == Appenders \subseteq Instances /\ Old \notin Instances
ASSUME BytesAssumption == NumBytes \in [Instances -> Int]
ASSUME ContentsAssumption == Contents \in Seq({Old})

VARIABLES
    file,    \* the file, byte by byte
    pc,      \* where each instance is
    i,       \* loop counter of each instance
    offset,  \* offset of each instance's open file description
    written  \* write() calls that succeeded, for stating the properties

vars == <<file, pc, i, offset, written>>

Init ==
    /\ file = Contents
    /\ pc = [p \in Instances |-> "open"]
    /\ i = [p \in Instances |-> 0]
    /\ offset = [p \in Instances |-> 0]
    /\ written = [p \in Instances |-> 0]

(* for (i = 0; i < num_bytes; i++): the first step of the round, or out.   *)
LoopHead(p, n) == IF n >= NumBytes[p] THEN "exited"
                  ELSE IF p \in Appenders THEN "write" ELSE "lseek"

Open(p) ==
    /\ pc[p] = "open"
    /\ \/ pc' = [pc EXCEPT ![p] = LoopHead(p, 0)]
       \/ p \in OpenFails /\ pc' = [pc EXCEPT ![p] = "exited"]
    /\ UNCHANGED <<file, i, offset, written>>

LseekEnd(p) ==
    /\ pc[p] = "lseek"
    /\ offset' = [offset EXCEPT ![p] = Len(file)]
    /\ pc' = [pc EXCEPT ![p] = "write"]
    /\ UNCHANGED <<file, i, written>>

OffsetForgotten(p) == offset[p]   \* mutant: O_APPEND left out of the flags
NextByte(p) == IF p \in Appenders THEN Len(file) ELSE offset[p]

(* Store the byte of p at offset o, at most the end of the file.           *)
PutByte(p, o) == IF o = Len(file) THEN Append(file, p)
                                  ELSE [file EXCEPT ![o + 1] = p]

Write(p) ==
    /\ pc[p] = "write"
    /\ \/ /\ file' = PutByte(p, NextByte(p))
          /\ offset' = [offset EXCEPT ![p] = NextByte(p) + 1]
          /\ written' = [written EXCEPT ![p] = @ + 1]
       \/ /\ WriteMayFail
          /\ UNCHANGED <<file, offset, written>>
    /\ i' = [i EXCEPT ![p] = @ + 1]
    /\ pc' = [pc EXCEPT ![p] = LoopHead(p, i[p] + 1)]

Terminated == (\A p \in Instances : pc[p] = "exited") /\ UNCHANGED vars

Next == \/ \E p \in Instances : Open(p) \/ LseekEnd(p) \/ Write(p)
        \/ Terminated

Spec == Init /\ [][Next]_vars
-----------------------------------------------------------------------------
TypeOK ==
    /\ file \in Seq(Instances \cup {Old})
    /\ pc \in [Instances -> {"open", "lseek", "write", "exited"}]
    /\ i \in [Instances -> Nat]
    /\ offset \in [Instances -> Nat]
    /\ written \in [Instances -> Nat]

(* However the instances interleave, the file has grown by at least the    *)
(* bytes of the instance that wrote most: two instances with x may lose up *)
(* to half of what they write, never more.                                 *)
GrowsByTheLongest == \A p \in Instances : Len(file) >= Len(Contents) + written[p]

(* A byte is overwritten only by an instance with x, and the byte lost is  *)
(* always one an instance wrote, never one of the original contents.       *)
OnlySeekersOverwrite ==
    [][\A k \in 1..Len(file) : file'[k] # file[k] =>
          /\ file'[k] \in Instances \ Appenders
          /\ file[k] \in Instances]_vars

(* With O_APPEND nothing is lost: when every instance was started without  *)
(* x, what is in the file stays there and every write adds a byte.         *)
NothingLost ==
    [][Appenders = Instances =>
          /\ SubSeq(file', 1, Len(file)) = file
          /\ written' # written => Len(file') = Len(file) + 1]_vars
-----------------------------------------------------------------------------
(* The inductive invariant.  No offset is past the end; where a seeker is  *)
(* about to write is past everything it wrote before; and the original     *)
(* contents are intact at the front of the file.                           *)
IInv ==
    /\ TypeOK
    /\ GrowsByTheLongest
    /\ \A p \in Instances : offset[p] <= Len(file)
    /\ \A p \in Instances : pc[p] = "write" =>
          p \in Appenders \/ offset[p] >= Len(Contents) + written[p]
    /\ \A k \in 1..Len(file) : file[k] = Old <=> k <= Len(Contents)
=============================================================================
