---------------------------- MODULE AppendProof ----------------------------
(***************************************************************************)
(* Proofs about AppendMeMore for every number of instances, with and       *)
(* without x, every num_bytes and every initial contents.                  *)
(***************************************************************************)
EXTENDS AppendMeMore, TLAPS

USE InstancesAssumption, BytesAssumption, ContentsAssumption

(* Storing a byte at an offset within the file lengthens the file by one   *)
(* or keeps its length, and touches no other byte.                         *)
LEMMA PutByteEffect ==
    ASSUME file \in Seq(Instances \cup {Old}), NEW p \in Instances,
           NEW o \in 0..Len(file)
    PROVE  /\ PutByte(p, o) \in Seq(Instances \cup {Old})
           /\ Len(PutByte(p, o)) = IF o = Len(file) THEN Len(file) + 1 ELSE Len(file)
           /\ PutByte(p, o)[o + 1] = p
           /\ \A k \in 1..Len(file) : k # o + 1 => PutByte(p, o)[k] = file[k]
<1>1. CASE o = Len(file)
  BY <1>1 DEF PutByte
<1>2. CASE o # Len(file)
  <2>1. PutByte(p, o) = [file EXCEPT ![o + 1] = p] /\ o + 1 \in 1..Len(file)
    BY <1>2 DEF PutByte
  <2> QED BY <1>2, <2>1
<1> QED BY <1>1, <1>2

LEMMA LoopHeadType ==
    ASSUME NEW p \in Instances, NEW n \in Nat
    PROVE  /\ LoopHead(p, n) \in {"lseek", "write", "exited"}
           /\ LoopHead(p, n) = "write" => p \in Appenders
BY DEF LoopHead

(* Where a write goes: within the file, and past the original contents and *)
(* the earlier bytes of the same instance.                                 *)
LEMMA NextByteInFile ==
    ASSUME IInv, NEW p \in Instances, pc[p] = "write"
    PROVE  /\ NextByte(p) \in 0..Len(file)
           /\ NextByte(p) >= Len(Contents) + written[p]
           /\ p \in Appenders => NextByte(p) = Len(file)
BY DEF IInv, TypeOK, GrowsByTheLongest, NextByte

LEMMA InitIInv == Init => IInv
<1> SUFFICES ASSUME Init PROVE IInv
  OBVIOUS
<1>1. TypeOK
  BY DEF Init, TypeOK
<1>2. Len(Contents) \in Nat /\ \A k \in 1..Len(Contents) : Contents[k] = Old
  OBVIOUS
<1> QED BY <1>1, <1>2 DEF Init, IInv, GrowsByTheLongest

(* The steps that leave the file alone.                                    *)
LEMMA OpenKeepsIInv ==
    ASSUME IInv, NEW p \in Instances, Open(p)
    PROVE  IInv'
BY LoopHeadType DEF IInv, TypeOK, GrowsByTheLongest, Open

LEMMA LseekEndKeepsIInv ==
    ASSUME IInv, NEW p \in Instances, LseekEnd(p)
    PROVE  IInv'
<1>1. Len(file) \in Nat
  BY DEF IInv, TypeOK
<1> QED BY <1>1 DEF IInv, TypeOK, GrowsByTheLongest, LseekEnd

LEMMA WriteKeepsIInv ==
    ASSUME IInv, NEW p \in Instances, Write(p)
    PROVE  IInv'
<1> DEFINE o == NextByte(p)
<1>1. /\ file \in Seq(Instances \cup {Old}) /\ Len(file) \in Nat
      /\ Len(Contents) \in Nat /\ written[p] \in Nat
  BY DEF IInv, TypeOK
<1>2. pc[p] = "write"
  BY DEF Write
<1>3. /\ o \in 0..Len(file) /\ o >= Len(Contents) + written[p]
      /\ p \in Appenders => o = Len(file)
  BY <1>2, NextByteInFile
<1>4. /\ i' = [i EXCEPT ![p] = @ + 1]
      /\ pc' = [pc EXCEPT ![p] = LoopHead(p, i[p] + 1)]
      /\ i[p] + 1 \in Nat
  BY DEF Write, IInv, TypeOK
<1>5. CASE UNCHANGED <<file, offset, written>>
  BY <1>4, <1>5, LoopHeadType DEF IInv, TypeOK, GrowsByTheLongest
<1>6. CASE /\ file' = PutByte(p, o)
           /\ offset' = [offset EXCEPT ![p] = o + 1]
           /\ written' = [written EXCEPT ![p] = @ + 1]
  <2> HIDE DEF o
  <2>0. /\ PutByte(p, o) \in Seq(Instances \cup {Old})
        /\ Len(PutByte(p, o)) = IF o = Len(file) THEN Len(file) + 1 ELSE Len(file)
        /\ PutByte(p, o)[o + 1] = p
        /\ \A k \in 1..Len(file) : k # o + 1 => PutByte(p, o)[k] = file[k]
    <3>1. file \in Seq(Instances \cup {Old}) /\ o \in 0..Len(file)
      BY <1>1, <1>3
    <3> QED BY ONLY <3>1, p \in Instances, PutByteEffect
  <2>1. /\ file' \in Seq(Instances \cup {Old})
        /\ Len(file') = IF o = Len(file) THEN Len(file) + 1 ELSE Len(file)
        /\ file'[o + 1] = p
        /\ \A k \in 1..Len(file) : k # o + 1 => file'[k] = file[k]
    BY <1>6, <2>0
  <2>2. TypeOK'
    BY <1>1, <1>3, <1>4, <1>6, <2>1, LoopHeadType DEF IInv, TypeOK
  <2>3. Len(file') >= Len(file) /\ Len(file') >= o + 1 /\ Len(file') \in Nat
    BY <1>1, <1>3, <2>1
  <2>4. GrowsByTheLongest'
    BY <1>1, <1>3, <1>6, <2>3 DEF IInv, TypeOK, GrowsByTheLongest
  <2>5. \A q \in Instances : offset'[q] <= Len(file')
    BY <1>1, <1>3, <1>6, <2>3 DEF IInv, TypeOK
  <2>6. \A q \in Instances : pc'[q] = "write" =>
           q \in Appenders \/ offset'[q] >= Len(Contents) + written'[q]
    BY <1>4, <1>6, LoopHeadType DEF IInv, TypeOK
  <2>7. \A k \in 1..Len(file') : file'[k] = Old <=> k <= Len(Contents)
    BY <1>1, <1>3, <2>1 DEF IInv
  <2> QED BY <2>2, <2>4, <2>5, <2>6, <2>7 DEF IInv
<1> QED BY <1>5, <1>6 DEF Write

LEMMA NextKeepsIInv == IInv /\ [Next]_vars => IInv'
<1> SUFFICES ASSUME IInv, [Next]_vars PROVE IInv'
  OBVIOUS
<1>1. CASE UNCHANGED vars
  BY <1>1 DEF IInv, TypeOK, GrowsByTheLongest, vars
<1>2. ASSUME NEW p \in Instances, Open(p) \/ LseekEnd(p) \/ Write(p)
      PROVE  IInv'
  BY <1>2, OpenKeepsIInv, LseekEndKeepsIInv, WriteKeepsIInv
<1> QED BY <1>1, <1>2 DEF Next, Terminated

THEOREM Invariance == Spec => []IInv
<1>1. Init => IInv
  BY InitIInv
<1> QED BY <1>1, NextKeepsIInv, PTL DEF Spec

(* The file grows by at least what its most successful writer wrote.       *)
THEOREM LowerBound == Spec => []GrowsByTheLongest
<1>1. IInv => GrowsByTheLongest
  BY DEF IInv
<1> QED BY <1>1, Invariance, PTL

(* Only instances with x overwrite, and never the original contents.       *)
THEOREM Overwriting == Spec => OnlySeekersOverwrite
<1>1. ASSUME IInv, [Next]_vars, NEW k \in 1..Len(file), file'[k] # file[k]
      PROVE  file'[k] \in Instances \ Appenders /\ file[k] \in Instances
  <2>1. PICK p \in Instances : Write(p) /\ file' = PutByte(p, NextByte(p))
    BY <1>1 DEF Next, Terminated, Open, LseekEnd, Write, vars
  <2>2. /\ NextByte(p) \in 0..Len(file) /\ NextByte(p) >= Len(Contents) + written[p]
        /\ p \in Appenders => NextByte(p) = Len(file)
    BY <1>1, <2>1, NextByteInFile DEF Write
  <2>3. file \in Seq(Instances \cup {Old}) /\ written[p] \in Nat /\ Len(Contents) \in Nat
    BY <1>1 DEF IInv, TypeOK
  <2>4. k = NextByte(p) + 1 /\ file'[k] = p
    BY <1>1, <2>1, <2>2, <2>3, PutByteEffect
  <2>5. p \notin Appenders /\ k > Len(Contents)
    BY <2>2, <2>3, <2>4
  <2>6. file[k] # Old
    BY <1>1, <2>3, <2>5 DEF IInv
  <2> QED BY <2>3, <2>4, <2>5, <2>6
<1> DEFINE A == \A k \in 1..Len(file) : file'[k] # file[k] =>
                   /\ file'[k] \in Instances \ Appenders
                   /\ file[k] \in Instances
<1>2. IInv /\ [Next]_vars => A
  BY <1>1
<1>3. A => [A]_vars
  OBVIOUS
<1> HIDE DEF A
<1>4. Spec => [][A]_vars
  BY <1>2, <1>3, Invariance, PTL DEF Spec
<1> QED BY <1>4 DEF A, OnlySeekersOverwrite

(* When every instance uses O_APPEND no byte is ever lost.                 *)
LEMMA AppendKeepsPrefix ==
    ASSUME NEW f \in Seq(Instances \cup {Old}), NEW p \in Instances
    PROVE  SubSeq(Append(f, p), 1, Len(f)) = f /\ Len(Append(f, p)) = Len(f) + 1
OBVIOUS

THEOREM AppendersLoseNothing == Spec => NothingLost
<1> DEFINE A == Appenders = Instances =>
                   /\ SubSeq(file', 1, Len(file)) = file
                   /\ written' # written => Len(file') = Len(file) + 1
<1>1. ASSUME IInv, [Next]_vars, Appenders = Instances
      PROVE  /\ SubSeq(file', 1, Len(file)) = file
             /\ written' # written => Len(file') = Len(file) + 1
  <2>1. file \in Seq(Instances \cup {Old})
    BY <1>1 DEF IInv, TypeOK
  <2>2. CASE UNCHANGED <<file, written>>
    BY <2>1, <2>2
  <2>3. ASSUME NEW p \in Instances, Write(p), file' = PutByte(p, NextByte(p))
        PROVE  /\ SubSeq(file', 1, Len(file)) = file
               /\ Len(file') = Len(file) + 1
    <3>1. file' = Append(file, p)
      BY <1>1, <2>3, NextByteInFile DEF Write, PutByte
    <3> QED BY <2>1, <3>1, AppendKeepsPrefix
  <2> QED BY <1>1, <2>2, <2>3 DEF Next, Terminated, Open, LseekEnd, Write, vars
<1>2. IInv /\ [Next]_vars => [A]_vars
  BY <1>1
<1> HIDE DEF A
<1>3. Spec => [][A]_vars
  BY <1>2, Invariance, PTL DEF Spec
<1> QED BY <1>3 DEF A, NothingLost
=============================================================================
