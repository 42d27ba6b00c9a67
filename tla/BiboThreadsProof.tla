-------------------------- MODULE BiboThreadsProof --------------------------
(***************************************************************************)
(* Proofs about BiboThreads for every set of clients, every directory and  *)
(* every number of commands of each.                                       *)
(***************************************************************************)
EXTENDS BiboThreadsProperties, SequenceTheorems, FunctionTheorems, FiniteSetTheorems,
        TLAPS

(* Commands as they are sent, and as they are parsed.                      *)
Given  == AllCommands \cup {Nothing}
Parsed == Given \cup {Garbled(d) : d \in Given}

Labels == {"none", "recv", "work", "lock", "send", "raise", "exited", "crashed"}
              \cup InWriteT
Texts  == {"undefined", "commands", "names", "Quitting", "shutting down", "downloaded",
           "not found", "Invalid command", "content", "uploaded", "failed",
           "Write successful"}
InHand == {"work", "lock", "send", "crashed"} \cup InWriteT

TypeInv ==
    /\ contents \in [Names -> {Absent} \cup Seq(Pieces)]
    /\ mutex \in Clients \cup {NoOne} /\ server \in {"up", "interrupted", "down"}
    /\ pc \in [Clients -> Labels]
    /\ link \in [Clients -> {"none", "open", "closed", "broken"}]
    /\ user \in [Clients -> {"start", "prompt", "await", "exited"}]
    /\ pending \in [Clients -> [at : Nat, new : Seq(Pieces)]]
    /\ cmd \in [Clients -> Parsed] /\ id \in [Clients -> Nat]
    /\ response \in [Clients -> Texts]
    /\ inbox \in [Clients -> Seq([id : Nat, cmd : Given])]
    /\ outbox \in [Clients -> Seq([id : Nat, text : Texts])]
    /\ typed \in [Clients -> 0..MaxCommands]
    /\ asked \in [Clients -> Given]
    /\ shown \in [Clients -> SUBSET Nat]

(* A file that is about to be written exists.                              *)
WriterInv(c) ==
    /\ pc[c] \in InWriteT \cup {"lock", "crashed"} => cmd[c].op = "writeT"
    /\ pc[c] \in {"rewrite", "fclose"} => contents[cmd[c].name] # Absent
    /\ pc[c] = "rewrite" => pending[c].at = 0
    /\ pc[c] = "raise" => cmd[c].op = "killServer"
    /\ pc[c] \in InWriteT \cup {"crashed"} <=> mutex = c

(* The first command a thread receives is the greeting, and its answer is  *)
(* one of those that are stored in the buffer.                             *)
ResponseInv(c) ==
    /\ response[c] = "undefined" =>
          \/ pc[c] = "none" /\ inbox[c] = << >>
          \/ pc[c] = "recv" /\ inbox[c] # << >> /\ inbox[c][1].cmd = Nothing
          \/ pc[c] = "work" /\ cmd[c] = Nothing
    /\ \A k \in DOMAIN outbox[c] : outbox[c][k].text # "undefined"

(* Where the index of a command is on its way from the client and back.    *)
Waiting(c) == {inbox[c][k].id : k \in DOMAIN inbox[c]}
Working(c) == IF pc[c] \in InHand THEN {id[c]} ELSE {}
Sent(c)    == {outbox[c][k].id : k \in DOMAIN outbox[c]}
Open(c)    == Waiting(c) \cup Working(c) \cup Sent(c)

Increasing(s) == \A j, k \in DOMAIN s : j < k => s[j].id < s[k].id
Before(A, B)  == \A a \in A : \A b \in B : a < b

OrderInv(c) ==
    /\ Increasing(inbox[c]) /\ Increasing(outbox[c])
    /\ Before(Working(c), Waiting(c))
    /\ Before(Sent(c), Working(c) \cup Waiting(c))
    /\ Before(shown[c], Open(c))
    /\ \A n \in Open(c) \cup shown[c] : n <= typed[c]

(* What is under way when the client waits is no older than the last       *)
(* command but one.                                                        *)
BehindInv(c) ==
    /\ user[c] = "start" => typed[c] = 0 /\ shown[c] = {} /\ Open(c) = {}
                            /\ pc[c] = "none" /\ link[c] = "none"
    /\ user[c] = "prompt" => /\ shown[c] \subseteq {typed[c] - 1, typed[c]}
                             /\ shown[c] = {} => typed[c] = 0
    /\ user[c] = "await" => \A n \in Open(c) : n >= typed[c] - 1
    /\ pc[c] = "none" => user[c] \in {"start", "exited"}
    /\ Len(inbox[c]) <= typed[c] + 1

Conn(c) == ResponseInv(c) /\ OrderInv(c) /\ BehindInv(c)

(* A client that leaves because it was answered, or because its thread has *)
(* ended, has one answer more to get at most: the first send() to a closed *)
(* socket is the last one.                                                 *)
LeaveInv(c) ==
    /\ link[c] = "none" => pc[c] = "none"
    /\ link[c] \in {"closed", "broken"} => user[c] = "exited"
    /\ link[c] = "closed" => pc[c] = "exited"
                             \/ Waiting(c) \cup Working(c) \subseteq {typed[c]}
    /\ link[c] = "broken" => pc[c] = "exited" \/ pc[c] = "raise"
                             \/ Waiting(c) \cup Working(c) = {}
-----------------------------------------------------------------------------

(* Line n, for every n up to the number of lines, ends somewhere: counting *)
(* the line ends up to each one of them is one-to-one, and so onto.        *)
LEMMA LinesEnd ==
    ASSUME NEW S, NEW s \in Seq(S)
    PROVE  /\ LineCount(s) \in Nat
           /\ \A n \in 1..LineCount(s) : EndOfLine(s, n) \in 1..Len(s)
<1> DEFINE L == LineEnds(s)
           UpTo(e) == {d \in L : d <= e}
           rank == [e \in L |-> Cardinality(UpTo(e))]
           m == LineCount(s)
<1>1. L \subseteq 1..Len(s) /\ IsFiniteSet(L) /\ m \in Nat /\ m = Cardinality(L)
  <2>1. L \subseteq 1..Len(s)
    BY DEF LineEnds
  <2>2. IsFiniteSet(L)
    BY <2>1, FS_Interval, FS_Subset
  <2> QED BY <2>1, <2>2, FS_CardinalityType DEF LineCount
<1>2. ASSUME NEW e \in L
      PROVE  IsFiniteSet(UpTo(e)) /\ rank[e] \in 1..m
  <2>1. UpTo(e) \subseteq L /\ e \in UpTo(e)
    BY <1>1
  <2>2. IsFiniteSet(UpTo(e)) /\ Cardinality(UpTo(e)) \in Nat /\ Cardinality(UpTo(e)) <= m
    BY <1>1, <2>1, FS_Subset, FS_CardinalityType
  <2>3. Cardinality(UpTo(e)) # 0
    BY <2>1, <2>2, FS_EmptySet
  <2> QED BY <1>1, <2>2, <2>3
<1>3. ASSUME NEW d \in L, NEW e \in L, rank[d] = rank[e]
      PROVE  d = e
  <2>1. \A a, b \in L : a < b /\ rank[a] = rank[b] => FALSE
    <3> SUFFICES ASSUME NEW a \in L, NEW b \in L, a < b, rank[a] = rank[b] PROVE FALSE
      OBVIOUS
    <3>1. UpTo(a) \subseteq UpTo(b) /\ b \in UpTo(b) /\ b \notin UpTo(a)
      BY <1>1
    <3>2. UpTo(a) = UpTo(b)
      BY <1>2, <3>1, FS_Subset
    <3> QED BY <3>1, <3>2
  <2> HIDE DEF rank
  <2>2. d \in Int /\ e \in Int
    BY <1>1
  <2>3. ~(d < e) /\ ~(e < d)
    BY <1>3, <2>1
  <2> QED BY <2>2, <2>3
<1>4. rank \in Surjection(L, 1..m)
  <2>1. rank \in Injection(L, 1..m)
    BY <1>2, <1>3, Fun_IsInj
  <2>2. IsFiniteSet(1..m) /\ Cardinality(1..m) = m
    BY <1>1, FS_Interval
  <2> QED BY <1>1, <2>1, <2>2, FS_Injection
<1>5. ASSUME NEW n \in 1..m
      PROVE  EndOfLine(s, n) \in 1..Len(s)
  <2>1. \E e \in L : rank[e] = n
    BY <1>4 DEF Surjection
  <2>2. \E e \in LineEnds(s) : Cardinality({d \in LineEnds(s) : d <= e}) = n
    BY <2>1
  <2> n # 0
    BY <1>1
  <2>3. EndOfLine(s, n) = CHOOSE e \in LineEnds(s) :
                              Cardinality({d \in LineEnds(s) : d <= e}) = n
    BY Zenon DEF EndOfLine
  <2>4. EndOfLine(s, n) \in LineEnds(s)
    BY <2>2, <2>3
  <2> QED BY <1>1, <2>4
<1> QED BY <1>1, <1>5

(* Replacing a line keeps to the pieces of the file and of the new text.   *)
LEMMA ReplaceLineType ==
    ASSUME NEW S, NEW s \in Seq(S), NEW text \in Seq(S), NEW n \in 1..LineCount(s)
    PROVE  ReplaceLine(s, n, text) \in Seq(S)
<1>1. n \in Nat /\ n # 0 /\ EndOfLine(s, n) \in 1..Len(s)
  BY LinesEnd
<1>2. EndOfLine(s, n - 1) \in 0..Len(s)
  <2>1. CASE n = 1
    BY <2>1 DEF EndOfLine
  <2>2. CASE n # 1
    BY <1>1, <2>2, LinesEnd
  <2> QED BY <2>1, <2>2
<1>3. SubSeq(s, 1, EndOfLine(s, n - 1)) \in Seq(S)
  BY <1>2, SubSeqProperties
<1>4. SubSeq(s, EndOfLine(s, n) + 1, Len(s)) \in Seq(S)
  BY <1>1, SubSeqProperties
<1> QED BY <1>3, <1>4 DEF ReplaceLine

(* What is stored at an offset, which may lie behind the end of the file.  *)
LEMMA StoredType ==
    ASSUME NEW s \in Seq(Pieces), NEW at \in Nat, NEW new \in Seq(Pieces)
    PROVE  Stored(s, at, new) \in Seq(Pieces)
<1> DEFINE n == IF at + Len(new) > Len(s) THEN at + Len(new) ELSE Len(s)
<1>1. n \in Nat /\ Junk \in Pieces
  BY DEF Pieces
<1>2. Stored(s, at, new) \in [1..n -> Pieces]
  BY <1>1 DEF Stored
<1> HIDE DEF n
<1> QED BY <1>1, <1>2
-----------------------------------------------------------------------------
(* The types.                                                              *)
LEMMA ParsedType ==
    ASSUME NEW d \in Parsed
    PROVE  /\ d \in [op : Ops \cup {"pid"}, name : Names, line : Nat, text : Seq(Pieces)]
           /\ Len(d.text) \in Nat
<1> DEFINE T == [op : Ops \cup {"pid"}, name : Names, line : Nat, text : Seq(Pieces)]
<1>1. Nothing \in T /\ AllCommands \subseteq T
  BY JunkAssumption, CommandsAssumption, EmptySeq DEF Nothing
<1>2. ASSUME NEW e \in T
      PROVE  Garbled(e) \in T
  <2>1. Append(e.text, Junk) \in Seq(Pieces)
    BY AppendProperties DEF Pieces
  <2>2. [e EXCEPT !.text = Append(@, Junk)] \in T
    BY <2>1
  <2>3. [e EXCEPT !.name = Junk] \in T
    BY JunkAssumption
  <2> QED BY <2>2, <2>3 DEF Garbled
<1>3. d \in T
  BY <1>1, <1>2 DEF Parsed, Given
<1> QED BY <1>3

LEMMA InitTypeInv == Init => TypeInv
<1> SUFFICES ASSUME Init PROVE TypeInv
  OBVIOUS
<1>1. << >> \in Seq(Pieces) /\ Initial \in [Names -> {Absent} \cup Seq(Pieces)]
      /\ MaxCommands \in Nat
  BY InitialAssumption, CommandsAssumption
<1>2. Nothing \in Given /\ Given \subseteq Parsed
  BY DEF Given, Parsed
<1> QED BY <1>1, <1>2 DEF Init, TypeInv, Texts, Labels

LEMMA RecvType == ASSUME TypeInv, NEW c \in Clients, Recv(c) PROVE TypeInv'
<1>1. CASE \E n \in 1..Len(inbox[c]) :
             /\ inbox' = [inbox EXCEPT ![c] = SubSeq(@, n + 1, Len(@))]
             /\ id' = [id EXCEPT ![c] = inbox[c][1].id]
             /\ cmd' = [cmd EXCEPT ![c] = IF n = 1 THEN inbox[c][1].cmd
                                                   ELSE Garbled(inbox[c][1].cmd)]
             /\ Goto(c, IF cmd'[c].op = "writeT" THEN "lock" ELSE "work")
  <2>1. PICK n \in 1..Len(inbox[c]) :
             /\ inbox' = [inbox EXCEPT ![c] = SubSeq(@, n + 1, Len(@))]
             /\ id' = [id EXCEPT ![c] = inbox[c][1].id]
             /\ cmd' = [cmd EXCEPT ![c] = IF n = 1 THEN inbox[c][1].cmd
                                                   ELSE Garbled(inbox[c][1].cmd)]
             /\ Goto(c, IF cmd'[c].op = "writeT" THEN "lock" ELSE "work")
    BY <1>1
  <2> DEFINE M == [id : Nat, cmd : Given]
  <2>2. inbox[c] \in Seq(M)
    BY DEF TypeInv
  <2> HIDE DEF M
  <2>3. inbox[c][1] \in M
    BY <2>1, <2>2
  <2>4. SubSeq(inbox[c], n + 1, Len(inbox[c])) \in Seq(M)
    BY <2>1, <2>2, SubSeqProperties
  <2> USE DEF M
  <2>5. inbox[c][1].cmd \in Parsed /\ Garbled(inbox[c][1].cmd) \in Parsed
    BY <2>3 DEF Parsed
  <2> QED BY <2>1, <2>3, <2>4, <2>5 DEF TypeInv, Recv, Goto, Labels, InWriteT, fileVars, userVars
<1>2. CASE Goto(c, "exited") /\ UNCHANGED <<inbox, taskVars>>
  BY <1>2 DEF TypeInv, Recv, Goto, Labels, InWriteT, fileVars, taskVars, userVars
<1> QED BY <1>1, <1>2 DEF Recv

LEMMA WorkType ==
    ASSUME TypeInv, NEW c \in Clients,
           Inform(c) \/ Acknowledge(c) \/ ReadF(c) \/ Upload(c)
    PROVE  TypeInv'
<1>1. CASE Inform(c)
  BY <1>1 DEF TypeInv, Inform, Answer, Goto, Texts, Labels, InWriteT, fileVars, taskVars, userVars
<1>2. CASE Acknowledge(c)
  <2>1. \E text \in Texts : Answer(c, text)
    BY <1>2 DEF Acknowledge, Texts
  <2> QED BY <1>2, <2>1 DEF TypeInv, Acknowledge, Answer, Goto, Texts, Labels, InWriteT, fileVars, taskVars,
                            userVars
<1>3. CASE ReadF(c)
  BY <1>3 DEF TypeInv, ReadF, Answer, Goto, Texts, Labels, InWriteT, fileVars, taskVars, userVars
<1>4. CASE Upload(c)
  <2>1. << >> \in Seq(Pieces) /\ UNCHANGED <<pending, mutex, server, taskVars, inbox, outbox,
                                            link, userVars>>
    BY <1>4 DEF Upload
  <2>2. \E text \in Texts : Answer(c, text)
    BY <1>4 DEF Upload, Texts
  <2>3. contents' \in [Names -> {Absent} \cup Seq(Pieces)]
    BY <1>4, <2>1 DEF Upload, TypeInv
  <2>4. response' \in [Clients -> Texts] /\ pc' \in [Clients -> Labels]
    BY <2>2 DEF TypeInv, Answer, Goto, Labels
  <2> QED BY <2>1, <2>3, <2>4 DEF TypeInv, taskVars, userVars
<1> QED BY <1>1, <1>2, <1>3, <1>4

LEMMA WriteType ==
    ASSUME TypeInv, NEW c \in Clients, WriterInv(c),
           Lock(c) \/ FOpen(c) \/ Rewrite(c) \/ FClose(c) \/ Unlock(c)
    PROVE  TypeInv'
<1>1. CASE Lock(c)
  BY <1>1 DEF TypeInv, Lock, Goto, Labels, InWriteT, fileVars, taskVars, userVars
<1>2. cmd[c].name \in Names /\ cmd[c].line \in Nat /\ cmd[c].text \in Seq(Pieces)
  BY ParsedType DEF TypeInv
<1>3. << >> \in Seq(Pieces)
  OBVIOUS
<1>4. CASE FOpen(c)
  <2> DEFINE s == contents[cmd[c].name]
  <2>1. s = Absent \/ s \in Seq(Pieces)
    BY <1>2 DEF TypeInv
  <2>2. s # Absent => Len(s) \in Nat /\ LineCount(s) \in Nat
    BY <2>1, LinesEnd
  <2>3. s # Absent /\ cmd[c].line > 0 /\ cmd[c].line <= LineCount(s)
        => ReplaceLine(s, cmd[c].line, cmd[c].text) \in Seq(Pieces)
    BY <1>2, <2>1, <2>2, ReplaceLineType
  <2>4. pending' \in [Clients -> [at : Nat, new : Seq(Pieces)]]
    <3> HIDE DEF s
    <3>1. \/ pending' = pending
          \/ \E at \in Nat, new \in Seq(Pieces) :
                pending' = [pending EXCEPT ![c] = [at |-> at, new |-> new]]
      <4>1. CASE Prepare(c, 0, cmd[c].text, "fclose")
        BY <1>2, <4>1 DEF Prepare
      <4>2. CASE s # Absent /\ Prepare(c, AppendOffset(s), cmd[c].text, "fclose")
        BY <1>2, <2>2, <4>2 DEF Prepare, AppendOffset
      <4>3. CASE s # Absent /\ cmd[c].line > 0 /\ cmd[c].line <= LineCount(s)
                 /\ Prepare(c, 0, ReplaceLine(s, cmd[c].line, cmd[c].text), "rewrite")
        BY <2>3, <4>3 DEF Prepare
      <4> QED BY <1>4, <4>1, <4>2, <4>3 DEF FOpen, Crash, Exists, fileVars, s
    <3>2. pending \in [Clients -> [at : Nat, new : Seq(Pieces)]]
      BY DEF TypeInv
    <3>3. ASSUME NEW at \in Nat, NEW new \in Seq(Pieces),
                 pending' = [pending EXCEPT ![c] = [at |-> at, new |-> new]]
          PROVE  pending' \in [Clients -> [at : Nat, new : Seq(Pieces)]]
      <4>1. [at |-> at, new |-> new] \in [at : Nat, new : Seq(Pieces)]
        OBVIOUS
      <4> QED BY <3>2, <3>3, <4>1
    <3> QED BY <3>1, <3>2, <3>3
  <2>5. contents' \in [Names -> {Absent} \cup Seq(Pieces)]
    BY <1>2, <1>3, <1>4 DEF TypeInv, FOpen, Crash, fileVars
  <2>6. /\ pc' \in [Clients -> Labels] /\ response' \in [Clients -> Texts]
        /\ server' \in {"up", "interrupted", "down"}
    BY <1>4 DEF TypeInv, FOpen, Crash, Prepare, Goto, Texts, Labels, InWriteT
  <2>7. UNCHANGED <<mutex, taskVars, inbox, outbox, link, userVars>>
    BY <1>4 DEF FOpen
  <2> QED BY <2>4, <2>5, <2>6, <2>7 DEF TypeInv, taskVars, userVars
<1>5. CASE Rewrite(c)
  <2>1. contents' \in [Names -> {Absent} \cup Seq(Pieces)]
    BY <1>2, <1>3, <1>5 DEF TypeInv, Rewrite, Crash, fileVars
  <2>2. pc' \in [Clients -> Labels] /\ server' \in {"up", "interrupted", "down"}
    BY <1>5 DEF TypeInv, Rewrite, Crash, Goto, Labels, InWriteT
  <2>3. UNCHANGED <<pending, response, mutex, taskVars, inbox, outbox, link, userVars>>
    BY <1>5 DEF Rewrite, Crash, fileVars
  <2> QED BY <2>1, <2>2, <2>3 DEF TypeInv, taskVars, userVars
<1>6. CASE FClose(c)
  <2>1. contents[cmd[c].name] \in Seq(Pieces)
    BY <1>2, <1>6 DEF TypeInv, WriterInv, FClose
  <2>2. Stored(contents[cmd[c].name], pending[c].at, pending[c].new) \in Seq(Pieces)
    BY <2>1, StoredType DEF TypeInv
  <2> QED
    BY <1>2, <1>6, <2>2 DEF TypeInv, FClose, Goto, Labels, InWriteT, taskVars, userVars
<1>7. CASE Unlock(c)
  BY <1>7 DEF TypeInv, Unlock, Goto, Texts, Labels, InWriteT, fileVars, taskVars, userVars
<1> QED BY <1>1, <1>4, <1>5, <1>6, <1>7

(* What exit() flushes of a file is text, and the file exists.             *)
LEMMA SignalKeeps ==
    ASSUME TypeInv, \A d \in Clients : WriterInv(d), SignalHandler
    PROVE  /\ contents' \in [Names -> {Absent} \cup Seq(Pieces)]
           /\ \A f \in Names : contents[f] # Absent => contents'[f] # Absent
<1>1. ASSUME NEW d \in Clients, pc[d] = "fclose", NEW n \in 0..Len(pending[d].new),
             contents' = [contents EXCEPT ![cmd[d].name] =
                             Stored(@, pending[d].at, SubSeq(pending[d].new, 1, n))]
      PROVE  /\ contents' \in [Names -> {Absent} \cup Seq(Pieces)]
             /\ \A f \in Names : contents[f] # Absent => contents'[f] # Absent
  <2>1. SubSeq(pending[d].new, 1, n) \in Seq(Pieces) /\ pending[d].at \in Nat
    BY <1>1, SubSeqProperties DEF TypeInv
  <2>2. cmd[d].name \in Names
    BY ParsedType DEF TypeInv
  <2>3. contents[cmd[d].name] \in Seq(Pieces)
    BY <1>1, <2>2 DEF TypeInv, WriterInv
  <2>4. Stored(contents[cmd[d].name], pending[d].at, SubSeq(pending[d].new, 1, n))
            \in Seq(Pieces)
    BY <2>1, <2>3, StoredType
  <2> QED BY <1>1, <2>2, <2>4, JunkAssumption DEF TypeInv
<1>2. CASE UNCHANGED contents
  BY <1>2 DEF TypeInv
<1> QED BY <1>1, <1>2 DEF SignalHandler

LEMMA SendType ==
    ASSUME TypeInv, \A d \in Clients : WriterInv(d),
           NEW c \in Clients, Send(c) \/ Raise(c)
    PROVE  TypeInv'
<1>1. CASE Send(c)
  <2>1. Append(outbox[c], [id |-> id[c], text |-> response[c]])
            \in Seq([id : Nat, text : Texts])
    <3> DEFINE A == [id : Nat, text : Texts]
    <3>1. outbox[c] \in Seq(A) /\ [id |-> id[c], text |-> response[c]] \in A
      BY DEF TypeInv
    <3> HIDE DEF A
    <3>2. Append(outbox[c], [id |-> id[c], text |-> response[c]]) \in Seq(A)
      BY <3>1, AppendProperties
    <3> QED BY <3>2 DEF A
  <2>2. outbox' \in [Clients -> Seq([id : Nat, text : Texts])]
    BY <1>1, <2>1 DEF TypeInv, Send
  <2>3. pc' \in [Clients -> Labels] /\ server' \in {"up", "interrupted", "down"}
    BY <1>1 DEF TypeInv, Send, Goto, AfterSend, Labels, Exit
  <2>4. UNCHANGED <<fileVars, mutex>>
    BY <1>1 DEF Send, Exit
  <2> QED BY <1>1, <2>2, <2>3, <2>4 DEF TypeInv, Send, fileVars, taskVars, userVars
<1>2. CASE Raise(c)
  BY <1>2, SignalKeeps DEF TypeInv, Raise, SignalHandler, taskVars, userVars
<1> QED BY <1>1, <1>2

LEMMA InterruptType ==
    ASSUME TypeInv, \A d \in Clients : WriterInv(d), Interrupt
    PROVE  TypeInv'
BY SignalKeeps DEF TypeInv, Interrupt, SignalHandler, taskVars, userVars

LEMMA ClientType ==
    ASSUME TypeInv, NEW c \in Clients, ClientStep(c)
    PROVE  TypeInv'
<1> DEFINE M == [id : Nat, cmd : Given]
           A == [id : Nat, text : Texts]
<1> inbox[c] \in Seq(M) /\ outbox[c] \in Seq(A) /\ MaxCommands \in Nat
  BY CommandsAssumption DEF TypeInv
<1>1. CASE Connect(c)
  <2>1. <<[id |-> 0, cmd |-> Nothing]>> \in Seq(M)
    BY DEF Given
  <2>2. inbox' \in [Clients -> Seq(M)]
    <3>1. inbox' = inbox \/ inbox' = [inbox EXCEPT ![c] = <<[id |-> 0, cmd |-> Nothing]>>]
      BY <1>1 DEF Connect, Greeting, Message
    <3>2. inbox \in [Clients -> Seq(M)]
      BY DEF TypeInv
    <3> HIDE DEF M
    <3> QED BY <2>1, <3>1, <3>2
  <2> QED
    BY <1>1, <2>2 DEF TypeInv, Connect, Accept, Goto, Labels, fileVars, taskVars
<1>2. CASE Type(c)
  <2>1. PICK d \in Commands[c] :
          /\ asked' = [asked EXCEPT ![c] = d]
          /\ typed' = [typed EXCEPT ![c] = @ + 1]
          /\ inbox' = IF d.op = "empty" THEN inbox
                      ELSE [inbox EXCEPT ![c] = Append(@, Message(typed'[c], d))]
    BY <1>2 DEF Type
  <2>2. d \in Given /\ typed' \in [Clients -> 0..MaxCommands]
    BY <1>2, <2>1 DEF Given, AllCommands, Type, TypeInv
  <2>3. Message(typed'[c], d) \in M
    BY <2>2 DEF Message
  <2>4. Append(inbox[c], Message(typed'[c], d)) \in Seq(M)
    <3> HIDE DEF M
    <3> QED BY <2>3, AppendProperties
  <2>5. inbox' \in [Clients -> Seq(M)]
    BY <2>1, <2>4 DEF TypeInv
  <2> QED BY <1>2, <2>1, <2>2, <2>5 DEF TypeInv, Type, fileVars, taskVars
<1>3. CASE Receive(c)
  <2>1. outbox' \in [Clients -> Seq(A)] /\ shown' \in [Clients -> SUBSET Nat]
    <3>1. ASSUME NEW n \in 1..Len(outbox[c]),
                 outbox' = [outbox EXCEPT ![c] = SubSeq(@, n + 1, Len(@))],
                 shown' = [shown EXCEPT ![c] = {outbox[c][k].id : k \in 1..n}]
          PROVE  outbox' \in [Clients -> Seq(A)] /\ shown' \in [Clients -> SUBSET Nat]
      <4>1. SubSeq(outbox[c], n + 1, Len(outbox[c])) \in Seq(A)
        <5> HIDE DEF A
        <5> QED BY SubSeqProperties
      <4>2. \A k \in 1..n : outbox[c][k] \in A
        <5> HIDE DEF A
        <5> QED OBVIOUS
      <4>3. {outbox[c][k].id : k \in 1..n} \in SUBSET Nat
        BY <4>2
      <4> QED BY <3>1, <4>1, <4>3 DEF TypeInv
    <3> QED BY <1>3, <3>1 DEF Receive, TypeInv
  <2>2. /\ user' \in [Clients -> {"start", "prompt", "await", "exited"}]
        /\ link' \in [Clients -> {"none", "open", "closed", "broken"}]
    <3>1. CloseSocket(c) \/ (user' = [user EXCEPT ![c] = "prompt"] /\ UNCHANGED link)
      BY <1>3 DEF Receive
    <3> QED BY <3>1 DEF TypeInv, CloseSocket
  <2> QED BY <1>3, <2>1, <2>2 DEF TypeInv, Receive, fileVars, taskVars
<1>4. CASE CtrlC(c)
  BY <1>4 DEF TypeInv, CtrlC, CloseSocket, fileVars, taskVars
<1> QED BY <1>1, <1>2, <1>3, <1>4 DEF ClientStep
-----------------------------------------------------------------------------
(* A step of one client, or of its thread, leaves the others as they are.  *)
Still(c) ==
    /\ pc'[c] = pc[c] /\ cmd'[c] = cmd[c] /\ id'[c] = id[c]
    /\ response'[c] = response[c] /\ inbox'[c] = inbox[c] /\ outbox'[c] = outbox[c]
    /\ link'[c] = link[c] /\ user'[c] = user[c] /\ typed'[c] = typed[c]
    /\ shown'[c] = shown[c] /\ pending'[c] = pending[c]

LEMMA OthersStill ==
    ASSUME TypeInv, NEW c \in Clients, ThreadStep(c) \/ ClientStep(c),
           NEW d \in Clients, d # c
    PROVE  Still(d)
<1> USE DEF TypeInv, Still, Goto, fileVars, taskVars, userVars
<1>1. CASE Recv(c)
  BY <1>1 DEF Recv
<1>2. CASE Inform(c) \/ Acknowledge(c) \/ ReadF(c) \/ Upload(c)
  BY <1>2 DEF Inform, Acknowledge, ReadF, Upload, Answer
<1>3. CASE Lock(c) \/ Rewrite(c) \/ FClose(c) \/ Unlock(c)
  BY <1>3 DEF Lock, Rewrite, Crash, FClose, Unlock
<1>4. CASE FOpen(c)
  BY <1>4 DEF FOpen, Crash, Prepare
<1>5. CASE Send(c)
  BY <1>5 DEF Send, Exit
<1>6. CASE Raise(c)
  BY <1>6 DEF Raise, SignalHandler
<1>7. CASE Connect(c)
  BY <1>7 DEF Connect, Accept
<1>8. CASE Type(c)
  BY <1>8 DEF Type
<1>9. CASE Receive(c)
  BY <1>9 DEF Receive, CloseSocket
<1>10. CASE CtrlC(c)
  BY <1>10 DEF CtrlC, CloseSocket
<1> QED
  BY <1>1, <1>2, <1>3, <1>4, <1>5, <1>6, <1>7, <1>8, <1>9, <1>10
  DEF ThreadStep, ClientStep

(* No step removes a file.                                                 *)
LEMMA FilesStay ==
    ASSUME TypeInv, NEW c \in Clients, ThreadStep(c) \/ ClientStep(c),
           \A d \in Clients : WriterInv(d), NEW f \in Names, contents[f] # Absent
    PROVE  contents'[f] # Absent
<1>1. ASSUME NEW d \in Clients, pc[d] = "fclose", NEW new \in Seq(Pieces)
      PROVE  Stored(contents[cmd[d].name], pending[d].at, new) # Absent
  <2>1. cmd[d].name \in Names
    BY ParsedType DEF TypeInv
  <2>2. contents[cmd[d].name] \in Seq(Pieces) /\ pending[d].at \in Nat
    BY <1>1, <2>1 DEF TypeInv, WriterInv
  <2> QED BY <1>1, <2>2, StoredType, JunkAssumption
<1>2. << >> # Absent
  BY JunkAssumption, EmptySeq
<1>3. CASE Upload(c) \/ Rewrite(c) \/ FOpen(c)
  BY <1>2, <1>3 DEF Upload, Rewrite, FOpen, Crash, TypeInv, fileVars
<1>4. CASE FClose(c)
  BY <1>1, <1>4 DEF FClose, TypeInv
<1>5. CASE Raise(c)
  BY <1>5, SignalKeeps DEF Raise
<1>6. CASE UNCHANGED contents
  BY <1>6
<1> QED
  BY <1>3, <1>4, <1>5, <1>6
  DEF ThreadStep, ClientStep, Recv, Inform, Acknowledge, ReadF, Lock, Unlock, Send, Exit,
      Connect, Type, Receive, CtrlC, fileVars

(* The mutex: the thread that works on a writeT holds it, and no other.    *)
LEMMA WriterStep ==
    ASSUME TypeInv, NEW c \in Clients, ThreadStep(c) \/ ClientStep(c),
           \A e \in Clients : WriterInv(e) /\ Conn(e), NEW d \in Clients
    PROVE  WriterInv(d)'
<1>1. cmd[d].name \in Names /\ NoOne \notin Clients
  BY ParsedType, ClientsAssumption DEF TypeInv
<1>2. contents[cmd[d].name] # Absent => contents'[cmd[d].name] # Absent
  BY <1>1, FilesStay
<1>3. CASE d # c
  <2>1. Still(d)
    BY <1>3, OthersStill
  <2>2. mutex' = d <=> mutex = d
    <3>1. mutex' = mutex \/ (mutex = NoOne /\ mutex' = c) \/ (mutex = c /\ mutex' = NoOne)
      BY DEF ThreadStep, ClientStep, Recv, Inform, Acknowledge, ReadF, Upload, Lock,
             MutexFree, FOpen, Rewrite, FClose, Unlock, WriterInv, InWriteT, Send, Exit,
             Raise, SignalHandler, Connect, Type, Receive, CtrlC
    <3> QED BY <1>1, <1>3, <3>1
  <2> QED BY <1>2, <2>1, <2>2 DEF WriterInv, Still
<1>4. CASE d = c
  <2> USE <1>4 DEF TypeInv, WriterInv, InWriteT, Goto, fileVars, taskVars, userVars
  <2>1. CASE Recv(c)
    BY <2>1 DEF Recv
  <2>2. CASE Inform(c) \/ Acknowledge(c) \/ ReadF(c) \/ Upload(c)
    BY <2>2 DEF Inform, Acknowledge, ReadF, Upload, Answer
  <2>3. CASE Lock(c)
    BY <1>1, <2>3 DEF Lock, MutexFree
  <2>4. CASE FOpen(c)
    <3>1. << >> # Absent
      BY JunkAssumption, EmptySeq
    <3>2. contents'[cmd[c].name] # Absent \/ pc'[c] \in {"unlock", "crashed"}
      BY <1>1, <2>4, <3>1 DEF FOpen, Crash, Prepare, Exists
    <3>3. pc'[c] \in {"fclose", "rewrite", "unlock", "crashed"}
          /\ (pc'[c] = "rewrite" => pending'[c].at = 0)
      <4>1. \/ Goto(c, "unlock") \/ Goto(c, "crashed")
            \/ \E at, new : Prepare(c, at, new, "fclose")
            \/ \E new : Prepare(c, 0, new, "rewrite")
        BY <2>4, Zenon DEF FOpen, Crash
      <4> QED BY <4>1 DEF Prepare
    <3>4. pc[c] = "fopen" /\ UNCHANGED <<cmd, mutex>>
      BY <2>4 DEF FOpen
    <3> QED BY <1>1, <3>2, <3>3, <3>4
  <2>5. CASE Rewrite(c) \/ FClose(c)
    BY <1>2, <2>5 DEF Rewrite, Crash, FClose
  <2>6. CASE Unlock(c)
    BY <1>1, <2>6 DEF Unlock
  <2>7. CASE Send(c)
    BY <1>1, <2>7 DEF Send, Exit, AfterSend
  <2>8. CASE Raise(c)
    BY <1>2, <2>8 DEF Raise, SignalHandler
  <2>9. CASE Connect(c)
    <3>1. pc[c] = "none"
      BY <2>9 DEF Connect, Conn, BehindInv
    <3> QED BY <2>9, <3>1 DEF Connect, Accept
  <2>10. CASE Type(c) \/ Receive(c) \/ CtrlC(c)
    BY <2>10 DEF Type, Receive, CtrlC
  <2> QED
    BY <2>1, <2>2, <2>3, <2>4, <2>5, <2>6, <2>7, <2>8, <2>9, <2>10
    DEF ThreadStep, ClientStep
<1> QED BY <1>3, <1>4
-----------------------------------------------------------------------------
(* The connection of a client.                                             *)
LEMMA ConnStill ==
    ASSUME NEW c \in Clients, Conn(c), Still(c)
    PROVE  Conn(c)'
<1>1. ResponseInv(c)'
  BY DEF Conn, ResponseInv, Still
<1>2. Waiting(c)' = Waiting(c) /\ Working(c)' = Working(c) /\ Sent(c)' = Sent(c)
  BY DEF Waiting, Working, Sent, Still
<1>3. Open(c)' = Open(c)
  BY <1>2 DEF Open
<1>4. OrderInv(c)'
  BY <1>2, <1>3 DEF Conn, OrderInv, Still, Increasing, Before
<1>5. BehindInv(c)'
  BY <1>3 DEF Conn, BehindInv, Still
<1> QED BY <1>1, <1>4, <1>5 DEF Conn

(* While a thread works on a command, nothing is received and nothing is   *)
(* sent, and the response is one that was stored.                          *)
LEMMA ConnWork ==
    ASSUME NEW c \in Clients, Conn(c), pc[c] \in InHand, pc'[c] \in InHand,
           response'[c] # "undefined",
           id'[c] = id[c], inbox'[c] = inbox[c], outbox'[c] = outbox[c],
           link'[c] = link[c], user'[c] = user[c], typed'[c] = typed[c],
           shown'[c] = shown[c]
    PROVE  Conn(c)'
<1>1. ResponseInv(c)'
  BY DEF Conn, ResponseInv
<1>2. Waiting(c)' = Waiting(c) /\ Working(c)' = Working(c) /\ Sent(c)' = Sent(c)
  BY DEF Waiting, Working, Sent
<1>3. Open(c)' = Open(c)
  BY <1>2 DEF Open
<1>4. OrderInv(c)'
  BY <1>2, <1>3 DEF Conn, OrderInv, Increasing, Before
<1>5. pc[c] # "none" /\ pc'[c] # "none"
  BY DEF InHand, InWriteT
<1>6. BehindInv(c)'
  BY <1>3, <1>5 DEF Conn, BehindInv
<1> QED BY <1>1, <1>4, <1>6 DEF Conn

LEMMA WorkConn ==
    ASSUME TypeInv, TypeInv', NEW c \in Clients, WriterInv(c), Conn(c),
           \/ Inform(c) \/ Acknowledge(c) \/ ReadF(c) \/ Upload(c)
           \/ Lock(c) \/ FOpen(c) \/ Rewrite(c) \/ FClose(c) \/ Unlock(c)
    PROVE  Conn(c)'
<1> USE DEF TypeInv, Goto, fileVars, taskVars, userVars
<1>1. UNCHANGED <<taskVars, inbox, outbox, link, userVars>>
  BY DEF Inform, Acknowledge, ReadF, Upload, Lock, FOpen, Rewrite, FClose, Unlock
<1>2. CASE Inform(c) \/ Acknowledge(c) \/ ReadF(c) \/ Upload(c)
  <2>1. pc[c] = "work" /\ pc'[c] = "send"
    BY <1>2 DEF Inform, Acknowledge, ReadF, Upload, Answer
  <2>2. response'[c] # "undefined"
    BY <1>2 DEF Inform, Acknowledge, ReadF, Upload, Answer
  <2> QED BY <1>1, <2>1, <2>2, ConnWork DEF InHand
<1>3. CASE Lock(c) \/ FOpen(c) \/ Rewrite(c) \/ FClose(c) \/ Unlock(c)
  <2>1. pc[c] \in InWriteT \cup {"lock"} /\ pc'[c] \in InWriteT \cup {"send", "crashed"}
    BY <1>3 DEF Lock, FOpen, Crash, Prepare, Rewrite, FClose, Unlock, InWriteT
  <2>2. cmd[c].op = "writeT"
    BY <2>1 DEF WriterInv
  <2>3. response[c] # "undefined"
    BY <2>1, <2>2 DEF Conn, ResponseInv, InWriteT
  <2>4. response'[c] # "undefined"
    BY <1>3, <2>3 DEF Lock, FOpen, Crash, Rewrite, FClose, Unlock
  <2> QED BY <1>1, <2>1, <2>4, ConnWork DEF InHand
<1> QED BY <1>2, <1>3

(* What is left of a stream when its first messages were received.         *)
LEMMA Rest ==
    ASSUME NEW S, NEW s \in Seq(S), NEW n \in 1..Len(s),
           NEW t, t = SubSeq(s, n + 1, Len(s))
    PROVE  /\ t \in Seq(S) /\ Len(t) = Len(s) - n
           /\ \A k \in DOMAIN t : k \in Nat /\ k + n \in DOMAIN s /\ t[k] = s[k + n]
           /\ 1 \in DOMAIN s /\ \A k \in DOMAIN t : 1 < k + n
BY SubSeqProperties

(* What is under way only gets less, and the client does nothing.          *)
LEMMA BehindLess ==
    ASSUME NEW c \in Clients, TypeInv, TypeInv', BehindInv(c), Open(c)' \subseteq Open(c),
           pc[c] # "none", pc'[c] # "none", Len(inbox'[c]) <= Len(inbox[c]),
           user'[c] = user[c], typed'[c] = typed[c], shown'[c] = shown[c]
    PROVE  BehindInv(c)'
<1> DEFINE M == [id : Nat, cmd : Given]
<1>1. inbox[c] \in Seq(M) /\ inbox'[c] \in Seq(M) /\ typed[c] \in Int
  <2>1. inbox \in [Clients -> Seq(M)] /\ typed \in [Clients -> 0..MaxCommands]
    BY DEF TypeInv
  <2>2. inbox' \in [Clients -> Seq(M)]
    BY DEF TypeInv
  <2> HIDE DEF M
  <2> QED BY <2>1, <2>2, CommandsAssumption
<1> HIDE DEF M
<1>2. Len(inbox'[c]) \in Nat /\ Len(inbox[c]) \in Nat
  BY <1>1
<1> QED BY <1>1, <1>2 DEF BehindInv

LEMMA RecvConn ==
    ASSUME TypeInv, TypeInv', NEW c \in Clients, Conn(c), Recv(c)
    PROVE  Conn(c)'
<1> DEFINE M == [id : Nat, cmd : Given]
           s == inbox[c]
           t == inbox'[c]
<1>1. /\ pc[c] = "recv" /\ Working(c) = {}
      /\ UNCHANGED <<response, outbox, link, userVars>>
      /\ Sent(c)' = Sent(c)
  BY DEF Recv, Working, InHand, InWriteT, Sent
<1>2. s \in Seq(M)
  BY DEF TypeInv
<1>3. ASSUME NEW n \in 1..Len(s),
             inbox' = [inbox EXCEPT ![c] = SubSeq(@, n + 1, Len(@))],
             id' = [id EXCEPT ![c] = s[1].id],
             cmd' = [cmd EXCEPT ![c] = IF n = 1 THEN s[1].cmd ELSE Garbled(s[1].cmd)],
             Goto(c, IF cmd'[c].op = "writeT" THEN "lock" ELSE "work")
      PROVE  Conn(c)'
  <2>1. t = SubSeq(s, n + 1, Len(s)) /\ id'[c] = s[1].id
        /\ pc'[c] = (IF cmd'[c].op = "writeT" THEN "lock" ELSE "work")
        /\ cmd'[c] = (IF n = 1 THEN s[1].cmd ELSE Garbled(s[1].cmd))
    BY <1>3 DEF TypeInv, Goto
  <2> HIDE DEF M, s, t
  <2>2. /\ t \in Seq(M) /\ Len(t) = Len(s) - n /\ Len(s) \in Nat
        /\ \A k \in DOMAIN t : k \in Nat /\ k + n \in DOMAIN s /\ t[k] = s[k + n]
        /\ 1 \in DOMAIN s /\ \A k \in DOMAIN t : 1 < k + n
    BY <1>2, <2>1, Rest
  <2> USE DEF s, t
  <2>3. Waiting(c)' \subseteq Waiting(c) /\ Working(c)' = {s[1].id}
        /\ s[1].id \in Waiting(c)
    BY <2>1, <2>2 DEF Waiting, Working, InHand
  <2>4. Before(Working(c)', Waiting(c)') /\ Increasing(t)
    <3>1. Increasing(s)
      BY DEF Conn, OrderInv
    <3>2. \A k \in Waiting(c)' : s[1].id < k
      BY <2>2, <3>1 DEF Waiting, Increasing
    <3>3. ASSUME NEW j \in DOMAIN t, NEW k \in DOMAIN t, j < k
          PROVE  t[j].id < t[k].id
      <4>1. j + n < k + n
        BY <2>2, <3>3
      <4> QED BY <2>2, <3>1, <4>1 DEF Increasing
    <3> QED BY <2>3, <3>2, <3>3 DEF Before, Increasing
  <2>5. Open(c)' \subseteq Open(c)
    BY <1>1, <2>3 DEF Open
  <2>6. OrderInv(c)'
    <3>1. OrderInv(c)
      BY DEF Conn
    <3> QED BY <1>1, <2>3, <2>4, <2>5, <3>1 DEF OrderInv, Before, userVars, Increasing
  <2>7. BehindInv(c)'
    <3>1. Len(inbox'[c]) <= Len(inbox[c])
      BY <2>2
    <3>2. pc'[c] # "none" /\ pc[c] # "none"
      BY <1>1, <2>1
    <3>3. user'[c] = user[c] /\ typed'[c] = typed[c] /\ shown'[c] = shown[c]
      BY <1>1 DEF userVars
    <3> QED BY <2>5, <3>1, <3>2, <3>3, BehindLess DEF Conn
  <2>8. ResponseInv(c)'
    <3>1. s[1].cmd = Nothing => cmd'[c] = Nothing /\ pc'[c] = "work"
      BY <2>1 DEF Garbled, Nothing
    <3> QED BY <1>1, <2>2, <3>1 DEF Conn, ResponseInv
  <2> QED BY <2>6, <2>7, <2>8 DEF Conn
<1>4. ASSUME inbox[c] = << >>, Goto(c, "exited"), UNCHANGED <<inbox, taskVars>>
      PROVE  Conn(c)'
  <2>1. pc'[c] = "exited"
    BY <1>4 DEF TypeInv, Goto
  <2>2. Waiting(c)' = Waiting(c) /\ Working(c)' = {}
    BY <1>4, <2>1 DEF Waiting, Working, InHand, InWriteT
  <2>3. Open(c)' = Open(c)
    BY <1>1, <2>2 DEF Open
  <2>4. OrderInv(c)'
    BY <1>1, <1>4, <2>2, <2>3 DEF Conn, OrderInv, Before, userVars, Increasing
  <2>5. BehindInv(c)'
    BY <1>1, <1>4, <2>1, <2>3 DEF Conn, BehindInv, userVars
  <2>6. ResponseInv(c)'
    BY <1>1, <1>4 DEF Conn, ResponseInv
  <2> QED BY <2>4, <2>5, <2>6 DEF Conn
<1> QED BY <1>3, <1>4 DEF Recv

LEMMA SendConn ==
    ASSUME TypeInv, TypeInv', NEW c \in Clients, Conn(c), Send(c)
    PROVE  Conn(c)'
<1> DEFINE A == [id : Nat, text : Texts]
           m == [id |-> id[c], text |-> response[c]]
<1>1. /\ pc[c] = "send" /\ pc'[c] \in {"exited", "raise", "recv"}
      /\ UNCHANGED <<taskVars, response, inbox, userVars>>
      /\ response[c] # "undefined"
  BY DEF Send, AfterSend, Goto, TypeInv, Conn, ResponseInv
<1>2. outbox'[c] \in {outbox[c], Append(outbox[c], m)} /\ outbox[c] \in Seq(A) /\ m \in A
  <2>1. UNCHANGED outbox \/ outbox' = [outbox EXCEPT ![c] = Append(@, m)]
    BY DEF Send
  <2>2. outbox \in [Clients -> Seq(A)] /\ m \in A
    BY DEF TypeInv
  <2> HIDE DEF A, m
  <2> QED BY <2>1, <2>2
<1>3. Working(c) = {id[c]} /\ Working(c)' = {} /\ Waiting(c)' = Waiting(c)
  BY <1>1 DEF Working, Waiting, InHand, InWriteT
<1>4. /\ Sent(c)' \subseteq Sent(c) \cup Working(c)
      /\ Increasing(outbox[c])'
      /\ \A k \in DOMAIN outbox'[c] : outbox'[c][k].text # "undefined"
  <2>1. Increasing(outbox[c]) /\ \A k \in DOMAIN outbox[c] : outbox[c][k].id < id[c]
    BY <1>3 DEF Conn, OrderInv, Before, Sent
  <2>2. \A k \in DOMAIN outbox[c] : outbox[c][k].text # "undefined"
    BY DEF Conn, ResponseInv
  <2>3. CASE outbox'[c] = outbox[c]
    BY <2>1, <2>2, <2>3 DEF Sent, Increasing
  <2>4. CASE outbox'[c] = Append(outbox[c], m)
    <3> DEFINE o == outbox[c]
    <3> HIDE DEF A, m
    <3>1. /\ Len(o) \in Nat /\ DOMAIN o = 1..Len(o) /\ DOMAIN outbox'[c] = 1..(Len(o) + 1)
          /\ \A k \in DOMAIN o : outbox'[c][k] = o[k]
          /\ outbox'[c][Len(o) + 1] = m
      BY <1>2, <2>4, AppendProperties
    <3>2. m.id = id[c] /\ m.text = response[c]
      BY DEF m
    <3>3. \A k \in DOMAIN outbox'[c] : k \in DOMAIN o \/ k = Len(o) + 1
      BY <3>1
    <3>4. Sent(c)' \subseteq Sent(c) \cup {id[c]}
      BY <3>1, <3>2, <3>3 DEF Sent
    <3>5. \A k \in DOMAIN outbox'[c] : outbox'[c][k].text # "undefined"
      BY <1>1, <2>2, <3>1, <3>2, <3>3
    <3>6. ASSUME NEW j \in DOMAIN outbox'[c], NEW k \in DOMAIN outbox'[c], j < k
          PROVE  outbox'[c][j].id < outbox'[c][k].id
      <4>1. j \in DOMAIN o
        BY <3>1, <3>6
      <4> QED BY <2>1, <3>1, <3>2, <3>3, <3>6, <4>1 DEF Increasing
    <3> QED BY <1>3, <3>4, <3>5, <3>6 DEF Increasing
  <2> QED BY <1>2, <2>3, <2>4
<1>5. Open(c)' \subseteq Open(c)
  BY <1>3, <1>4 DEF Open
<1>6. OrderInv(c)'
  BY <1>1, <1>3, <1>4, <1>5 DEF Conn, OrderInv, Before, userVars, Increasing
<1>7. BehindInv(c)'
  <2>1. inbox[c] \in Seq([id : Nat, cmd : Given])
    BY DEF TypeInv
  <2>2. Len(inbox'[c]) <= Len(inbox[c])
    BY <1>1, <2>1
  <2> QED BY <1>1, <1>5, <2>2, BehindLess DEF Conn, userVars
<1>8. ResponseInv(c)'
  BY <1>1, <1>4 DEF ResponseInv
<1> QED BY <1>6, <1>7, <1>8 DEF Conn

LEMMA OpenType ==
    ASSUME TypeInv, NEW c \in Clients
    PROVE  typed[c] \in Nat /\ \A n \in Open(c) : n \in Nat
<1> DEFINE M == [id : Nat, cmd : Given]
           A == [id : Nat, text : Texts]
<1>1. /\ inbox[c] \in Seq(M) /\ outbox[c] \in Seq(A) /\ id[c] \in Nat
      /\ typed[c] \in 0..MaxCommands /\ MaxCommands \in Nat
  BY CommandsAssumption DEF TypeInv
<1> HIDE DEF M, A
<1>2. /\ \A k \in DOMAIN inbox[c] : inbox[c][k] \in M
      /\ \A k \in DOMAIN outbox[c] : outbox[c][k] \in A
  BY <1>1
<1>3. typed[c] \in Nat
  BY <1>1
<1> QED BY <1>1, <1>2, <1>3 DEF Open, Waiting, Working, Sent, M, A

LEMMA ConnectConn ==
    ASSUME TypeInv, NEW c \in Clients, Conn(c), Connect(c)
    PROVE  Conn(c)'
<1>1. /\ user[c] = "start" /\ typed[c] = 0 /\ shown[c] = {} /\ Open(c) = {}
      /\ pc[c] = "none" /\ link[c] = "none"
  BY DEF Connect, Conn, BehindInv
<1>2. UNCHANGED <<response, outbox, typed, shown, id>> /\ Sent(c)' = Sent(c)
  BY DEF Connect, Sent, taskVars
<1>3. CASE server = "up"
  <2>1. /\ inbox'[c] = <<Message(0, Nothing)>> /\ pc'[c] = "recv" /\ user'[c] = "prompt"
        /\ link'[c] = "open"
    BY <1>3 DEF Connect, Accept, Goto, Greeting, TypeInv
  <2>2. /\ Len(inbox'[c]) = 1 /\ DOMAIN inbox'[c] = 1..1 /\ inbox'[c] # << >>
        /\ inbox'[c][1].id = 0 /\ inbox'[c][1].cmd = Nothing
    BY <2>1 DEF Message
  <2>3. Waiting(c)' = {0} /\ Working(c)' = {}
    BY <2>1, <2>2 DEF Waiting, Working, InHand, InWriteT
  <2>4. Sent(c) = {}
    BY <1>1 DEF Open
  <2>5. Increasing(inbox[c])' /\ Increasing(outbox[c])'
    BY <1>2, <2>2 DEF Conn, OrderInv, Increasing
  <2>6. OrderInv(c)'
    BY <1>1, <1>2, <2>3, <2>4, <2>5 DEF OrderInv, Open, Before
  <2>7. BehindInv(c)'
    BY <1>1, <1>2, <2>1, <2>2 DEF BehindInv
  <2>8. ResponseInv(c)'
    BY <1>2, <2>1, <2>2 DEF Conn, ResponseInv
  <2> QED BY <2>6, <2>7, <2>8 DEF Conn
<1>4. CASE server # "up"
  <2>1. UNCHANGED <<inbox, link, pc, cmd>> /\ user'[c] = "exited"
    BY <1>4 DEF Connect, TypeInv, taskVars
  <2>2. Waiting(c)' = Waiting(c) /\ Working(c)' = Working(c) /\ Open(c)' = Open(c)
    BY <1>2, <2>1 DEF Waiting, Working, Open
  <2>3. OrderInv(c)' /\ ResponseInv(c)'
    BY <1>2, <2>1, <2>2 DEF Conn, OrderInv, Before, Increasing, ResponseInv
  <2>4. BehindInv(c)'
    BY <1>2, <2>1 DEF Conn, BehindInv
  <2> QED BY <2>3, <2>4 DEF Conn
<1> QED BY <1>3, <1>4

(* What is sent to a client that is at its prompt answers the last command *)
(* at the earliest.                                                        *)
LEMMA TypeConn ==
    ASSUME TypeInv, TypeInv', NEW c \in Clients, Conn(c), Type(c)
    PROVE  Conn(c)'
<1> DEFINE M == [id : Nat, cmd : Given]
           s == inbox[c]
           t == inbox'[c]
           m == typed[c] + 1
<1>1. /\ UNCHANGED <<pc, taskVars, response, outbox, link, shown>>
      /\ user[c] = "prompt" /\ user'[c] = "await" /\ typed'[c] = m
      /\ typed[c] \in Nat /\ pc[c] # "none"
  BY CommandsAssumption DEF Type, TypeInv, Conn, BehindInv
<1>2. PICK d \in Commands[c] :
          inbox' = IF d.op = "empty" THEN inbox
                   ELSE [inbox EXCEPT ![c] = Append(@, Message(m, d))]
  BY <1>1 DEF Type
<1>3. s \in Seq(M) /\ (t = s \/ t = Append(s, Message(m, d)))
  BY <1>2 DEF TypeInv
<1> HIDE DEF M
<1>4. /\ Len(s) \in Nat /\ Len(t) <= Len(s) + 1 /\ DOMAIN s = 1..Len(s)
      /\ DOMAIN t \subseteq DOMAIN s \cup {Len(s) + 1} /\ Len(t) \in Nat
      /\ \A k \in DOMAIN s : k \in DOMAIN t /\ t[k] = s[k]
      /\ Len(s) + 1 \in DOMAIN t => t[Len(s) + 1] = Message(m, d)
  <2>1. CASE t = s
    BY <1>3, <2>1
  <2>2. CASE t = Append(s, Message(m, d))
    BY <1>3, <2>2, AppendProperties
  <2> QED BY <1>3, <2>1, <2>2
<1>5. Waiting(c)' \subseteq Waiting(c) \cup {m} /\ Working(c)' = Working(c)
      /\ Sent(c)' = Sent(c)
  BY <1>1, <1>4 DEF Waiting, Working, Sent, Message, taskVars
<1>6. \A n \in Open(c) : n <= typed[c] /\ n >= typed[c] /\ n \in Int /\ n < m
  <2>1. \A n \in Open(c) : n \in Nat
    BY OpenType
  <2>2. shown[c] \subseteq {typed[c] - 1, typed[c]} /\ (shown[c] = {} => typed[c] = 0)
    BY <1>1 DEF Conn, BehindInv
  <2>3. \A n \in Open(c) : n <= typed[c]
    BY DEF Conn, OrderInv
  <2>4. Before(shown[c], Open(c))
    BY DEF Conn, OrderInv
  <2> QED BY <1>1, <2>1, <2>2, <2>3, <2>4 DEF Before
<1>7. Waiting(c) \cup Working(c) \cup Sent(c) = Open(c)
  BY DEF Open
<1>8. Increasing(t)
  <2>1. Increasing(s) /\ \A k \in DOMAIN s : s[k].id < m
    BY <1>6, <1>7 DEF Conn, OrderInv, Waiting
  <2> SUFFICES ASSUME NEW j \in DOMAIN t, NEW k \in DOMAIN t, j < k
               PROVE  t[j].id < t[k].id
    BY DEF Increasing
  <2>2. j \in DOMAIN s
    BY <1>4
  <2>3. k \in DOMAIN s \/ t[k].id = m
    BY <1>4 DEF Message
  <2> QED BY <1>4, <2>1, <2>2, <2>3 DEF Increasing
<1> HIDE DEF s, t, m
<1>9. \A n \in shown[c] : n < m /\ n <= m
  <2>1. \A n \in shown[c] : n \in Nat /\ n <= typed[c]
    BY DEF TypeInv, Conn, OrderInv
  <2> QED BY <1>1, <2>1 DEF m
<1>10. OrderInv(c)'
  <2>1. Increasing(inbox[c])' /\ Increasing(outbox[c])'
    BY <1>1, <1>8 DEF Conn, OrderInv, Increasing, t
  <2>2. Open(c)' \subseteq Open(c) \cup {m}
    BY <1>5 DEF Open
  <2>3. Before(Working(c)', Waiting(c)')
    BY <1>5, <1>6, <1>7 DEF Conn, OrderInv, Before
  <2>4. Before(Sent(c)', Working(c)' \cup Waiting(c)')
    BY <1>5, <1>6, <1>7 DEF Conn, OrderInv, Before
  <2>5. Before(shown[c]', Open(c)')
    BY <1>1, <1>9, <2>2 DEF Conn, OrderInv, Before
  <2>6. \A n \in Open(c)' \cup shown[c]' : n <= typed[c]'
    BY <1>1, <1>6, <1>9, <2>2 DEF m
  <2> QED BY <2>1, <2>3, <2>4, <2>5, <2>6 DEF OrderInv
<1>11. BehindInv(c)'
  <2>1. \A n \in Open(c)' : n >= m - 1
    BY <1>1, <1>5, <1>6 DEF Open, m
  <2>2. Len(t) <= m + 1
    BY <1>1, <1>4 DEF Conn, BehindInv, m, s
  <2> QED BY <1>1, <2>1, <2>2 DEF BehindInv, t
<1>12. ResponseInv(c)'
  <2>1. response[c] = "undefined" =>
          \/ pc[c] = "recv" /\ s # << >> /\ s[1].cmd = Nothing
          \/ pc[c] = "work" /\ cmd[c] = Nothing
    BY <1>1 DEF Conn, ResponseInv, s
  <2>2. s # << >> => t # << >> /\ t[1] = s[1]
    BY <1>3, <1>4
  <2> QED BY <1>1, <2>1, <2>2 DEF Conn, ResponseInv, t, taskVars
<1> QED BY <1>10, <1>11, <1>12 DEF Conn

LEMMA ReceiveConn ==
    ASSUME TypeInv, TypeInv', NEW c \in Clients, Conn(c), Receive(c)
    PROVE  Conn(c)' /\ (user'[c] = "exited" \/ user'[c] = "prompt")
<1> DEFINE A == [id : Nat, text : Texts]
           s == outbox[c]
           t == outbox'[c]
<1>1. /\ UNCHANGED <<pc, taskVars, response, inbox, typed>>
      /\ user[c] = "await" /\ user'[c] \in {"prompt", "exited"} /\ pc[c] # "none"
  BY DEF Receive, CloseSocket, TypeInv, Conn, BehindInv
<1>2. Waiting(c)' = Waiting(c) /\ Working(c)' = Working(c)
  BY <1>1 DEF Waiting, Working, taskVars
<1>3. s \in Seq(A)
  BY DEF TypeInv
<1>4. ASSUME NEW n \in 1..Len(s),
             outbox' = [outbox EXCEPT ![c] = SubSeq(@, n + 1, Len(@))],
             shown' = [shown EXCEPT ![c] = {s[k].id : k \in 1..n}]
      PROVE  Conn(c)'
  <2>1. t = SubSeq(s, n + 1, Len(s)) /\ shown'[c] = {s[k].id : k \in 1..n}
    BY <1>4 DEF TypeInv
  <2> HIDE DEF A, s, t
  <2>2. /\ t \in Seq(A) /\ Len(t) = Len(s) - n /\ Len(s) \in Nat
        /\ \A k \in DOMAIN t : k \in Nat /\ k + n \in DOMAIN s /\ t[k] = s[k + n]
        /\ 1 \in DOMAIN s /\ \A k \in DOMAIN t : 1 < k + n
    BY <1>3, <2>1, Rest
  <2>3. DOMAIN s = 1..Len(s) /\ DOMAIN t = 1..Len(t)
    BY <1>3, <2>2
  <2>4. Sent(c)' \subseteq Sent(c) /\ shown'[c] \subseteq Sent(c) /\ s[1].id \in shown'[c]
    <3>1. \A k \in 1..n : k \in DOMAIN s
      BY <2>3
    <3>2. n \in 1..Len(s)
      BY <1>4 DEF s
    <3>3. 1 \in 1..n
      BY <2>2, <3>2
    <3>4. Sent(c) = {s[k].id : k \in DOMAIN s} /\ Sent(c)' = {t[k].id : k \in DOMAIN t}
      BY DEF Sent, s, t
    <3> QED BY <2>1, <2>2, <3>1, <3>3, <3>4
  <2>5. Increasing(s)
    BY DEF Conn, OrderInv, s
  <2>6. Increasing(t)
    <3> SUFFICES ASSUME NEW j \in DOMAIN t, NEW k \in DOMAIN t, j < k
                 PROVE  t[j].id < t[k].id
      BY DEF Increasing
    <3>1. j + n < k + n
      BY <2>2
    <3> QED BY <2>2, <2>5, <3>1 DEF Increasing
  <2>7. Before(shown'[c], Sent(c)')
    <3> SUFFICES ASSUME NEW j \in 1..n, NEW k \in DOMAIN t
                 PROVE  s[j].id < t[k].id
      BY <2>1 DEF Before, Sent, t
    <3>1. j \in DOMAIN s /\ j < k + n
      BY <2>3
    <3> QED BY <2>2, <2>5, <3>1 DEF Increasing
  <2>8. OrderInv(c)'
    <3>1. Open(c)' \subseteq Open(c) /\ Sent(c) \subseteq Open(c)
      BY <1>2, <2>4 DEF Open
    <3>2. OrderInv(c) /\ Before(shown'[c], Working(c) \cup Waiting(c))
      BY <2>4 DEF Conn, OrderInv, Before
    <3>3. Before(shown'[c], Open(c)')
      BY <1>2, <2>7, <3>2 DEF Before, Open
    <3>4. Before(Sent(c)', Working(c)' \cup Waiting(c)') /\ Before(Working(c)', Waiting(c)')
      BY <1>2, <2>4, <3>2 DEF OrderInv, Before
    <3>5. \A n1 \in Open(c)' \cup shown'[c] : n1 <= typed'[c]
      BY <1>1, <2>4, <3>1, <3>2 DEF OrderInv
    <3>6. Increasing(inbox[c])' /\ Increasing(outbox[c])'
      BY <1>1, <2>6, <3>2 DEF OrderInv, t
    <3> QED BY <3>3, <3>4, <3>5, <3>6 DEF OrderInv
  <2>9. BehindInv(c)'
    <3>1. shown'[c] \subseteq {typed[c] - 1, typed[c]} /\ shown'[c] # {}
      <4>1. \A k \in Sent(c) : k >= typed[c] - 1 /\ k <= typed[c]
        BY <1>1 DEF Conn, BehindInv, OrderInv, Open
      <4>2. \A k \in shown'[c] : k \in Nat
        BY DEF TypeInv
      <4>3. typed[c] \in Nat
        BY CommandsAssumption DEF TypeInv
      <4> QED BY <2>4, <4>1, <4>2, <4>3
    <3> QED BY <1>1, <3>1 DEF Conn, BehindInv
  <2>10. ResponseInv(c)'
    <3>1. \A k \in DOMAIN t : t[k].text # "undefined"
      BY <2>2 DEF Conn, ResponseInv, s
    <3> QED BY <1>1, <3>1 DEF Conn, ResponseInv, t, taskVars
  <2> QED BY <2>8, <2>9, <2>10 DEF Conn
<1>5. ASSUME UNCHANGED <<outbox, shown>>, CloseSocket(c)
      PROVE  Conn(c)'
  <2>1. Sent(c)' = Sent(c) /\ user'[c] = "exited"
    BY <1>5 DEF Sent, CloseSocket, TypeInv
  <2>2. Open(c)' = Open(c)
    BY <1>2, <2>1 DEF Open
  <2>3. OrderInv(c)' /\ ResponseInv(c)'
    BY <1>1, <1>2, <1>5, <2>1, <2>2
    DEF Conn, OrderInv, Before, Increasing, ResponseInv, taskVars
  <2>4. BehindInv(c)'
    BY <1>1, <2>1 DEF Conn, BehindInv
  <2> QED BY <2>3, <2>4 DEF Conn
<1> QED BY <1>1, <1>4, <1>5 DEF Receive

LEMMA CtrlCConn ==
    ASSUME TypeInv, NEW c \in Clients, Conn(c), CtrlC(c)
    PROVE  Conn(c)'
<1>1. /\ UNCHANGED <<pc, taskVars, response, inbox, outbox, typed, asked, shown>>
      /\ user'[c] = "exited" /\ pc[c] # "none"
  BY DEF CtrlC, CloseSocket, TypeInv, Conn, BehindInv
<1>2. Waiting(c)' = Waiting(c) /\ Working(c)' = Working(c) /\ Sent(c)' = Sent(c)
  BY <1>1 DEF Waiting, Working, Sent, taskVars
<1>3. Open(c)' = Open(c)
  BY <1>2 DEF Open
<1>4. OrderInv(c)' /\ ResponseInv(c)'
  BY <1>1, <1>2, <1>3 DEF Conn, OrderInv, Before, Increasing, ResponseInv, taskVars
<1>5. BehindInv(c)'
  BY <1>1 DEF Conn, BehindInv
<1> QED BY <1>4, <1>5 DEF Conn

LEMMA TypeStep ==
    ASSUME TypeInv, \A e \in Clients : WriterInv(e), NEW c \in Clients,
           ThreadStep(c) \/ ClientStep(c)
    PROVE  TypeInv'
BY RecvType, WorkType, WriteType, SendType, ClientType DEF ThreadStep

LEMMA ConnStep ==
    ASSUME TypeInv, TypeInv', NEW c \in Clients, ThreadStep(c) \/ ClientStep(c),
           \A e \in Clients : WriterInv(e) /\ Conn(e), NEW d \in Clients
    PROVE  Conn(d)'
<1>1. CASE d # c
  BY <1>1, OthersStill, ConnStill
<1>2. CASE d = c
  <2>1. CASE Raise(c)
    <3>1. Still(c)
      BY <2>1 DEF Raise, SignalHandler, Still, taskVars, userVars
    <3> QED BY <1>2, <3>1, ConnStill
  <2> QED
    BY <1>2, <2>1, RecvConn, WorkConn, SendConn, ConnectConn, TypeConn, ReceiveConn,
       CtrlCConn DEF ThreadStep, ClientStep
<1> QED BY <1>1, <1>2
-----------------------------------------------------------------------------
(* A client whose user does not press Ctrl-C misses one answer at most.    *)
LEMMA LeaveStep ==
    ASSUME TypeInv, TypeInv', NEW c \in Clients, ThreadStep(c) \/ ClientStep(c),
           c \notin Impatient, server = "up", Conn(c), Conn(c)', LeaveInv(c)
    PROVE  LeaveInv(c)'
<1> USE DEF Goto, fileVars, taskVars, userVars
<1>1. CASE Recv(c)
  <2>1. /\ pc[c] = "recv" /\ UNCHANGED <<link, user, typed>>
        /\ Waiting(c)' \cup Working(c)' \subseteq Waiting(c)
    <3>1. pc[c] = "recv" /\ UNCHANGED <<link, user, typed>>
      BY <1>1 DEF Recv
    <3>2. CASE inbox' = inbox /\ Goto(c, "exited")
      BY <3>1, <3>2 DEF Waiting, Working, InHand, InWriteT, TypeInv
    <3>3. ASSUME NEW n \in 1..Len(inbox[c]),
                 inbox' = [inbox EXCEPT ![c] = SubSeq(@, n + 1, Len(@))],
                 id' = [id EXCEPT ![c] = inbox[c][1].id]
          PROVE  Waiting(c)' \cup Working(c)' \subseteq Waiting(c)
      <4> DEFINE M == [id : Nat, cmd : Given]
                 s == inbox[c]
                 t == inbox'[c]
      <4>1. s \in Seq(M) /\ t = SubSeq(s, n + 1, Len(s)) /\ id'[c] = s[1].id
        BY <3>3 DEF TypeInv
      <4> HIDE DEF M, s, t
      <4>2. /\ 1 \in DOMAIN s
            /\ \A k \in DOMAIN t : k + n \in DOMAIN s /\ t[k] = s[k + n]
        <5>1. n \in 1..Len(s)
          BY DEF s
        <5>2. /\ 1 \in DOMAIN s
              /\ \A k \in DOMAIN t : k \in Nat /\ k + n \in DOMAIN s /\ t[k] = s[k + n]
          BY <4>1, <5>1, Rest
        <5> QED BY <5>2
      <4> QED BY <4>1, <4>2 DEF Waiting, Working, s, t
    <3> QED BY <1>1, <3>1, <3>2, <3>3 DEF Recv
  <2> QED BY <2>1 DEF LeaveInv
<1>2. CASE \/ Inform(c) \/ Acknowledge(c) \/ ReadF(c) \/ Upload(c)
           \/ Lock(c) \/ FOpen(c) \/ Rewrite(c) \/ FClose(c) \/ Unlock(c)
  <2>1. /\ UNCHANGED <<inbox, id, link, user, typed>> /\ pc[c] \in InHand
    BY <1>2 DEF Inform, Acknowledge, ReadF, Upload, Lock, FOpen, Rewrite, FClose, Unlock,
                InHand, InWriteT
  <2>2. Waiting(c)' = Waiting(c) /\ Working(c)' \subseteq Working(c)
    BY <2>1 DEF Waiting, Working
  <2>3. pc[c] \notin {"none", "exited", "raise"}
    BY <2>1 DEF InHand, InWriteT
  <2> QED BY <2>1, <2>2, <2>3 DEF LeaveInv
<1>3. CASE Send(c)
  <2>1. /\ UNCHANGED <<inbox, id, user, typed>> /\ pc[c] = "send"
        /\ pc'[c] \in {"exited", "raise", "recv"} /\ link'[c] \in {link[c], "broken"}
        /\ link[c] = "open" => link'[c] = "open"
        /\ link'[c] = "closed" => link[c] = "closed" /\ FALSE
    BY <1>3 DEF Send, AfterSend, TypeInv
  <2>2. Waiting(c)' = Waiting(c) /\ Working(c) = {id[c]} /\ Working(c)' = {}
    BY <2>1 DEF Waiting, Working, InHand, InWriteT
  <2>3. link[c] # "none"
    BY <2>1 DEF LeaveInv
  <2>4. CASE link[c] \in {"closed", "broken"}
    <3>1. link[c] = "closed" /\ Waiting(c) \cup {id[c]} \subseteq {typed[c]}
      BY <2>1, <2>2, <2>4 DEF LeaveInv
    <3>2. \A n \in Waiting(c) : id[c] < n
      BY <2>2 DEF Conn, OrderInv, Before
    <3>3. Waiting(c) = {}
      BY <3>1, <3>2, OpenType
    <3> QED BY <2>1, <2>2, <2>4, <3>3 DEF LeaveInv
  <2> QED BY <2>1, <2>3, <2>4 DEF LeaveInv, TypeInv
<1>4. CASE Raise(c)
  BY <1>4 DEF Raise, LeaveInv, Waiting, Working
<1>5. CASE Connect(c)
  <2>1. link'[c] = "open"
    BY <1>5 DEF Connect, Accept, TypeInv
  <2> QED BY <2>1 DEF LeaveInv
<1>6. CASE Type(c)
  BY <1>6 DEF Type, LeaveInv
<1>7. CASE Receive(c)
  <2>1. CASE link'[c] = link[c] /\ link[c] # "open"
    BY <1>7, <2>1 DEF Receive, LeaveInv
  <2>2. CASE link'[c] = "open"
    BY <2>2 DEF LeaveInv
  <2>3. CASE link[c] = "open" /\ link'[c] # "open"
    <3>1. link'[c] = "closed" /\ user'[c] = "exited" /\ user[c] = "await"
          /\ UNCHANGED <<inbox, pc, id, typed>>
      BY <1>7, <2>3 DEF Receive, CloseSocket, TypeInv
    <3>2. Waiting(c)' = Waiting(c) /\ Working(c)' = Working(c)
      BY <3>1 DEF Waiting, Working
    <3>3. CASE pc[c] = "exited"
      BY <3>1, <3>3 DEF LeaveInv
    <3>4. CASE pc[c] # "exited"
      <4>1. Sent(c) # {}
        <5>1. PICK n \in 1..Len(outbox[c]) : TRUE
          BY <1>7, <3>4 DEF Receive, ServerClosed
        <5>2. n \in DOMAIN outbox[c]
          <6> DEFINE A == [id : Nat, text : Texts]
          <6>1. outbox[c] \in Seq(A)
            BY DEF TypeInv
          <6> HIDE DEF A
          <6> QED BY <5>1, <6>1
        <5>3. outbox[c][n].id \in Sent(c)
          BY <5>2 DEF Sent
        <5> QED BY <5>3
      <4>2. PICK m \in Sent(c) : TRUE
        BY <4>1
      <4>3. m >= typed[c] - 1
        BY <3>1, <4>2 DEF Conn, BehindInv, Open
      <4>4. \A n \in Waiting(c) \cup Working(c) : m < n /\ n <= typed[c]
        BY <4>2 DEF Conn, OrderInv, Before, Open
      <4>5. Waiting(c) \cup Working(c) \subseteq {typed[c]}
        <5>1. \A n \in Waiting(c) \cup Working(c) \cup Sent(c) : n \in Nat
          BY OpenType DEF Open
        <5>2. typed[c] \in Nat /\ m \in Nat
          BY <4>2, <5>1, OpenType
        <5> QED BY <4>3, <4>4, <5>1, <5>2
      <4> QED BY <3>1, <3>2, <4>5 DEF LeaveInv
    <3> QED BY <3>3, <3>4
  <2> QED BY <1>7, <2>1, <2>2, <2>3 DEF Receive, CloseSocket, TypeInv
<1>8. CASE CtrlC(c)
  BY <1>8 DEF CtrlC
<1> QED
  BY <1>1, <1>2, <1>3, <1>4, <1>5, <1>6, <1>7, <1>8 DEF ThreadStep, ClientStep

LEMMA LeaveStill ==
    ASSUME NEW d \in Clients, LeaveInv(d), Still(d)
    PROVE  LeaveInv(d)'
<1>1. Waiting(d)' = Waiting(d) /\ Working(d)' = Working(d)
  BY DEF Waiting, Working, Still
<1> QED BY <1>1 DEF LeaveInv, Still

(* The server is ended by killServer, or by an answer to a link that is    *)
(* broken already, which only Ctrl-C makes possible.                       *)
EndInv == /\ server = "up" => \A c \in Clients \ Impatient : LeaveInv(c)
          /\ EndsOnRequest

LEMMA EndStep ==
    ASSUME TypeInv, TypeInv', NEW c \in Clients, ThreadStep(c) \/ ClientStep(c),
           \A d \in Clients : Conn(d) /\ Conn(d)' /\ WriterInv(d), EndInv
    PROVE  EndInv'
<1>1. CASE server = "up"
  <2>1. \A d \in Clients \ Impatient : LeaveInv(d)
    BY <1>1 DEF EndInv
  <2>2. ASSUME NEW d \in Clients \ Impatient PROVE LeaveInv(d)'
    <3>1. CASE d = c
      BY <1>1, <2>1, <3>1, LeaveStep
    <3>2. CASE d # c
      BY <2>1, <3>2, OthersStill, LeaveStill
    <3> QED BY <3>1, <3>2
  <2>3. CASE Send(c) /\ server' = "down"
    <3>1. link[c] = "broken" /\ link'[c] = "broken" /\ pc[c] = "send"
      BY <1>1, <2>3 DEF Send, TypeInv
    <3>2. Working(c) = {id[c]}
      BY <3>1 DEF Working, InHand
    <3>3. c \in Impatient
      BY <2>1, <3>1, <3>2 DEF LeaveInv
    <3> QED BY <2>3, <3>1, <3>3 DEF EndInv, EndsOnRequest
  <2>4. CASE Raise(c)
    <3>1. pc'[c] = "raise"
      BY <2>4 DEF Raise
    <3> QED BY <2>2, <3>1 DEF EndInv, EndsOnRequest
  <2>5. CASE server' = "up"
    BY <2>2, <2>5 DEF EndInv, EndsOnRequest
  <2>6. CASE (FOpen(c) \/ Rewrite(c)) /\ Crash(c)
    <3>1. /\ pc'[c] = "crashed" /\ UNCHANGED <<mutex, cmd>>
          /\ pc[c] \in InWriteT /\ server' = "down"
      BY <2>6 DEF FOpen, Rewrite, Crash, Goto, TypeInv, InWriteT, taskVars
    <3>2. cmd[c].op = "writeT" /\ mutex = c
      BY <3>1 DEF WriterInv
    <3> QED BY <3>1, <3>2 DEF EndInv, EndsOnRequest
  <2>7. server' = server \/ Send(c) \/ Raise(c) \/ ((FOpen(c) \/ Rewrite(c)) /\ Crash(c))
    BY DEF ThreadStep, ClientStep, Recv, Inform, Acknowledge, ReadF, Upload, Lock, FOpen,
           Rewrite, FClose, Unlock, Connect, Type, Receive, CtrlC
  <2>8. Send(c) => server' \in {server, "down"}
    BY DEF Send, Exit
  <2> QED BY <1>1, <2>3, <2>4, <2>5, <2>6, <2>7, <2>8
<1>2. CASE server = "down"
  <2>1. PICK d \in Clients : \/ pc[d] = "raise"
                             \/ pc[d] = "crashed" /\ cmd[d].op = "writeT" /\ mutex = d
                             \/ d \in Impatient /\ link[d] = "broken"
    BY <1>2 DEF EndInv, EndsOnRequest
  <2>2. ClientStep(c)
    BY <1>2 DEF ThreadStep
  <2>3. /\ pc' = pc /\ UNCHANGED <<server, cmd, mutex>>
        /\ link' = link \/ CloseSocket(c)
    BY <1>2, <2>2 DEF ClientStep, Connect, Type, Receive, CtrlC, taskVars
  <2>4. link[d] = "broken" => link'[d] = "broken"
    BY <2>3 DEF CloseSocket, TypeInv
  <2> QED BY <1>2, <2>1, <2>3, <2>4 DEF EndInv, EndsOnRequest
<1>3. CASE server = "interrupted"
  <2>1. UNCHANGED server
    BY <1>3 DEF ThreadStep, ClientStep, Connect, Type, Receive, CtrlC
  <2> QED BY <1>3, <2>1 DEF EndInv, EndsOnRequest
<1> QED BY <1>1, <1>2, <1>3 DEF TypeInv
-----------------------------------------------------------------------------
IInv == TypeInv /\ EndInv /\ \A c \in Clients : WriterInv(c) /\ Conn(c)

LEMMA InitInvariant == Init => IInv
<1> SUFFICES ASSUME Init PROVE IInv
  OBVIOUS
<1>1. TypeInv
  BY InitTypeInv
<1>2. ASSUME NEW c \in Clients
      PROVE  WriterInv(c) /\ Conn(c) /\ LeaveInv(c)
  <2>1. /\ pc[c] = "none" /\ inbox[c] = << >> /\ outbox[c] = << >> /\ link[c] = "none"
        /\ user[c] = "start" /\ typed[c] = 0 /\ shown[c] = {} /\ mutex # c
    BY ClientsAssumption DEF Init
  <2>2. Waiting(c) = {} /\ Working(c) = {} /\ Sent(c) = {} /\ Open(c) = {}
    BY <2>1 DEF Waiting, Working, Sent, Open, InHand, InWriteT
  <2>3. WriterInv(c)
    BY <2>1 DEF WriterInv, InWriteT
  <2>4. ResponseInv(c)
    BY <2>1 DEF ResponseInv
  <2>5. OrderInv(c)
    BY <2>1, <2>2 DEF OrderInv, Before, Increasing
  <2>6. BehindInv(c)
    BY <2>1, <2>2 DEF BehindInv
  <2>7. LeaveInv(c)
    BY <2>1 DEF LeaveInv
  <2> QED BY <2>3, <2>4, <2>5, <2>6, <2>7 DEF Conn
<1>3. EndInv
  BY <1>2 DEF EndInv, EndsOnRequest, Init
<1> QED BY <1>1, <1>2, <1>3 DEF IInv

LEMMA StillInvariant == IInv /\ UNCHANGED vars => IInv'
<1> SUFFICES ASSUME IInv, UNCHANGED vars PROVE IInv'
  OBVIOUS
<1>1. TypeInv'
  BY DEF IInv, TypeInv, vars, fileVars, taskVars, userVars
<1>2. ASSUME NEW c \in Clients
      PROVE  Still(c) /\ WriterInv(c)' /\ Conn(c)' /\ (LeaveInv(c) => LeaveInv(c)')
  <2>1. Still(c)
    BY DEF Still, vars, fileVars, taskVars, userVars
  <2>2. WriterInv(c)'
    BY DEF IInv, WriterInv, vars, fileVars, taskVars
  <2> QED BY <2>1, <2>2, ConnStill, LeaveStill DEF IInv
<1>3. EndInv'
  BY <1>2 DEF IInv, EndInv, EndsOnRequest, vars, taskVars
<1> QED BY <1>1, <1>2, <1>3 DEF IInv

LEMMA InterruptInvariant == IInv /\ Interrupt => IInv'
<1> SUFFICES ASSUME IInv, Interrupt PROVE IInv'
  OBVIOUS
<1>1. TypeInv /\ \A c \in Clients : WriterInv(c) /\ Conn(c)
  BY DEF IInv
<1>2. TypeInv'
  BY <1>1, InterruptType
<1>3. UNCHANGED <<pc, taskVars, response, inbox, outbox, link, userVars, pending, mutex>>
  BY DEF Interrupt, SignalHandler
<1>4. \A f \in Names : contents[f] # Absent => contents'[f] # Absent
  BY <1>1, SignalKeeps DEF Interrupt
<1>5. ASSUME NEW c \in Clients
      PROVE  WriterInv(c)' /\ Conn(c)'
  <2>1. Still(c)
    BY <1>3 DEF Still, taskVars, userVars
  <2>2. cmd[c].name \in Names
    BY <1>1, ParsedType DEF TypeInv
  <2>3. WriterInv(c)'
    BY <1>1, <1>3, <1>4, <2>2 DEF WriterInv, taskVars
  <2> QED BY <1>1, <2>1, <2>3, ConnStill
<1>6. EndInv'
  BY DEF EndInv, EndsOnRequest, Interrupt
<1> QED BY <1>2, <1>5, <1>6 DEF IInv

LEMMA StepInvariant == IInv /\ [Next]_vars => IInv'
<1> SUFFICES ASSUME IInv, Next, ~UNCHANGED vars, ~Interrupt PROVE IInv'
  BY StillInvariant, InterruptInvariant
<1>1. PICK c \in Clients : ThreadStep(c) \/ ClientStep(c)
  BY DEF Next, AtRest
<1>2. TypeInv /\ EndInv /\ \A d \in Clients : WriterInv(d) /\ Conn(d)
  BY DEF IInv
<1>3. TypeInv'
  BY <1>1, <1>2, TypeStep
<1>4. \A d \in Clients : WriterInv(d)'
  BY <1>1, <1>2, WriterStep
<1>5. \A d \in Clients : Conn(d)'
  BY <1>1, <1>2, <1>3, ConnStep
<1>6. EndInv'
  BY <1>1, <1>2, <1>3, <1>5, EndStep
<1> QED BY <1>3, <1>4, <1>5, <1>6 DEF IInv

THEOREM Invariance == Spec => []IInv
BY InitInvariant, StepInvariant, PTL DEF Spec

(* The types of the state, and the bound on what a connection holds.       *)
THEOREM TypeCorrect == Spec => []TypeOK
<1>1. IInv => TypeOK
  <2> SUFFICES ASSUME IInv PROVE TypeOK
    OBVIOUS
  <2>1. \A c \in Clients : Len(inbox[c]) <= MaxCommands + 1
    <3> SUFFICES ASSUME NEW c \in Clients PROVE Len(inbox[c]) <= MaxCommands + 1
      OBVIOUS
    <3> DEFINE M == [id : Nat, cmd : Given]
    <3>1. inbox[c] \in Seq(M) /\ typed[c] \in 0..MaxCommands /\ MaxCommands \in Nat
      BY CommandsAssumption DEF IInv, TypeInv
    <3>2. Len(inbox[c]) <= typed[c] + 1
      BY DEF IInv, Conn, BehindInv
    <3> HIDE DEF M
    <3>3. Len(inbox[c]) \in Nat
      BY <3>1
    <3> QED BY <3>1, <3>2, <3>3
  <2>2. \A f \in Names : contents[f] = Absent \/ contents[f] \in Seq(Pieces)
    BY DEF IInv, TypeInv
  <2>3. \A c \in Clients : pending[c].new \in Seq(Pieces) /\ pending[c].at \in Nat
    BY DEF IInv, TypeInv
  <2> QED BY <2>1, <2>2, <2>3 DEF IInv, TypeInv, TypeOK, Labels
<1> QED BY <1>1, Invariance, PTL

(* No two threads are inside writeT's critical section, whatever is sent.  *)
THEOREM Exclusion == Spec => []MutualExclusion
<1>1. IInv => MutualExclusion
  BY DEF IInv, WriterInv, MutualExclusion
<1> QED BY <1>1, Invariance, PTL

(* writeT sends what an earlier command left in the response buffer: there *)
(* is always an earlier command, the server_pid the client sends first.    *)
THEOREM NothingUndefined == Spec => []NothingUndefinedIsSent
<1>1. IInv => NothingUndefinedIsSent
  BY DEF IInv, Conn, ResponseInv, NothingUndefinedIsSent
<1> QED BY <1>1, Invariance, PTL

(* The answers come in the order of the commands, none of them twice.      *)
THEOREM Ordered == Spec => []AnswersInOrder
<1>1. IInv => AnswersInOrder
  BY DEF IInv, Conn, OrderInv, Increasing, Before, Open, Sent, AnswersInOrder
<1> QED BY <1>1, Invariance, PTL

(* A client is never further behind than by the greeting it sent first.    *)
THEOREM NeverFurtherBehind == Spec => []BehindByOne
<1>1. IInv => BehindByOne
  BY DEF IInv, Conn, BehindInv, BehindByOne
<1> QED BY <1>1, Invariance, PTL

(* Nothing but its operator, killServer, a writeT whose file cannot be     *)
(* opened and a user's Ctrl-C ends the server.                             *)
THEOREM NoSilentDeath == Spec => []EndsOnRequest
<1>1. IInv => EndsOnRequest
  BY DEF IInv, EndInv
<1> QED BY <1>1, Invariance, PTL
-----------------------------------------------------------------------------
(* The refinement.  A writeT takes place at the step that opens its file   *)
(* for writing, FOpen or Rewrite; from then on the file is what FClose     *)
(* will make of it.                                                        *)
StoreFiles == [f \in Names |-> Committed(f)]
IsWriter(c, f) == cmd[c].name = f /\ pc[c] = "fclose"
Outcome(c, f) == Stored(contents[f], pending[c].at, pending[c].new)

LEMMA StoredAtEnd ==
    ASSUME NEW s \in Seq(Pieces), NEW t \in Seq(Pieces)
    PROVE  /\ Stored(s, Len(s), t) = s \o t
           /\ Stored(<< >>, 0, t) = t
<1>1. Len(s) \in Nat /\ Len(t) \in Nat /\ Len(<< >>) = 0
  OBVIOUS
<1>2. Stored(s, Len(s), t) = s \o t
  <2>1. /\ s \o t \in Seq(Pieces) /\ Len(s \o t) = Len(s) + Len(t)
        /\ \A k \in 1..Len(s) + Len(t) :
              (s \o t)[k] = IF k <= Len(s) THEN s[k] ELSE t[k - Len(s)]
    BY ConcatProperties
  <2>2. Stored(s, Len(s), t) \in Seq(Pieces)
    BY <1>1, StoredType
  <2>3. Stored(s, Len(s), t) =
           [k \in 1..Len(s) + Len(t) |-> IF k > Len(s) THEN t[k - Len(s)] ELSE s[k]]
    BY <1>1 DEF Stored
  <2>4. Len(Stored(s, Len(s), t)) = Len(s) + Len(t)
    BY <1>1, <2>2, <2>3
  <2>5. \A k \in 1..Len(s) + Len(t) : Stored(s, Len(s), t)[k] = (s \o t)[k]
    BY <1>1, <2>1, <2>3
  <2> HIDE DEF Stored
  <2> QED BY <2>1, <2>2, <2>4, <2>5, SeqEqual
<1>3. Stored(<< >>, 0, t) = t
  <2>1. Stored(<< >>, 0, t) = [k \in 1..Len(t) |-> t[k]]
    BY <1>1 DEF Stored
  <2> QED BY <1>1, <2>1
<1> QED BY <1>2, <1>3

LEMMA CommittedIs ==
    ASSUME IInv, NEW f \in Names
    PROVE  /\ (\A c \in Clients : ~IsWriter(c, f)) => Committed(f) = contents[f]
           /\ \A c \in Clients : IsWriter(c, f) => Committed(f) = Outcome(c, f)
<1> DEFINE writers == {c \in Clients : cmd[c].name = f /\ pc[c] = "fclose"}
<1>1. (\A c \in Clients : ~IsWriter(c, f)) => Committed(f) = contents[f]
  BY DEF IsWriter, Committed
<1>2. ASSUME NEW c \in Clients, IsWriter(c, f)
      PROVE  Committed(f) = Outcome(c, f)
  <2>1. writers = {c}
    BY <1>2 DEF IsWriter, IInv, WriterInv, InWriteT
  <2>2. (CHOOSE d \in writers : TRUE) = c
    BY <2>1
  <2> QED BY <2>1, <2>2 DEF Committed, Outcome
<1> QED BY <1>1, <1>2

LEMMA CommittedWillBe ==
    ASSUME IInv', NEW f \in Names
    PROVE  /\ (\A c \in Clients : ~IsWriter(c, f)') => Committed(f)' = contents'[f]
           /\ \A c \in Clients : IsWriter(c, f)' => Committed(f)' = Outcome(c, f)'
<1> DEFINE writers == {c \in Clients : cmd'[c].name = f /\ pc'[c] = "fclose"}
<1>1. (\A c \in Clients : ~IsWriter(c, f)') => Committed(f)' = contents'[f]
  BY DEF IsWriter, Committed
<1>2. ASSUME NEW c \in Clients, IsWriter(c, f)'
      PROVE  Committed(f)' = Outcome(c, f)'
  <2>1. writers = {c}
    BY <1>2 DEF IsWriter, IInv, WriterInv, InWriteT
  <2>2. (CHOOSE d \in writers : TRUE) = c
    BY <2>1
  <2> QED BY <2>1, <2>2 DEF Committed, Outcome
<1> QED BY <1>1, <1>2

LEMMA StoreWriteResult ==
    ASSUME NEW s, NEW n, NEW t
    PROVE  Store!WriteResult(s, n, t) = WriteResult(s, n, t)
<1>1. Store!LineEnds(s) = LineEnds(s)
  BY DEF Store!LineEnds, LineEnds
<1>2. \A S : Store!Cardinality(S) = Cardinality(S)
  BY DEF Store!Cardinality, Cardinality
<1>3. Store!LineCount(s) = LineCount(s)
  BY <1>1, <1>2 DEF Store!LineCount, LineCount
<1>4. ASSUME NEW m
      PROVE  Store!EndOfLine(s, m) = EndOfLine(s, m)
  <2> DEFINE C(e) == Cardinality({d \in LineEnds(s) : d <= e}) = m
             D(e) == Store!Cardinality({d \in LineEnds(s) : d <= e}) = m
  <2>1. \A e : C(e) <=> D(e)
    BY <1>2
  <2> HIDE DEF C, D
  <2>2. (CHOOSE e \in LineEnds(s) : C(e)) = (CHOOSE e \in LineEnds(s) : D(e))
    BY <2>1, Zenon
  <2> USE DEF C, D
  <2>3. EndOfLine(s, m) = IF m = 0 THEN 0 ELSE CHOOSE e \in LineEnds(s) : C(e)
    BY Zenon DEF EndOfLine
  <2>4. Store!EndOfLine(s, m) = IF m = 0 THEN 0 ELSE CHOOSE e \in Store!LineEnds(s) :
                                   Store!Cardinality({d \in Store!LineEnds(s) : d <= e}) = m
    BY Zenon DEF Store!EndOfLine
  <2>5. Store!EndOfLine(s, m) = IF m = 0 THEN 0 ELSE CHOOSE e \in LineEnds(s) : D(e)
    BY <1>1, <2>4, Zenon
  <2> HIDE DEF C, D
  <2> QED BY <2>2, <2>3, <2>5
<1>5. Store!ReplaceLine(s, n, t) = ReplaceLine(s, n, t)
  <2>1. Store!EndOfLine(s, n - 1) = EndOfLine(s, n - 1)
        /\ Store!EndOfLine(s, n) = EndOfLine(s, n)
    BY <1>4
  <2> QED BY <2>1, Zenon DEF Store!ReplaceLine, ReplaceLine
<1> QED BY <1>3, <1>5 DEF Store!WriteResult, WriteResult

(* A step that leaves the files and the writers alone is a stutter.        *)
LEMMA QuietStutters ==
    ASSUME IInv, IInv', UNCHANGED contents,
           \A d \in Clients : pc[d] = "fclose" \/ pc'[d] = "fclose" =>
               pc'[d] = pc[d] /\ cmd'[d] = cmd[d] /\ pending'[d] = pending[d]
    PROVE  UNCHANGED StoreFiles
<1> SUFFICES ASSUME NEW f \in Names PROVE Committed(f)' = Committed(f)
  BY DEF StoreFiles
<1>1. \A d \in Clients : IsWriter(d, f)' <=> IsWriter(d, f)
  BY DEF IsWriter
<1>2. ASSUME NEW d \in Clients, IsWriter(d, f)
      PROVE  Outcome(d, f)' = Outcome(d, f)
  BY <1>2 DEF IsWriter, Outcome
<1> QED BY <1>1, <1>2, CommittedIs, CommittedWillBe

StoreWrites == LET writes == {d \in AllCommands : d.op = "writeT"}
               IN  writes \cup {Garbled(d) : d \in writes}

LEMMA ParsedWrites ==
    ASSUME NEW d \in Parsed, d.op = "writeT"
    PROVE  d \in StoreWrites
<1>1. \A e \in Given : e.op = "writeT" => e \in AllCommands
  BY DEF Given, Nothing
<1>2. \A e \in Given : Garbled(e).op = "writeT" => e.op = "writeT"
  <2> SUFFICES ASSUME NEW e \in Given, Garbled(e).op = "writeT" PROVE e.op = "writeT"
    OBVIOUS
  <2>1. e \in [op : Ops \cup {"pid"}, name : Names, line : Nat, text : Seq(Pieces)]
    BY ParsedType DEF Parsed
  <2> QED BY <2>1 DEF Garbled
<1> QED BY <1>1, <1>2 DEF Parsed, StoreWrites

(* A step of the thread in the critical section that opens its file for    *)
(* writing, with what writeT makes of it still to be stored, is the        *)
(* abstract Write.                                                         *)
LEMMA OpeningWrites ==
    ASSUME IInv, IInv', NEW c \in Clients, NEW w, w = cmd[c], NEW f, f = w.name,
           cmd' = cmd, pc[c] \in {"fopen", "rewrite"}, pc'[c] = "fclose",
           \A d \in Clients : d # c => pc'[d] = pc[d],
           \A g \in Names : g # f => contents'[g] = contents[g],
           NEW result,
           result = IF contents[f] = Absent THEN w.text
                    ELSE WriteResult(contents[f], w.line, w.text),
           Stored(contents'[f], pending'[c].at, pending'[c].new) = result
    PROVE  \E v \in StoreWrites : Store!Write(v)
<1>1. w \in StoreWrites /\ f \in Names
  <2>1. w \in Parsed /\ w.op = "writeT"
    BY DEF IInv, TypeInv, WriterInv, InWriteT
  <2> QED BY <2>1, ParsedWrites, ParsedType
<1>2. \A d \in Clients : pc[d] # "fclose" /\ (d # c => pc'[d] # "fclose")
  BY DEF IInv, WriterInv, InWriteT
<1>3. \A g \in Names : Committed(g) = contents[g]
  BY <1>2, CommittedIs DEF IsWriter
<1>4. \A g \in Names : g # f => Committed(g)' = Committed(g)
  <2> SUFFICES ASSUME NEW g \in Names, g # f PROVE Committed(g)' = Committed(g)
    OBVIOUS
  <2>1. \A d \in Clients : ~IsWriter(d, g)'
    BY <1>2 DEF IsWriter
  <2> QED BY <1>3, <2>1, CommittedWillBe
<1>5. Committed(f)' = result
  <2>1. IsWriter(c, f)'
    BY DEF IsWriter
  <2> QED BY <1>1, <2>1, CommittedWillBe DEF Outcome
<1>6. StoreFiles[f] = contents[f]
      /\ StoreFiles \in [Names -> {StoreFiles[g] : g \in Names}]
  BY <1>1, <1>3 DEF StoreFiles
<1>7. StoreFiles' = [StoreFiles EXCEPT ![f] = result]
  <2>1. StoreFiles = [g \in Names |-> Committed(g)]
        /\ StoreFiles' = [g \in Names |-> Committed(g)']
    BY DEF StoreFiles
  <2> QED BY <1>1, <1>4, <1>5, <2>1
<1>8. Store!WriteResult(contents[f], w.line, w.text) = WriteResult(contents[f], w.line, w.text)
  BY StoreWriteResult
<1>9. Store!Write(w)
  BY <1>6, <1>7, <1>8 DEF Store!Write, StoreFiles
<1> QED BY <1>1, <1>9

(* FOpen is the abstract Write, unless the file has to be opened again, is *)
(* too short, or cannot be opened.                                         *)
LEMMA FOpenWrites ==
    ASSUME IInv, IInv', NEW c \in Clients, FOpen(c)
    PROVE  (\E v \in StoreWrites : Store!Write(v)) \/ UNCHANGED StoreFiles
<1> DEFINE w == cmd[c]
           f == cmd[c].name
           s == contents[f]
           Result == IF s = Absent THEN w.text ELSE WriteResult(s, w.line, w.text)
<1>1. /\ f \in Names /\ w.line \in Nat /\ w.text \in Seq(Pieces)
      /\ s = Absent \/ s \in Seq(Pieces)
  <2>1. w \in Parsed /\ contents \in [Names -> {Absent} \cup Seq(Pieces)]
    BY DEF IInv, TypeInv
  <2> QED BY <2>1, ParsedType
<1>2. /\ pc[c] = "fopen" /\ cmd' = cmd
      /\ \A d \in Clients : pc[d] # "fclose"
      /\ \A d \in Clients : d # c => pc'[d] = pc[d]
      /\ \A g \in Names : g # f => contents'[g] = contents[g]
  <2>1. pc[c] = "fopen" /\ cmd' = cmd
    BY DEF FOpen, taskVars
  <2>2. \A d \in Clients : pc[d] # "fclose"
    BY <2>1 DEF IInv, WriterInv, InWriteT
  <2>3. \A d \in Clients : d # c => pc'[d] = pc[d]
    BY DEF FOpen, Crash, Prepare, Goto, IInv, TypeInv
  <2>4. \A g \in Names : g # f => contents'[g] = contents[g]
    BY DEF FOpen, Crash, IInv, TypeInv, fileVars
  <2> QED BY <2>1, <2>2, <2>3, <2>4
<1>3. ASSUME NEW at, NEW new, Prepare(c, at, new, "fclose"),
             Stored(contents'[f], at, new) = Result
      PROVE  \E v \in StoreWrites : Store!Write(v)
  <2>1. pc'[c] = "fclose" /\ pending'[c].at = at /\ pending'[c].new = new
    BY <1>3 DEF Prepare, Goto, IInv, TypeInv
  <2> HIDE DEF Result
  <2>2. Stored(contents'[f], pending'[c].at, pending'[c].new) = Result
    BY <1>3, <2>1
  <2> USE DEF Result
  <2> QED BY <1>2, <2>1, <2>2, OpeningWrites
<1>4. CASE s = Absent /\ contents' = [contents EXCEPT ![f] = << >>]
           /\ Prepare(c, 0, w.text, "fclose")
  <2>1. contents'[f] = << >>
    BY <1>1, <1>4 DEF IInv, TypeInv
  <2>2. Stored(<< >>, 0, w.text) = w.text
    BY <1>1, StoredAtEnd, EmptySeq
  <2> QED BY <1>3, <1>4, <2>1, <2>2
<1>5. CASE s # Absent /\ w.line = 0 /\ UNCHANGED contents
           /\ Prepare(c, AppendOffset(s), w.text, "fclose")
  <2>1. Stored(s, Len(s), w.text) = s \o w.text
    BY <1>1, <1>5, StoredAtEnd
  <2>2. Result = s \o w.text
    BY <1>5 DEF WriteResult
  <2> QED BY <1>3, <1>5, <2>1, <2>2 DEF AppendOffset
<1>6. CASE UNCHANGED contents /\ pc'[c] # "fclose"
  BY <1>2, <1>6, QuietStutters
<1>7. \/ s = Absent /\ contents' = [contents EXCEPT ![f] = << >>]
         /\ Prepare(c, 0, w.text, "fclose")
      \/ s # Absent /\ w.line = 0 /\ UNCHANGED contents
         /\ Prepare(c, AppendOffset(s), w.text, "fclose")
      \/ UNCHANGED contents /\ pc'[c] # "fclose"
  BY DEF FOpen, Crash, Prepare, Goto, Exists, fileVars, IInv, TypeInv
<1> QED BY <1>4, <1>5, <1>6, <1>7

(* The file a writeT is going to open again is as it was read: nobody else *)
(* writes to it meanwhile.                                                 *)
RewriteInv(c) ==
    pc[c] = "rewrite" =>
        LET s == contents[cmd[c].name]
        IN  /\ cmd[c].line > 0 /\ cmd[c].line <= LineCount(s)
            /\ pending[c].new = ReplaceLine(s, cmd[c].line, cmd[c].text)

(* Opening the file again is the abstract Write: the file is empty, and    *)
(* what will be stored in it is the new text.                              *)
LEMMA RewriteWrites ==
    ASSUME IInv, IInv', NEW c \in Clients, RewriteInv(c), Rewrite(c)
    PROVE  (\E v \in StoreWrites : Store!Write(v)) \/ UNCHANGED StoreFiles
<1> DEFINE w == cmd[c]
           f == cmd[c].name
           s == contents[f]
<1>1. /\ f \in Names /\ s # Absent /\ pending[c].at = 0 /\ pending[c].new \in Seq(Pieces)
      /\ w.line \in Nat /\ w.line > 0 /\ w.line <= LineCount(s)
      /\ pending[c].new = ReplaceLine(s, w.line, w.text)
  <2>1. cmd[c] \in Parsed /\ pending[c] \in [at : Nat, new : Seq(Pieces)]
    BY DEF IInv, TypeInv
  <2> QED BY <2>1, ParsedType DEF IInv, WriterInv, RewriteInv, Rewrite
<1>2. /\ pc[c] = "rewrite" /\ UNCHANGED <<pending, cmd>>
      /\ \A d \in Clients : pc[d] # "fclose"
      /\ \A d \in Clients : d # c => pc'[d] = pc[d]
      /\ \A g \in Names : g # f => contents'[g] = contents[g]
  <2>1. pc[c] = "rewrite" /\ UNCHANGED <<pending, cmd>>
    BY DEF Rewrite, Crash, fileVars, taskVars
  <2>2. \A d \in Clients : pc[d] # "fclose"
    BY <2>1 DEF IInv, WriterInv, InWriteT
  <2>3. \A d \in Clients : d # c => pc'[d] = pc[d]
    BY DEF Rewrite, Crash, Goto, IInv, TypeInv
  <2>4. \A g \in Names : g # f => contents'[g] = contents[g]
    BY DEF Rewrite, Crash, fileVars, IInv, TypeInv
  <2> QED BY <2>1, <2>2, <2>3, <2>4
<1>3. CASE contents' = [contents EXCEPT ![f] = << >>] /\ Goto(c, "fclose")
  <2>1. contents'[f] = << >> /\ pc'[c] = "fclose"
    BY <1>1, <1>3 DEF Goto, IInv, TypeInv
  <2>2. Stored(<< >>, 0, pending[c].new) = pending[c].new
    BY <1>1, StoredAtEnd, EmptySeq
  <2>3. ReplaceLine(s, w.line, w.text) =
           IF s = Absent THEN w.text ELSE WriteResult(s, w.line, w.text)
    BY <1>1 DEF WriteResult
  <2>4. Stored(contents'[f], pending'[c].at, pending'[c].new)
           = IF s = Absent THEN w.text ELSE WriteResult(s, w.line, w.text)
    BY <1>1, <1>2, <2>1, <2>2, <2>3
  <2> QED BY <1>2, <2>1, <2>4, OpeningWrites
<1>4. CASE Crash(c)
  <2>1. pc'[c] # "fclose" /\ UNCHANGED contents
    BY <1>4 DEF Crash, Goto, fileVars, IInv, TypeInv
  <2> QED BY <1>2, <2>1, QuietStutters
<1> QED BY <1>3, <1>4 DEF Rewrite

(* FClose makes true what the file counts as already.                      *)
LEMMA FCloseStutters ==
    ASSUME IInv, IInv', NEW c \in Clients, FClose(c)
    PROVE  UNCHANGED StoreFiles
<1> SUFFICES ASSUME NEW f, f = cmd[c].name PROVE UNCHANGED StoreFiles
  OBVIOUS
<1>1. /\ pc[c] = "fclose" /\ pc'[c] = "unlock" /\ UNCHANGED <<pending, mutex, cmd>>
      /\ \A d \in Clients : d # c => pc'[d] = pc[d] /\ pc[d] # "fclose"
  <2>1. /\ pc[c] = "fclose" /\ pc'[c] = "unlock" /\ UNCHANGED <<pending, mutex, cmd>>
        /\ \A d \in Clients : d # c => pc'[d] = pc[d]
    BY DEF FClose, Goto, taskVars, IInv, TypeInv
  <2>2. \A d \in Clients : d # c => pc[d] # "fclose"
    BY <2>1 DEF IInv, WriterInv, InWriteT
  <2> QED BY <2>1, <2>2
<1>2. f \in Names
  <2>1. cmd[c] \in Parsed
    BY DEF IInv, TypeInv
  <2> QED BY <2>1, ParsedType
<1>3. \A g \in Names : g # f => Committed(g)' = Committed(g)
  <2> SUFFICES ASSUME NEW g \in Names, g # f PROVE Committed(g)' = Committed(g)
    OBVIOUS
  <2>1. \A d \in Clients : ~IsWriter(d, g) /\ ~IsWriter(d, g)'
    BY <1>1 DEF IsWriter
  <2>2. contents'[g] = contents[g]
    BY DEF FClose, IInv, TypeInv
  <2> QED BY <2>1, <2>2, CommittedIs, CommittedWillBe
<1>4. Committed(f) = Stored(contents[f], pending[c].at, pending[c].new)
  BY <1>1, <1>2, CommittedIs DEF IsWriter, Outcome
<1>5. contents'[f] = Stored(contents[f], pending[c].at, pending[c].new)
  BY <1>2 DEF FClose, IInv, TypeInv
<1>6. \A d \in Clients : ~IsWriter(d, f)'
  BY <1>1 DEF IsWriter
<1>7. Committed(f)' = contents'[f]
  BY <1>2, <1>6, CommittedWillBe
<1> QED BY <1>3, <1>4, <1>5, <1>7 DEF StoreFiles

LEMMA InitStore == Init => StoreFiles = Initial
<1> SUFFICES ASSUME Init PROVE StoreFiles = Initial
  OBVIOUS
<1>1. IInv
  BY InitInvariant
<1>2. \A c \in Clients, f \in Names : ~IsWriter(c, f)
  BY DEF Init, IsWriter
<1>3. \A f \in Names : Committed(f) = Initial[f]
  BY <1>1, <1>2, CommittedIs DEF Init
<1> QED BY <1>3, InitialAssumption DEF StoreFiles

(* Without uploads, which take no lock, and without what ends the server   *)
(* in the middle of a writeT, every step is one abstract Write or none.    *)
OnlyWriteTWrites ==
    ~OperatorStops /\ \A d \in AllCommands : d.op \notin {"upload", "killServer"}

LEMMA WritesOnly ==
    ASSUME OnlyWriteTWrites, IInv, NEW c \in Clients, ThreadStep(c) \/ ClientStep(c),
           ~FOpen(c), ~Rewrite(c), ~FClose(c)
    PROVE  /\ UNCHANGED fileVars
           /\ \A d \in Clients :
                 \/ pc[d] \notin {"rewrite", "fclose"} /\ pc'[d] \notin {"rewrite", "fclose"}
                 \/ pc'[d] = pc[d] /\ cmd'[d] = cmd[d]
<1> USE DEF fileVars
<1>1. cmd[c].op \notin {"upload", "killServer"}
  <2>1. \A e \in Given : e.op \notin {"upload", "killServer"}
    BY DEF OnlyWriteTWrites, Given, Nothing
  <2>2. \A e \in Given : Garbled(e).op \notin {"upload", "killServer"}
    <3> SUFFICES ASSUME NEW e \in Given
                 PROVE  Garbled(e).op \notin {"upload", "killServer"}
      OBVIOUS
    <3>1. e \in [op : Ops \cup {"pid"}, name : Names, line : Nat, text : Seq(Pieces)]
      BY ParsedType DEF Parsed
    <3>2. Garbled(e).op = e.op
      BY <3>1 DEF Garbled
    <3> QED BY <2>1, <3>2
  <2>3. cmd[c] \in Parsed
    BY DEF IInv, TypeInv
  <2> QED BY <2>1, <2>2, <2>3 DEF Parsed
<1>2. ~Upload(c) /\ ~Raise(c)
  BY <1>1 DEF Upload, Raise, IInv, WriterInv
<1>3. UNCHANGED fileVars
  BY <1>2
  DEF ThreadStep, ClientStep, Recv, Inform, Acknowledge, ReadF, Lock, Unlock, Send,
      Exit, Connect, Type, Receive, CtrlC
<1>4. \/ pc[c] \notin {"rewrite", "fclose"} /\ pc'[c] \notin {"rewrite", "fclose"}
      \/ UNCHANGED <<pc, cmd>>
  <2>1. pc \in [Clients -> Labels]
    BY DEF IInv, TypeInv
  <2>2. CASE Recv(c)
    BY <2>1, <2>2 DEF Recv, Goto
  <2>3. CASE Inform(c) \/ Acknowledge(c) \/ ReadF(c) \/ Lock(c) \/ Unlock(c)
    BY <2>1, <2>3 DEF Inform, Acknowledge, ReadF, Answer, Lock, Unlock, Goto
  <2>4. CASE Send(c)
    BY <2>1, <2>4 DEF Send, AfterSend, Goto
  <2>5. CASE Connect(c)
    <3>1. pc[c] = "none" /\ UNCHANGED cmd
      BY <2>5 DEF Connect, IInv, Conn, BehindInv, taskVars
    <3>2. UNCHANGED pc \/ Goto(c, "recv")
      BY <2>5 DEF Connect, Accept
    <3> QED BY <2>1, <3>1, <3>2 DEF Goto
  <2>6. CASE Type(c) \/ Receive(c) \/ CtrlC(c)
    BY <2>6 DEF Type, Receive, CtrlC, taskVars
  <2> QED
    BY <1>2, <2>2, <2>3, <2>4, <2>5, <2>6 DEF ThreadStep, ClientStep
<1>5. \A d \in Clients : d # c => pc'[d] = pc[d] /\ cmd'[d] = cmd[d]
  BY OthersStill DEF IInv, Still
<1> QED BY <1>3, <1>4, <1>5

LEMMA RewriteStep ==
    ASSUME OnlyWriteTWrites, IInv, \A c \in Clients : RewriteInv(c), [Next]_vars
    PROVE  \A c \in Clients : RewriteInv(c)'
<1> USE DEF fileVars
<1>1. CASE UNCHANGED vars
  BY <1>1 DEF RewriteInv, vars, taskVars
<1>2. ASSUME NEW c \in Clients, ThreadStep(c) \/ ClientStep(c), NEW d \in Clients
      PROVE  RewriteInv(d)'
  <2>1. CASE FOpen(c)
    <3>1. pc[c] = "fopen" /\ cmd' = cmd
      BY <2>1 DEF FOpen, taskVars
    <3>2. \A e \in Clients : e # c => pc[e] # "rewrite"
      BY <3>1 DEF IInv, WriterInv, InWriteT
    <3>3. CASE d # c
      <4>1. pc'[d] = pc[d]
        BY <1>2, <3>3, OthersStill DEF IInv, Still
      <4> QED BY <3>2, <3>3, <4>1 DEF RewriteInv
    <3>4. CASE d = c /\ pc'[c] = "rewrite"
      <4>1. /\ Prepare(c, 0, ReplaceLine(contents[cmd[c].name], cmd[c].line, cmd[c].text),
                        "rewrite")
            /\ cmd[c].line > 0 /\ cmd[c].line <= LineCount(contents[cmd[c].name])
            /\ UNCHANGED contents
        BY <2>1, <3>4 DEF FOpen, Crash, Prepare, Goto, IInv, TypeInv
      <4>2. pending'[c].new = ReplaceLine(contents[cmd[c].name], cmd[c].line, cmd[c].text)
        BY <4>1 DEF Prepare, IInv, TypeInv
      <4> QED BY <3>1, <3>4, <4>1, <4>2 DEF RewriteInv
    <3>5. CASE d = c /\ pc'[c] # "rewrite"
      BY <3>5 DEF RewriteInv
    <3> QED BY <3>3, <3>4, <3>5
  <2>2. CASE Rewrite(c) \/ FClose(c)
    <3>1. pc[c] \in InWriteT /\ pc'[c] # "rewrite"
      BY <2>2 DEF Rewrite, FClose, Crash, Goto, InWriteT, IInv, TypeInv
    <3>2. d # c => pc'[d] = pc[d] /\ pc[d] # "rewrite"
      BY <1>2, <3>1, OthersStill DEF IInv, WriterInv, InWriteT, Still
    <3> QED BY <3>1, <3>2 DEF RewriteInv
  <2>3. CASE ~FOpen(c) /\ ~Rewrite(c) /\ ~FClose(c)
    BY <1>2, <2>3, WritesOnly DEF RewriteInv
  <2> QED BY <2>1, <2>2, <2>3
<1> QED BY <1>1, <1>2 DEF Next, AtRest, Interrupt, OnlyWriteTWrites

LEMMA StepWrites ==
    ASSUME OnlyWriteTWrites, IInv, IInv', \A c \in Clients : RewriteInv(c), [Next]_vars
    PROVE  (\E w \in StoreWrites : Store!Write(w)) \/ UNCHANGED StoreFiles
<1> USE DEF fileVars
<1>1. CASE UNCHANGED vars
  BY <1>1, QuietStutters DEF vars, taskVars
<1>2. ASSUME NEW c \in Clients, ThreadStep(c) \/ ClientStep(c)
      PROVE  (\E w \in StoreWrites : Store!Write(w)) \/ UNCHANGED StoreFiles
  <2>1. CASE FOpen(c)
    BY <2>1, FOpenWrites
  <2>2. CASE Rewrite(c)
    BY <2>2, RewriteWrites
  <2>3. CASE FClose(c)
    BY <2>3, FCloseStutters
  <2>4. CASE ~FOpen(c) /\ ~Rewrite(c) /\ ~FClose(c)
    BY <1>2, <2>4, WritesOnly, QuietStutters
  <2> QED BY <2>1, <2>2, <2>3, <2>4
<1> QED BY <1>1, <1>2 DEF Next, AtRest, Interrupt, OnlyWriteTWrites

(* Every writeT happens all at once, at the fopen() that lets it write:    *)
(* the server implements the store whose only step is Write.               *)
THEOREM Atomicity == OnlyWriteTWrites => (Spec => WritesAreAtomic)
<1> SUFFICES ASSUME OnlyWriteTWrites PROVE Spec => WritesAreAtomic
  OBVIOUS
<1> DEFINE AsRead == \A c \in Clients : RewriteInv(c)
<1>1. Init => Store!Init /\ AsRead
  <2>1. Init => AsRead
    BY DEF Init, RewriteInv
  <2> QED BY <2>1, InitStore DEF Store!Init, StoreFiles
<1>2. IInv /\ AsRead /\ [Next]_vars => AsRead'
  BY RewriteStep
<1>3. IInv /\ IInv' /\ AsRead /\ [Next]_vars
      => [\E w \in LET writes == {d \in AllCommands : d.op = "writeT"}
                   IN  writes \cup {Garbled(d) : d \in writes} :
             Store!Write(w)]_[f \in Names |-> Committed(f)]
  BY StepWrites DEF StoreFiles, StoreWrites
<1> QED
  BY <1>1, <1>2, <1>3, Invariance, PTL DEF Spec, WritesAreAtomic, Store!Spec
=============================================================================
