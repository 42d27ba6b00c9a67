--------------------------- MODULE BiboFilesProof ---------------------------
(***************************************************************************)
(* Proofs about BiboFiles for every directory, every number of children    *)
(* and every set of requests for which the table has room (Capacity).      *)
(***************************************************************************)
EXTENDS BiboFilesProperties, FiniteSetTheorems, TLAPS

Pieces  == {Old, Message, Hole} \cup {Text[c] : c \in Children}
Request == [op : Ops \cup {"none"}, name : Names \cup {NoName}, line : Int]
EntryType == [name : Names \cup {NoName}, fd : Listed \cup {Foreign, NoFd},
              users : [Users -> Int]]

(* The places of a child: the uses of an entry it has found, and of one it *)
(* makes.                                                                  *)
Counting   == {"load", "increment", "leave", "decrement"}
Waiting    == {"waitReaders", "waitWriters"}
Writing    == {"seek", "append", "rewrite", "misprint"}
Dropping   == {"shift", "loadLess", "storeLess"}
Making     == {"name", "create"}
Publishing == {"fill", "loadMore", "storeMore"}
Outside    == {"fifo", "close", "kill", "done", "crashed"}
AtEntry    == Counting \cup Waiting \cup Writing \cup {"read", "fetch", "unlink", "shift"}
                       \cup Making
Labels     == Outside \cup AtEntry \cup Dropping \cup Publishing \cup {"scan", "claim"}

TypeInv ==
    /\ files \in [Indices -> EntryType]
    /\ num_files \in Int
    /\ disk \in [Names -> {"absent", "listed", "new"}]
    /\ \A f \in Names : disk[f] = "listed" => f \in Listed
    /\ contents \in [Listed -> Seq(Pieces)]
    /\ offset \in [Listed -> Nat]
    /\ pc \in [Children -> Labels]
    /\ request \in [Children -> Request]
    /\ index \in [Children -> 0..MAX_FILES]
    /\ loaded \in [Children -> Int]
    /\ got \in [Children -> Nat]
    /\ disturbed \in BOOLEAN

(* The requests that bring a child to a place, and the entry it has there. *)
OpsAt(l) ==
    IF l = "scan" THEN Scanned
    ELSE IF l \in Waiting THEN {"writeT", "download"}
    ELSE IF l \in Counting THEN {"readF", "writeT", "download"}
    ELSE IF l = "read" THEN {"readF"}
    ELSE IF l \in Writing THEN {"writeT"}
    ELSE IF l \in {"fetch", "unlink"} \cup Dropping THEN {"download"}
    ELSE IF l \in {"claim"} \cup Making \cup Publishing THEN {"upload"}
    ELSE IF l = "close" THEN {"other"}
    ELSE Ops \cup {"none"}

ControlInv(c) ==
    /\ pc[c] = "fifo" => Op(c) = "none" /\ index[c] = 0
    /\ pc[c] \notin {"fifo", "crashed"} => request[c] \in Requests[c]
    /\ Op(c) \in OpsAt(pc[c])
    /\ pc[c] \in AtEntry => index[c] \in Indices
    /\ pc[c] = "rewrite" => Line(c) > 0

(* Every change of the counter that is to come is one a child may still    *)
(* ask for: there is room for the uploads and a file for every download.   *)
Ended      == {c \in Children : pc[c] \in {"done", "crashed"}}
ToCome(op) == Cardinality(Asking(op) \ Ended)

Bounded(n) == ToCome("download") <= n /\ n + ToCome("upload") <= MAX_FILES

CountInv ==
    /\ Bounded(num_files)
    /\ \A c \in Children : pc[c] \in {"storeMore", "storeLess"} => Bounded(loaded[c])

(* What a child knows of the table as long as no change met another use.   *)
Has(S, f) == \E i \in S : files[i].name = f

KnowsInv(c) ==
    LET f == request[c].name
        k == index[c] IN
    /\ At(c, "scan") => /\ k <= num_files
                        /\ \A i \in InTable : i < k => files[i].name # f
    /\ Op(c) = "download" /\ pc[c] \in Waiting \cup Counting \cup {"fetch", "unlink"} =>
          k < num_files /\ files[k].name = f
    /\ At(c, "shift") => k < num_files
    /\ pc[c] \in {"loadLess", "storeLess"} => k = num_files - 1
    /\ pc[c] \in {"claim"} \cup Making \cup Publishing => ~Has(InTable, f)
    /\ pc[c] \in Making \cup Publishing => k = num_files
    /\ pc[c] \in {"create"} \cup Publishing => k \in Indices /\ files[k].name = f
    /\ pc[c] \in {"storeMore", "storeLess"} => loaded[c] = num_files

(* The entries that stand for a file on the disk: those of the table,      *)
(* without the one whose file is deleted and with the one just made, but   *)
(* for those whose file could not be created.                              *)
Standing == (InTable \ {index[c] : c \in {d \in Children : pc[d] \in Dropping}})
            \cup {index[c] : c \in {d \in Children : pc[d] \in Publishing}}

Stands(S, f) == \E i \in S : files[i].name = f /\ files[i].fd # NoFd

Truth == /\ \A f \in (Names \cup {NoName}) \ Refused : Stands(Standing, f) <=> f \in OnDisk
         /\ \A i, j \in Standing : files[i].name = files[j].name => i = j

OneChanges == \A c, d \in Children : Changing(c) /\ Changing(d) => c = d

TableInv ==
    ~disturbed => /\ \A c \in Children : KnowsInv(c)
                  /\ OneChanges => Truth

Control == \A c \in Children : ControlInv(c)
IInv == TypeInv /\ Control /\ CountInv /\ NothingIsRead /\ TableInv
-----------------------------------------------------------------------------
(* A step of the system is one of these of one child, the end of them all, *)
(* or none at all.                                                         *)
CountStep(c) == \/ Load(c, "load", "increment") \/ Store(c, "increment", OneMore(c), Body(c))
                \/ Load(c, "leave", "decrement")
                \/ Store(c, "decrement", OneLess(c),
                         IF Op(c) = "download" THEN "unlink" ELSE "done")
NumLoad(c)   == LoadNum(c, "loadLess", "storeLess") \/ LoadNum(c, "loadMore", "storeMore")
Less(c)      == StoreNum(c, "storeLess", OneLess(c), AnyUser(c))
More(c)      == StoreNum(c, "storeMore", OneMore(c), AnyChanger(c))
OneStep(c)   == \/ Read(c) \/ Close(c) \/ Scan(c) \/ Wait(c) \/ CountStep(c) \/ FileStep(c)
                \/ Unlink(c) \/ Shift(c) \/ NumLoad(c) \/ Less(c) \/ More(c)
                \/ Claim(c) \/ Create(c) \/ Fill(c)

LEMMA Steps ==
    ASSUME [Next]_vars
    PROVE  UNCHANGED vars \/ \E c \in Children : OneStep(c) \/ KillServer(c)
  BY DEF Next, AtRest, ChildStep, TableStep, OneStep, CountStep, Enter, Leave, Drop, Publish,
         NumLoad, Less, More

(* A child that uses an entry has the index of one of the table.           *)
LEMMA EntryIsThere ==
    ASSUME TypeInv, Control, NEW c \in Children, pc[c] \in AtEntry
    PROVE  /\ index[c] \in Indices /\ index[c] \in Int
           /\ 0 <= index[c] /\ index[c] < MAX_FILES
           /\ files[index[c]] \in EntryType
           /\ Fd(c) \in Listed \cup {Foreign, NoFd}
  BY ListedAssumption DEF TypeInv, Control, ControlInv, Indices, EntryType, Fd

(* What is known of the place of one child is not disturbed by another.    *)
LEMMA OthersStay ==
    ASSUME Control, NEW c \in Children, ControlInv(c)',
           \A d \in Children \ {c} : pc'[d] = pc[d] /\ request'[d] = request[d]
                                     /\ index'[d] = index[d]
    PROVE  Control'
  <1> SUFFICES ASSUME NEW d \in Children, d # c
               PROVE  ControlInv(d)'
    BY DEF Control
  <1>1. ControlInv(d)
    BY DEF Control
  <1> QED
    BY <1>1 DEF ControlInv, Op, Line

(* Reading and dispatching a request, or unlinking what it names.          *)
LEMMA ReadTyped ==
    ASSUME TypeInv, Control, NEW c \in Children, Read(c)
    PROVE  TypeInv' /\ Control'
  <1> PICK r \in Requests[c] : request' = [request EXCEPT ![c] = r]
    BY DEF Read
  <1>1. r \in Request /\ r.op \in Ops /\ r \in [op : Ops, name : Names \cup {NoName}, line : Int]
    BY RequestsAssumption DEF Request
  <1>2. request' \in [Children -> Request] /\ request'[c] = r
    BY <1>1 DEF TypeInv
  <1>3. pc' \in [Children -> Labels] /\ pc'[c] \in {"scan", "kill", "close"}
    BY <1>2 DEF Read, Goto, TypeInv, Labels, Outside
  <1>4. TypeInv'
    BY <1>2, <1>3 DEF TypeInv, Read, tableVars, diskVars
  <1>5. Op(c)' \in OpsAt(pc[c])'
    <2>1. pc'[c] = CASE r.op \in Scanned -> "scan" [] r.op = "killServer"  -> "kill" [] OTHER -> "close"
      BY DEF Read, Goto, TypeInv
    <2>2. CASE r.op \in Scanned
      BY <1>2, <2>1, <2>2 DEF OpsAt, Op, Scanned
    <2>3. CASE r.op = "killServer"
      BY <1>1, <1>2, <2>1, <2>3 DEF OpsAt, Op, Ops, Scanned, Waiting, Counting, Writing, Dropping, Making, Publishing
    <2>4. CASE r.op \notin Scanned /\ r.op # "killServer"
      BY <1>1, <1>2, <2>1, <2>4 DEF OpsAt, Op, Ops, Waiting, Counting, Writing, Dropping, Making, Publishing
    <2> QED
      BY <2>2, <2>3, <2>4
  <1>6. ControlInv(c)'
    BY <1>2, <1>3, <1>5 DEF ControlInv, AtEntry, Waiting, Counting, Writing, Making
  <1> QED
    BY <1>4, <1>6, OthersStay DEF Read, TypeInv, Goto

LEMMA CloseTyped ==
    ASSUME TypeInv, Control, NEW c \in Children, Close(c)
    PROVE  TypeInv' /\ Control'
  <1>1. pc' = [pc EXCEPT ![c] = "done"] /\ pc[c] = "close" /\ request' = request /\ index' = index
    BY DEF Close, Goto, At, childVars
  <1>2. TypeInv'
    BY <1>1 DEF TypeInv, Close, tableVars, childVars, Labels, Outside
  <1>3. ControlInv(c)
    BY DEF Control
  <1>4. Op(c) \in Ops
    BY <1>1, <1>3, RequestsAssumption DEF ControlInv, Op
  <1>5. ControlInv(c)'
    BY <1>1, <1>3, <1>4 DEF TypeInv, ControlInv, AtEntry, Waiting, Counting, Writing, Making, Op, OpsAt, Dropping, Publishing
  <1> QED
    BY <1>1, <1>2, <1>5, OthersStay DEF TypeInv

LEMMA ToComeNatural ==
    ASSUME NEW op
    PROVE  ToCome(op) \in Nat /\ IsFiniteSet(Asking(op) \ Ended)
  BY RequestsAssumption, FS_Subset, FS_CardinalityType DEF ToCome, Asking

LEMMA CounterBounded ==
    ASSUME TypeInv, CountInv
    PROVE  num_files \in 0..MAX_FILES
  <1>1. ToCome("download") \in Nat /\ ToCome("upload") \in Nat
    BY ToComeNatural
  <1> QED
    BY <1>1, ListedAssumption DEF TypeInv, CountInv, Bounded

LEMMA ScanTyped ==
    ASSUME TypeInv, Control, CountInv, NEW c \in Children, Scan(c)
    PROVE  TypeInv' /\ Control'
  <1>1. pc[c] = "scan" /\ request' = request /\ ControlInv(c)
    BY DEF Scan, At, Control
  <1>2. Op(c) \in Scanned /\ request[c] \in Requests[c]
    BY <1>1 DEF ControlInv, OpsAt
  <1>3. num_files \in Int /\ num_files <= MAX_FILES /\ index[c] \in 0..MAX_FILES
    BY CounterBounded DEF TypeInv
  <1>4. CASE index[c] >= num_files
    <2>1. /\ index' = index
          /\ pc' = [pc EXCEPT ![c] = IF Op(c) = "upload" THEN "claim" ELSE "done"]
      BY <1>4 DEF Scan, Goto
    <2>2. TypeInv'
      BY <2>1, <1>1 DEF Scan, TypeInv, tableVars, diskVars, Labels, Outside
    <2>3. ControlInv(c)'
      BY <2>1, <1>1, <1>2 DEF TypeInv, ControlInv, AtEntry, Waiting, Counting, Writing, Making,
            Op, OpsAt, Dropping, Publishing, Ops
    <2> QED
      BY <1>1, <2>1, <2>2, <2>3, OthersStay DEF TypeInv
  <1>5. CASE index[c] < num_files /\ files[index[c]].name = request[c].name
    <2>1. index' = index /\ pc' = [pc EXCEPT ![c] = WhenFound(Op(c))]
      BY <1>3, <1>5 DEF Scan, Goto
    <2>2. TypeInv'
      BY <2>1, <1>1 DEF Scan, TypeInv, tableVars, diskVars, Labels, Outside, WhenFound, AtEntry,
            Waiting, Counting
    <2>3. index[c] \in Indices
      BY <1>3, <1>5, ListedAssumption DEF Indices
    <2>4. Op(c)' = Op(c) /\ pc'[c] = WhenFound(Op(c))
      BY <1>1, <2>1 DEF Op, TypeInv
    <2>5. Op(c)' \in OpsAt(pc'[c])
      BY <1>2, <2>4 DEF Waiting, Counting, Writing, Making, OpsAt, Dropping, Publishing, Ops,
            Scanned, WhenFound
    <2>6. ControlInv(c)'
      BY <1>1, <1>2, <2>1, <2>3, <2>4, <2>5 DEF ControlInv, WhenFound
    <2> QED
      BY <1>1, <2>1, <2>2, <2>6, OthersStay DEF TypeInv
  <1>6. CASE index[c] < num_files /\ files[index[c]].name # request[c].name
    <2>1. index' = [index EXCEPT ![c] = index[c] + 1] /\ pc' = pc
      BY <1>3, <1>6 DEF Scan
    <2>2. index[c] + 1 \in 0..MAX_FILES
      BY <1>3, <1>6, ListedAssumption
    <2>3. TypeInv'
      BY <2>1, <2>2, <1>1 DEF Scan, TypeInv, tableVars, diskVars
    <2>4. ControlInv(c)'
      BY <1>1, <2>1 DEF ControlInv, AtEntry, Waiting, Counting, Writing, Making, Op, Line
    <2> QED
      BY <1>1, <2>1, <2>3, <2>4, OthersStay DEF TypeInv
  <1> QED
    BY <1>3, <1>4, <1>5, <1>6

(* A child that goes on with its request and its entry.                    *)
LEMMA GoingOn ==
    ASSUME TypeInv, Control, NEW c \in Children, NEW l \in Labels, l # "fifo",
           pc[c] \notin {"fifo", "crashed"}, pc' = [pc EXCEPT ![c] = l],
           request' = request, index' = index,
           Op(c) \in OpsAt(l),
           l \in AtEntry => pc[c] \in AtEntry \/ index[c] \in Indices,
           l = "rewrite" => Line(c) > 0
    PROVE  pc' \in [Children -> Labels] /\ Control'
  <1>1. ControlInv(c) /\ pc'[c] = l
    BY DEF Control, TypeInv
  <1>2. ControlInv(c)'
    BY <1>1 DEF ControlInv, Op, Line
  <1> QED
    BY <1>2, OthersStay DEF TypeInv

(* Where an operation can be.                                              *)
LEMMA Places ==
    /\ {"writeT", "download"} = OpsAt("waitReaders")
    /\ {"writeT", "download"} = OpsAt("waitWriters")
    /\ \A l \in Counting : {"readF", "writeT", "download"} = OpsAt(l)
    /\ {"readF"} = OpsAt("read")
    /\ \A l \in Writing : {"writeT"} = OpsAt(l)
    /\ \A l \in {"fetch", "unlink"} \cup Dropping : {"download"} = OpsAt(l)
    /\ \A l \in {"claim"} \cup Making \cup Publishing : {"upload"} = OpsAt(l)
    /\ \A l \in {"done", "crashed"} : Ops \cup {"none"} = OpsAt(l)
  BY DEF OpsAt, Waiting, Counting, Writing, Dropping, Making, Publishing

LEMMA OpAt ==
    ASSUME Control, NEW c \in Children
    PROVE  /\ pc[c] \in Waiting => Op(c) \in {"writeT", "download"}
           /\ pc[c] \in Counting => Op(c) \in {"readF", "writeT", "download"}
           /\ pc[c] = "read" => Op(c) = "readF"
           /\ pc[c] \in Writing => Op(c) = "writeT"
           /\ pc[c] = "rewrite" => Line(c) > 0
           /\ pc[c] \in {"fetch", "unlink"} \cup Dropping => Op(c) = "download"
           /\ pc[c] \in {"claim"} \cup Making \cup Publishing => Op(c) = "upload"
           /\ pc[c] = "close" => Op(c) = "other"
  <1>1. ControlInv(c)
    BY DEF Control
  <1>2. Op(c) \in OpsAt(pc[c]) /\ (pc[c] = "rewrite" => Line(c) > 0)
    BY <1>1 DEF ControlInv
  <1> QED
    BY <1>2 DEF OpsAt, Waiting, Counting, Writing, Dropping, Making, Publishing

LEMMA OpTyped ==
    ASSUME TypeInv, NEW c \in Children
    PROVE  Op(c) \in Ops \cup {"none"} /\ Line(c) \in Int /\ request[c].name \in Names \cup {NoName}
  BY DEF TypeInv, Request, Op, Line

(* Waiting for the users of an entry, and counting oneself among them.     *)
LEMMA WaitTyped ==
    ASSUME TypeInv, Control, NEW c \in Children, Wait(c)
    PROVE  TypeInv' /\ Control'
  <1>1. /\ pc[c] \in Waiting /\ request' = request /\ index' = index
        /\ \E l \in Waiting \cup {"load"} : pc' = [pc EXCEPT ![c] = l]
    BY DEF Wait, At, Goto, Waiting, childVars
  <1>2. PICK l \in Waiting \cup {"load"} : pc' = [pc EXCEPT ![c] = l]
    BY <1>1
  <1>3. Op(c) \in OpsAt(l)
    BY <1>1, OpAt, Places DEF Waiting, Counting
  <1>4. l \in Labels /\ l \notin {"rewrite", "fifo"} /\ pc[c] \notin {"fifo", "crashed"} /\ pc[c] \in AtEntry
    BY <1>1 DEF Labels, AtEntry, Waiting, Counting
  <1>5. pc' \in [Children -> Labels] /\ Control'
    BY <1>1, <1>2, <1>3, <1>4, GoingOn
  <1> QED
    BY <1>5 DEF Wait, TypeInv, tableVars, diskVars, childVars

LEMMA CountTyped ==
    ASSUME TypeInv, Control, NEW c \in Children, CountStep(c)
    PROVE  TypeInv' /\ Control'
  <1>1. /\ pc[c] \in Counting /\ pc[c] \in AtEntry /\ pc[c] \notin {"fifo", "crashed"}
        /\ request' = request /\ index' = index
    BY DEF CountStep, Load, Store, At, Counting, AtEntry, childVars
  <1>2. Op(c) \in {"readF", "writeT", "download"} /\ Line(c) \in Int
    BY <1>1, OpAt, OpTyped
  <1>3. /\ index[c] \in Indices /\ files[index[c]] \in EntryType
        /\ files \in [Indices -> EntryType] /\ Role(c) \in Users
    BY <1>1, EntryIsThere DEF TypeInv, Role, Users
  <1>4. CASE Load(c, "load", "increment") \/ Load(c, "leave", "decrement")
    <2>1. loaded' \in [Children -> Int]
      BY <1>3, <1>4 DEF Load, TypeInv, EntryType
    <2>2. PICK l \in Counting : pc' = [pc EXCEPT ![c] = l]
      BY <1>4 DEF Load, Goto, Counting
    <2>3. l \in Labels /\ l \notin {"rewrite", "fifo"} /\ Op(c) \in OpsAt(l)
      BY <1>2, Places DEF Labels, AtEntry, Counting
    <2>4. pc' \in [Children -> Labels] /\ Control'
      BY <1>1, <2>2, <2>3, GoingOn
    <2> QED
      BY <1>1, <1>4, <2>1, <2>4 DEF Load, TypeInv, tableVars, diskVars
  <1>5. CASE \/ Store(c, "increment", OneMore(c), Body(c))
             \/ Store(c, "decrement", OneLess(c),
                      IF Op(c) = "download" THEN "unlink" ELSE "done")
    <2>1. PICK n \in Int : files' = [files EXCEPT ![index[c]].users[Role(c)] = n]
      <3>1. OneMore(c) \in Int /\ OneLess(c) \in Int
        BY DEF OneMore, OneLess, TypeInv
      <3>2. \/ files' = [files EXCEPT ![index[c]].users[Role(c)] = OneMore(c)]
            \/ files' = [files EXCEPT ![index[c]].users[Role(c)] = OneLess(c)]
        BY <1>5 DEF Store
      <3> QED
        BY <3>1, <3>2
    <2>2. files' \in [Indices -> EntryType] /\ disturbed' \in BOOLEAN
      <3>1. files' \in [Indices -> EntryType]
        BY <1>3, <2>1 DEF EntryType
      <3> QED
        BY <1>5, <3>1 DEF Store, TypeInv
    <2>3. PICK l \in {"fetch", "read", "rewrite", "seek", "unlink", "done"} :
              /\ pc' = [pc EXCEPT ![c] = l]
              /\ Op(c) \in OpsAt(l)
              /\ l = "rewrite" => Line(c) > 0
      <3>1. CASE Store(c, "increment", OneMore(c), Body(c))
        <4>1. pc' = [pc EXCEPT ![c] = Body(c)]
          BY <3>1 DEF Store, Goto
        <4>2. \/ Body(c) = "fetch" /\ Op(c) = "download"
              \/ Body(c) = "read" /\ Op(c) = "readF"
              \/ Body(c) = "rewrite" /\ Op(c) = "writeT" /\ Line(c) > 0
              \/ Body(c) = "seek" /\ Op(c) = "writeT"
          BY <1>2 DEF Body
        <4> QED
          BY <4>1, <4>2, Places DEF Writing
      <3>2. CASE Store(c, "decrement", OneLess(c), IF Op(c) = "download" THEN "unlink" ELSE "done")
        BY <1>2, <3>2, Places DEF Store, Goto, Ops, Scanned
      <3> QED
        BY <1>5, <3>1, <3>2
    <2>4. l \in Labels
      BY DEF Labels, AtEntry, Writing, Outside
    <2>5. pc' \in [Children -> Labels] /\ Control'
      BY <1>1, <2>3, <2>4, GoingOn
    <2> QED
      BY <1>1, <1>5, <2>2, <2>5 DEF Store, TypeInv, diskVars, childVars
  <1> QED
    BY <1>4, <1>5 DEF CountStep

(* A write at or behind the end of a file keeps what is in it, and leaves  *)
(* the offset at the end.                                                  *)
LEMMA PutAtEnd ==
    ASSUME NEW S, NEW s \in Seq(S), NEW o \in Nat, o >= Len(s), NEW x \in S, Hole \in S
    PROVE  Put(s, o, x) \in Seq(S) /\ Len(Put(s, o, x)) = o + 1 /\ IsPrefix(s, Put(s, o, x))
  <1> DEFINE t == Put(s, o, x)
  <1>1. t = [k \in 1..(o + 1) |-> IF k = o + 1 THEN x ELSE IF k <= Len(s) THEN s[k] ELSE Hole]
    BY DEF Put
  <1>2. \A k \in 1..(o + 1) : t[k] \in S
    BY <1>1
  <1>3. t \in [1..(o + 1) -> S]
    BY <1>1, <1>2
  <1>4. t \in Seq(S) /\ Len(t) = o + 1
    BY <1>3
  <1>5. \A k \in 1..Len(s) : t[k] = s[k]
    BY <1>1
  <1> HIDE DEF t
  <1>6. SubSeq(s, 1, Len(s)) = SubSeq(t, 1, Len(s))
    BY <1>4, <1>5
  <1>7. IsPrefix(s, t)
    BY <1>4, <1>6 DEF IsPrefix
  <1> QED
    BY <1>4, <1>7 DEF t

LEMMA PrefixOfItself ==
    ASSUME NEW S, NEW s \in Seq(S)
    PROVE  IsPrefix(s, s)
  BY DEF IsPrefix

LEMMA WriteTyped ==
    ASSUME TypeInv, NothingIsRead, NEW f \in Listed, NEW x \in Pieces, WriteTo(f, x)
    PROVE  /\ contents' \in [Listed -> Seq(Pieces)] /\ offset' \in [Listed -> Nat]
           /\ \A g \in Listed : /\ offset'[g] >= Len(contents'[g])
                                /\ IsPrefix(contents[g], contents'[g])
  <1> DEFINE t == Put(contents[f], offset[f], x)
  <1>1. /\ contents \in [Listed -> Seq(Pieces)] /\ offset \in [Listed -> Nat]
        /\ \A g \in Listed : offset[g] >= Len(contents[g])
        /\ Hole \in Pieces
    BY DEF TypeInv, NothingIsRead, Pieces
  <1>2. contents' = [contents EXCEPT ![f] = t] /\ offset' = [offset EXCEPT ![f] = offset[f] + 1]
    BY <1>1 DEF WriteTo
  <1>3. t \in Seq(Pieces) /\ Len(t) = offset[f] + 1 /\ IsPrefix(contents[f], t)
    BY <1>1, PutAtEnd
  <1> HIDE DEF t
  <1>4. ASSUME NEW g \in Listed
        PROVE  offset'[g] >= Len(contents'[g]) /\ IsPrefix(contents[g], contents'[g])
    <2>1. CASE g = f
      BY <1>1, <1>2, <1>3, <2>1
    <2>2. CASE g # f
      <3>1. contents[g] \in Seq(Pieces)
        BY <1>1
      <3>2. IsPrefix(contents[g], contents[g])
        BY <3>1, PrefixOfItself
      <3>3. contents'[g] = contents[g] /\ offset'[g] = offset[g]
        BY <1>1, <1>2, <2>2
      <3> QED
        BY <1>1, <3>2, <3>3
    <2> QED
      BY <2>1, <2>2
  <1> QED
    BY <1>1, <1>2, <1>3, <1>4

(* No piece is before an offset, so reading changes nothing.               *)
LEMMA NothingAhead ==
    ASSUME TypeInv, NothingIsRead, NEW f \in Listed
    PROVE  Ahead(f) = 0
  BY DEF TypeInv, NothingIsRead, Ahead

LEMMA ReadsNothing ==
    ASSUME TypeInv, NothingIsRead, NEW c \in Children, ReadOn(c)
    PROVE  offset' = offset /\ got' = got
  <1>1. CASE Fd(c) \notin Listed
    BY <1>1 DEF ReadOn
  <1>2. CASE Fd(c) \in Listed
    <2>1. Ahead(Fd(c)) = 0
      BY <1>2, NothingAhead
    <2>2. /\ got' = [got EXCEPT ![c] = got[c] + 0]
          /\ offset' = [offset EXCEPT ![Fd(c)] = offset[Fd(c)] + 0]
      BY <1>2, <2>1 DEF ReadOn
    <2>3. got[c] \in Nat /\ offset[Fd(c)] \in Nat
      BY <1>2 DEF TypeInv
    <2> QED
      BY <1>2, <2>1, <2>2, <2>3 DEF TypeInv
  <1> QED
    BY <1>1, <1>2

(* What the actions on a file have in common.                              *)
Unwritten == contents' = contents /\ offset' = offset
Kept == /\ contents' \in [Listed -> Seq(Pieces)] /\ offset' \in [Listed -> Nat]
        /\ \A g \in Listed : /\ offset'[g] >= Len(contents'[g])
                             /\ IsPrefix(contents[g], contents'[g])

LEMMA UnwrittenKept ==
    ASSUME TypeInv, NothingIsRead, Unwritten
    PROVE  Kept
  <1> SUFFICES ASSUME NEW g \in Listed
               PROVE  IsPrefix(contents[g], contents[g])
    BY DEF TypeInv, NothingIsRead, Unwritten, Kept
  <1>1. contents[g] \in Seq(Pieces)
    BY DEF TypeInv
  <1> QED
    BY <1>1, PrefixOfItself

LEMMA FileKeeps ==
    ASSUME TypeInv, Control, NothingIsRead, NEW c \in Children, FileStep(c)
    PROVE  Kept /\ got' = got
  <1>1. pc[c] \in Writing \cup {"read", "fetch"} /\ pc[c] \in AtEntry
    BY DEF FileStep, ReadFile, Fetch, AppendText, Rewrite, Misprint, At, Writing, AtEntry
  <1>3. CASE ReadFile(c) \/ Fetch(c)
    <2>1. ReadOn(c) /\ contents' = contents
      BY <1>3 DEF ReadFile, Fetch
    <2> QED
      BY <2>1, ReadsNothing, UnwrittenKept DEF Unwritten
  <1>4. CASE AppendText(c)
    <2>1. got' = got
      BY <1>4 DEF AppendText, childVars
    <2>2. CASE At(c, "seek") /\ Fd(c) \in Listed
      <3>1. /\ offset' = [offset EXCEPT ![Fd(c)] = Len(contents[Fd(c)])]
            /\ contents' = contents /\ Fd(c) \in Listed
        BY <1>4, <2>2 DEF AppendText, At, EndOfFile
      <3>2. \A g \in Listed : contents[g] \in Seq(Pieces) /\ Len(contents[g]) \in Nat
        BY DEF TypeInv
      <3>3. offset' \in [Listed -> Nat] /\ \A g \in Listed : offset'[g] >= Len(contents[g])
        BY <3>1, <3>2 DEF TypeInv, NothingIsRead
      <3>4. \A g \in Listed : IsPrefix(contents[g], contents[g])
        BY <3>2, PrefixOfItself
      <3> QED
        BY <2>1, <3>1, <3>3, <3>4 DEF Kept, TypeInv
    <2>3. CASE At(c, "append") /\ Fd(c) \in Listed
      <3>1. WriteTo(Fd(c), Text[c]) /\ Text[c] \in Pieces /\ Fd(c) \in Listed
        BY <1>4, <2>3 DEF AppendText, At, Pieces
      <3> QED
        BY <2>1, <3>1, WriteTyped DEF Kept
    <2>4. CASE Fd(c) \notin Listed
      <3>1. Unwritten
        BY <1>4, <2>4 DEF AppendText, Unwritten
      <3> QED
        BY <2>1, <3>1, UnwrittenKept
    <2> QED
      BY <1>4, <2>2, <2>3, <2>4 DEF AppendText
  <1>5. CASE Rewrite(c)
    <2>1. Line(c) > 0 /\ Line(c) \in Int /\ got' = got
      BY <1>5, OpAt, OpTyped DEF Rewrite, At, childVars
    <2>2. CASE Fd(c) \notin Listed
      <3>1. Unwritten
        BY <1>5, <2>1, <2>2 DEF Rewrite, Crashes, Unwritten
      <3> QED
        BY <2>1, <3>1, UnwrittenKept
    <2>3. CASE Fd(c) \in Listed
      <3>1. Ahead(Fd(c)) = 0
        BY <2>3, NothingAhead
      <3>2. contents' = contents /\ offset' = [offset EXCEPT ![Fd(c)] = offset[Fd(c)] + 0]
        BY <1>5, <2>1, <2>3, <3>1 DEF Rewrite, Crashes
      <3>3. offset' = offset
        BY <2>3, <3>2 DEF TypeInv
      <3> QED
        BY <2>1, <3>2, <3>3, UnwrittenKept DEF Unwritten
    <2> QED
      BY <2>2, <2>3
  <1>6. CASE Misprint(c)
    <2>1. got' = got /\ (Unwritten \/ \E f \in Listed : WriteTo(f, Message))
      BY <1>6 DEF Misprint, childVars, Unwritten
    <2>2. Message \in Pieces
      BY DEF Pieces
    <2>3. CASE Unwritten
      BY <2>1, <2>3, UnwrittenKept
    <2>4. CASE \E f \in Listed : WriteTo(f, Message)
      BY <2>1, <2>2, <2>4, WriteTyped DEF Kept
    <2> QED
      BY <2>1, <2>3, <2>4
  <1> QED
    BY <1>3, <1>4, <1>5, <1>6 DEF FileStep

LEMMA FileTyped ==
    ASSUME TypeInv, Control, NothingIsRead, NEW c \in Children, FileStep(c)
    PROVE  TypeInv' /\ Control' /\ NothingIsRead'
  <1>1. /\ pc[c] \in Writing \cup {"read", "fetch"}
        /\ pc[c] \in AtEntry /\ pc[c] \notin {"fifo", "crashed"}
        /\ request' = request /\ index' = index /\ loaded' = loaded
        /\ UNCHANGED tableVars /\ disk' = disk
    BY DEF FileStep, ReadFile, Fetch, AppendText, Rewrite, Misprint, At, Writing, AtEntry, childVars
  <1>2. Op(c) \in OpsAt(pc[c])
    BY DEF Control, ControlInv
  <1>3. PICK l \in {"leave", "crashed", "append", "misprint"} :
             /\ pc' = [pc EXCEPT ![c] = l]
             /\ l \in {"append", "misprint"} => pc[c] \in Writing
    BY DEF FileStep, ReadFile, Fetch, AppendText, Rewrite, Misprint, At, Writing, Goto
  <1>4. Op(c) \in OpsAt(l) /\ l \in Labels
    <2>1. Op(c) \in {"readF", "writeT", "download"} /\ (pc[c] \in Writing => Op(c) = "writeT")
      BY <1>1, OpAt
    <2> QED
      BY <1>3, <2>1, Places DEF Labels, AtEntry, Counting, Writing, Outside, Ops, Scanned
  <1>5. pc' \in [Children -> Labels] /\ Control'
    BY <1>1, <1>3, <1>4, GoingOn
  <1>6. Kept /\ got' = got
    BY FileKeeps
  <1>7. TypeInv'
    BY <1>1, <1>5, <1>6 DEF TypeInv, Kept, tableVars
  <1> QED
    BY <1>5, <1>6, <1>7 DEF NothingIsRead, Kept

(* A download deletes the file and closes the gap in the table.            *)
LEMMA DropTyped ==
    ASSUME TypeInv, Control, CountInv, NEW c \in Children, Unlink(c) \/ Shift(c) \/ Less(c)
    PROVE  TypeInv' /\ Control'
  <1>1. /\ pc[c] \in {"unlink", "shift", "storeLess"} /\ pc[c] \notin {"fifo", "crashed"}
        /\ request' = request
        /\ Op(c) = "download" /\ Op(c) \in Ops
    BY OpAt DEF Unlink, Shift, Less, StoreNum, At, childVars, Dropping, Ops, Scanned
  <1>2. CASE Unlink(c)
    <2>1. /\ index' = index /\ pc' = [pc EXCEPT ![c] = "shift"]
          /\ pc[c] \in AtEntry /\ "shift" \in Labels
      BY <1>2 DEF Unlink, Goto, At, childVars, AtEntry, Labels
    <2>2. pc' \in [Children -> Labels] /\ Control'
      BY <1>1, <2>1, GoingOn, Places DEF Dropping
    <2> QED
      BY <2>2, <1>2 DEF Unlink, TypeInv, tableVars, childVars
  <1>3. CASE Shift(c) /\ ShiftsOn(index[c])
    <2>1. /\ files' = [files EXCEPT ![index[c]] = files[index[c] + 1]]
          /\ index' = [index EXCEPT ![c] = index[c] + 1] /\ pc' = pc
          /\ disturbed' = (disturbed \/ AnyUser(c) # {})
          /\ pc[c] \in AtEntry
      BY <1>3 DEF Shift, At, AtEntry, Meets
    <2>2. index[c] \in Indices
      BY <2>1, EntryIsThere
    <2>3. index[c] + 1 \in Indices /\ index[c] + 1 \in 0..MAX_FILES
      BY <1>3, <2>2, CounterBounded, ListedAssumption DEF ShiftsOn, Indices
    <2>4. files' \in [Indices -> EntryType] /\ index' \in [Children -> 0..MAX_FILES]
      BY <2>1, <2>2, <2>3 DEF TypeInv
    <2>5. TypeInv'
      BY <1>1, <1>3, <2>1, <2>4 DEF Shift, TypeInv, diskVars
    <2>6. ControlInv(c)
      BY DEF Control
    <2>7. ControlInv(c)'
      BY <1>1, <2>1, <2>3, <2>6 DEF ControlInv, Op, Line, TypeInv
    <2> QED
      BY <1>1, <2>1, <2>5, <2>7, OthersStay DEF TypeInv
  <1>4. CASE Shift(c) /\ ~ShiftsOn(index[c])
    <2>1. /\ files' = files /\ index' = index /\ pc' = [pc EXCEPT ![c] = "loadLess"]
          /\ "loadLess" \in Labels /\ "loadLess" \notin AtEntry
          /\ disturbed' = (disturbed \/ AnyUser(c) # {})
      BY <1>4 DEF Shift, Goto, Meets, Labels, Dropping, AtEntry, Counting, Waiting, Writing, Making
    <2>2. pc' \in [Children -> Labels] /\ Control'
      BY <1>1, <2>1, GoingOn, Places DEF Dropping
    <2> QED
      BY <1>4, <2>1, <2>2 DEF Shift, TypeInv, diskVars
  <1>5. CASE Less(c)
    <2>1. /\ files' = files /\ index' = index /\ pc' = [pc EXCEPT ![c] = "done"]
          /\ "done" \in Labels /\ "done" \notin AtEntry /\ OneLess(c) \in Int
          /\ disturbed' = (disturbed \/ AnyUser(c) # {})
      BY <1>5 DEF Less, StoreNum, Goto, Meets, Labels, Outside, AtEntry, Counting, Waiting, Writing,
                  Making, childVars, OneLess, TypeInv
    <2>2. pc' \in [Children -> Labels] /\ Control'
      BY <1>1, <2>1, GoingOn, Places
    <2> QED
      BY <1>5, <2>1, <2>2 DEF Less, StoreNum, TypeInv, diskVars, childVars
  <1> QED
    BY <1>2, <1>3, <1>4, <1>5

LEMMA NumLoadTyped ==
    ASSUME TypeInv, Control, NEW c \in Children, NumLoad(c)
    PROVE  TypeInv' /\ Control'
  <1>1. /\ pc[c] \notin {"fifo", "crashed"} /\ request' = request /\ index' = index
        /\ \/ pc[c] = "loadLess" /\ pc' = [pc EXCEPT ![c] = "storeLess"]
           \/ pc[c] = "loadMore" /\ pc' = [pc EXCEPT ![c] = "storeMore"]
    BY DEF NumLoad, LoadNum, At, Goto
  <1>2. {"storeLess", "storeMore"} \subseteq Labels /\ {"storeLess", "storeMore"} \cap AtEntry = {}
    BY DEF Labels, AtEntry, Dropping, Publishing, Counting, Waiting, Writing, Making
  <1>3. CASE pc[c] = "loadLess"
    <2>1. Op(c) \in OpsAt("storeLess")
      BY <1>3, OpAt, Places DEF Dropping
    <2> QED
      BY <1>1, <1>2, <1>3, <2>1, GoingOn DEF NumLoad, LoadNum, TypeInv, tableVars, diskVars
  <1>4. CASE pc[c] = "loadMore"
    <2>1. Op(c) \in OpsAt("storeMore")
      BY <1>4, OpAt, Places DEF Publishing
    <2> QED
      BY <1>1, <1>2, <1>4, <2>1, GoingOn DEF NumLoad, LoadNum, TypeInv, tableVars, diskVars
  <1> QED
    BY <1>1, <1>3, <1>4

(* An upload makes an entry and a file, which is empty, and counts it.     *)
LEMMA UploadTyped ==
    ASSUME TypeInv, Control, CountInv, NothingIsRead, NEW c \in Children,
           Claim(c) \/ Create(c) \/ Fill(c) \/ More(c)
    PROVE  TypeInv' /\ Control' /\ NothingIsRead'
  <1>1. /\ pc[c] \in {"claim", "name", "create", "fill", "storeMore"}
        /\ pc[c] \notin {"fifo", "crashed"}
        /\ request' = request /\ got' = got
    BY DEF Claim, Create, Fill, More, StoreNum, At, childVars
  <1>2. Op(c) = "upload" /\ Op(c) \in Ops /\ request[c] \in Requests[c]
    BY <1>1, OpAt DEF Making, Publishing, Ops, Scanned, Control, ControlInv
  <1>3. request[c].name \in Names
    BY <1>2, RequestsAssumption DEF Op, Scanned
  <1>4. {"name", "create", "fill", "loadMore", "done"} \subseteq Labels
    BY DEF Labels, AtEntry, Making, Publishing, Outside
  <1>5. {"fill", "loadMore", "done"} \cap AtEntry = {} /\ {"name", "create"} \subseteq AtEntry
    BY DEF AtEntry, Counting, Waiting, Writing, Making
  <1>6. \A l \in {"name", "create", "fill", "loadMore", "done"} : Op(c) \in OpsAt(l)
    BY <1>2, Places DEF Making, Publishing
  <1>7. CASE Claim(c)
    <2>1. num_files \in 0..MAX_FILES /\ num_files \in Indices
      BY <1>7, CounterBounded, ListedAssumption DEF Claim, Indices
    <2>2. /\ index' = [index EXCEPT ![c] = num_files] /\ pc' = [pc EXCEPT ![c] = "name"]
      BY <1>7 DEF Claim, Goto, NextSlot
    <2>3. pc' \in [Children -> Labels] /\ index' \in [Children -> 0..MAX_FILES]
      BY <1>4, <2>1, <2>2 DEF TypeInv
    <2>4. TypeInv'
      BY <1>1, <1>7, <2>3 DEF TypeInv, Claim, tableVars, diskVars
    <2>5. ControlInv(c)'
      BY <1>1, <1>2, <1>6, <2>1, <2>2 DEF TypeInv, ControlInv, Op
    <2>6. Control'
      BY <1>1, <2>2, <2>5, OthersStay DEF TypeInv
    <2> QED
      BY <1>1, <1>7, <2>4, <2>6 DEF Claim, diskVars, NothingIsRead
  <1>8. CASE Create(c) /\ pc[c] = "name"
    <2>1. /\ index' = index /\ pc' = [pc EXCEPT ![c] = "create"] /\ UNCHANGED diskVars
          /\ files' = [files EXCEPT ![index[c]].name = request[c].name]
          /\ disturbed' = (disturbed \/ AnyChanger(c) # {})
      BY <1>8 DEF Create, At, Goto, childVars, Meets
    <2>2. pc' \in [Children -> Labels] /\ Control'
      BY <1>1, <1>4, <1>5, <1>6, <1>8, <2>1, GoingOn
    <2>3. index[c] \in Indices /\ files[index[c]] \in EntryType
      BY <1>5, <1>8, EntryIsThere
    <2>4. files' \in [Indices -> EntryType]
      BY <1>3, <2>1, <2>3 DEF TypeInv, EntryType
    <2>5. TypeInv'
      BY <1>8, <2>1, <2>2, <2>4 DEF TypeInv, Create, diskVars, childVars
    <2> QED
      BY <1>1, <2>1, <2>2, <2>5 DEF diskVars, NothingIsRead
  <1>9. CASE Create(c) /\ pc[c] = "create"
    <2> DEFINE f == request[c].name
    <2>1. /\ index' = index /\ pc' = [pc EXCEPT ![c] = "fill"] /\ offset' = offset
          /\ \E fd \in {Foreign, NoFd} : Describe(c, fd)
          /\ disk' = disk \/ disk' = [disk EXCEPT ![f] = IF disk[f] = "absent" THEN "new" ELSE disk[f]]
          /\ \/ contents' = contents
             \/ disk[f] = "listed" /\ contents' = [contents EXCEPT ![f] = << >>]
          /\ disturbed' = (disturbed \/ AnyChanger(c) # {})
      BY <1>3, <1>9 DEF Create, Creates, At, Goto, childVars, diskVars, Meets, TypeInv
    <2>2. pc' \in [Children -> Labels] /\ Control'
      BY <1>1, <1>4, <1>5, <1>6, <1>9, <2>1, GoingOn
    <2>3. index[c] \in Indices /\ files[index[c]] \in EntryType
      BY <1>5, <1>9, EntryIsThere
    <2>4. \A fd \in {Foreign, NoFd} : Entry(files[index[c]].name, fd) \in EntryType
      BY <2>3 DEF EntryType, Entry
    <2>5. files' \in [Indices -> EntryType]
      BY <2>1, <2>3, <2>4 DEF TypeInv, Describe
    <2>6. /\ disk' \in [Names -> {"absent", "listed", "new"}]
          /\ \A g \in Names : disk'[g] = "listed" => g \in Listed
      BY <1>3, <2>1 DEF TypeInv
    <2>7. contents' \in [Listed -> Seq(Pieces)]
      <3>1. contents \in [Listed -> Seq(Pieces)] /\ << >> \in Seq(Pieces)
        BY DEF TypeInv
      <3> QED
        BY <2>1, <3>1
    <2>8. TypeInv'
      BY <1>1, <1>9, <2>1, <2>2, <2>5, <2>6, <2>7 DEF TypeInv, Create, childVars
    <2>9. NothingIsRead'
      <3>1. CASE contents' = contents
        BY <1>1, <2>1, <3>1 DEF NothingIsRead
      <3>2. CASE contents' = [contents EXCEPT ![f] = << >>]
        <4>1. ASSUME NEW g \in Listed PROVE offset'[g] >= Len(contents'[g])
          <5>1. contents'[g] = IF g = f THEN << >> ELSE contents[g]
            BY <3>2 DEF TypeInv
          <5> QED BY <2>1, <5>1 DEF TypeInv, NothingIsRead
        <4> QED BY <1>1, <4>1 DEF NothingIsRead
      <3> QED BY <2>1, <3>1, <3>2
    <2> QED
      BY <2>2, <2>8, <2>9
  <1>10. CASE Fill(c)
    <2>1. index' = index /\ pc' = [pc EXCEPT ![c] = "loadMore"] /\ UNCHANGED diskVars
      BY <1>10 DEF Fill, At, Goto, childVars
    <2>2. pc' \in [Children -> Labels] /\ Control'
      BY <1>1, <1>4, <1>5, <1>6, <2>1, GoingOn
    <2> QED
      BY <1>1, <1>10, <2>1, <2>2 DEF TypeInv, Fill, tableVars, diskVars, childVars, NothingIsRead
  <1>11. CASE More(c)
    <2>1. /\ index' = index /\ pc' = [pc EXCEPT ![c] = "done"] /\ UNCHANGED diskVars
          /\ OneMore(c) \in Int /\ disturbed' = (disturbed \/ AnyChanger(c) # {})
      BY <1>11 DEF More, StoreNum, At, Goto, childVars, Meets, OneMore, TypeInv
    <2>2. pc' \in [Children -> Labels] /\ Control'
      BY <1>1, <1>4, <1>5, <1>6, <2>1, GoingOn
    <2> QED
      BY <1>1, <1>11, <2>1, <2>2 DEF TypeInv, More, StoreNum, diskVars, childVars, NothingIsRead
  <1> QED
    BY <1>1, <1>7, <1>8, <1>9, <1>10, <1>11 DEF Create, At

(* killServer ends everybody where he is.                                  *)
LEMMA KillTyped ==
    ASSUME TypeInv, Control, NEW c \in Children, KillServer(c)
    PROVE  TypeInv' /\ Control'
  <1>1. /\ pc' = [d \in Children |-> "crashed"] /\ request' = request /\ index' = index
        /\ disturbed' = (disturbed \/ AnyChanger(c) # {})
        /\ "crashed" \in Labels /\ "crashed" \notin AtEntry
    BY DEF KillServer, childVars, Meets, Labels, Outside, AtEntry, Counting, Waiting, Writing, Making
  <1>2. TypeInv'
    BY <1>1 DEF KillServer, TypeInv, diskVars, childVars
  <1>3. ASSUME NEW d \in Children
        PROVE  ControlInv(d)'
    <2>1. Op(d) \in OpsAt("crashed")
      BY OpTyped, Places
    <2> QED
      BY <1>1, <2>1 DEF ControlInv, Op
  <1> QED
    BY <1>2, <1>3 DEF Control

LEMMA Typed ==
    ASSUME TypeInv, Control, CountInv, NothingIsRead, [Next]_vars
    PROVE  TypeInv' /\ Control' /\ NothingIsRead'
  <1>1. CASE UNCHANGED vars
    BY <1>1 DEF vars, tableVars, diskVars, childVars, TypeInv, Control, ControlInv, NothingIsRead,
                Op, Line
  <1>2. ASSUME NEW c \in Children, OneStep(c) \/ KillServer(c)
        PROVE  TypeInv' /\ Control' /\ NothingIsRead'
    <2>1. CASE FileStep(c)
      BY <2>1, FileTyped
    <2>2. CASE Claim(c) \/ Create(c) \/ Fill(c) \/ More(c)
      BY <2>2, UploadTyped
    <2>3. CASE \/ Read(c) \/ Close(c) \/ Scan(c) \/ Wait(c) \/ CountStep(c) \/ Unlink(c)
               \/ Shift(c) \/ NumLoad(c) \/ Less(c) \/ KillServer(c)
      <3>1. TypeInv' /\ Control'
        BY <2>3, ReadTyped, CloseTyped, ScanTyped, WaitTyped, CountTyped, DropTyped, NumLoadTyped,
           KillTyped
      <3>2. contents' = contents /\ offset' = offset /\ got' = got
        BY <2>3 DEF Read, Close, Scan, Wait, CountStep, Load, Store, Unlink, Shift, NumLoad,
           LoadNum, Less, StoreNum, KillServer, diskVars, childVars
      <3> QED
        BY <3>1, <3>2 DEF NothingIsRead
    <2> QED
      BY <1>2, <2>1, <2>2, <2>3 DEF OneStep
  <1> QED
    BY <1>1, <1>2, Steps
-----------------------------------------------------------------------------
(* Who has ended asks for nothing more.                                    *)
LEMMA OneEnds ==
    ASSUME TypeInv, NEW c \in Children, OneStep(c)
    PROVE  /\ pc[c] \notin {"done", "crashed"}
           /\ \A d \in Children \ {c} : pc'[d] = pc[d] /\ request'[d] = request[d]
                                        /\ index'[d] = index[d] /\ loaded'[d] = loaded[d]
  <1>1. pc[c] \notin {"done", "crashed"}
    BY DEF OneStep, Read, Close, Scan, Wait, CountStep, Load, Store, FileStep, ReadFile, Fetch,
           AppendText, Rewrite, Misprint, Unlink, Shift, NumLoad, LoadNum, Less, More, StoreNum,
           Claim, Create, Fill, At
  <1>2. pc' = pc \/ \E l : pc' = [pc EXCEPT ![c] = l]
    BY DEF OneStep, Read, Close, Scan, Wait, CountStep, Load, Store, FileStep, ReadFile, Fetch,
           AppendText, Rewrite, Misprint, Unlink, Shift, NumLoad, LoadNum, Less, More, StoreNum,
           Claim, Create, Fill, Goto
  <1>3. request' = request \/ \E r : request' = [request EXCEPT ![c] = r]
    BY DEF OneStep, Read, Close, Scan, Wait, CountStep, Load, Store, FileStep, ReadFile, Fetch,
           AppendText, Rewrite, Misprint, Unlink, Shift, NumLoad, LoadNum, Less, More, StoreNum,
           Claim, Create, Fill, childVars
  <1>4. index' = index \/ \E i : index' = [index EXCEPT ![c] = i]
    BY DEF OneStep, Read, Close, Scan, Wait, CountStep, Load, Store, FileStep, ReadFile, Fetch,
           AppendText, Rewrite, Misprint, Unlink, Shift, NumLoad, LoadNum, Less, More, StoreNum,
           Claim, Create, Fill, childVars
  <1>5. loaded' = loaded \/ \E n : loaded' = [loaded EXCEPT ![c] = n]
    BY DEF OneStep, Read, Close, Scan, Wait, CountStep, Load, Store, FileStep, ReadFile, Fetch,
           AppendText, Rewrite, Misprint, Unlink, Shift, NumLoad, LoadNum, Less, More, StoreNum,
           Claim, Create, Fill, childVars
  <1>6. \A d \in Children \ {c} : pc'[d] = pc[d]
    BY <1>2 DEF TypeInv
  <1>7. \A d \in Children \ {c} : request'[d] = request[d]
    BY <1>3 DEF TypeInv
  <1>8. \A d \in Children \ {c} : index'[d] = index[d]
    BY <1>4 DEF TypeInv
  <1>9. \A d \in Children \ {c} : loaded'[d] = loaded[d]
    BY <1>5 DEF TypeInv
  <1> QED
    BY <1>1, <1>6, <1>7, <1>8, <1>9

LEMMA LessToCome ==
    ASSUME NEW op, Ended \subseteq Ended'
    PROVE  /\ ToCome(op) \in Nat /\ ToCome(op)' \in Nat /\ ToCome(op)' <= ToCome(op)
           /\ (\E c \in Asking(op) : c \notin Ended /\ c \in Ended') => ToCome(op)' <= ToCome(op) - 1
  <1> DEFINE A == Asking(op) \ Ended
             B == Asking(op) \ Ended'
  <1>1. IsFiniteSet(A) /\ ToCome(op) = Cardinality(A) /\ ToCome(op) \in Nat
    BY ToComeNatural DEF ToCome
  <1>2. B \subseteq A /\ ToCome(op)' = Cardinality(B)
    BY DEF ToCome, Asking
  <1>3. IsFiniteSet(B) /\ Cardinality(B) <= Cardinality(A) /\ (Cardinality(A) = Cardinality(B) => A = B)
    <2> HIDE DEF A, B
    <2> QED
      BY <1>1, <1>2, FS_Subset
  <1>4. Cardinality(B) \in Nat
    <2> HIDE DEF A, B
    <2> QED
      BY <1>3, FS_CardinalityType
  <1>5. (\E c \in Asking(op) : c \notin Ended /\ c \in Ended') => A # B
    OBVIOUS
  <1> HIDE DEF A, B
  <1> QED
    BY <1>1, <1>2, <1>3, <1>4, <1>5

(* Every store of the counter is one of the changes that were to come.     *)
LEMMA CountKept ==
    ASSUME TypeInv, Control, CountInv, [Next]_vars
    PROVE  CountInv'
  <1>1. CASE UNCHANGED vars
    BY <1>1 DEF vars, tableVars, childVars, CountInv, Bounded, ToCome, Ended, Asking
  <1>2. ASSUME NEW c \in Children, OneStep(c)
        PROVE  CountInv'
    <2>1. /\ pc[c] \notin {"done", "crashed"}
          /\ \A d \in Children \ {c} : pc'[d] = pc[d] /\ loaded'[d] = loaded[d]
      BY <1>2, OneEnds
    <2>2. Ended \subseteq Ended'
      BY <2>1 DEF Ended
    <2> DEFINE D == ToCome("download")
               U == ToCome("upload")
               DP == ToCome("download")'
               UP == ToCome("upload")'
    <2>3. /\ D \in Nat /\ DP \in Nat /\ DP <= D
          /\ (c \in Asking("download") /\ c \notin Ended /\ c \in Ended') => DP <= D - 1
      BY <2>2, LessToCome
    <2>4. /\ U \in Nat /\ UP \in Nat /\ UP <= U
          /\ (c \in Asking("upload") /\ c \notin Ended /\ c \in Ended') => UP <= U - 1
      BY <2>2, LessToCome
    <2>5. /\ num_files \in Int /\ D <= num_files /\ num_files + U <= MAX_FILES
          /\ \A d \in Children : pc[d] \in {"storeMore", "storeLess"} =>
                loaded[d] \in Int /\ D <= loaded[d] /\ loaded[d] + U <= MAX_FILES
      BY DEF CountInv, Bounded, TypeInv
    <2> HIDE DEF D, U, DP, UP
    <2>6. CountInv' = (/\ DP <= num_files' /\ num_files' + UP <= MAX_FILES
                       /\ \A d \in Children : pc'[d] \in {"storeMore", "storeLess"} =>
                            DP <= loaded'[d] /\ loaded'[d] + UP <= MAX_FILES)
      BY DEF CountInv, Bounded, DP, UP
    <2>7. \A d \in Children \ {c} : pc'[d] \in {"storeMore", "storeLess"} =>
             DP <= loaded'[d] /\ loaded'[d] + UP <= MAX_FILES
      BY <2>1, <2>3, <2>4, <2>5, ListedAssumption
    <2>8. CASE NumLoad(c)
      <3>1. loaded'[c] = num_files /\ num_files' = num_files
        BY <2>8 DEF NumLoad, LoadNum, TypeInv, tableVars
      <3> QED
        BY <2>3, <2>4, <2>5, <2>6, <2>7, <3>1, ListedAssumption
    <2>9. CASE Less(c)
      <3>1. num_files' = loaded[c] - 1 /\ pc[c] = "storeLess" /\ pc'[c] = "done" /\ Op(c) = "download"
        BY <2>9, OpAt DEF Less, StoreNum, OneLess, Goto, At, TypeInv, Dropping
      <3>2. c \in Asking("download") /\ c \notin Ended /\ c \in Ended'
        BY <3>1 DEF Asking, Ended, Control, ControlInv, Op
      <3> QED
        BY <2>3, <2>4, <2>5, <2>6, <2>7, <3>1, <3>2, ListedAssumption
    <2>10. CASE More(c)
      <3>1. num_files' = loaded[c] + 1 /\ pc[c] = "storeMore" /\ pc'[c] = "done" /\ Op(c) = "upload"
        BY <2>10, OpAt DEF More, StoreNum, OneMore, Goto, At, TypeInv, Publishing
      <3>2. c \in Asking("upload") /\ c \notin Ended /\ c \in Ended'
        BY <3>1 DEF Asking, Ended, Control, ControlInv, Op
      <3> QED
        BY <2>3, <2>4, <2>5, <2>6, <2>7, <3>1, <3>2, ListedAssumption
    <2>11. CASE \/ Read(c) \/ Close(c) \/ Scan(c) \/ Wait(c) \/ CountStep(c) \/ FileStep(c)
                \/ Unlink(c) \/ Shift(c) \/ Claim(c) \/ Create(c) \/ Fill(c)
      <3>1. num_files' = num_files
        BY <2>11 DEF Read, Close, Scan, Wait, CountStep, Load, Store, FileStep, ReadFile, Fetch,
           AppendText, Rewrite, Misprint, Unlink, Shift, Claim, Create, Fill, tableVars
      <3>2. pc'[c] \notin {"storeMore", "storeLess"}
        BY <2>11, OpTyped, OpAt DEF Read, Close, Scan, Wait, CountStep, Load, Store, FileStep, ReadFile, Fetch,
           AppendText, Rewrite, Misprint, Unlink, Shift, Claim, Create, Fill, Goto, At, TypeInv,
           WhenFound, Body, Counting
      <3> QED
        BY <2>3, <2>4, <2>5, <2>6, <2>7, <3>1, <3>2, ListedAssumption
    <2> QED
      BY <1>2, <2>8, <2>9, <2>10, <2>11 DEF OneStep
  <1>3. ASSUME NEW c \in Children, KillServer(c)
        PROVE  CountInv'
    <2>1. num_files' = num_files /\ pc' = [d \in Children |-> "crashed"]
      BY <1>3 DEF KillServer
    <2>2. Ended \subseteq Ended'
      BY <2>1 DEF Ended
    <2>3. /\ ToCome("download") \in Nat /\ ToCome("download")' \in Nat
          /\ ToCome("download")' <= ToCome("download")
      BY <2>2, LessToCome
    <2>4. /\ ToCome("upload") \in Nat /\ ToCome("upload")' \in Nat
          /\ ToCome("upload")' <= ToCome("upload")
      BY <2>2, LessToCome
    <2> QED
      BY <2>1, <2>3, <2>4, ListedAssumption DEF CountInv, Bounded, TypeInv
  <1> QED
    BY <1>1, <1>2, <1>3, Steps
-----------------------------------------------------------------------------
(* At the start the table is the directory, in some order, each name once. *)
LEMMA EachListedOnce ==
    ASSUME Init
    PROVE  /\ num_files \in Nat /\ num_files <= MAX_FILES /\ num_files = Cardinality(Listed)
           /\ files \in [Indices -> EntryType]
           /\ \A i \in InTable : files[i].name \in Listed
           /\ \A f \in Listed : Stands(InTable, f)
           /\ \A i, j \in InTable : files[i].name = files[j].name => i = j
  <1>1. IsFiniteSet(Listed)
    BY ListedAssumption, FS_Subset
  <1>2. /\ num_files \in Nat /\ num_files <= MAX_FILES /\ num_files = Cardinality(Listed)
    BY <1>1, ListedAssumption, FS_CardinalityType DEF Init
  <1>3. PICK place \in [0..(num_files - 1) -> Listed] :
             /\ \A f \in Listed : \E i \in DOMAIN place : place[i] = f
             /\ files = [i \in Indices |-> IF i \in DOMAIN place THEN Entry(place[i], place[i]) ELSE NoEntry]
    BY DEF Init
  <1> DEFINE S == 0..(num_files - 1)
  <1>4. IsFiniteSet(S) /\ Cardinality(S) = num_files
    BY <1>2, FS_Interval
  <1>5. place \in Surjection(S, Listed)
    BY <1>3 DEF Surjection
  <1>6. place \in Injection(S, Listed)
    BY <1>2, <1>4, <1>5, FS_SurjSameCardinalityImpliesInj
  <1>7. \A i, j \in S : place[i] = place[j] => i = j
    BY <1>6 DEF Injection, IsInjective
  <1>8. InTable = S /\ S \subseteq Indices
    BY <1>2, ListedAssumption DEF InTable, Indices
  <1>9. \A i \in S : files[i].name = place[i] /\ files[i].fd = place[i]
    BY <1>3, <1>8 DEF Entry
  <1>10. files \in [Indices -> EntryType]
    <2>1. \A f \in Listed : Entry(f, f) \in EntryType
      BY ListedAssumption DEF Entry, EntryType
    <2>2. NoEntry \in EntryType
      BY DEF NoEntry, Entry, EntryType
    <2> QED
      BY <1>3, <2>1, <2>2
  <1>11. \A f \in Listed : Stands(InTable, f)
    <2> SUFFICES ASSUME NEW f \in Listed PROVE Stands(InTable, f)
      OBVIOUS
    <2>1. PICK i \in S : place[i] = f
      BY <1>3
    <2>2. i \in InTable /\ files[i].name = f /\ files[i].fd = f /\ f # NoFd
      BY <1>8, <1>9, <2>1, ListedAssumption
    <2> QED
      BY <2>2 DEF Stands
  <1>12. /\ \A i \in InTable : files[i].name \in Listed
         /\ \A i, j \in InTable : files[i].name = files[j].name => i = j
    <2>1. \A i \in S : place[i] \in Listed
      BY <1>3
    <2> HIDE DEF S
    <2> QED
      BY <1>7, <1>8, <1>9, <2>1
  <1> QED
    BY <1>2, <1>10, <1>11, <1>12

LEMMA Begins ==
    ASSUME Capacity, Init
    PROVE  IInv
  <1>1. /\ disk = [f \in Names |-> IF f \in Listed THEN "listed" ELSE "absent"]
        /\ contents = [f \in Listed |-> <<Old>>] /\ offset = [f \in Listed |-> 1]
        /\ pc = [c \in Children |-> "fifo"] /\ request = [c \in Children |-> Idle]
        /\ index = [c \in Children |-> 0] /\ loaded = [c \in Children |-> 0]
        /\ got = [c \in Children |-> 0] /\ disturbed = FALSE
    BY DEF Init, EndOfFile
  <1>2. TypeInv
    <2>1. Idle \in Request
      BY DEF Idle, Request
    <2>2. <<Old>> \in Seq(Pieces)
      BY DEF Pieces
    <2>3. "fifo" \in Labels
      BY DEF Labels, Outside
    <2>4. files \in [Indices -> EntryType] /\ num_files \in Int /\ 0 \in 0..MAX_FILES
      BY EachListedOnce, ListedAssumption
    <2>5. contents \in [Listed -> Seq(Pieces)] /\ offset \in [Listed -> Nat]
      BY <1>1, <2>2
    <2>6. request \in [Children -> Request] /\ pc \in [Children -> Labels]
      BY <1>1, <2>1, <2>3
    <2>7. disk \in [Names -> {"absent", "listed", "new"}]
          /\ \A f \in Names : disk[f] = "listed" => f \in Listed
      BY <1>1
    <2>8. /\ index \in [Children -> 0..MAX_FILES] /\ loaded \in [Children -> Int]
          /\ got \in [Children -> Nat] /\ disturbed \in BOOLEAN
      <3>1. /\ index = [c \in Children |-> 0] /\ loaded = [c \in Children |-> 0]
            /\ got = [c \in Children |-> 0] /\ disturbed = FALSE
            /\ 0 \in 0..MAX_FILES
        BY <1>1, <2>4
      <3>2. index \in [Children -> 0..MAX_FILES]
        BY <3>1
      <3>3. loaded \in [Children -> Int] /\ got \in [Children -> Nat]
        BY <3>1
      <3> QED
        BY <3>1, <3>2, <3>3
    <2> QED
      BY <2>4, <2>5, <2>6, <2>7, <2>8 DEF TypeInv
  <1>3. Control
    BY <1>1 DEF Control, ControlInv, AtEntry, Counting, Waiting, Writing, Making, OpsAt, Dropping,
                Publishing, Op, Idle, Ops
  <1>4. CountInv
    <2>1. Ended = {}
      BY <1>1 DEF Ended
    <2>2. ToCome("download") = Cardinality(Asking("download"))
          /\ ToCome("upload") = Cardinality(Asking("upload"))
      BY <2>1 DEF ToCome
    <2> QED
      BY <1>1, <2>2, EachListedOnce DEF CountInv, Bounded, Capacity
  <1>5. NothingIsRead
    BY <1>1 DEF NothingIsRead
  <1>6. \A c \in Children : KnowsInv(c)
    BY <1>1 DEF KnowsInv, At, Waiting, Counting, Making, Publishing
  <1>7. Truth
    <2>1. Standing = InTable
      BY <1>1 DEF Standing, Dropping, Publishing
    <2>2. \A f : f \in OnDisk <=> f \in Listed
      BY <1>1, ListedAssumption DEF OnDisk
    <2>3. \A f : Stands(InTable, f) <=> f \in Listed
      BY EachListedOnce DEF Stands
    <2>4. \A i, j \in InTable : files[i].name = files[j].name => i = j
      BY EachListedOnce
    <2> QED
      BY <2>1, <2>2, <2>3, <2>4, Zenon DEF Truth
  <1> QED
    BY <1>2, <1>3, <1>4, <1>5, <1>6, <1>7 DEF IInv, TableInv
-----------------------------------------------------------------------------
(* The table, as long as no change of it meets another use.                *)
LEMMA TableOfStep ==
    ASSUME TypeInv, Control, CountInv, TableInv, ~disturbed',
           NEW c \in Children, OneStep(c) \/ KillServer(c)
    PROVE  /\ ~disturbed /\ (\A d \in Children : KnowsInv(d)) /\ (OneChanges => Truth)
           /\ Shift(c) \/ Less(c) => AnyUser(c) = {}
           /\ Create(c) \/ More(c) \/ KillServer(c) => AnyChanger(c) = {}
  <1>1. CASE \/ Read(c) \/ Close(c) \/ Scan(c) \/ Wait(c) \/ FileStep(c) \/ Unlink(c)
             \/ NumLoad(c) \/ Claim(c) \/ Fill(c)
             \/ Load(c, "load", "increment") \/ Load(c, "leave", "decrement")
    <2>1. disturbed' = disturbed
      BY <1>1 DEF Read, Close, Scan, Wait, Load, FileStep, ReadFile, Fetch, AppendText, Rewrite,
         Misprint, Unlink, NumLoad, LoadNum, Claim, Fill, tableVars
    <2>2. ~(Shift(c) \/ Less(c) \/ Create(c) \/ More(c) \/ KillServer(c))
      BY <1>1, OpAt DEF Read, Close, Scan, Wait, Load, FileStep, ReadFile, Fetch, AppendText,
         Rewrite, Misprint, Unlink, NumLoad, LoadNum, Claim, Fill, Shift, Less, Create, More,
         StoreNum, KillServer, At
    <2> QED
      BY <2>1, <2>2 DEF TableInv
  <1>2. CASE \/ Store(c, "increment", OneMore(c), Body(c))
             \/ Store(c, "decrement", OneLess(c), IF Op(c) = "download" THEN "unlink" ELSE "done")
    <2>1. disturbed => disturbed'
      BY <1>2 DEF Store, TypeInv
    <2>2. ~(Shift(c) \/ Less(c) \/ Create(c) \/ More(c) \/ KillServer(c))
      BY <1>2 DEF Store, Shift, Less, Create, More, StoreNum, KillServer, At
    <2> QED
      BY <2>1, <2>2 DEF TableInv
  <1>3. CASE Shift(c) \/ Less(c)
    <2>1. disturbed' = (disturbed \/ AnyUser(c) # {})
      BY <1>3 DEF Shift, Less, StoreNum, Meets
    <2>2. ~(Create(c) \/ More(c) \/ KillServer(c))
      BY <1>3 DEF Shift, Less, Create, More, StoreNum, KillServer, At
    <2>3. ~disturbed /\ AnyUser(c) = {}
      BY <2>1
    <2> QED
      BY <2>2, <2>3 DEF TableInv
  <1>4. CASE Create(c) \/ More(c) \/ KillServer(c)
    <2>1. disturbed' = (disturbed \/ AnyChanger(c) # {})
      BY <1>4 DEF Create, More, StoreNum, Meets, KillServer
    <2>2. ~(Shift(c) \/ Less(c))
      BY <1>4 DEF Shift, Less, Create, More, StoreNum, KillServer, At
    <2>3. ~disturbed /\ AnyChanger(c) = {}
      BY <2>1
    <2> QED
      BY <2>2, <2>3 DEF TableInv
  <1> QED
    BY <1>1, <1>2, <1>3, <1>4 DEF OneStep, CountStep

(* What a child knows does not depend on the steps of another: they change *)
(* no entry before the end of the table while it scans, and none at all    *)
(* while it changes the table itself.                                      *)
LEMMA OthersKnow ==
    ASSUME TypeInv, Control, NEW d \in Children, KnowsInv(d),
           pc'[d] = pc[d], request'[d] = request[d], index'[d] = index[d], loaded'[d] = loaded[d],
           \/ num_files' = num_files /\ \A i \in Indices : files'[i].name = files[i].name
           \/ ~Using(d)
           \/ /\ ~Changing(d) /\ num_files \in Int /\ num_files' \in Int /\ num_files <= num_files'
              /\ \A i \in InTable : files'[i].name = files[i].name
    PROVE  KnowsInv(d)'
  <1>1. CASE num_files' = num_files /\ \A i \in Indices : files'[i].name = files[i].name
    <2>1. InTable' = InTable /\ \A i \in InTable : i \in Indices
      BY <1>1 DEF InTable
    <2>2. Op(d) = "download" /\ pc[d] \in Waiting \cup Counting \cup {"fetch", "unlink"}
          => index[d] \in Indices
      BY EntryIsThere DEF AtEntry
    <2> QED
      BY <1>1, <2>1, <2>2 DEF KnowsInv, Has, At, Op
  <1>2. CASE ~Using(d)
    <2>1. pc'[d] \in Outside
      BY <1>2 DEF Using, Outside
    <2> QED
      BY <2>1 DEF KnowsInv, At, Waiting, Counting, Making, Publishing, Outside
  <1>3. CASE /\ ~Changing(d) /\ num_files \in Int /\ num_files' \in Int /\ num_files <= num_files'
             /\ \A i \in InTable : files'[i].name = files[i].name
    <2>1. CASE pc[d] = "scan"
      <3>1. index[d] <= num_files /\ index[d] \in Int
            /\ \A i \in InTable : i < index[d] => files[i].name # request[d].name
        BY <2>1 DEF KnowsInv, At, TypeInv
      <3>2. \A i \in InTable' : i < index[d] => i \in InTable
        BY <1>3, <3>1 DEF InTable, Indices
      <3> QED
        BY <1>3, <2>1, <3>1, <3>2 DEF KnowsInv, At, Waiting, Counting, Making, Publishing
    <2>2. CASE pc[d] # "scan" /\ Using(d)
      <3>1. Op(d) \notin {"upload", "download"}
        BY <1>3, <2>2 DEF Changing, Changes, At
      <3>2. pc[d] \notin {"claim", "shift", "fetch", "unlink"} \cup Dropping \cup Making \cup Publishing
        BY <3>1, OpAt DEF Dropping
      <3>3. pc'[d] \notin {"scan", "shift", "loadLess", "storeLess", "storeMore", "claim", "create"}
            /\ pc'[d] \notin Making \cup Publishing /\ Op(d)' # "download"
        BY <2>2, <3>1, <3>2 DEF Dropping, Publishing, Making, Op
      <3> QED
        BY <3>3 DEF KnowsInv, At
    <2>3. CASE ~Using(d)
      BY <2>3, <1>2
    <2> QED
      BY <2>1, <2>2, <2>3
  <1> QED
    BY <1>1, <1>2, <1>3

(* What the child that acts knows afterwards.                              *)
LEMMA ScanKnows ==
    ASSUME TypeInv, Control, CountInv, NEW c \in Children, KnowsInv(c), Read(c) \/ Scan(c)
    PROVE  KnowsInv(c)'
  <1>1. num_files \in 0..MAX_FILES /\ num_files' = num_files /\ files' = files /\ InTable' = InTable
    BY CounterBounded DEF Read, Scan, tableVars, InTable
  <1>2. CASE Read(c)
    <2>1. index'[c] = 0
      BY <1>2 DEF Read, At, Control, ControlInv
    <2>2. pc'[c] \in {"scan", "kill", "close"}
      BY <1>2 DEF Read, Goto, TypeInv
    <2>3. \A i \in InTable : i >= 0
      BY ListedAssumption DEF InTable, Indices
    <2> QED
      BY <1>1, <2>1, <2>2, <2>3 DEF KnowsInv, At, Waiting, Counting, Making, Publishing, InTable, Indices
  <1>3. CASE Scan(c)
    <2>1. /\ pc[c] = "scan" /\ request' = request /\ index[c] \in 0..MAX_FILES
          /\ index[c] <= num_files
          /\ \A i \in InTable : i < index[c] => files[i].name # request[c].name
          /\ Op(c) \in Scanned
      BY <1>3 DEF Scan, At, TypeInv, KnowsInv, Control, ControlInv, OpsAt
    <2>2. \A i \in InTable : i \in Int /\ i < num_files
      BY DEF InTable, Indices
    <2>3. CASE index[c] >= num_files
      <3>1. pc'[c] \in {"claim", "done"} /\ ~Has(InTable, request[c].name)
        BY <1>1, <1>3, <2>1, <2>2, <2>3 DEF Scan, Goto, TypeInv, Has
      <3> QED
        BY <1>1, <2>1, <3>1 DEF KnowsInv, At, Waiting, Counting, Making, Publishing, Has
    <2>4. CASE index[c] < num_files /\ files[index[c]].name = request[c].name
      <3>1. pc' = [pc EXCEPT ![c] = WhenFound(Op(c))] /\ index' = index
        BY <1>1, <1>3, <2>1, <2>4 DEF Scan, Goto
      <3>2. pc'[c] \in {"load", "done", "waitReaders"}
        BY <3>1 DEF WhenFound, TypeInv
      <3> QED
        BY <1>1, <2>1, <2>4, <3>1, <3>2 DEF KnowsInv, At, Waiting, Counting, Making, Publishing
    <2>5. CASE index[c] < num_files /\ files[index[c]].name # request[c].name
      <3>1. pc' = pc /\ index'[c] = index[c] + 1
        BY <1>1, <1>3, <2>1, <2>5 DEF Scan, TypeInv
      <3>2. \A i \in InTable : i < index[c] + 1 => files[i].name # request[c].name
        BY <2>1, <2>2, <2>5
      <3> QED
        BY <1>1, <2>1, <2>5, <3>1, <3>2 DEF KnowsInv, At, Waiting, Counting, Making, Publishing
    <2> QED
      BY <1>1, <2>1, <2>3, <2>4, <2>5
  <1> QED
    BY <1>2, <1>3

(* The entry a download has found stays where it is until it shifts it.    *)
LEMMA UserKnows ==
    ASSUME TypeInv, Control, NEW c \in Children, KnowsInv(c),
           Close(c) \/ Wait(c) \/ CountStep(c) \/ FileStep(c) \/ Unlink(c)
    PROVE  KnowsInv(c)'
  <1> DEFINE Held == Waiting \cup Counting \cup {"fetch", "unlink"}
  <1>1. /\ request' = request /\ index' = index /\ num_files' = num_files
        /\ InTable' = InTable
    BY DEF Close, Wait, CountStep, Load, Store, FileStep, ReadFile, Fetch, AppendText,
       Rewrite, Misprint, Unlink, tableVars, childVars, InTable
  <1>2. CASE Close(c)
    <2>1. pc'[c] = "done"
      BY <1>2 DEF Close, Goto, TypeInv
    <2> QED
      BY <2>1 DEF KnowsInv, At, Waiting, Counting, Making, Publishing
  <1>3. CASE Op(c) # "download" /\ ~Close(c)
    <2>1. pc'[c] \in Labels \ ({"scan", "claim"} \cup Dropping \cup Making \cup Publishing)
      <3>1. CASE Wait(c)
        BY <3>1 DEF Wait, Goto, TypeInv, Labels, AtEntry, Waiting, Counting, Dropping, Making, Publishing
      <3>2. CASE CountStep(c)
        BY <3>2, <1>3, OpTyped, OpAt DEF CountStep, Load, Store, Goto, At, TypeInv, Body, Labels, Outside, AtEntry,
           Writing, Counting, Dropping, Making, Publishing
      <3>3. CASE FileStep(c)
        BY <3>3 DEF FileStep, ReadFile, Fetch, AppendText, Rewrite, Misprint, Goto, TypeInv, Labels,
           Outside, AtEntry, Writing, Counting, Dropping, Making, Publishing
      <3>4. ~Unlink(c)
        BY <1>3, OpAt DEF Unlink, At
      <3> QED
        BY <1>3, <3>1, <3>2, <3>3, <3>4
    <2>2. Op(c)' # "download"
      BY <1>1, <1>3 DEF Op
    <2> QED
      BY <2>1, <2>2 DEF KnowsInv, At, Dropping, Making, Publishing
  <1>4. CASE Op(c) = "download" /\ ~Close(c)
    <2>1. pc[c] \in Held /\ pc'[c] \in Held \cup {"shift"}
      <3>1. CASE Wait(c)
        BY <3>1 DEF Wait, At, Goto, TypeInv, Waiting, Counting
      <3>2. CASE CountStep(c)
        BY <3>2, <1>4 DEF CountStep, Load, Store, Goto, At, TypeInv, Body, Counting
      <3>3. CASE Fetch(c)
        BY <3>3 DEF Fetch, Goto, At, TypeInv, Counting
      <3>4. CASE Unlink(c)
        BY <3>4 DEF Unlink, Goto, At, TypeInv
      <3>5. ~(ReadFile(c) \/ AppendText(c) \/ Rewrite(c) \/ Misprint(c))
        BY <1>4, OpAt DEF ReadFile, AppendText, Rewrite, Misprint, At, Writing
      <3> QED
        BY <1>4, <3>1, <3>2, <3>3, <3>4, <3>5 DEF FileStep
    <2>2. index[c] < num_files /\ files[index[c]].name = request[c].name
      BY <1>4, <2>1 DEF KnowsInv
    <2>3. files'[index[c]].name = files[index[c]].name
      <3>1. CASE \E n : files' = [files EXCEPT ![index[c]].users[Role(c)] = n]
        <4>1. index[c] \in Indices /\ files[index[c]] \in EntryType
          BY <2>1, EntryIsThere DEF AtEntry
        <4> QED
          BY <3>1, <4>1 DEF TypeInv, EntryType
      <3>2. CASE files' = files
        BY <3>2
      <3> QED
        BY <1>4, <3>1, <3>2 DEF Wait, CountStep, Load, Store, FileStep, ReadFile, Fetch, AppendText,
           Rewrite, Misprint, Unlink, tableVars
    <2> QED
      BY <1>1, <2>1, <2>2, <2>3 DEF KnowsInv, At, Waiting, Counting, Making, Publishing
  <1> QED
    BY <1>2, <1>3, <1>4

LEMMA ChangerKnows ==
    ASSUME TypeInv, Control, CountInv, NEW c \in Children, KnowsInv(c),
           \/ Shift(c) \/ NumLoad(c) \/ Less(c) \/ More(c) \/ Claim(c) \/ Create(c) \/ Fill(c)
    PROVE  KnowsInv(c)'
  <1>1. request' = request /\ num_files \in Int
    BY DEF Shift, NumLoad, LoadNum, Less, More, StoreNum, Claim, Create, Fill, childVars, TypeInv
  <1>2. CASE Shift(c)
    <2>1. pc[c] = "shift" /\ index[c] < num_files /\ index[c] \in Int /\ num_files' = num_files
      BY <1>2 DEF Shift, At, KnowsInv, TypeInv
    <2>2. \/ pc' = pc /\ index'[c] = index[c] + 1 /\ index[c] + 1 < num_files
          \/ pc'[c] = "loadLess" /\ index' = index /\ index[c] = num_files - 1
      <3>1. CASE ShiftsOn(index[c])
        BY <1>1, <1>2, <2>1, <3>1 DEF Shift, ShiftsOn, TypeInv
      <3>2. CASE ~ShiftsOn(index[c])
        <4>1. pc' = [pc EXCEPT ![c] = "loadLess"] /\ index' = index
          BY <1>2, <3>2 DEF Shift, Goto
        <4> QED
          BY <1>1, <2>1, <3>2, <4>1 DEF ShiftsOn, TypeInv
      <3> QED
        BY <3>1, <3>2
    <2> QED
      BY <1>1, <2>1, <2>2 DEF KnowsInv, At, Waiting, Counting, Making, Publishing
  <1>3. CASE NumLoad(c)
    <2>1. /\ num_files' = num_files /\ files' = files /\ index' = index /\ loaded'[c] = num_files
          /\ InTable' = InTable
      BY <1>3 DEF NumLoad, LoadNum, tableVars, TypeInv, InTable
    <2>2. \/ pc[c] = "loadLess" /\ pc'[c] = "storeLess"
          \/ pc[c] = "loadMore" /\ pc'[c] = "storeMore"
      BY <1>3 DEF NumLoad, LoadNum, At, Goto, TypeInv
    <2> QED
      BY <1>1, <2>1, <2>2 DEF KnowsInv, At, Waiting, Counting, Making, Publishing, Has
  <1>4. CASE Less(c) \/ More(c)
    <2>1. pc'[c] = "done"
      BY <1>4 DEF Less, More, StoreNum, Goto, TypeInv
    <2> QED
      BY <2>1 DEF KnowsInv, At, Waiting, Counting, Making, Publishing
  <1>5. CASE Claim(c)
    <2>1. /\ pc[c] = "claim" /\ pc'[c] = "name" /\ index'[c] = num_files
          /\ num_files' = num_files /\ files' = files /\ InTable' = InTable
          /\ ~Has(InTable, request[c].name)
      BY <1>5 DEF Claim, At, Goto, NextSlot, tableVars, InTable, TypeInv, KnowsInv
    <2> QED
      BY <1>1, <2>1 DEF KnowsInv, At, Waiting, Counting, Making, Publishing, Has
  <1>6. CASE Create(c)
    <2>1. /\ pc[c] \in Making /\ index' = index /\ num_files' = num_files /\ InTable' = InTable
          /\ index[c] = num_files /\ ~Has(InTable, request[c].name)
      BY <1>6 DEF Create, At, Making, childVars, InTable, KnowsInv
    <2>2. index[c] \in Indices /\ files[index[c]] \in EntryType
      BY <2>1, EntryIsThere DEF AtEntry
    <2>3. \A i \in InTable : i \in Indices /\ i # index[c]
      BY <1>1, <2>1 DEF InTable, Indices
    <2>4. CASE pc[c] = "name"
      <3>1. pc'[c] = "create" /\ files' = [files EXCEPT ![index[c]].name = request[c].name]
        BY <1>6, <2>4 DEF Create, At, Goto, TypeInv
      <3>2. files'[index[c]].name = request[c].name /\ \A i \in InTable : files'[i] = files[i]
        BY <2>2, <2>3, <3>1 DEF TypeInv, EntryType
      <3> QED
        BY <1>1, <2>1, <2>2, <3>1, <3>2 DEF KnowsInv, At, Waiting, Counting, Making, Publishing, Has
    <2>5. CASE pc[c] = "create"
      <3>1. pc'[c] = "fill" /\ \E fd : Describe(c, fd)
        BY <1>6, <2>5 DEF Create, At, Goto, TypeInv
      <3>2. /\ files'[index[c]].name = files[index[c]].name
            /\ \A i \in InTable : files'[i] = files[i]
        BY <2>2, <2>3, <3>1 DEF TypeInv, Entry, Describe
      <3>3. files[index[c]].name = request[c].name
        BY <2>5 DEF KnowsInv
      <3> QED
        BY <1>1, <2>1, <2>2, <3>1, <3>2, <3>3 DEF KnowsInv, At, Waiting, Counting, Making, Publishing, Has
    <2> QED
      BY <2>1, <2>4, <2>5 DEF Making
  <1>7. CASE Fill(c)
    <2>1. /\ pc[c] = "fill" /\ pc'[c] = "loadMore" /\ index' = index /\ files' = files
          /\ num_files' = num_files /\ InTable' = InTable
      BY <1>7 DEF Fill, At, Goto, tableVars, childVars, InTable, TypeInv
    <2> QED
      BY <1>1, <2>1 DEF KnowsInv, At, Waiting, Counting, Making, Publishing, Has
  <1> QED
    BY <1>2, <1>3, <1>4, <1>5, <1>6, <1>7

LEMMA KnowsKept ==
    ASSUME TypeInv, Control, CountInv, TableInv, ~disturbed',
           NEW c \in Children, OneStep(c) \/ KillServer(c), NEW d \in Children
    PROVE  KnowsInv(d)'
  <1>1. /\ KnowsInv(c) /\ KnowsInv(d)
        /\ Shift(c) \/ Less(c) => AnyUser(c) = {}
        /\ Create(c) \/ More(c) \/ KillServer(c) => AnyChanger(c) = {}
    BY TableOfStep
  <1>2. CASE KillServer(c)
    <2>1. pc'[d] = "crashed"
      BY <1>2 DEF KillServer
    <2> QED
      BY <2>1 DEF KnowsInv, At, Waiting, Counting, Making, Publishing
  <1>3. CASE OneStep(c) /\ d = c
    BY <1>1, <1>3, ScanKnows, UserKnows, ChangerKnows DEF OneStep
  <1>4. CASE OneStep(c) /\ d # c
    <2>1. pc'[d] = pc[d] /\ request'[d] = request[d] /\ index'[d] = index[d] /\ loaded'[d] = loaded[d]
      BY <1>4, OneEnds
    <2>2. CASE Shift(c) \/ Less(c)
      <3>1. ~Using(d)
        BY <1>1, <1>4, <2>2 DEF AnyUser
      <3> QED
        BY <1>1, <2>1, <3>1, OthersKnow
    <2>3. CASE More(c)
      <3>1. ~Changing(d)
        BY <1>1, <1>4, <2>3 DEF AnyChanger
      <3>2. num_files' = num_files + 1 /\ files' = files /\ num_files \in Int
        BY <1>1, <2>3 DEF More, StoreNum, OneMore, At, KnowsInv, TypeInv
      <3> QED
        BY <1>1, <2>1, <3>1, <3>2, OthersKnow
    <2>4. CASE Create(c)
      <3>1. ~Changing(d)
        BY <1>1, <1>4, <2>4 DEF AnyChanger
      <3>2. pc[c] \in Making /\ index[c] = num_files /\ num_files' = num_files /\ num_files \in Int
        BY <1>1, <2>4 DEF Create, At, KnowsInv, Making, TypeInv
      <3>3. \E e : files' = [files EXCEPT ![index[c]] = e]
        BY <2>4 DEF Create, Describe, At
      <3>4. \A i \in InTable : files'[i].name = files[i].name
        BY <3>2, <3>3 DEF InTable, Indices, TypeInv
      <3> QED
        BY <1>1, <2>1, <3>1, <3>2, <3>4, OthersKnow
    <2>5. CASE CountStep(c)
      <3>1. index[c] \in Indices /\ files[index[c]] \in EntryType
        BY <2>5, EntryIsThere DEF CountStep, Load, Store, At, AtEntry, Counting
      <3>2. files' = files \/ \E n : files' = [files EXCEPT ![index[c]].users[Role(c)] = n]
        BY <2>5 DEF CountStep, Load, Store, tableVars
      <3>3. num_files' = num_files /\ \A i \in Indices : files'[i].name = files[i].name
        <4>1. num_files' = num_files
          BY <2>5 DEF CountStep, Load, Store, tableVars
        <4>2. CASE \E n : files' = [files EXCEPT ![index[c]].users[Role(c)] = n]
          BY <3>1, <4>1, <4>2 DEF TypeInv, EntryType
        <4> QED
          BY <3>2, <4>1, <4>2
      <3> QED
        BY <1>1, <2>1, <3>3, OthersKnow
    <2>6. CASE \/ Read(c) \/ Close(c) \/ Scan(c) \/ Wait(c) \/ FileStep(c) \/ Unlink(c)
               \/ NumLoad(c) \/ Claim(c) \/ Fill(c)
      <3>1. num_files' = num_files /\ files' = files
        BY <2>6 DEF Read, Close, Scan, Wait, FileStep, ReadFile, Fetch, AppendText, Rewrite,
           Misprint, Unlink, NumLoad, LoadNum, Claim, Fill, tableVars
      <3> QED
        BY <1>1, <2>1, <3>1, OthersKnow
    <2> QED
      BY <1>4, <2>2, <2>3, <2>4, <2>5, <2>6 DEF OneStep
  <1> QED
    BY <1>2, <1>3, <1>4
-----------------------------------------------------------------------------
(* Who changes the table goes on doing so until he has stored the counter. *)
LEMMA ChangingOn ==
    ASSUME TypeInv, Control, NEW c \in Children, OneStep(c), Changing(c)
    PROVE  Changing(c)' \/ Less(c) \/ More(c)
  <1>1. Op(c) \in Changes /\ pc[c] \notin Outside \cup {"scan"}
    BY DEF Changing, Using, Outside, At
  <1>2. CASE \/ Wait(c) \/ CountStep(c) \/ FileStep(c) \/ Unlink(c) \/ Shift(c) \/ NumLoad(c)
             \/ Claim(c) \/ Create(c) \/ Fill(c)
    <2>1. Op(c)' = Op(c)
      BY <1>2 DEF Wait, CountStep, Load, Store, FileStep, ReadFile, Fetch, AppendText, Rewrite,
         Misprint, Unlink, Shift, NumLoad, LoadNum, Claim, Create, Fill, childVars, Op
    <2>2. ~(ReadFile(c) \/ AppendText(c) \/ Rewrite(c) \/ Misprint(c))
      BY <1>1, OpAt DEF ReadFile, AppendText, Rewrite, Misprint, At, Writing, Changes
    <2>3. CountStep(c) => Op(c) = "download"
      BY <1>1, OpAt DEF CountStep, Load, Store, At, Counting, Changes
    <2>4. pc'[c] \notin Outside \cup {"scan"}
      <3>1. CASE CountStep(c)
        BY <2>3, <3>1 DEF CountStep, Load, Store, Goto, Body, Outside, TypeInv
      <3>2. CASE Shift(c)
        BY <1>1, <3>2 DEF Shift, Goto, Outside, TypeInv
      <3>3. CASE Wait(c) \/ Fetch(c) \/ Unlink(c) \/ NumLoad(c) \/ Claim(c) \/ Create(c) \/ Fill(c)
        BY <3>3 DEF Wait, Fetch, Unlink, NumLoad, LoadNum, Claim, Create, Fill, Goto, Outside, TypeInv
      <3> QED
        BY <1>2, <2>2, <3>1, <3>2, <3>3 DEF FileStep
    <2> QED
      BY <1>1, <2>1, <2>4 DEF Changing, Using, Outside, At
  <1>3. ~(Read(c) \/ Close(c) \/ Scan(c))
    BY <1>1 DEF Read, Close, Scan, At, Outside
  <1> QED
    BY <1>2, <1>3 DEF OneStep

LEMMA OthersChanging ==
    ASSUME TypeInv, NEW c \in Children, OneStep(c), NEW d \in Children \ {c}
    PROVE  Changing(d)' <=> Changing(d)
  <1>1. pc'[d] = pc[d] /\ request'[d] = request[d]
    BY OneEnds
  <1> QED
    BY <1>1 DEF Changing, Using, Op, At

LEMMA OneBefore ==
    ASSUME TypeInv, Control, CountInv, TableInv, ~disturbed', OneChanges',
           NEW c \in Children, OneStep(c) \/ KillServer(c)
    PROVE  OneChanges
  <1>1. CASE KillServer(c) \/ Less(c) \/ More(c)
    <2>1. AnyChanger(c) = {} \/ AnyUser(c) = {}
      BY <1>1, TableOfStep
    <2>2. \A d \in Children \ {c} : ~Changing(d)
      BY <2>1 DEF AnyChanger, AnyUser, Changing
    <2> QED
      BY <2>2 DEF OneChanges
  <1>2. CASE OneStep(c) /\ ~(Less(c) \/ More(c))
    <2>1. \A d \in Children : Changing(d) => Changing(d)'
      BY <1>2, ChangingOn, OthersChanging
    <2> QED
      BY <2>1 DEF OneChanges
  <1> QED
    BY <1>1, <1>2

(* Who drops an entry, or publishes one, changes the table.                *)
LEMMA Changers ==
    ASSUME TypeInv, Control, NEW d \in Children, pc[d] \in Dropping \cup Publishing
    PROVE  Changing(d)
  BY OpAt DEF Changing, Using, Changes, At, Dropping, Publishing

LEMMA Alone ==
    ASSUME NEW c \in Children, \A d \in Children \ {c} : pc[d] \notin Dropping \cup Publishing
    PROVE  /\ pc[c] \in Dropping => Standing = InTable \ {index[c]}
           /\ pc[c] \in Publishing => Standing = InTable \cup {index[c]}
           /\ pc[c] \notin Dropping \cup Publishing => Standing = InTable
  <1>1. Dropping \cap Publishing = {}
    BY DEF Dropping, Publishing
  <1> QED
    BY <1>1 DEF Standing

LEMMA AloneThen ==
    ASSUME NEW c \in Children, \A d \in Children \ {c} : pc'[d] \notin Dropping \cup Publishing
    PROVE  /\ pc'[c] \in Dropping => Standing' = InTable' \ {index'[c]}
           /\ pc'[c] \in Publishing => Standing' = InTable' \cup {index'[c]}
           /\ pc'[c] \notin Dropping \cup Publishing => Standing' = InTable'
  <1>1. Dropping \cap Publishing = {}
    BY DEF Dropping, Publishing
  <1> QED
    BY <1>1 DEF Standing

LEMMA SameStanding ==
    ASSUME num_files' = num_files,
           \A d \in Children : /\ pc'[d] \in Dropping <=> pc[d] \in Dropping
                               /\ pc'[d] \in Publishing <=> pc[d] \in Publishing
                               /\ pc[d] \in Dropping \cup Publishing => index'[d] = index[d]
    PROVE  Standing' = Standing
  BY DEF Standing, InTable

LEMMA StandingIsThere ==
    ASSUME \A c \in Children : KnowsInv(c)
    PROVE  Standing \subseteq Indices
  BY DEF Standing, InTable, KnowsInv

(* What a step leaves as it was.                                           *)
LEMMA SameTruth ==
    ASSUME Truth, Standing' = Standing, Refused \subseteq Refused',
           \A i \in Standing : files'[i].name = files[i].name /\ files'[i].fd = files[i].fd,
           \A f \in Names \ Refused : disk'[f] = disk[f]
    PROVE  Truth'
  <1>1. ASSUME NEW f \in (Names \cup {NoName}) \ Refused'
        PROVE  (Stands(Standing, f) <=> f \in OnDisk)'
    <2>1. f \in (Names \cup {NoName}) \ Refused /\ (Stands(Standing, f) <=> f \in OnDisk)
      BY <1>1 DEF Truth
    <2>2. f \in OnDisk <=> f \in OnDisk'
      BY <2>1 DEF OnDisk
    <2> QED
      BY <2>1, <2>2 DEF Stands
  <1>2. (\A i, j \in Standing : files[i].name = files[j].name => i = j)'
    BY DEF Truth
  <1> QED
    BY <1>1, <1>2 DEF Truth

LEMMA RefusedGrows ==
    ASSUME TypeInv, Control, NEW c \in Children, OneStep(c) \/ KillServer(c)
    PROVE  Refused \subseteq Refused'
  <1> SUFFICES ASSUME NEW d \in Children, Op(d) = "other"
               PROVE  request'[d] = request[d]
    BY DEF Refused, Op
  <1>1. CASE Read(c)
    <2>1. d # c
      BY <1>1 DEF Read, At, Control, ControlInv
    <2> QED
      BY <1>1, <2>1 DEF Read, TypeInv
  <1>2. CASE ~Read(c)
    BY <1>2 DEF OneStep, Close, Scan, Wait, CountStep, Load, Store, FileStep, ReadFile, Fetch,
       AppendText, Rewrite, Misprint, Unlink, Shift, NumLoad, LoadNum, Less, More, StoreNum, Claim,
       Create, Fill, childVars, KillServer
  <1> QED
    BY <1>1, <1>2

(* Steps that change neither the table nor the directory.                  *)
LEMMA QuietTruth ==
    ASSUME TypeInv, Control, Truth, \A d \in Children : KnowsInv(d),
           NEW c \in Children, OneStep(c),
           \/ Read(c) \/ Close(c) \/ Scan(c) \/ Wait(c) \/ CountStep(c) \/ FileStep(c)
           \/ NumLoad(c) \/ Claim(c) \/ Fill(c)
    PROVE  Truth'
  <1>1. num_files' = num_files
    BY DEF Read, Close, Scan, Wait, CountStep, Load, Store, FileStep, ReadFile, Fetch,
       AppendText, Rewrite, Misprint, NumLoad, LoadNum, Claim, Fill, tableVars
  <1>2. /\ pc'[c] \in Dropping <=> pc[c] \in Dropping
        /\ pc'[c] \in Publishing <=> pc[c] \in Publishing
        /\ pc[c] \in Dropping \cup Publishing => index'[c] = index[c]
    <2>1. CASE Read(c) \/ Close(c) \/ Claim(c) \/ Wait(c) \/ FileStep(c)
      BY <2>1 DEF Read, Close, Claim, Wait, FileStep, ReadFile, Fetch, AppendText, Rewrite, Misprint,
         At, Goto, TypeInv, Dropping, Publishing
    <2>2. CASE Scan(c)
      <3>1. pc[c] = "scan" /\ pc'[c] \in {"scan", "claim", "done", "load", "waitReaders"}
        BY <2>2 DEF Scan, At, Goto, WhenFound, TypeInv
      <3> QED
        BY <3>1 DEF Dropping, Publishing
    <2>3. CASE CountStep(c)
      <3>1. Op(c) \in {"readF", "writeT", "download"} /\ Line(c) \in Int
        BY <2>3, OpAt, OpTyped DEF CountStep, Load, Store, At, Counting
      <3> QED
        BY <2>3, <3>1 DEF CountStep, Load, Store, At, Goto, Body, TypeInv, Dropping, Publishing
    <2>4. CASE NumLoad(c) \/ Fill(c)
      BY <2>4 DEF NumLoad, LoadNum, Fill, At, Goto, TypeInv, Dropping, Publishing, childVars
    <2> QED
      BY <2>1, <2>2, <2>3, <2>4
  <1>3. Standing' = Standing
    BY <1>1, <1>2, OneEnds, SameStanding
  <1>4. \A i \in Indices : files'[i].name = files[i].name /\ files'[i].fd = files[i].fd
    <2>1. CASE CountStep(c)
      <3>1. index[c] \in Indices /\ files[index[c]] \in EntryType
        BY <2>1, EntryIsThere DEF CountStep, Load, Store, At, AtEntry, Counting
      <3>2. files' = files \/ \E n : files' = [files EXCEPT ![index[c]].users[Role(c)] = n]
        BY <2>1 DEF CountStep, Load, Store, tableVars
      <3>3. CASE \E n : files' = [files EXCEPT ![index[c]].users[Role(c)] = n]
        BY <3>1, <3>3 DEF TypeInv, EntryType
      <3> QED
        BY <3>2, <3>3
    <2>2. CASE ~CountStep(c)
      BY <2>2 DEF Read, Close, Scan, Wait, FileStep, ReadFile, Fetch, AppendText, Rewrite, Misprint,
         NumLoad, LoadNum, Claim, Fill, tableVars
    <2> QED
      BY <2>1, <2>2
  <1>5. Standing \subseteq Indices
    BY StandingIsThere
  <1>6. \A f \in Names \ Refused : disk'[f] = disk[f]
    <2>1. CASE Close(c)
      <3>1. request[c].name \in Refused
        BY <2>1, OpAt DEF Close, At, Refused
      <3> QED
        BY <2>1, <3>1 DEF Close
    <2>2. CASE ~Close(c)
      BY <2>2 DEF Read, Scan, Wait, CountStep, Load, Store, FileStep, ReadFile, Fetch, AppendText,
         Rewrite, Misprint, NumLoad, LoadNum, Claim, Fill, diskVars
    <2> QED
      BY <2>1, <2>2
  <1>7. Refused \subseteq Refused'
    BY RefusedGrows
  <1>8. \A i \in Standing : files'[i].name = files[i].name /\ files'[i].fd = files[i].fd
    BY <1>4, <1>5
  <1> QED
    BY <1>3, <1>6, <1>7, <1>8, SameTruth

(* Steps that change the one or the other, when nobody else does.          *)
LEMMA UnlinkTruth ==
    ASSUME TypeInv, Control, Truth, \A d \in Children : KnowsInv(d),
           NEW c \in Children, Unlink(c), \A d \in Children \ {c} : ~Changing(d)
    PROVE  Truth'
  <1> DEFINE k == index[c]
  <1>1. /\ pc[c] = "unlink" /\ pc' = [pc EXCEPT ![c] = "shift"]
        /\ files' = files /\ num_files' = num_files /\ index' = index /\ request' = request
        /\ disk' = [f \in Names |-> IF f = files[k].name THEN "absent" ELSE disk[f]]
        /\ InTable' = InTable /\ Refused' = Refused
    BY DEF Unlink, At, Goto, Found, tableVars, childVars, InTable, Refused, Op
  <1>2. k \in InTable
    <2>1. Op(c) = "download" /\ k \in Indices
      BY <1>1, OpAt, EntryIsThere DEF AtEntry
    <2> QED
      BY <1>1, <2>1 DEF KnowsInv, InTable
  <1>3. \A d \in Children \ {c} : pc[d] \notin Dropping \cup Publishing /\ pc'[d] = pc[d]
    BY <1>1, Changers DEF TypeInv
  <1>4. Standing = InTable
    BY <1>1, <1>3, Alone DEF Dropping, Publishing
  <1>5. Standing' = InTable \ {k}
    <2>1. pc'[c] \in Dropping
      BY <1>1 DEF TypeInv, Dropping
    <2> QED
      BY <1>1, <1>3, <2>1, AloneThen
  <1> HIDE DEF k
  <1>6. ASSUME NEW f \in (Names \cup {NoName}) \ Refused'
        PROVE  (Stands(Standing, f) <=> f \in OnDisk)'
    <2>1. (\E i \in InTable : files[i].name = f /\ files[i].fd # NoFd) <=> f \in OnDisk
      BY <1>1, <1>4, <1>6 DEF Truth, Stands
    <2>2. \A i \in InTable : files[i].name = files[k].name => i = k
      BY <1>2, <1>4 DEF Truth
    <2>3. f \in OnDisk' <=> f \in OnDisk /\ f # files[k].name
      BY <1>1 DEF OnDisk
    <2>4. Stands(Standing, f)' <=> \E i \in InTable \ {k} : files[i].name = f /\ files[i].fd # NoFd
      BY <1>1, <1>5 DEF Stands
    <2> QED
      BY <1>2, <2>1, <2>2, <2>3, <2>4
  <1>7. (\A i, j \in Standing : files[i].name = files[j].name => i = j)'
    BY <1>1, <1>4, <1>5 DEF Truth
  <1> QED
    BY <1>6, <1>7 DEF Truth

LEMMA ShiftTruth ==
    ASSUME TypeInv, Control, CountInv, Truth, \A d \in Children : KnowsInv(d),
           NEW c \in Children, Shift(c) \/ Less(c), \A d \in Children \ {c} : ~Changing(d)
    PROVE  Truth'
  <1> DEFINE k == index[c]
  <1>1. /\ pc[c] \in Dropping /\ request' = request /\ disk' = disk /\ Refused' = Refused
        /\ num_files \in Int /\ k \in Int /\ \A i \in InTable : i \in Int
    BY DEF Shift, Less, StoreNum, At, Dropping, diskVars, childVars, Refused, Op, TypeInv, InTable, Indices
  <1>2. \A d \in Children \ {c} : pc[d] \notin Dropping \cup Publishing /\ pc'[d] = pc[d]
    BY Changers DEF Shift, Less, StoreNum, Goto, TypeInv
  <1>3. Standing = InTable \ {k}
    BY <1>1, <1>2, Alone
  <1>4. CASE Shift(c) /\ ShiftsOn(k)
    <2>1. /\ files' = [files EXCEPT ![k] = files[k + 1]] /\ index'[c] = k + 1 /\ pc' = pc
          /\ num_files' = num_files /\ InTable' = InTable /\ pc[c] \in AtEntry
      BY <1>4 DEF Shift, InTable, TypeInv, At, AtEntry
    <2>2. k \in Indices /\ k + 1 \in InTable
      BY <1>4, <2>1, CounterBounded, EntryIsThere, ListedAssumption DEF InTable, Indices, ShiftsOn
    <2>3. Standing' = InTable \ {k + 1}
      BY <1>1, <1>2, <2>1, AloneThen
    <2> HIDE DEF k
    <2>4. /\ files'[k] = files[k + 1]
          /\ \A i \in InTable \ {k, k + 1} : files'[i] = files[i]
      BY <2>1, <2>2 DEF TypeInv, InTable
    <2>5. k \in InTable /\ k # k + 1
      BY <1>1, <2>2 DEF InTable
    <2>6. ASSUME NEW f \in (Names \cup {NoName}) \ Refused'
          PROVE  (Stands(Standing, f) <=> f \in OnDisk)'
      <3>1. (\E i \in InTable \ {k} : files[i].name = f /\ files[i].fd # NoFd) <=> f \in OnDisk
        BY <1>1, <1>3, <2>6 DEF Truth, Stands
      <3>2. Stands(Standing, f)' <=> \E i \in InTable \ {k + 1} :
                                   files'[i].name = f /\ files'[i].fd # NoFd
        BY <2>3 DEF Stands
      <3>3. OnDisk' = OnDisk
        BY <1>1 DEF OnDisk
      <3> QED
        BY <2>2, <2>4, <2>5, <3>1, <3>2, <3>3
    <2>7. \A i, j \in InTable \ {k} : files[i].name = files[j].name => i = j
      BY <1>3 DEF Truth
    <2>8. \A i, j \in InTable \ {k + 1} : files'[i].name = files'[j].name => i = j
      BY <2>2, <2>4, <2>5, <2>7
    <2>9. (\A i, j \in Standing : files[i].name = files[j].name => i = j)'
      BY <2>3, <2>8
    <2> QED
      BY <2>6, <2>9 DEF Truth
  <1>5. CASE Shift(c) /\ ~ShiftsOn(k)
    <2>1. files' = files /\ index' = index /\ num_files' = num_files /\ pc'[c] = "loadLess"
          /\ InTable' = InTable
      BY <1>5 DEF Shift, Goto, InTable, TypeInv
    <2>2. Standing' = Standing
      BY <1>2, <1>3, <2>1, AloneThen DEF Dropping
    <2> QED
      BY <1>1, <2>1, <2>2, SameTruth
  <1>6. CASE Less(c)
    <2>1. /\ files' = files /\ index' = index /\ pc'[c] = "done" /\ num_files' = num_files - 1
          /\ k = num_files - 1
      BY <1>6 DEF Less, StoreNum, Goto, At, OneLess, TypeInv, KnowsInv, childVars
    <2>2. InTable' = InTable \ {k}
      BY <1>1, <2>1 DEF InTable, Indices
    <2>3. Standing' = Standing
      BY <1>2, <1>3, <2>1, <2>2, AloneThen DEF Dropping, Publishing
    <2> QED
      BY <1>1, <2>1, <2>3, SameTruth
  <1> QED
    BY <1>4, <1>5, <1>6

LEMMA UploadTruth ==
    ASSUME TypeInv, Control, Truth, \A d \in Children : KnowsInv(d),
           NEW c \in Children, Create(c) \/ More(c), \A d \in Children \ {c} : ~Changing(d)
    PROVE  Truth'
  <1> DEFINE k == index[c]
             f == request[c].name
  <1>1. /\ pc[c] \in Making \cup {"storeMore"} /\ request' = request /\ Refused' = Refused
        /\ k = num_files /\ ~Has(InTable, f)
        /\ num_files \in Int /\ \A i \in InTable : i \in Indices /\ i \in Int /\ i < num_files
        /\ index' = index
    <2>1. pc[c] \in Making \cup {"storeMore"} /\ request' = request /\ index' = index
      BY DEF Create, More, StoreNum, At, Making, childVars
    <2>2. Refused' = Refused
      BY <2>1 DEF Refused, Op
    <2>3. k = num_files /\ ~Has(InTable, f)
      BY <2>1 DEF KnowsInv, Making, Publishing
    <2>4. num_files \in Int /\ \A i \in InTable : i \in Indices /\ i \in Int /\ i < num_files
      BY DEF TypeInv, InTable, Indices
    <2> QED
      BY <2>1, <2>2, <2>3, <2>4
  <1>2. k \in Indices /\ files[k] \in EntryType
    <2>1. CASE Create(c)
      BY <2>1, EntryIsThere DEF Create, At, AtEntry, Making
    <2>2. CASE More(c)
      BY <2>2 DEF More, StoreNum, At, Publishing, KnowsInv, TypeInv
    <2> QED
      BY <2>1, <2>2
  <1>3. f \in Names
    <2>1. Op(c) = "upload" /\ request[c] \in Requests[c]
      BY <1>1, OpAt DEF Making, Publishing, Control, ControlInv
    <2> QED
      BY <2>1, RequestsAssumption DEF Op, Scanned
  <1>4. \A d \in Children \ {c} : pc[d] \notin Dropping \cup Publishing /\ pc'[d] = pc[d]
    BY Changers DEF Create, More, StoreNum, Goto, TypeInv
  <1>5. CASE Create(c) /\ pc[c] = "name"
    <2>1. /\ files' = [files EXCEPT ![k].name = f] /\ disk' = disk /\ num_files' = num_files
          /\ pc'[c] = "create" /\ InTable' = InTable
      BY <1>5 DEF Create, At, Goto, diskVars, InTable, TypeInv
    <2>2. Standing = InTable /\ Standing' = InTable
      BY <1>4, <1>5, <2>1, Alone, AloneThen DEF Dropping, Publishing
    <2>3. \A i \in InTable : files'[i] = files[i]
      BY <1>1, <1>2, <2>1 DEF TypeInv
    <2> QED
      BY <1>1, <2>1, <2>2, <2>3, SameTruth
  <1>6. CASE Create(c) /\ pc[c] = "create"
    <2>1. /\ num_files' = num_files /\ pc'[c] = "fill" /\ InTable' = InTable
          /\ \/ Describe(c, Foreign) /\ Creates(f)
             \/ Describe(c, NoFd) /\ disk' = disk
      BY <1>6 DEF Create, At, Goto, InTable, TypeInv, diskVars
    <2>2. Standing = InTable /\ Standing' = InTable \cup {k}
      BY <1>1, <1>4, <1>6, <2>1, Alone, AloneThen DEF Dropping, Publishing
    <2>3. files[k].name = f /\ \A i \in InTable : i # k
      BY <1>1, <1>6 DEF KnowsInv
    <2>4. ASSUME NEW fd, Describe(c, fd)
          PROVE  /\ files'[k].name = f /\ files'[k].fd = fd
                 /\ \A i \in InTable : files'[i] = files[i]
      BY <1>1, <1>2, <2>3, <2>4 DEF TypeInv, Entry, Describe
    <2>5. files'[k].name = f /\ \A i \in InTable : files'[i] = files[i]
      BY <2>1, <2>4
    <2>6. \A g \in (Names \cup {NoName}) \ Refused :
              g \in OnDisk' <=> g \in OnDisk \/ (g = f /\ files'[k].fd # NoFd)
      <3>1. CASE Describe(c, Foreign) /\ Creates(f)
        <4>1. files'[k].fd # NoFd
          BY <2>4, <3>1, ListedAssumption
        <4> QED
          BY <1>3, <3>1, <4>1 DEF Creates, OnDisk, TypeInv
      <3>2. CASE Describe(c, NoFd) /\ disk' = disk
        BY <2>4, <3>2 DEF OnDisk
      <3> QED
        BY <2>1, <3>1, <3>2
    <2>7. ~\E i \in InTable : files[i].name = f
      BY <1>1 DEF Has
    <2> HIDE DEF k, f
    <2>8. ASSUME NEW g \in (Names \cup {NoName}) \ Refused'
          PROVE  (Stands(Standing, g) <=> g \in OnDisk)'
      <3>1. (\E i \in InTable : files[i].name = g /\ files[i].fd # NoFd) <=> g \in OnDisk
        BY <1>1, <2>2, <2>8 DEF Truth, Stands
      <3>2. Stands(Standing, g)'
              <=> \E i \in InTable \cup {k} : files'[i].name = g /\ files'[i].fd # NoFd
        BY <2>2 DEF Stands
      <3>3. g \in OnDisk' <=> g \in OnDisk \/ (g = f /\ files'[k].fd # NoFd)
        BY <1>1, <2>6, <2>8
      <3> QED
        BY <2>5, <3>1, <3>2, <3>3
    <2>9. \A i, j \in InTable : files[i].name = files[j].name => i = j
      BY <2>2 DEF Truth
    <2>10. (\A i, j \in Standing : files[i].name = files[j].name => i = j)'
      BY <2>2, <2>5, <2>7, <2>9
    <2> QED
      BY <2>8, <2>10 DEF Truth
  <1>7. CASE More(c)
    <2>1. /\ files' = files /\ disk' = disk /\ num_files' = num_files + 1 /\ pc'[c] = "done"
          /\ pc[c] = "storeMore"
      BY <1>7 DEF More, StoreNum, Goto, At, OneMore, TypeInv, KnowsInv, diskVars
    <2>2. InTable' = InTable \cup {k}
      BY <1>1, <1>2, <2>1 DEF InTable, Indices
    <2>3. Standing = InTable \cup {k} /\ Standing' = Standing
      BY <1>4, <2>1, <2>2, Alone, AloneThen DEF Dropping, Publishing
    <2> QED
      BY <1>1, <2>1, <2>3, SameTruth
  <1> QED
    BY <1>1, <1>5, <1>6, <1>7 DEF Create, At

LEMMA TruthKept ==
    ASSUME TypeInv, Control, CountInv, TableInv, ~disturbed', OneChanges',
           NEW c \in Children, OneStep(c) \/ KillServer(c)
    PROVE  Truth'
  <1>1. Truth /\ \A d \in Children : KnowsInv(d)
    BY OneBefore, TableOfStep
  <1>2. CASE /\ OneStep(c)
             /\ \/ Read(c) \/ Close(c) \/ Scan(c) \/ Wait(c) \/ CountStep(c) \/ FileStep(c)
                \/ NumLoad(c) \/ Claim(c) \/ Fill(c)
    BY <1>1, <1>2, QuietTruth
  <1>3. CASE OneStep(c) /\ Unlink(c)
    <2>1. Changing(c) /\ ~(Less(c) \/ More(c))
      BY <1>3, OpAt DEF Unlink, Changing, Using, Changes, At, Less, More, StoreNum
    <2>2. Changing(c)'
      BY <1>3, <2>1, ChangingOn
    <2>3. \A d \in Children \ {c} : ~Changing(d)
      BY <1>3, <2>2, OthersChanging DEF OneChanges
    <2> QED
      BY <1>1, <1>3, <2>3, UnlinkTruth
  <1>4. CASE Shift(c) \/ Less(c)
    <2>1. \A d \in Children \ {c} : ~Changing(d)
      BY <1>4, TableOfStep DEF AnyUser, Changing
    <2> QED
      BY <1>1, <1>4, <2>1, ShiftTruth
  <1>5. CASE Create(c) \/ More(c)
    <2>1. \A d \in Children \ {c} : ~Changing(d)
      BY <1>5, TableOfStep DEF AnyChanger
    <2> QED
      BY <1>1, <1>5, <2>1, UploadTruth
  <1>6. CASE KillServer(c)
    <2>1. \A d \in Children \ {c} : ~Changing(d)
      BY <1>6, TableOfStep DEF AnyChanger
    <2>2. \A d \in Children : pc[d] \notin Dropping \cup Publishing
      BY <1>6, <2>1, Changers DEF KillServer, At, Dropping, Publishing
    <2>3. \A d \in Children : pc'[d] \notin Dropping \cup Publishing
      BY <1>6 DEF KillServer, Dropping, Publishing
    <2>4. Standing' = Standing
      BY <1>6, <2>2, <2>3, SameStanding DEF KillServer
    <2> QED
      BY <1>1, <1>6, <2>4, RefusedGrows, SameTruth DEF KillServer, diskVars
  <1> QED
    BY <1>2, <1>3, <1>4, <1>5, <1>6 DEF OneStep

LEMMA TableKept ==
    ASSUME TypeInv, Control, CountInv, TableInv, [Next]_vars
    PROVE  TableInv'
  <1>1. CASE UNCHANGED vars
    BY <1>1 DEF vars, tableVars, diskVars, childVars, TableInv, KnowsInv, Truth, OneChanges, Changing,
       Using, At, Op, Has, Stands, InTable, Standing, Refused, OnDisk
  <1>2. ASSUME NEW c \in Children, OneStep(c) \/ KillServer(c), ~disturbed'
        PROVE  (\A d \in Children : KnowsInv(d))' /\ (OneChanges => Truth)'
    BY <1>2, KnowsKept, TruthKept
  <1> QED
    BY <1>1, <1>2, Steps DEF TableInv
-----------------------------------------------------------------------------
LEMMA Preserved ==
    ASSUME IInv, [Next]_vars
    PROVE  IInv'
  BY Typed, CountKept, TableKept DEF IInv

LEMMA TypeOKHolds ==
    ASSUME IInv
    PROVE  TypeOK
  <1>1. num_files \in 0..MAX_FILES
    BY CounterBounded DEF IInv
  <1> QED
    BY <1>1, ListedAssumption DEF IInv, TypeInv, TypeOK, EntryType

LEMMA TableIsTrue ==
    ASSUME IInv
    PROVE  TableTruthful
  <1> SUFFICES ASSUME ~disturbed, ~(\E c \in Children : Changing(c))
               PROVE  /\ Present \ Refused = OnDisk \ Refused
                      /\ \A i, j \in InTable : files[i].name = files[j].name => i = j
    BY DEF TableTruthful
  <1>1. \A d \in Children : pc[d] \notin Dropping \cup Publishing
    BY Changers DEF IInv
  <1>2. Standing = InTable
    BY <1>1 DEF Standing
  <1>3. Truth
    BY DEF IInv, TableInv, OneChanges
  <1>4. \A f \in (Names \cup {NoName}) \ Refused :
             (\E i \in InTable : files[i].name = f /\ files[i].fd # NoFd) <=> f \in OnDisk
    BY <1>2, <1>3 DEF Truth, Stands
  <1>5. \A i \in InTable : files[i].name \in Names \cup {NoName}
    BY DEF IInv, TypeInv, EntryType, InTable
  <1>6. OnDisk \subseteq Names
    BY DEF OnDisk
  <1>7. \A i, j \in InTable : files[i].name = files[j].name => i = j
    BY <1>2, <1>3 DEF Truth
  <1> QED
    BY <1>4, <1>5, <1>6, <1>7 DEF Present

(* A step that writes keeps what is there, and only an upload empties.     *)
KeepsText == \A f \in Listed : \/ IsPrefix(contents[f], contents'[f])
                               \/ contents'[f] = << >>

LEMMA KeepsTextStep ==
    ASSUME IInv, [Next]_vars
    PROVE  KeepsText
  <1>1. \A f \in Listed : contents[f] \in Seq(Pieces) /\ IsPrefix(contents[f], contents[f])
    BY PrefixOfItself DEF IInv, TypeInv
  <1>2. CASE contents' = contents
    BY <1>1, <1>2 DEF KeepsText
  <1>3. ASSUME NEW c \in Children, FileStep(c)
        PROVE  KeepsText
    BY <1>3, FileKeeps DEF IInv, Kept, KeepsText
  <1>4. ASSUME NEW c \in Children, Create(c)
        PROVE  KeepsText
    <2>1. \/ contents' = contents
          \/ contents' = [contents EXCEPT ![request[c].name] = << >>]
      BY <1>4 DEF Create, Creates, diskVars
    <2> QED
      BY <1>1, <2>1 DEF KeepsText, IInv, TypeInv
  <1>5. ASSUME NEW c \in Children, OneStep(c) \/ KillServer(c), ~FileStep(c), ~Create(c)
        PROVE  contents' = contents
    BY <1>5 DEF OneStep, Read, Close, Scan, Wait, CountStep, Load, Store, Unlink, Shift, NumLoad,
       LoadNum, Less, More, StoreNum, Claim, Fill, KillServer, diskVars
  <1> QED
    BY <1>2, <1>3, <1>4, <1>5, Steps DEF vars, diskVars

(* The entry at which a download has arrived is the one it was asked for.  *)
NamesIt(f) == \/ disturbed
              \/ \E c \in Children : request[c].name = f /\ pc'[c] # pc[c]
                                     /\ Op(c) \in {"download", "other"}

LEMMA NamedStep ==
    ASSUME IInv, [Next]_vars, NEW f \in Names, disk[f] # "absent", disk'[f] = "absent"
    PROVE  NamesIt(f)
  <1>1. PICK c \in Children : Close(c) \/ Unlink(c)
    <2>1. ASSUME UNCHANGED diskVars
          PROVE  FALSE
      BY <2>1 DEF diskVars
    <2>2. ASSUME NEW c \in Children, Create(c)
          PROVE  FALSE
      BY <2>2, <2>1 DEF Create, Creates, diskVars, IInv, TypeInv
    <2>3. ASSUME NEW c \in Children, FileStep(c)
          PROVE  FALSE
      BY <2>3 DEF FileStep, ReadFile, Fetch, AppendText, Rewrite, Misprint
    <2>4. ASSUME NEW c \in Children, OneStep(c) \/ KillServer(c), ~Close(c), ~Unlink(c)
          PROVE  FALSE
      BY <2>1, <2>2, <2>3, <2>4 DEF OneStep, Read, Scan, Wait, CountStep, Load, Store, Shift,
         NumLoad, LoadNum, Less, More, StoreNum, Claim, Fill, KillServer
    <2> QED
      BY <2>1, <2>4, Steps DEF vars
  <1>2. CASE Close(c)
    <2>1. request[c].name = f
      BY <1>2 DEF Close
    <2>2. pc[c] = "close" /\ pc'[c] = "done" /\ Op(c) = "other"
      BY <1>2, OpAt DEF Close, At, Goto, IInv, TypeInv
    <2> QED
      BY <2>1, <2>2 DEF NamesIt
  <1>3. CASE Unlink(c)
    <2>1. files[index[c]].name = f
      BY <1>3 DEF Unlink, Found
    <2>2. pc[c] = "unlink" /\ pc'[c] = "shift" /\ Op(c) = "download"
      BY <1>3, OpAt DEF Unlink, At, Goto, IInv, TypeInv
    <2>3. ~disturbed => files[index[c]].name = request[c].name
      BY <2>2 DEF IInv, TableInv, KnowsInv
    <2> QED
      BY <2>1, <2>2, <2>3 DEF NamesIt
  <1> QED
    BY <1>1, <1>2, <1>3
-----------------------------------------------------------------------------
(* With room for what is asked of it, every reachable state satisfies the  *)
(* inductive invariant.                                                    *)
THEOREM Invariance == Capacity => (Spec => []IInv)
  <1> SUFFICES ASSUME Capacity PROVE Spec => []IInv
    OBVIOUS
  <1>1. Init => IInv
    BY Begins
  <1>2. IInv /\ [Next]_vars => IInv'
    BY Preserved
  <1> QED
    BY <1>1, <1>2, PTL DEF Spec

(* The table, the counter and the indices stay within MAX_FILES: no child  *)
(* uses an entry outside of shm->files (biboServer.c:301-526), however the *)
(* unprotected counter is updated.                                         *)
THEOREM TypeCorrect == Capacity => (Spec => []TypeOK)
  <1> SUFFICES ASSUME Capacity PROVE Spec => []TypeOK
    OBVIOUS
  <1>1. IInv => TypeOK
    BY TypeOKHolds
  <1>2. Spec => []IInv
    BY Invariance
  <1> QED
    BY <1>1, <1>2, PTL

(* No readF and no download ever reads a byte of a file (318, 392, 506):   *)
(* the one offset the children share is never before the end.              *)
THEOREM NoByteIsRead == Capacity => (Spec => []NothingIsRead)
  <1> SUFFICES ASSUME Capacity PROVE Spec => []NothingIsRead
    OBVIOUS
  <1>1. IInv => NothingIsRead
    BY DEF IInv
  <1>2. Spec => []IInv
    BY Invariance
  <1> QED
    BY <1>1, <1>2, PTL

(* When no change of the table met another use of it, the table is what is *)
(* in the directory, each name once (436-526).                             *)
THEOREM TrueTable == Capacity => (Spec => []TableTruthful)
  <1> SUFFICES ASSUME Capacity PROVE Spec => []TableTruthful
    OBVIOUS
  <1>1. IInv => TableTruthful
    BY TableIsTrue
  <1>2. Spec => []IInv
    BY Invariance
  <1> QED
    BY <1>1, <1>2, PTL

(* However many writers are at a file at a time (375-412), what is in it   *)
(* stays, until an upload empties it.                                      *)
THEOREM NoTextIsLost == Capacity => (Spec => AppendsKept)
  <1> SUFFICES ASSUME Capacity PROVE Spec => AppendsKept
    OBVIOUS
  <1>1. IInv /\ [Next]_vars =>
           [\A f \in Listed : \/ IsPrefix(contents[f], contents'[f])
                              \/ contents'[f] = << >>]_vars
    BY KeepsTextStep DEF KeepsText
  <1>2. Spec => []IInv
    BY Invariance
  <1> QED
    BY <1>1, <1>2, PTL DEF Spec, AppendsKept

NamedOnly == \A f \in Names : disk[f] # "absent" /\ disk'[f] = "absent" => NamesIt(f)

(* A file is deleted only for a request that names it (290, 519), unless   *)
(* another change of the table met the download.                           *)
THEOREM OnlyNamedDeleted == Capacity => (Spec => DeletesRequested)
  <1> SUFFICES ASSUME Capacity PROVE Spec => DeletesRequested
    OBVIOUS
  <1>1. IInv /\ [Next]_vars => [NamedOnly]_vars
    BY NamedStep DEF NamedOnly
  <1>2. Spec => []IInv
    BY Invariance
  <1>3. Spec => [][NamedOnly]_vars
    BY <1>1, <1>2, PTL DEF Spec
  <1> QED
    BY <1>3 DEF NamedOnly, NamesIt, DeletesRequested
=============================================================================
