--------------------------- MODULE BiboQueueProof ---------------------------
(***************************************************************************)
(* Proofs about BiboQueue for every size of the ring and every number of   *)
(* children, clients, signals and restarts: the main loop, interrupted by  *)
(* the handler between any two of its accesses to the segment, takes no    *)
(* entry that was not put there.                                           *)
(*                                                                         *)
(* The clients are not in the server's process group.  Otherwise the       *)
(* children handle SIGUSR1 as well, and two processes enqueue at a time.   *)
(***************************************************************************)
EXTENDS BiboQueueProperties, TLAPS

Labels   == {"loop", "sleep", "dequeue", "load", "store", "fork", "install"}
Handling == {"slot", "rear", "advance", "count", "increment"}

TypeInv ==
    /\ TypeOK
    /\ pid \in Children \cup {0, -1, Unwritten}
    /\ entry \in [Processes -> Children \cup {0, -1}]
    /\ register \in [Processes -> Int] /\ loaded \in Int
    /\ usr1 \in [Processes -> BOOLEAN]
    /\ served \in [Children -> Children \cup {0, -1, Unwritten}]
    /\ restarts \in Nat

(* Only the server handles SIGUSR1.                                        *)
ServerAlone == \A k \in Children : handler[k] = "idle" /\ ~usr1[k]

(* What the handler has checked stays true while it runs, since the main   *)
(* loop stands still; what the main loop has checked stays true because    *)
(* the handler only adds entries.                                          *)
CountInv ==
    /\ handler[Server] \in Handling => count < MAX_CLIENTS
    /\ handler[Server] = "advance" => register[Server] = rear
    /\ handler[Server] = "increment" => register[Server] = count
    /\ pc \in {"load", "store"} => count >= 1
    /\ pc = "store" => loaded >= 1 /\ loaded <= count

(* Entries written and not yet counted, and taken and still counted.       *)
Uncounted == IF handler[Server] \in {"count", "increment"} THEN 1 ELSE 0
Taken     == IF pc \in {"load", "store"} THEN 1 ELSE 0

Written(s) == queue[s] # Unwritten

(* Until rear has been once around the ring, the entries are those between *)
(* front and rear, and count says no more than there are.                  *)
FirstRound ==
    /\ front <= rear
    /\ count + Uncounted <= rear - front + Taken
    /\ \A s \in Slots : s < rear => Written(s)

RingInv ==
    restarts = 0 =>
        /\ (\A s \in Slots : Written(s)) \/ FirstRound
        /\ handler[Server] \in {"rear", "advance"} => Written(rear)
        /\ pid # Unwritten
        /\ \A k \in Children : served[k] # Unwritten

IInv == TypeInv /\ ServerAlone /\ CountInv /\ RingInv
-----------------------------------------------------------------------------
(* Indices wrap at the end of the ring.                                    *)
LEMMA AdvanceWraps ==
    ASSUME NEW i \in Slots
    PROVE  /\ Advance(i) \in Slots
           /\ Advance(i) = IF i = MAX_CLIENTS - 1 THEN 0 ELSE i + 1
BY SizeAssumption DEF Advance, Slots

LEMMA InitInvariant == Init => IInv
<1> SUFFICES ASSUME Init PROVE IInv
  OBVIOUS
<1>1. MAX_CLIENTS \in Nat \ {0} /\ Server \notin Children /\ Server \in Processes
      /\ 0 \in Slots
  BY SizeAssumption DEF Server, Children, Processes, Slots
<1>2. TypeInv
  BY <1>1 DEF Init, TypeInv, TypeOK
<1>3. ServerAlone /\ CountInv
  BY <1>1 DEF Init, ServerAlone, CountInv, Handling, Processes
<1>4. RingInv
  <2>1. FirstRound
    BY <1>1 DEF Init, FirstRound, Uncounted, Taken, Slots
  <2>2. -1 # Unwritten
    BY UnwrittenAssumption
  <2> QED BY <1>1, <2>1, <2>2 DEF Init, RingInv
<1> QED BY <1>2, <1>3, <1>4 DEF IInv

(* Only the server's handler runs.                                         *)
LEMMA OnlyServerHandles ==
    ASSUME ServerAlone, NEW p \in Processes, HandlerStep(p)
    PROVE  p = Server /\ server = "up"
<1>1. p \in Children => handler[p] = "idle" /\ ~usr1[p]
  BY DEF ServerAlone
<1>2. p = Server
  BY <1>1 DEF HandlerStep, Wait, CheckFull, Enqueue, HandlerAt, Processes
<1> QED BY <1>2 DEF HandlerStep, Wait, CheckFull, Enqueue, HandlerAt, Alive

(* Steps that leave the segment, the main loop and the handler alone.      *)
RingStill == UNCHANGED <<shmVars, mainVars, handlerVars, served, restarts>>

LEMMA RingStillInvariant ==
    ASSUME IInv, TypeInv', RingStill, \A k \in Children : usr1'[k] = usr1[k]
    PROVE  IInv'
<1> USE DEF RingStill, shmVars, mainVars, handlerVars
<1>1. ServerAlone' /\ CountInv'
  BY DEF IInv, ServerAlone, CountInv
<1>2. FirstRound' = FirstRound
  BY DEF FirstRound, Uncounted, Taken, Written
<1>3. RingInv'
  BY <1>2 DEF IInv, RingInv, Written
<1> QED BY <1>1, <1>3 DEF IInv

LEMMA OtherSteps ==
    ASSUME IInv, ServersGroup = {},
           \/ Reap \/ Interrupt \/ Knock
           \/ \E k \in Children : ChildEnds(k)
           \/ \E c \in Clients : Start(c) \/ Connect(c) \/ Request(c) \/ CtrlC(c)
    PROVE  IInv'
<1> USE DEF IInv, TypeInv, TypeOK, RingStill, shmVars, mainVars, childVars, handlerVars,
            clientVars
<1>1. Server \notin Children /\ Server \in Processes
  BY DEF Server, Children, Processes
<1>2. CASE Reap
  BY <1>2, RingStillInvariant DEF Reap, Zombies
<1>3. CASE Interrupt
  <2>1. TypeInv' /\ RingStill /\ UNCHANGED usr1
    BY <1>3 DEF Interrupt
  <2> QED BY <2>1, RingStillInvariant
<1>4. CASE Knock
  <2>1. usr1' = [usr1 EXCEPT ![Server] = TRUE]
    BY <1>4 DEF Knock, KnockOnce, Retry, Knocks
  <2>2. TypeInv' /\ RingStill /\ \A k \in Children : usr1'[k] = usr1[k]
    BY <1>1, <1>4, <2>1 DEF Knock, Children, Processes
  <2> QED BY <2>2, RingStillInvariant
<1>5. ASSUME NEW k \in Children, ChildEnds(k)
      PROVE  IInv'
  BY <1>5, RingStillInvariant DEF ChildEnds
<1>6. ASSUME NEW c \in Clients, Start(c) \/ Request(c) \/ CtrlC(c)
      PROVE  IInv'
  BY <1>6, RingStillInvariant DEF Start, Request, CtrlC
<1>7. ASSUME NEW c \in Clients, Connect(c)
      PROVE  IInv'
  <2>1. usr1' = usr1
    BY <1>7 DEF Connect, SignalOwnGroup
  <2> QED BY <1>7, <2>1, RingStillInvariant DEF Connect
<1> QED BY <1>2, <1>3, <1>4, <1>5, <1>6, <1>7

(* The main loop, which runs while no handler does.                        *)
LEMMA MainSteps == ASSUME IInv, MainStep PROVE IInv'
<1> USE DEF shmVars, mainVars, childVars, handlerVars, clientVars
<1>1. handler[Server] = "idle" /\ Uncounted = 0
  BY DEF MainStep, Loop, Sleep, Dequeue, LoadCount, StoreCount, Fork, Install, AtMain,
         Uncounted
<1>2. /\ MAX_CLIENTS \in Nat \ {0} /\ Unwritten \notin Int
      /\ Server \notin Children /\ Server \in Processes
      /\ Children \subseteq Processes /\ Children \subseteq Int
  BY SizeAssumption, UnwrittenAssumption DEF Server, Children, Processes
<1>3. CASE Loop \/ Sleep \/ Install
  <2>1. /\ UNCHANGED <<shmVars, pid, loaded, handlerVars, served, restarts, usr1>>
        /\ pc \in {"loop", "sleep", "install"} /\ pc' \in {"loop", "sleep", "dequeue"}
    BY <1>3 DEF Loop, Sleep, Install, AtMain
  <2>2. TypeInv' /\ ServerAlone' /\ CountInv'
    BY <1>1, <1>3, <2>1 DEF IInv, TypeInv, TypeOK, ServerAlone, CountInv, Handling, Loop, Sleep, Install
  <2>3. FirstRound' = FirstRound
    BY <2>1 DEF FirstRound, Uncounted, Taken, Written
  <2>4. RingInv'
    BY <2>1, <2>3 DEF IInv, RingInv, Written
  <2> QED BY <2>2, <2>4 DEF IInv
<1>4. CASE Dequeue
  <2>1. CASE is_empty
    <3>1. /\ UNCHANGED <<shmVars, loaded, handlerVars, served, restarts, usr1>>
          /\ pid' = -1 /\ pc = "dequeue" /\ pc' = "fork"
      BY <1>4, <2>1 DEF Dequeue, AtMain
    <3>2. TypeInv' /\ ServerAlone' /\ CountInv'
      BY <1>1, <1>4, <3>1
      DEF IInv, TypeInv, TypeOK, ServerAlone, CountInv, Handling, Dequeue
    <3>3. FirstRound' = FirstRound
      BY <3>1 DEF FirstRound, Uncounted, Taken, Written
    <3>4. RingInv'
      BY <1>2, <3>1, <3>3 DEF IInv, RingInv, Written
    <3> QED BY <3>2, <3>4 DEF IInv
  <2>2. CASE ~is_empty
    <3>1. /\ UNCHANGED <<queue, rear, count, loaded, handlerVars, served, restarts, usr1>>
          /\ pid' = queue[front] /\ pc = "dequeue" /\ pc' = "load"
          /\ front' = Advance(front) /\ count # 0
      BY <1>4, <2>2 DEF Dequeue, AtMain, FirstInLine, is_empty
    <3>2. /\ front \in Slots /\ rear \in Slots /\ front' \in Slots
          /\ front' = (IF front = MAX_CLIENTS - 1 THEN 0 ELSE front + 1)
          /\ count \in 1..MAX_CLIENTS /\ queue \in [Slots -> Children \cup {0, -1, Unwritten}]
      BY <1>2, <3>1, AdvanceWraps DEF IInv, TypeInv, TypeOK
    <3>3. TypeInv' /\ ServerAlone' /\ CountInv'
      BY <1>1, <1>2, <1>4, <3>1, <3>2
      DEF IInv, TypeInv, TypeOK, ServerAlone, CountInv, Handling, Dequeue
    <3>4. ASSUME restarts = 0, FirstRound
          PROVE  FirstRound' /\ front < rear
      <4>1. front <= rear /\ count <= rear - front
        BY <1>1, <3>1, <3>2, <3>4 DEF FirstRound, Taken, Slots
      <4>2. front < rear /\ front' = front + 1
        BY <1>2, <3>2, <4>1 DEF Slots
      <4>3. Uncounted' = 0 /\ Taken' = 1
        BY <1>1, <3>1 DEF Uncounted, Taken
      <4>4. \A s \in Slots : s < rear' => Written(s)'
        BY <3>1, <3>4 DEF FirstRound, Written
      <4>5. count' + 0 <= rear' - front' + 1 /\ front' <= rear'
        BY <3>1, <3>2, <4>1, <4>2 DEF Slots
      <4> QED BY <4>2, <4>3, <4>4, <4>5 DEF FirstRound
    <3>5. restarts = 0 => Written(front)
      BY <3>2, <3>4 DEF IInv, RingInv, FirstRound
    <3>6. RingInv'
      BY <3>1, <3>4, <3>5 DEF IInv, RingInv, Written
    <3> QED BY <3>3, <3>6 DEF IInv
  <2> QED BY <2>1, <2>2
<1>5. CASE LoadCount
  <2>1. /\ UNCHANGED <<shmVars, pid, handlerVars, served, restarts, usr1>>
        /\ pc = "load" /\ pc' = "store" /\ loaded' = count
    BY <1>5 DEF LoadCount, AtMain
  <2>2. TypeInv' /\ ServerAlone' /\ CountInv'
    BY <1>1, <1>5, <2>1 DEF IInv, TypeInv, TypeOK, ServerAlone, CountInv, Handling, LoadCount
  <2>3. FirstRound' = FirstRound
    BY <2>1 DEF FirstRound, Uncounted, Taken, Written
  <2>4. RingInv'
    BY <2>1, <2>3 DEF IInv, RingInv, Written
  <2> QED BY <2>2, <2>4 DEF IInv
<1>6. CASE StoreCount
  <2>1. /\ UNCHANGED <<queue, front, rear, pid, loaded, handlerVars, served, restarts, usr1>>
        /\ pc = "store" /\ pc' = "fork" /\ count' = loaded - 1
    BY <1>6 DEF StoreCount, AtMain, Decremented
  <2>2. /\ loaded \in Int /\ loaded >= 1 /\ loaded <= count /\ count \in 0..MAX_CLIENTS
        /\ front \in Slots /\ rear \in Slots
    BY <2>1 DEF IInv, TypeInv, TypeOK, CountInv
  <2>3. count' \in 0..MAX_CLIENTS /\ count' <= count - 1
    BY <1>2, <2>1, <2>2
  <2>4. TypeInv' /\ ServerAlone' /\ CountInv'
    BY <1>1, <1>6, <2>1, <2>3
    DEF IInv, TypeInv, TypeOK, ServerAlone, CountInv, Handling, StoreCount
  <2>5. ASSUME FirstRound PROVE FirstRound'
    <3>1. count' + 0 <= rear' - front' + 0
      BY <1>1, <2>1, <2>2, <2>3, <2>5 DEF FirstRound, Taken, Slots
    <3>2. Uncounted' = 0 /\ Taken' = 0
      BY <1>1, <2>1 DEF Uncounted, Taken
    <3> QED BY <2>1, <2>5, <3>1, <3>2 DEF FirstRound, Written
  <2>6. RingInv'
    BY <2>1, <2>5 DEF IInv, RingInv, Written
  <2> QED BY <2>4, <2>6 DEF IInv
<1>7. CASE Fork
  <2>1. /\ UNCHANGED <<shmVars, pid, loaded, entry, register, restarts>>
        /\ pc = "fork" /\ pc' \in {"install", "loop"}
    BY <1>7 DEF Fork, AtMain
  <2>2. TypeInv'
    <3>1. ASSUME NEW k \in Children,
                 child' = [child EXCEPT ![k] = "serving"],
                 served' = [served EXCEPT ![k] = pid],
                 handler' = [handler EXCEPT ![k] = "idle"],
                 usr1' = [usr1 EXCEPT ![k] = FALSE]
          PROVE  TypeInv'
      BY <1>2, <1>7, <2>1, <3>1 DEF IInv, TypeInv, TypeOK, Fork
    <3>2. ASSUME UNCHANGED <<childVars, handler, usr1>>
          PROVE  TypeInv'
      BY <1>7, <2>1, <3>2 DEF IInv, TypeInv, TypeOK, Fork
    <3> QED BY <1>7, <3>1, <3>2 DEF Fork
  <2>3. /\ ServerAlone' /\ handler'[Server] = handler[Server]
        /\ \A k \in Children : served'[k] \in {served[k], pid}
    BY <1>2, <1>7 DEF IInv, TypeInv, TypeOK, ServerAlone, Fork
  <2>4. CountInv'
    BY <1>1, <2>1, <2>3 DEF IInv, CountInv, Handling
  <2>5. FirstRound' = FirstRound
    BY <2>1, <2>3 DEF FirstRound, Uncounted, Taken, Written
  <2>6. RingInv'
    BY <2>1, <2>3, <2>5 DEF IInv, RingInv, Written
  <2> QED BY <2>2, <2>3, <2>4, <2>6 DEF IInv
<1> QED BY <1>3, <1>4, <1>5, <1>6, <1>7 DEF MainStep

(* The handler.                                                            *)
LEMMA WaitStep == ASSUME IInv, Wait(Server) PROVE IInv'
<1> USE DEF shmVars, mainVars, childVars, handlerVars, clientVars
<1>1. Server \notin Children /\ Server \in Processes /\ Children \subseteq Processes
  BY DEF Server, Children, Processes
<1>2. /\ UNCHANGED <<shmVars, mainVars, served, register, restarts>>
      /\ handler[Server] = "idle" /\ handler' = [handler EXCEPT ![Server] = "check"]
      /\ usr1' = [usr1 EXCEPT ![Server] = FALSE]
  BY DEF Wait, HandlerAt, HandlerTo
<1>3. \E e \in Children \cup {0, -1} : entry' = [entry EXCEPT ![Server] = e]
  BY DEF Wait, Zombies
<1>4. child' \in [Children -> {"none", "serving", "zombie"}]
  BY DEF Wait, IInv, TypeInv, TypeOK
<1>5. TypeInv'
  <2>1. /\ handler' \in [Processes -> {"idle", "check", "slot", "rear", "advance", "count",
                                       "increment"}]
        /\ usr1' \in [Processes -> BOOLEAN] /\ entry' \in [Processes -> Children \cup {0, -1}]
    BY <1>1, <1>2, <1>3 DEF IInv, TypeInv, TypeOK
  <2>2. UNCHANGED <<server, client>>
    BY DEF Wait
  <2> QED BY <1>2, <1>4, <2>1, <2>2 DEF IInv, TypeInv, TypeOK
<1>6. ServerAlone' /\ handler'[Server] = "check"
  BY <1>1, <1>2 DEF IInv, TypeInv, TypeOK, ServerAlone
<1>7. CountInv'
  BY <1>2, <1>6 DEF IInv, CountInv, Handling
<1>8. FirstRound' = FirstRound
  BY <1>2, <1>6 DEF FirstRound, Uncounted, Taken, Written
<1>9. RingInv'
  BY <1>2, <1>6, <1>8 DEF IInv, RingInv, Written
<1> QED BY <1>5, <1>6, <1>7, <1>9 DEF IInv

LEMMA CheckStep == ASSUME IInv, CheckFull(Server) PROVE IInv'
<1> USE DEF shmVars, mainVars, childVars, handlerVars, clientVars
<1>1. Server \notin Children /\ Server \in Processes /\ Children \subseteq Processes
  BY DEF Server, Children, Processes
<1>2. /\ UNCHANGED <<shmVars, mainVars, served, entry, register, usr1, client, restarts>>
      /\ handler[Server] = "check"
      /\ \/ handler' = [handler EXCEPT ![Server] = "slot"] /\ count # MAX_CLIENTS
         \/ handler' = [handler EXCEPT ![Server] = "idle"]
  BY DEF CheckFull, HandlerAt, HandlerTo, is_full
<1>3. /\ server' \in {server, "killed"}
      /\ child' \in [Children -> {"none", "serving", "zombie"}]
  BY DEF CheckFull, Kill, IInv, TypeInv, TypeOK
<1>4. TypeInv'
  BY <1>1, <1>2, <1>3 DEF IInv, TypeInv, TypeOK
<1>5. ServerAlone' /\ handler'[Server] \in {"slot", "idle"}
      /\ (handler'[Server] = "slot" => count # MAX_CLIENTS)
  BY <1>1, <1>2 DEF IInv, TypeInv, TypeOK, ServerAlone
<1>6. CountInv'
  <2>1. count \in 0..MAX_CLIENTS /\ MAX_CLIENTS \in Nat
    BY SizeAssumption DEF IInv, TypeInv, TypeOK
  <2>2. handler'[Server] = "slot" => count < MAX_CLIENTS
    BY <1>5, <2>1
  <2> QED BY <1>2, <1>5, <2>2 DEF IInv, CountInv, Handling
<1>7. FirstRound' = FirstRound
  BY <1>2, <1>5 DEF FirstRound, Uncounted, Taken, Written
<1>8. RingInv'
  BY <1>2, <1>5, <1>7 DEF IInv, RingInv, Written
<1> QED BY <1>4, <1>5, <1>6, <1>8 DEF IInv

(* A slot is written before rear moves over it, and rear moves before      *)
(* count does.                                                             *)
LEMMA EnqueueStep == ASSUME IInv, Enqueue(Server) PROVE IInv'
<1> USE DEF shmVars, mainVars, childVars, handlerVars, clientVars, HandlerAt, HandlerTo
<1>1. /\ Server \notin Children /\ Server \in Processes /\ Children \subseteq Processes
      /\ MAX_CLIENTS \in Nat \ {0} /\ Unwritten \notin Int /\ Children \subseteq Int
  BY SizeAssumption, UnwrittenAssumption DEF Server, Children, Processes
<1>2. /\ UNCHANGED <<front, server, mainVars, childVars, entry, usr1, clientVars>>
      /\ queue \in [Slots -> Children \cup {0, -1, Unwritten}]
      /\ front \in Slots /\ rear \in Slots /\ count \in 0..MAX_CLIENTS
      /\ entry[Server] \in Children \cup {0, -1}
      /\ register \in [Processes -> Int] /\ loaded \in Int
      /\ handler \in [Processes -> {"idle", "check", "slot", "rear", "advance", "count",
                                    "increment"}]
  BY <1>1 DEF Enqueue, IInv, TypeInv, TypeOK
<1>3. ASSUME queue' \in [Slots -> Children \cup {0, -1, Unwritten}],
             rear' \in Slots, count' \in 0..MAX_CLIENTS, register' \in [Processes -> Int],
             NEW label \in Handling \cup {"idle"}, HandlerTo(Server, label)
      PROVE  TypeInv' /\ ServerAlone' /\ handler'[Server] = label
  BY <1>1, <1>2, <1>3 DEF IInv, TypeInv, TypeOK, ServerAlone, Handling
<1>4. ASSUME handler[Server] = "slot", HandlerTo(Server, "rear"),
             queue' = [queue EXCEPT ![rear] = entry[Server]],
             UNCHANGED <<rear, count, register>>
      PROVE  IInv'
  <2>1. TypeInv' /\ ServerAlone' /\ handler'[Server] = "rear"
    BY <1>1, <1>2, <1>3, <1>4 DEF Handling
  <2>2. CountInv'
    BY <1>2, <1>4, <2>1 DEF IInv, CountInv, Handling
  <2>3. (\A s \in Slots : Written(s) => Written(s)') /\ queue'[rear] # Unwritten
    <3>1. entry[Server] # Unwritten
      <4>1. \A e \in Children \cup {0, -1} : e \in Int
        BY <1>1
      <4>2. entry[Server] \in Int
        BY <1>2, <4>1
      <4> QED BY <1>1, <4>2
    <3>2. queue'[rear] = entry[Server] /\ \A s \in Slots : s # rear => queue'[s] = queue[s]
      BY <1>2, <1>4
    <3> QED BY <3>1, <3>2 DEF Written
  <2>4. FirstRound => FirstRound'
    BY <1>2, <1>4, <2>1, <2>3 DEF FirstRound, Uncounted, Taken
  <2>5. RingInv'
    BY <1>2, <1>4, <2>1, <2>3, <2>4 DEF IInv, RingInv, Written
  <2> QED BY <2>1, <2>2, <2>5 DEF IInv
<1>5. ASSUME handler[Server] = "rear", HandlerTo(Server, "advance"),
             register' = [register EXCEPT ![Server] = rear],
             UNCHANGED <<queue, rear, count>>
      PROVE  IInv'
  <2>1. rear \in Int
    BY <1>1, <1>2 DEF Slots
  <2>2. register'[Server] = rear /\ register' \in [Processes -> Int]
    BY <1>1, <1>2, <1>5, <2>1
  <2>3. TypeInv' /\ ServerAlone' /\ handler'[Server] = "advance"
    BY <1>1, <1>2, <1>3, <1>5, <2>2 DEF Handling
  <2>4. CountInv'
    BY <1>2, <1>5, <2>2, <2>3 DEF IInv, CountInv, Handling
  <2>5. FirstRound' = FirstRound
    BY <1>2, <1>5, <2>3 DEF FirstRound, Uncounted, Taken, Written
  <2>6. RingInv'
    BY <1>2, <1>5, <2>3, <2>5 DEF IInv, RingInv, Written
  <2> QED BY <2>3, <2>4, <2>6 DEF IInv
<1>6. ASSUME handler[Server] = "advance", HandlerTo(Server, "count"),
             rear' = Advance(register[Server]), UNCHANGED <<queue, count, register>>
      PROVE  IInv'
  <2>1. /\ rear' \in Slots /\ register[Server] = rear
        /\ rear' = (IF rear = MAX_CLIENTS - 1 THEN 0 ELSE rear + 1)
    BY <1>2, <1>6, AdvanceWraps DEF IInv, CountInv
  <2>2. TypeInv' /\ ServerAlone' /\ handler'[Server] = "count"
    BY <1>1, <1>2, <1>3, <1>6, <2>1 DEF Handling
  <2>3. CountInv'
    BY <1>2, <1>6, <2>2 DEF IInv, CountInv, Handling
  <2>4. ASSUME restarts = 0, FirstRound
        PROVE  (\A s \in Slots : Written(s)') \/ FirstRound'
    <3>1. Written(rear) /\ \A s \in Slots : s < rear => Written(s)
      BY <1>6, <2>4 DEF IInv, RingInv, FirstRound
    <3>2. CASE rear = MAX_CLIENTS - 1
      <4>1. \A s \in Slots : s < rear \/ s = rear
        BY <1>1, <3>2 DEF Slots
      <4> QED BY <1>6, <3>1, <4>1 DEF Written
    <3>3. CASE rear # MAX_CLIENTS - 1
      <4>1. /\ rear' = rear + 1 /\ front <= rear /\ Taken' = Taken /\ Taken \in {0, 1}
            /\ Uncounted = 0 /\ Uncounted' = 1
            /\ count + Uncounted <= rear - front + Taken
        BY <1>2, <1>6, <2>1, <2>2, <2>4, <3>3 DEF FirstRound, Taken, Uncounted
      <4>2. front' <= rear' /\ count' + Uncounted' <= rear' - front' + Taken'
        BY <1>2, <1>6, <4>1 DEF Slots
      <4>3. \A s \in Slots : s < rear' => Written(s)'
        BY <1>1, <1>2, <1>6, <3>1, <4>1 DEF Written, Slots
      <4> QED BY <4>2, <4>3 DEF FirstRound
    <3> QED BY <3>2, <3>3
  <2>5. RingInv'
    BY <1>2, <1>6, <2>2, <2>4 DEF IInv, RingInv, Written
  <2> QED BY <2>2, <2>3, <2>5 DEF IInv
<1>7. ASSUME handler[Server] = "count", HandlerTo(Server, "increment"),
             register' = [register EXCEPT ![Server] = count],
             UNCHANGED <<queue, rear, count>>
      PROVE  IInv'
  <2>1. count \in Int
    BY <1>2
  <2>2. register'[Server] = count /\ register' \in [Processes -> Int]
    BY <1>1, <1>2, <1>7, <2>1
  <2>3. TypeInv' /\ ServerAlone' /\ handler'[Server] = "increment"
    BY <1>1, <1>2, <1>3, <1>7, <2>2 DEF Handling
  <2>4. CountInv'
    BY <1>2, <1>7, <2>2, <2>3 DEF IInv, CountInv, Handling
  <2>5. FirstRound' = FirstRound
    BY <1>2, <1>7, <2>3 DEF FirstRound, Uncounted, Taken, Written
  <2>6. RingInv'
    BY <1>2, <1>7, <2>3, <2>5 DEF IInv, RingInv, Written
  <2> QED BY <2>3, <2>4, <2>6 DEF IInv
<1>8. ASSUME handler[Server] = "increment", HandlerTo(Server, "idle"),
             count' = register[Server] + 1, UNCHANGED <<queue, rear, register>>
      PROVE  IInv'
  <2>1. count < MAX_CLIENTS /\ register[Server] = count
    BY <1>8 DEF IInv, CountInv, Handling
  <2>2. count' = count + 1 /\ count' \in 0..MAX_CLIENTS
    BY <1>1, <1>2, <1>8, <2>1
  <2>3. TypeInv' /\ ServerAlone' /\ handler'[Server] = "idle"
    BY <1>1, <1>2, <1>3, <1>8, <2>2
  <2>4. CountInv'
    BY <1>1, <1>2, <2>2, <2>3 DEF IInv, CountInv, Handling
  <2>5. ASSUME FirstRound PROVE FirstRound'
    <3>1. Uncounted = 1 /\ Uncounted' = 0 /\ Taken' = Taken /\ Taken \in {0, 1}
      BY <1>2, <1>8, <2>3 DEF Uncounted, Taken
    <3>2. count' + Uncounted' <= rear' - front' + Taken'
      BY <1>2, <1>8, <2>2, <2>5, <3>1 DEF FirstRound, Slots
    <3> QED BY <1>2, <1>8, <2>5, <3>2 DEF FirstRound, Written
  <2>6. RingInv'
    BY <1>2, <1>8, <2>3, <2>5 DEF IInv, RingInv, Written
  <2> QED BY <2>3, <2>4, <2>6 DEF IInv
<1> QED BY <1>4, <1>5, <1>6, <1>7, <1>8 DEF Enqueue

(* A server that is started again finds the segment empty, or with the     *)
(* count it had.                                                           *)
LEMMA RestartStep == ASSUME IInv, Restart PROVE IInv'
<1> USE DEF shmVars, mainVars, childVars, handlerVars, clientVars
<1>1. /\ MAX_CLIENTS \in Nat \ {0} /\ 0 \in Slots /\ Server \in Processes
      /\ \A k \in Children : k \in Processes
  BY SizeAssumption DEF Slots, Server, Children, Processes
<1>2. /\ pc' = "loop" /\ handler' = [p \in Processes |-> "idle"]
      /\ usr1' = [p \in Processes |-> FALSE] /\ restarts' = restarts + 1
      /\ pid' = -1 /\ loaded' = 0 /\ server' = "up"
      /\ child' = [k \in Children |-> "none"]
      /\ UNCHANGED <<served, entry, register, client>>
  BY DEF Restart
<1>3. /\ queue' \in [Slots -> Children \cup {0, -1, Unwritten}]
      /\ front' \in Slots /\ rear' \in Slots /\ count' \in 0..MAX_CLIENTS
  BY <1>1 DEF Restart, IInv, TypeInv, TypeOK
<1>4. TypeInv'
  BY <1>2, <1>3 DEF IInv, TypeInv, TypeOK
<1>5. ServerAlone' /\ CountInv'
  BY <1>1, <1>2 DEF ServerAlone, CountInv, Handling
<1>6. RingInv'
  <2>1. restarts' # 0
    BY <1>2 DEF IInv, TypeInv
  <2> QED BY <2>1 DEF RingInv
<1> QED BY <1>4, <1>5, <1>6 DEF IInv

LEMMA StepInvariant == ServersGroup = {} /\ IInv /\ [Next]_vars => IInv'
<1> SUFFICES ASSUME ServersGroup = {}, IInv, [Next]_vars PROVE IInv'
  OBVIOUS
<1>1. CASE MainStep
  BY <1>1, MainSteps
<1>2. ASSUME NEW p \in Processes, HandlerStep(p)
      PROVE  IInv'
  <2>1. p = Server
    BY <1>2, OnlyServerHandles DEF IInv
  <2> QED BY <1>2, <2>1, WaitStep, CheckStep, EnqueueStep DEF HandlerStep
<1>3. CASE UNCHANGED vars
  <2>1. TypeInv' /\ RingStill /\ UNCHANGED usr1
    BY <1>3 DEF vars, shmVars, mainVars, childVars, handlerVars, clientVars, IInv, TypeInv,
                TypeOK, RingStill
  <2> QED BY <2>1, RingStillInvariant
<1> QED BY <1>1, <1>2, <1>3, OtherSteps, RestartStep DEF Next, AtRest

THEOREM Invariance == ServersGroup = {} => (Spec => []IInv)
<1> SUFFICES ASSUME ServersGroup = {} PROVE Spec => []IInv
  OBVIOUS
<1>1. IInv /\ [Next]_vars => IInv'
  BY StepInvariant
<1> QED BY InitInvariant, <1>1, PTL DEF Spec

(* The indices stay in the ring and count between none and all its slots,  *)
(* though main loop and handler load and store it without protection.      *)
THEOREM TypeCorrect == ServersGroup = {} => (Spec => []TypeOK)
<1>1. IInv => TypeOK
  BY DEF IInv, TypeInv
<1> QED BY <1>1, Invariance, PTL

(* No child is forked for a slot that no handler has written.              *)
THEOREM NoPhantomClient == ServersGroup = {} => (Spec => []ServesWrittenSlots)
<1>1. IInv => ServesWrittenSlots
  BY DEF IInv, RingInv, ServesWrittenSlots
<1> QED BY <1>1, Invariance, PTL
=============================================================================
