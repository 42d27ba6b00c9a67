----------------------------- MODULE BiboQueue -----------------------------
(***************************************************************************)
(* The queue of waiting clients of the forking file server (MIDTERM        *)
(* PROJECT/biboServer.c and biboClient.c).  A client asks for a place in   *)
(* the queue with SIGUSR1; the server's signal handler puts an entry in    *)
(* the shared memory segment and its main loop takes one out and forks a   *)
(* child for it.                                                           *)
(*                                                                         *)
(* A handler interrupts the main loop between any two instructions, and    *)
(* the children, who inherit the handlers, share the segment.  The         *)
(* semaphore calls do nothing: semid is never set.  Each access of rear    *)
(* and count is a load or a store, as in the unoptimised build.  A signal  *)
(* that is already pending is not queued a second time.                    *)
(***************************************************************************)
EXTENDS Integers, FiniteSets

CONSTANTS
    MAX_CLIENTS,
    NumChildren,   \* bound on the children that exist at a time
    Clients,
    ServersGroup,  \* clients started in the server's process group
    MaxKnocks,     \* bound on the SIGUSR1 sent to server_pid
    MaxRestarts,   \* bound on the servers started after the first
    Unwritten      \* what a slot holds before a handler writes it

ASSUME SizeAssumption == MAX_CLIENTS \in Nat \ {0} /\ NumChildren \in Nat
ASSUME GroupAssumption == ServersGroup \subseteq Clients
ASSUME UnwrittenAssumption == Unwritten \notin Int

Server    == 0
Children  == 1..NumChildren
Processes == {Server} \cup Children
Slots     == 0..(MAX_CLIENTS - 1)

VARIABLES
    queue, front, rear, count,  \* the queue in shared memory
    server,    \* "up", "killed" by SIGUSR2, or "stopped" by SIGINT
    pc,        \* where the main loop is
    pid, loaded, \* its variable pid, and the value of count it has loaded
    child,     \* each child: "none", "serving" or "zombie"
    served,    \* the pid whose FIFO the child serves
    handler,   \* where each process is in handle_signal(SIGUSR1), or "idle"
    entry, register, \* the handler's variable pid, and a value it has loaded
    usr1, chld, \* pending signals: SIGUSR1 of each process, the server's SIGCHLD
    reaping,   \* whether the handler of SIGCHLD is installed
    client, connected, \* each client's main loop, and its connected flag
    knocks,    \* SIGUSR1 sent to server_pid so far
    restarts   \* servers started after the first so far

shmVars     == <<queue, front, rear, count>>
mainVars    == <<pc, pid, loaded>>
childVars   == <<child, served>>
handlerVars == <<handler, entry, register>>
clientVars  == <<client, connected, knocks, restarts>>
vars == <<shmVars, server, mainVars, childVars, handlerVars, usr1, chld, reaping,
          clientVars>>

Init ==
    /\ queue = [s \in Slots |-> Unwritten]
    /\ front = 0 /\ rear = 0 /\ count = 0
    /\ server = "up" /\ pc = "loop" /\ pid = -1 /\ loaded = 0
    /\ child = [k \in Children |-> "none"]
    /\ served = [k \in Children |-> -1]
    /\ handler = [p \in Processes |-> "idle"]
    /\ entry = [p \in Processes |-> -1]
    /\ register = [p \in Processes |-> 0]
    /\ usr1 = [p \in Processes |-> FALSE] /\ chld = FALSE /\ reaping = FALSE
    /\ client = [c \in Clients |-> "new"]
    /\ connected = [c \in Clients |-> FALSE]
    /\ knocks = 0 /\ restarts = 0

Advance(i) == (i + 1) % MAX_CLIENTS

is_empty == count = 0
NeverFull == FALSE     \* mutant
is_full == count = MAX_CLIENTS

Alive(p) == IF p = Server THEN server = "up" ELSE child[p] = "serving"
Zombies  == {k \in Children : child[k] = "zombie"}
-----------------------------------------------------------------------------
(* The main loop.  It stands still while the handler runs.                 *)
AtMain(label) == server = "up" /\ handler[Server] = "idle" /\ pc = label

Loop ==
    /\ AtMain("loop")
    /\ pc' = IF is_empty THEN "sleep" ELSE "dequeue"
    /\ UNCHANGED <<shmVars, server, pid, loaded, childVars, handlerVars, usr1, chld,
                   reaping, clientVars>>

Sleep ==
    /\ AtMain("sleep")
    /\ pc' = "loop"
    /\ UNCHANGED <<shmVars, server, pid, loaded, childVars, handlerVars, usr1, chld,
                   reaping, clientVars>>

SecondInLine == queue[Advance(front)]    \* mutant
FirstInLine == queue[front]

Dequeue ==
    /\ AtMain("dequeue")
    /\ IF is_empty
       THEN pid' = -1 /\ pc' = "fork" /\ UNCHANGED front
       ELSE pid' = FirstInLine /\ pc' = "load" /\ front' = Advance(front)
    /\ UNCHANGED <<queue, rear, count, server, loaded, childVars, handlerVars, usr1,
                   chld, reaping, clientVars>>

LoadCount ==
    /\ AtMain("load")
    /\ loaded' = count
    /\ pc' = "store"
    /\ UNCHANGED <<shmVars, server, pid, childVars, handlerVars, usr1, chld, reaping,
                   clientVars>>

NotDecremented == loaded     \* mutant
Decremented == loaded - 1

StoreCount ==
    /\ AtMain("store")
    /\ count' = Decremented
    /\ pc' = "fork"
    /\ UNCHANGED <<queue, front, rear, server, pid, loaded, childVars, handlerVars,
                   usr1, chld, reaping, clientVars>>

(* The fork may fail, and then the entry is forgotten.                     *)
Fork ==
    /\ AtMain("fork")
    /\ \/ \E k \in Children :
             /\ child[k] = "none"
             /\ child' = [child EXCEPT ![k] = "serving"]
             /\ served' = [served EXCEPT ![k] = pid]
             /\ handler' = [handler EXCEPT ![k] = "idle"]
             /\ usr1' = [usr1 EXCEPT ![k] = FALSE]
             /\ pc' = "install"
       \/ pc' = "loop" /\ UNCHANGED <<childVars, handler, usr1>>
    /\ UNCHANGED <<shmVars, server, pid, loaded, entry, register, chld, reaping,
                   clientVars>>

Install ==           \* signal(SIGCHLD, handle_signal)
    /\ AtMain("install")
    /\ reaping' = TRUE
    /\ pc' = "loop"
    /\ UNCHANGED <<shmVars, server, pid, loaded, childVars, handlerVars, usr1, chld,
                   clientVars>>

MainStep == Loop \/ Sleep \/ Dequeue \/ LoadCount \/ StoreCount \/ Fork \/ Install
-----------------------------------------------------------------------------
(* The handler of SIGUSR1, in the server or in a child.  What it takes for *)
(* the client's pid is the result of waitpid(-1, NULL, WNOHANG): a zombie, *)
(* 0 when no child has ended, -1 when there is no child.                   *)
HandlerAt(p, label) == Alive(p) /\ handler[p] = label
HandlerTo(p, label) == handler' = [handler EXCEPT ![p] = label]

Wait(p) ==
    /\ HandlerAt(p, "idle") /\ usr1[p]
    /\ usr1' = [usr1 EXCEPT ![p] = FALSE]
    /\ HandlerTo(p, "check")
    /\ \/ /\ p = Server
          /\ \E k \in Zombies :
                /\ entry' = [entry EXCEPT ![p] = k]
                /\ child' = [child EXCEPT ![k] = "none"]
       \/ /\ p # Server \/ Zombies = {}
          /\ entry' = [entry EXCEPT ![p] =
                         IF p = Server /\ \E k \in Children : child[k] = "serving"
                         THEN 0 ELSE -1]
          /\ UNCHANGED child
    /\ UNCHANGED <<shmVars, server, mainVars, served, register, chld, reaping,
                   clientVars>>

(* SIGUSR1 and SIGUSR2 in the clients: handle_signal sets connected.       *)
Handles(c) == client[c] \notin {"new", "gone"}
Rejected(told) ==
    connected' = [c \in Clients |-> connected[c] /\ ~(c \in told /\ Handles(c))]
Confirmed(told) ==
    connected' = [c \in Clients |-> connected[c] \/ (c \in told /\ Handles(c))]

(* SIGUSR2 reaches a set of processes, none of whom handles it, and a set  *)
(* of clients, whose handler clears the connected flag.                    *)
Kill(killed, told) ==
    /\ server' = IF Server \in killed /\ server = "up" THEN "killed" ELSE server
    /\ child' = [k \in Children |->
                   IF k \in killed /\ child[k] = "serving" THEN "zombie" ELSE child[k]]
    /\ Rejected(told)
    /\ chld' = (chld \/ (reaping /\ child' # child))

CheckFull(p) ==
    /\ HandlerAt(p, "check")
    /\ \/ /\ ~is_full
          /\ HandlerTo(p, "slot")
          /\ UNCHANGED <<server, child, chld, connected>>
       \/ /\ is_full           \* kill(pid, SIGUSR2)
          /\ HandlerTo(p, "idle")
          /\ CASE entry[p] = 0  -> Kill(Processes, ServersGroup)
               [] entry[p] = -1 -> Kill(Processes \ {p}, Clients)
               [] OTHER         -> UNCHANGED <<server, child, chld, connected>>
    /\ UNCHANGED <<shmVars, mainVars, served, entry, register, usr1, reaping, client,
                   knocks, restarts>>

(* queue[rear] = pid; rear = (rear + 1) % MAX_CLIENTS; count++             *)
Enqueue(p) ==
    /\ \/ /\ HandlerAt(p, "slot") /\ HandlerTo(p, "rear")
          /\ queue' = [queue EXCEPT ![rear] = entry[p]]
          /\ UNCHANGED <<rear, count, register>>
       \/ /\ HandlerAt(p, "rear") /\ HandlerTo(p, "advance")
          /\ register' = [register EXCEPT ![p] = rear]
          /\ UNCHANGED <<queue, rear, count>>
       \/ /\ HandlerAt(p, "advance") /\ HandlerTo(p, "count")
          /\ rear' = Advance(register[p])
          /\ UNCHANGED <<queue, count, register>>
       \/ /\ HandlerAt(p, "count") /\ HandlerTo(p, "increment")
          /\ register' = [register EXCEPT ![p] = count]
          /\ UNCHANGED <<queue, rear, count>>
       \/ /\ HandlerAt(p, "increment") /\ HandlerTo(p, "idle")
          /\ count' = register[p] + 1
          /\ UNCHANGED <<queue, rear, register>>
    /\ UNCHANGED <<front, server, mainVars, childVars, entry, usr1, chld, reaping,
                   clientVars>>

(* The handler of SIGCHLD waits for one child, whoever sent the signal.    *)
Reap ==
    /\ server = "up" /\ chld
    /\ chld' = FALSE
    /\ \/ \E k \in Zombies : child' = [child EXCEPT ![k] = "none"]
       \/ Zombies = {} /\ UNCHANGED child
    /\ UNCHANGED <<shmVars, server, mainVars, served, handlerVars, usr1, reaping,
                   clientVars>>

(* The handler of SIGINT: kill(0, SIGKILL).                                *)
Interrupt ==
    /\ server = "up"
    /\ server' = "stopped"
    /\ child' = [k \in Children |-> "none"]
    /\ client' = [c \in Clients |->
                    IF c \in ServersGroup /\ client[c] # "new" THEN "gone" ELSE client[c]]
    /\ UNCHANGED <<shmVars, mainVars, served, handlerVars, usr1, chld, reaping,
                   connected, knocks, restarts>>

HandlerStep(p) == Wait(p) \/ CheckFull(p) \/ Enqueue(p)

(* Somebody writes to the FIFO that child k reads, or kills it.            *)
ChildEnds(k) ==
    /\ child[k] = "serving"
    /\ child' = [child EXCEPT ![k] = "zombie"]
    /\ chld' = (chld \/ reaping)
    /\ UNCHANGED <<shmVars, server, mainVars, served, handlerVars, usr1, reaping,
                   clientVars>>
-----------------------------------------------------------------------------
(* The clients.  The first kill(server_pid, SIGUSR1) comes before          *)
(* server_pid is set: it is kill(0, SIGUSR1), to the sender's own process  *)
(* group.  tryConnect does it twice.                                       *)
SignalOwnGroup(c) ==
    /\ Confirmed(IF c \in ServersGroup THEN ServersGroup ELSE {c})
    /\ usr1' = [p \in Processes |-> usr1[p] \/ (c \in ServersGroup /\ Alive(p))]

Start(c) ==
    /\ client[c] = "new"
    /\ \E option \in {"connect", "tryConnect"} :
          client' = [client EXCEPT ![c] = option]
    /\ UNCHANGED <<shmVars, server, mainVars, childVars, handlerVars, usr1, chld,
                   reaping, connected, knocks, restarts>>

Connect(c) ==
    /\ client[c] \in {"connect", "tryConnect"}
    /\ SignalOwnGroup(c)
    /\ client' = [client EXCEPT ![c] = IF @ = "connect" THEN "running" ELSE "connect"]
    /\ UNCHANGED <<shmVars, server, mainVars, childVars, handlerVars, chld, reaping,
                   knocks, restarts>>

(* kill(server_pid, SIGUSR1), by a program that was told the server's pid,  *)
(* or by a client that was rejected and whose user types connect again.    *)
Knocks == /\ server = "up" /\ knocks < MaxKnocks
          /\ knocks' = knocks + 1
          /\ usr1' = [usr1 EXCEPT ![Server] = TRUE]

KnockOnce == Knocks /\ UNCHANGED client
Retry(c)  == client[c] = "running" /\ ~connected[c] /\ Knocks /\ UNCHANGED client

Knock ==
    /\ KnockOnce \/ \E c \in Clients : Retry(c)
    /\ UNCHANGED <<shmVars, server, mainVars, childVars, handlerVars, chld, reaping,
                   client, connected, restarts>>

(* A client that believes it is connected writes its request to a FIFO     *)
(* named by its own pid, which no child ever opens, and closes it: the     *)
(* request is lost, and it waits for the answer for ever, since it keeps   *)
(* the FIFO open for writing itself.                                       *)
Request(c) ==
    /\ client[c] = "running" /\ connected[c]
    /\ client' = [client EXCEPT ![c] = "waiting"]
    /\ UNCHANGED <<shmVars, server, mainVars, childVars, handlerVars, usr1, chld,
                   reaping, connected, knocks, restarts>>

CtrlC(c) ==
    /\ Handles(c)
    /\ client' = [client EXCEPT ![c] = "gone"]
    /\ UNCHANGED <<shmVars, server, mainVars, childVars, handlerVars, usr1, chld,
                   reaping, connected, knocks, restarts>>
-----------------------------------------------------------------------------
(* A server started when the last one and its children are gone.  SIGINT   *)
(* has removed the segment.  After any other end the new server finds it   *)
(* as it was, and sem_init() writes a semaphore over its first slots.      *)
SemaphoreSlots == Slots \cap 0..3

Restart ==
    /\ server # "up" /\ restarts < MaxRestarts
    /\ \A k \in Children : child[k] # "serving"
    /\ restarts' = restarts + 1
    /\ server' = "up" /\ pc' = "loop" /\ pid' = -1 /\ loaded' = 0
    /\ child' = [k \in Children |-> "none"]
    /\ handler' = [p \in Processes |-> "idle"]
    /\ usr1' = [p \in Processes |-> FALSE] /\ chld' = FALSE /\ reaping' = FALSE
    /\ IF server = "stopped"
       THEN /\ queue' = [s \in Slots |-> Unwritten]
            /\ front' = 0 /\ rear' = 0 /\ count' = 0
       ELSE /\ queue' = [s \in Slots |-> IF s \in SemaphoreSlots THEN Unwritten
                                                                      ELSE queue[s]]
            /\ UNCHANGED <<front, rear, count>>
    /\ UNCHANGED <<served, entry, register, client, connected, knocks>>

AtRest == server # "up" /\ UNCHANGED vars

Next == \/ MainStep
        \/ \E p \in Processes : HandlerStep(p)
        \/ Reap \/ Interrupt
        \/ \E k \in Children : ChildEnds(k)
        \/ \E c \in Clients : Start(c) \/ Connect(c) \/ Request(c) \/ CtrlC(c)
        \/ Knock
        \/ Restart
        \/ AtRest

Spec == Init /\ [][Next]_vars

(* The server process and its handlers keep running.                       *)
FairSpec == /\ Spec
            /\ WF_vars(MainStep)
            /\ WF_vars(HandlerStep(Server))
            /\ WF_vars(Reap)
=============================================================================
