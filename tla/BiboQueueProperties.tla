------------------------ MODULE BiboQueueProperties ------------------------
(***************************************************************************)
(* What the queue of the forking file server keeps to, and what it does    *)
(* not.                                                                    *)
(***************************************************************************)
EXTENDS BiboQueue

(* The indices stay in the ring, and count between none and all its slots: *)
(* nothing is taken from an empty queue or added to a full one.            *)
TypeOK ==
    /\ queue \in [Slots -> Children \cup {0, -1, Unwritten}]
    /\ front \in Slots /\ rear \in Slots /\ count \in 0..MAX_CLIENTS
    /\ server \in {"up", "killed", "stopped"}
    /\ pc \in {"loop", "sleep", "dequeue", "load", "store", "fork", "install"}
    /\ child \in [Children -> {"none", "serving", "zombie"}]
    /\ handler \in [Processes -> {"idle", "check", "slot", "rear", "advance", "count",
                                  "increment"}]
    /\ client \in [Clients -> {"new", "connect", "tryConnect", "running", "waiting", "gone"}]

(* No child is forked for a slot that no handler wrote: however the        *)
(* handler interrupts the main loop, count is never more than the slots    *)
(* written and not yet taken.  (Only the server handling SIGUSR1, and not  *)
(* a server that found a segment with entries and put its semaphore there.) *)
ServesWrittenSlots ==
    restarts = 0 => \A k \in Children : child[k] = "serving" => served[k] # Unwritten

(* While the server is up, what count says is in the queue is taken out,   *)
(* also what a server that was killed has left in the segment.             *)
QueueIsDrained == count > 0 ~> (count = 0 \/ server # "up")
-----------------------------------------------------------------------------
(* Claims of the code and of the documentation that do not hold.           *)

(* biboServer.c:36: count is the "number of clients in the queue".         *)
CountIsDistance ==
    AtMain("loop") => rear = (front + count) % MAX_CLIENTS

(* biboServer.c:165: to reject a client is a signal to that client, it     *)
(* does not end the server.                                                *)
RejectionSparesServer == server # "killed"
=============================================================================
