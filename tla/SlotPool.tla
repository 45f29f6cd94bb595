------------------------------ MODULE SlotPool ------------------------------
(***************************************************************************)
(* What the connection pool promises, without threads, mutexes, lists or   *)
(* queues: a socket that was accepted is given one slot of one worker, or  *)
(* is closed because a worker had none; a slot serves one socket at a      *)
(* time, and is free again only after its socket has been closed.          *)
(***************************************************************************)
CONSTANTS
  Worker,       (* the client workers                                      *)
  Slot,         (* the slots each of them has                              *)
  Fds,          (* descriptors of client sockets                           *)
  NoFd          (* no socket                                               *)

VARIABLES
  accepted,     (* sockets that wait for a slot                            *)
  rejected,     (* sockets that will get none                              *)
  client,       (* per worker and slot: the socket it serves               *)
  free          (* per worker: slots that may be given away                *)

vars == <<accepted, rejected, client, free>>

InUseFds == accepted \union rejected \union
            {client[w][s] : w \in Worker, s \in Slot}

Init ==
  /\ accepted = {}
  /\ rejected = {}
  /\ client = [w \in Worker |-> [s \in Slot |-> NoFd]]
  /\ free = [w \in Worker |-> Slot]

(* The kernel hands out a descriptor that is not in use.                   *)
Accept(d) ==
  /\ d \notin InUseFds
  /\ accepted' = accepted \union {d}
  /\ UNCHANGED <<rejected, client, free>>

Assign(d, w, s) ==
  /\ d \in accepted
  /\ s \in free[w]
  /\ accepted' = accepted \ {d}
  /\ client' = [client EXCEPT ![w][s] = d]
  /\ free' = [free EXCEPT ![w] = @ \ {s}]
  /\ UNCHANGED rejected

(* Only a worker without a free slot is a reason to turn a client away.    *)
Reject(d, w) ==
  /\ d \in accepted
  /\ free[w] = {}
  /\ accepted' = accepted \ {d}
  /\ rejected' = rejected \union {d}
  /\ UNCHANGED <<client, free>>

Close(d) ==
  /\ d \in rejected
  /\ rejected' = rejected \ {d}
  /\ UNCHANGED <<accepted, client, free>>

(* The connection ends and its socket is closed.                           *)
Drop(w, s) ==
  /\ client[w][s] # NoFd
  /\ client' = [client EXCEPT ![w][s] = NoFd]
  /\ UNCHANGED <<accepted, rejected, free>>

Recycle(w, s) ==
  /\ client[w][s] = NoFd
  /\ s \notin free[w]
  /\ free' = [free EXCEPT ![w] = @ \union {s}]
  /\ UNCHANGED <<accepted, rejected, client>>

Next ==
  \/ \E d \in Fds : Accept(d) \/ Close(d)
  \/ \E d \in Fds, w \in Worker : Reject(d, w)
  \/ \E d \in Fds, w \in Worker, s \in Slot : Assign(d, w, s)
  \/ \E w \in Worker, s \in Slot : Drop(w, s) \/ Recycle(w, s)

Spec == Init /\ [][Next]_vars
=============================================================================
