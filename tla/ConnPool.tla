------------------------------ MODULE ConnPool ------------------------------
(***************************************************************************)
(* The connection pool of kitserv: the accept threads and the client       *)
(* workers of kitserv.c, the free list of connection slots each worker     *)
(* keeps, and the epoll queues through which a slot is handed from one to  *)
(* the other.                                                              *)
(*                                                                         *)
(* An accept thread takes a client socket, asks every worker for its       *)
(* number of free slots, pops a slot of the best worker under that         *)
(* worker's mutex and registers the socket with the worker's epoll queue.  *)
(* A worker takes batches of events from its queue, serves each slot, and  *)
(* when a connection is over removes the socket from the queue, closes     *)
(* it, and pushes the slot back under the mutex.                           *)
(*                                                                         *)
(* The specification starts where the startup barrier opens.  What         *)
(* kitserv_http_serve_client does is abstracted to its result.             *)
(***************************************************************************)
EXTENDS Integers, Sequences, FiniteSets

CONSTANTS
  NumWorkers,   (* config->num_workers                                     *)
  NumSlots,     (* config->num_slots                                       *)
  Accepters,    (* the accept threads: one per bound address family        *)
  Fds,          (* descriptors the kernel may give to accepted sockets     *)
  NoFd,         (* sockfd of a slot that never had a socket                *)
  MaxEvents,    (* MAX_EVENTS: events one queue_wait returns at most       *)
  UninitNext,   (* what the last next_conn of a new container may hold     *)
  AddMayFail    (* whether epoll_ctl may refuse a registration             *)

ASSUME SizeAssumption ==
  /\ NumWorkers \in Nat \ {0}
  /\ NumSlots \in Nat
  /\ NumSlots >= NumWorkers
  /\ MaxEvents \in Nat \ {0}
ASSUME FdAssumption == NoFd \notin Fds
ASSUME FlagAssumption == AddMayFail \in BOOLEAN

(* Round the share of a worker up to the nearest multiple.                 *)
slots == (NumSlots + NumWorkers - 1) \div NumWorkers

Worker == 1 .. NumWorkers
Slot   == 1 .. slots
NULL   == 0            \* the null struct connection*
Wild   == slots + 1    \* a pointer to no connection
Pointer == Slot \union {NULL, Wild}

Nobody == "nobody"     \* the mutex is free
Self   == "worker"     \* the worker holds its own mutex

ASSUME HeapAssumption == UninitNext # {} /\ UninitNext \subseteq {NULL, Wild}
ASSUME ThreadAssumption ==
  /\ Nobody \notin Accepters /\ Self \notin Accepters
  /\ IsFiniteSet(Accepters)

VARIABLES
  open,             (* descriptors of accepted sockets that are open       *)
  epoll,            (* per worker: the slot registered for a descriptor    *)
  ready,            (* per worker: edge-triggered ready list of its queue  *)
  lock,             (* per worker: holder of conn_lock                     *)
  freelist_count,
  first_free_conn,
  next_conn,        (* per worker and slot                                 *)
  sockfd,           (* per worker and slot: conn->client.sockfd            *)
  fresh,            (* per worker and slot: the client struct is reset     *)
  apc,              (* where each accept thread is                         *)
  asock,            (* its sockfd                                          *)
  ai,               (* its index in select_client_worker                   *)
  best_worker,
  best_score,
  new_conn,
  wpc,              (* where each worker is                                *)
  events            (* per worker: slots of the batch still to be handled  *)

poolvars == <<lock, freelist_count, first_free_conn, next_conn>>
accvars  == <<apc, asock, ai, best_worker, best_score, new_conn>>
wrkvars  == <<wpc, events>>
sysvars  == <<open, epoll, ready>>
vars     == <<sysvars, poolvars, sockfd, fresh, accvars, wrkvars>>

conn(w) == Head(events[w])     \* the connection worker w is handling

-----------------------------------------------------------------------------
(* connection_init: all slots free, in order.  The next_conn of the last   *)
(* slot is not assigned.                                                   *)
Init ==
  /\ open = {}
  /\ epoll = [w \in Worker |-> [d \in Fds |-> NULL]]
  /\ ready = [w \in Worker |-> <<>>]
  /\ lock = [w \in Worker |-> Nobody]
  /\ freelist_count = [w \in Worker |-> slots]
  /\ first_free_conn = [w \in Worker |-> 1]
  /\ \E last \in [Worker -> UninitNext] :
       next_conn = [w \in Worker |->
                     [s \in Slot |-> IF s < slots THEN s + 1 ELSE last[w]]]
  /\ sockfd = [w \in Worker |-> [s \in Slot |-> NoFd]]
  /\ fresh = [w \in Worker |-> [s \in Slot |-> TRUE]]
  /\ apc = [a \in Accepters |-> "accept"]
  /\ asock = [a \in Accepters |-> NoFd]
  /\ ai = [a \in Accepters |-> 1]
  /\ best_worker = [a \in Accepters |-> 1]
  /\ best_score = [a \in Accepters |-> -1]
  /\ new_conn = [a \in Accepters |-> NULL]
  /\ wpc = [w \in Worker |-> "wait"]
  /\ events = [w \in Worker |-> <<>>]

-----------------------------------------------------------------------------
(* The kernel's side of the epoll queues and of descriptors.               *)

(* A descriptor is at most once in a ready list.                           *)
Contains(list, d) == \E k \in 1 .. Len(list) : list[k] = d

Append1(list, d) == IF Contains(list, d) THEN list ELSE Append(list, d)

Without(list, d) ==
  IF ~ Contains(list, d) THEN list
  ELSE LET i == CHOOSE k \in 1 .. Len(list) : list[k] = d
       IN  [k \in 1 .. Len(list) - 1 |-> IF k < i THEN list[k] ELSE list[k + 1]]

(* Closing a descriptor takes it out of every queue that watches it.       *)
CloseFd(d) ==
  /\ open' = open \ {d}
  /\ epoll' = [w \in Worker |-> [epoll[w] EXCEPT ![d] = NULL]]
  /\ ready' = [w \in Worker |-> Without(ready[w], d)]

(* An edge on a watched socket: the peer sent, acknowledged, or left.      *)
Activity(w, d) ==
  /\ epoll[w][d] # NULL
  /\ ~ Contains(ready[w], d)
  /\ ready' = [ready EXCEPT ![w] = Append(@, d)]
  /\ UNCHANGED <<open, epoll, poolvars, sockfd, fresh, accvars, wrkvars>>

-----------------------------------------------------------------------------
(* conn_lock.  Definitions named *Fault are faulty variants of the next one. *)

MutexFreeFault(w) == TRUE      \* nobody waits for the mutex
MutexFree(w) == lock[w] = Nobody

UnlockFault(w) == UNCHANGED lock
Unlock(w) == lock' = [lock EXCEPT ![w] = Nobody]

-----------------------------------------------------------------------------
(* accept_worker                                                           *)

(* The accept thread goes round its loop; its locals start over.           *)
Restart(a) ==
  /\ apc' = [apc EXCEPT ![a] = "accept"]
  /\ asock' = [asock EXCEPT ![a] = NoFd]
  /\ ai' = [ai EXCEPT ![a] = 1]
  /\ best_worker' = [best_worker EXCEPT ![a] = 1]
  /\ best_score' = [best_score EXCEPT ![a] = -1]
  /\ new_conn' = [new_conn EXCEPT ![a] = NULL]

(* kitserv_socket_accept returns a descriptor.  Its failures only loop.    *)
Accept(a) ==
  /\ apc[a] = "accept"
  /\ \E d \in Fds \ open :
       /\ open' = open \union {d}
       /\ asock' = [asock EXCEPT ![a] = d]
  /\ apc' = [apc EXCEPT ![a] = "score"]
  /\ UNCHANGED <<epoll, ready, poolvars, sockfd, fresh, ai, best_worker,
                 best_score, new_conn, wrkvars>>

(* The worker asked has more free slots than the best before it.           *)
BetterFault(a) == freelist_count[ai[a]] < best_score[a]
Better(a) == freelist_count[ai[a]] > best_score[a]

AskedAllFault(a) == ai[a] > NumWorkers      \* one too many
AskedAll(a) == ai[a] = NumWorkers

(* One round of the loop of select_client_worker, with score_worker: the   *)
(* count is read under the mutex of that worker, which is then released.   *)
Score(a) ==
  /\ apc[a] = "score"
  /\ MutexFree(ai[a])
  /\ IF Better(a)
     THEN /\ best_worker' = [best_worker EXCEPT ![a] = ai[a]]
          /\ best_score' = [best_score EXCEPT ![a] = freelist_count[ai[a]]]
     ELSE UNCHANGED <<best_worker, best_score>>
  /\ IF AskedAll(a)
     THEN apc' = [apc EXCEPT ![a] = "lock"] /\ UNCHANGED ai
     ELSE ai' = [ai EXCEPT ![a] = @ + 1] /\ UNCHANGED apc
  /\ UNCHANGED <<sysvars, poolvars, sockfd, fresh, asock, new_conn, wrkvars>>

(* connection_accept: take the mutex and read the head of the list.        *)
Lock(a) ==
  /\ apc[a] = "lock"
  /\ MutexFree(best_worker[a])
  /\ lock' = [lock EXCEPT ![best_worker[a]] = a]
  /\ new_conn' = [new_conn EXCEPT ![a] = first_free_conn[best_worker[a]]]
  /\ apc' = [apc EXCEPT ![a] = "take"]
  /\ UNCHANGED <<sysvars, freelist_count, first_free_conn, next_conn, sockfd,
                 fresh, asock, ai, best_worker, best_score, wrkvars>>

(* connection_accept: pop the slot, give it the socket, unlock.            *)
Take(a) ==
  LET w == best_worker[a]
      s == new_conn[a]
  IN  /\ apc[a] = "take"
      /\ s \in Slot
      /\ first_free_conn' = [first_free_conn EXCEPT ![w] = next_conn[w][s]]
      /\ freelist_count' = [freelist_count EXCEPT ![w] = @ - 1]
      /\ sockfd' = [sockfd EXCEPT ![w][s] = asock[a]]
      /\ Unlock(w)
      /\ apc' = [apc EXCEPT ![a] = "add"]
      /\ UNCHANGED <<sysvars, next_conn, fresh, asock, ai, best_worker,
                     best_score, new_conn, wrkvars>>

(* connection_accept: the list is empty; unlock and return NULL.           *)
TakeNone(a) ==
  /\ apc[a] = "take"
  /\ new_conn[a] = NULL
  /\ Unlock(best_worker[a])
  /\ apc' = [apc EXCEPT ![a] = "refuse"]
  /\ UNCHANGED <<sysvars, freelist_count, first_free_conn, next_conn, sockfd,
                 fresh, asock, ai, best_worker, best_score, new_conn, wrkvars>>

(* connection_accept dereferences a pointer to no connection: undefined    *)
(* behaviour, from which the thread is not followed any further.           *)
TakeWild(a) ==
  /\ apc[a] = "take"
  /\ new_conn[a] = Wild
  /\ apc' = [apc EXCEPT ![a] = "undefined"]
  /\ UNCHANGED <<sysvars, poolvars, sockfd, fresh, asock, ai, best_worker,
                 best_score, new_conn, wrkvars>>

(* No free slot: the socket is closed.                                     *)
Refuse(a) ==
  /\ apc[a] = "refuse"
  /\ CloseFd(asock[a])
  /\ Restart(a)
  /\ UNCHANGED <<poolvars, sockfd, fresh, wrkvars>>

(* kitserv_queue_add.  A new socket is writable, so it is ready at once.   *)
(* The result is not looked at: a failure leaves the slot registered       *)
(* nowhere.                                                                *)
Add(a) ==
  LET w == best_worker[a]
      d == asock[a]
  IN  /\ apc[a] = "add"
      /\ \/ /\ epoll' = [epoll EXCEPT ![w][d] = new_conn[a]]
            /\ ready' = [ready EXCEPT ![w] = Append1(@, d)]
         \/ /\ AddMayFail
            /\ UNCHANGED <<epoll, ready>>
      /\ Restart(a)
      /\ UNCHANGED <<open, poolvars, sockfd, fresh, wrkvars>>

-----------------------------------------------------------------------------
(* client_worker                                                           *)

BatchSize(w) == IF Len(ready[w]) < MaxEvents THEN Len(ready[w]) ELSE MaxEvents

(* kitserv_queue_wait: the first events of the ready list, each as the     *)
(* slot it was registered with.  An edge-triggered event is delivered once.*)
Wait(w) ==
  LET n == BatchSize(w)
  IN  /\ wpc[w] = "wait"
      /\ n > 0
      /\ events' = [events EXCEPT ![w] =
                      [k \in 1 .. n |-> epoll[w][ready[w][k]]]]
      /\ ready' = [ready EXCEPT ![w] = SubSeq(@, n + 1, Len(@))]
      /\ wpc' = [wpc EXCEPT ![w] = "serve"]
      /\ UNCHANGED <<open, epoll, poolvars, sockfd, fresh, accvars>>

(* Faulty variants: the rest of the batch is forgotten; the loop stays at  *)
(* the same event.                                                         *)
NextEventBreakFault(w) ==
  /\ events' = [events EXCEPT ![w] = <<>>]
  /\ wpc' = [wpc EXCEPT ![w] = "wait"]
NextEventStayFault(w) == UNCHANGED events /\ wpc' = [wpc EXCEPT ![w] = "serve"]

(* Done with the first event of the batch.                                 *)
NextEvent(w) ==
  /\ events' = [events EXCEPT ![w] = Tail(@)]
  /\ wpc' = [wpc EXCEPT ![w] = IF Len(events[w]) > 1 THEN "serve" ELSE "wait"]

(* kitserv_http_serve_client: the connection lives on, or is to be dropped.*)
Serve(w) ==
  /\ wpc[w] = "serve"
  /\ fresh' = [fresh EXCEPT ![w][conn(w)] = FALSE]
  /\ \/ NextEvent(w)
     \/ wpc' = [wpc EXCEPT ![w] = "remove"] /\ UNCHANGED events
  /\ UNCHANGED <<sysvars, poolvars, sockfd, accvars>>

(* kitserv_queue_remove                                                    *)
Remove(w) ==
  LET d == sockfd[w][conn(w)]
  IN  /\ wpc[w] = "remove"
      /\ epoll' = [epoll EXCEPT ![w][d] = NULL]
      /\ ready' = [ready EXCEPT ![w] = Without(@, d)]
      /\ wpc' = [wpc EXCEPT ![w] = "close"]
      /\ UNCHANGED <<open, poolvars, sockfd, fresh, accvars, events>>

(* kitserv_socket_close                                                    *)
Close(w) ==
  /\ wpc[w] = "close"
  /\ CloseFd(sockfd[w][conn(w)])
  /\ wpc' = [wpc EXCEPT ![w] = "reset"]
  /\ UNCHANGED <<poolvars, sockfd, fresh, accvars, events>>

ResetClientFault(w, s) == UNCHANGED fresh
ResetClient(w, s) == fresh' = [fresh EXCEPT ![w][s] = TRUE]

(* connection_close: kitserv_http_reset_client, before the mutex is taken. *)
Reset(w) ==
  /\ wpc[w] = "reset"
  /\ ResetClient(w, conn(w))
  /\ wpc' = [wpc EXCEPT ![w] = "link"]
  /\ UNCHANGED <<sysvars, poolvars, sockfd, accvars, events>>

(* connection_close: take the mutex and link the slot before the head.     *)
Link(w) ==
  /\ wpc[w] = "link"
  /\ MutexFree(w)
  /\ lock' = [lock EXCEPT ![w] = Self]
  /\ next_conn' = [next_conn EXCEPT ![w][conn(w)] = first_free_conn[w]]
  /\ wpc' = [wpc EXCEPT ![w] = "push"]
  /\ UNCHANGED <<sysvars, freelist_count, first_free_conn, sockfd, fresh,
                 accvars, events>>

CountFreeFault(w) == UNCHANGED freelist_count
CountFree(w) == freelist_count' = [freelist_count EXCEPT ![w] = @ + 1]

(* connection_close: make it the head, count it, unlock.                   *)
Push(w) ==
  /\ wpc[w] = "push"
  /\ first_free_conn' = [first_free_conn EXCEPT ![w] = conn(w)]
  /\ CountFree(w)
  /\ Unlock(w)
  /\ NextEvent(w)
  /\ UNCHANGED <<sysvars, next_conn, sockfd, fresh, accvars>>

-----------------------------------------------------------------------------
Accepter(a) ==
  \/ Accept(a) \/ Score(a) \/ Lock(a) \/ Take(a) \/ TakeNone(a)
  \/ TakeWild(a) \/ Refuse(a) \/ Add(a)

ClientWorker(w) ==
  \/ Wait(w) \/ Serve(w) \/ Remove(w) \/ Close(w) \/ Reset(w)
  \/ Link(w) \/ Push(w)

Next ==
  \/ \E a \in Accepters : Accepter(a)
  \/ \E w \in Worker : ClientWorker(w)
  \/ \E w \in Worker, d \in Fds : Activity(w, d)

Spec == Init /\ [][Next]_vars

(* Every thread is scheduled, and a thread that waits for a mutex which is *)
(* released again and again gets it in the end.  No connection ever has to *)
(* arrive and no edge ever has to occur.                                   *)
Fairness ==
  /\ \A a \in Accepters :
       /\ SF_vars(Score(a)) /\ SF_vars(Lock(a))
       /\ WF_vars(Take(a) \/ TakeNone(a) \/ Refuse(a) \/ Add(a))
  /\ \A w \in Worker :
       /\ SF_vars(Link(w))
       /\ WF_vars(ClientWorker(w))

FairSpec == Spec /\ Fairness

-----------------------------------------------------------------------------
(* Who uses a slot.                                                        *)

AccepterPC == {"accept", "score", "lock", "take", "add", "refuse", "undefined"}
WorkerPC   == {"wait", "serve", "remove", "close", "reset", "link", "push"}

(* Accept threads that popped a slot of w and have not registered it yet.  *)
HandingOver(w) == {a \in Accepters : apc[a] = "add" /\ best_worker[a] = w}

Registered(w) == {epoll[w][d] : d \in Fds} \ {NULL}

(* The slot whose socket the worker has taken out of its queue.            *)
Releasing(w) ==
  IF wpc[w] \in {"close", "reset", "link", "push"} THEN {conn(w)} ELSE {}

InUse(w) ==
  {new_conn[a] : a \in HandingOver(w)} \union Registered(w) \union Releasing(w)

-----------------------------------------------------------------------------
(* Every variable has its type: the slots and descriptors the threads use  *)
(* are in range.                                                           *)
TypeOK ==
  /\ open \in SUBSET Fds
  /\ epoll \in [Worker -> [Fds -> Slot \union {NULL}]]
  /\ ready \in [Worker -> Seq(Fds)]
  /\ lock \in [Worker -> Accepters \union {Nobody, Self}]
  /\ freelist_count \in [Worker -> Int]
  /\ first_free_conn \in [Worker -> Pointer]
  /\ next_conn \in [Worker -> [Slot -> Pointer]]
  /\ sockfd \in [Worker -> [Slot -> Fds \union {NoFd}]]
  /\ fresh \in [Worker -> [Slot -> BOOLEAN]]
  /\ apc \in [Accepters -> AccepterPC]
  /\ asock \in [Accepters -> Fds \union {NoFd}]
  /\ ai \in [Accepters -> Worker]
  /\ best_worker \in [Accepters -> Worker]
  /\ best_score \in [Accepters -> Int]
  /\ new_conn \in [Accepters -> Pointer]
  /\ wpc \in [Worker -> WorkerPC]
  /\ events \in [Worker -> Seq(Slot)]

(* The free list of a worker is a chain of freelist_count different slots  *)
(* that ends in what connection_init left behind, and no slot on it is     *)
(* used by any thread or queue: a pop and a push by two threads never lose *)
(* a slot, never link one twice, and never make a cycle.                   *)
FreeList(w, f) ==
  /\ \A i, j \in 1 .. freelist_count[w] : f[i] = f[j] => i = j
  /\ IF freelist_count[w] = 0 THEN first_free_conn[w] \in UninitNext
                              ELSE first_free_conn[w] = f[1]
  /\ \A i \in 1 .. freelist_count[w] :
       /\ IF i = freelist_count[w] THEN next_conn[w][f[i]] \in UninitNext
                                   ELSE next_conn[w][f[i]] = f[i + 1]
       /\ f[i] \notin InUse(w)

FreeListOK ==
  \A w \in Worker :
    /\ freelist_count[w] >= 0
    /\ \E f \in [1 .. freelist_count[w] -> Slot] : FreeList(w, f)

(* "active connections should not be shared": a slot has one user at a     *)
(* time, an accept thread that hands it over, one registration, or the     *)
(* worker that takes it back.                                              *)
SlotExclusive ==
  \A w \in Worker :
    /\ \A a, b \in HandingOver(w) : new_conn[a] = new_conn[b] => a = b
    /\ \A d, e \in Fds :
         epoll[w][d] = epoll[w][e] /\ epoll[w][d] # NULL => d = e
    /\ \A a \in HandingOver(w) :
         new_conn[a] \notin Registered(w) \union Releasing(w)
    /\ Releasing(w) \intersect Registered(w) = {}

(* No slot is lost: the count of free slots and the slots in use add up to *)
(* the container, unless a registration failed and nobody noticed.         *)
SlotsConserved ==
  \A w \in Worker :
    LET total == freelist_count[w] + Cardinality(InUse(w))
    IN  IF AddMayFail THEN total <= slots ELSE total = slots

(* A descriptor number is used only by the connection it was accepted for, *)
(* although the kernel reuses numbers as soon as they are closed: what is  *)
(* registered is open, under its own slot, in one queue; the worker        *)
(* removes and closes its own connection; an accept thread has a socket of *)
(* its own.                                                                *)
SocketOwned ==
  /\ \A w \in Worker, d \in Fds : epoll[w][d] # NULL =>
       /\ d \in open
       /\ sockfd[w][epoll[w][d]] = d
       /\ \A v \in Worker \ {w} : epoll[v][d] = NULL
  /\ \A w \in Worker : wpc[w] = "close" =>
       LET d == sockfd[w][conn(w)]
       IN  /\ d \in open
           /\ \A v \in Worker : /\ epoll[v][d] = NULL
                                /\ v # w /\ wpc[v] = "close" =>
                                     sockfd[v][conn(v)] # d
  /\ \A a \in Accepters : asock[a] # NoFd =>
       /\ asock[a] \in open
       /\ \A b \in Accepters \ {a} : asock[b] # asock[a]
       /\ \A w \in Worker : /\ epoll[w][asock[a]] = NULL
                            /\ wpc[w] = "close" =>
                                 sockfd[w][conn(w)] # asock[a]

(* The events of a batch stay good until the worker gets to them: each is  *)
(* for a slot that is still registered, and no slot is in a batch twice,   *)
(* so that closing one connection never leaves an event for a slot that    *)
(* has been freed, or been given to another client.                        *)
BatchLive ==
  \A w \in Worker :
    /\ \A j, k \in 1 .. Len(events[w]) : events[w][j] = events[w][k] => j = k
    /\ \A k \in 1 .. Len(events[w]) :
         k > 1 \/ wpc[w] \in {"serve", "remove"} =>
           events[w][k] \in Registered(w)

(* The assertions of connection_accept: the slot a socket is given to has  *)
(* been reset, and the list counts at least that slot.                     *)
FreshOnAccept ==
  \A a \in Accepters :
    apc[a] = "take" /\ new_conn[a] \in Slot =>
      /\ fresh[best_worker[a]][new_conn[a]]
      /\ freelist_count[best_worker[a]] > 0

(* With a single accept thread a score, although it is stale when it is    *)
(* used, is a floor: the chosen worker has at least that many free slots   *)
(* when its mutex is taken, so a client is refused only if every worker    *)
(* was full when it was asked.                                             *)
RefusedOnlyWhenFull ==
  Cardinality(Accepters) = 1 =>
    \A a \in Accepters :
      /\ apc[a] \in {"lock", "take"} =>
           freelist_count[best_worker[a]] >= best_score[a]
      /\ apc[a] = "refuse" => best_score[a] = 0

-----------------------------------------------------------------------------
(* The inductive invariant: what the threads know of each other between    *)
(* two steps.                                                              *)

(* The mutex of a worker is held by the one thread that is between its     *)
(* lock and its unlock.                                                    *)
LockOK ==
  \A w \in Worker :
    /\ lock[w] = Self <=> wpc[w] = "push"
    /\ \A a \in Accepters :
         lock[w] = a <=> apc[a] \in {"take", "undefined"} /\ best_worker[a] = w

(* Inside the mutex the head does not move; a popped slot is a slot, and   *)
(* carries the socket of its accept thread until that registers it.        *)
AccepterOK ==
  \A a \in Accepters :
    /\ apc[a] = "take" => new_conn[a] = first_free_conn[best_worker[a]]
    /\ apc[a] = "add" => /\ new_conn[a] \in Slot
                         /\ sockfd[best_worker[a]][new_conn[a]] = asock[a]
    /\ apc[a] = "accept" <=> asock[a] = NoFd

WorkerOK ==
  \A w \in Worker :
    /\ wpc[w] = "wait" <=> events[w] = <<>>
    /\ wpc[w] = "push" => next_conn[w][conn(w)] = first_free_conn[w]

(* A ready list has registered descriptors, each once.                     *)
ReadyOK ==
  \A w \in Worker :
    /\ \A k \in 1 .. Len(ready[w]) : epoll[w][ready[w][k]] # NULL
    /\ \A j, k \in 1 .. Len(ready[w]) : ready[w][j] = ready[w][k] => j = k

IInv ==
  /\ TypeOK
  /\ LockOK
  /\ AccepterOK
  /\ WorkerOK
  /\ ReadyOK
  /\ FreeListOK
  /\ SlotExclusive
  /\ SocketOwned
  /\ BatchLive

(* What FreshOnAccept needs besides: a client that has served anything is  *)
(* registered, or its worker is about to reset it.                         *)
FreshOK ==
  \A w \in Worker, s \in Slot : ~ fresh[w][s] =>
    \/ s \in Registered(w)
    \/ wpc[w] \in {"close", "reset"} /\ s = conn(w)

(* What RefusedOnlyWhenFull needs besides: until a lone accept thread pops *)
(* a slot the score it remembers is a floor, and is none only before the   *)
(* first worker was asked.                                                 *)
ScoreOK ==
  (\A a, b \in Accepters : a = b) =>
    \A a \in Accepters :
      /\ apc[a] = "accept" => best_score[a] = -1
      /\ apc[a] \in {"accept", "score"} => ai[a] = 1 \/ best_score[a] >= 0
      /\ apc[a] \in {"lock", "take"} => best_score[a] >= 0
      /\ apc[a] \in {"accept", "score", "lock", "take"} =>
           freelist_count[best_worker[a]] >= best_score[a]
      /\ apc[a] = "refuse" => best_score[a] = 0

-----------------------------------------------------------------------------
(* Every event the kernel has noted for a connection gets that connection  *)
(* served, or the connection is dropped: an edge-triggered queue does not  *)
(* say it again.                                                           *)
EventServed ==
  \A w \in Worker, d \in Fds :
    Contains(ready[w], d)
      ~> \/ wpc[w] = "serve" /\ sockfd[w][conn(w)] = d
         \/ epoll[w][d] = NULL

(* An accepted socket does not stay with its accept thread.                *)
SocketSettled ==
  \A a \in Accepters, d \in Fds : asock[a] = d ~> asock[a] # d

-----------------------------------------------------------------------------
(* The pool implements SlotPool.  A free slot is one that the list reaches *)
(* from its head in freelist_count steps; the socket a slot serves is its  *)
(* sockfd until the worker has closed it.                                  *)
FreeSlots(w) ==
  LET node[k \in 1 .. freelist_count[w]] ==
        IF k = 1 THEN first_free_conn[w] ELSE next_conn[w][node[k - 1]]
  IN  {node[k] : k \in 1 .. freelist_count[w]}

Closed(w) ==
  IF wpc[w] \in {"reset", "link", "push"} THEN {conn(w)} ELSE {}

With(pcs) == {asock[a] : a \in {b \in Accepters : apc[b] \in pcs}}

Serving(w) == Slot \ (FreeSlots(w) \union Closed(w))

accepted == With({"score", "lock", "take", "undefined"})
rejected == With({"refuse"})
free     == [w \in Worker |-> FreeSlots(w)]
client   == [w \in Worker |-> [s \in Slot |->
              IF s \in Serving(w) THEN sockfd[w][s] ELSE NoFd]]

Pool == INSTANCE SlotPool
  WITH accepted <- accepted, rejected <- rejected, client <- client, free <- free

(* Every step of the threads is a step of the abstract pool or invisible   *)
(* there: whatever the interleaving, a socket gets a slot of its own, is   *)
(* refused only for want of a slot, and is closed before its slot is given *)
(* to another.                                                             *)
PoolSpec == Pool!Spec

(* What PoolSpec needs besides IInv: the socket of a slot that is neither  *)
(* free nor closed is open, also when its registration failed, and is with *)
(* no other slot and no accept thread.                                     *)
HoldOK ==
  \A w \in Worker : \A s \in Serving(w) :
    /\ sockfd[w][s] \in open
    /\ sockfd[w][s] \notin accepted \union rejected
    /\ \A v \in Worker : \A t \in Serving(v) :
         sockfd[v][t] = sockfd[w][s] => v = w /\ t = s
=============================================================================
