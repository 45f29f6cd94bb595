--------------------------- MODULE ConnPoolProofs ---------------------------
(***************************************************************************)
(* Proofs about ConnPool, for any number of workers, slots, accept threads *)
(* and descriptors, whatever the heap held and whether or not              *)
(* registrations fail.                                                     *)
(*                                                                         *)
(* The free list alone is not inductive: that a pop takes a slot nobody    *)
(* uses depends on the mutex (LockOK), on what a thread read inside it     *)
(* (AccepterOK, WorkerOK), on a worker only ever giving back what it took  *)
(* out of its own queue (SocketOwned, BatchLive), and on the queue only    *)
(* reporting registered slots (ReadyOK).  IInv is their conjunction; each  *)
(* action has one lemma that it preserves IInv.                            *)
(*                                                                         *)
(* On IInv rest the theorems of the second half: a slot is given away only *)
(* after its client was reset, a lone accept thread refuses a client only  *)
(* when every worker was full, no slot is lost, and the pool implements    *)
(* SlotPool.                                                               *)
(***************************************************************************)
EXTENDS ConnPool, FiniteSetTheorems, TLAPS

-----------------------------------------------------------------------------
(* Constants, sequences, and what several actions have in common.          *)

(* kitserv.c:280 gives every worker at least one slot.                     *)
LEMMA SlotsPositive == slots \in Nat \ {0}
  <1>1. NumWorkers \in Nat /\ NumWorkers > 0 /\ NumSlots \in Nat
        /\ NumSlots >= NumWorkers
    BY SizeAssumption
  <1>2. (NumSlots + NumWorkers - 1) \div NumWorkers \in Int
    BY <1>1
  <1>3. NumWorkers * ((NumSlots + NumWorkers - 1) \div NumWorkers)
          > NumSlots + NumWorkers - 1 - NumWorkers
    BY <1>1, Z3
  <1>. QED BY <1>1, <1>2, <1>3, Z3 DEF slots

(* Taking a descriptor out of a ready list leaves the others, each once.   *)
LEMMA WithoutProps ==
  ASSUME NEW list \in Seq(Fds), NEW d,
         \A j, k \in 1 .. Len(list) : list[j] = list[k] => j = k
  PROVE  LET rest == Without(list, d)
         IN  /\ rest \in Seq(Fds)
             /\ \A k \in 1 .. Len(rest) :
                  rest[k] # d /\ \E j \in 1 .. Len(list) : rest[k] = list[j]
             /\ \A j, k \in 1 .. Len(rest) : rest[j] = rest[k] => j = k
  <1>1. CASE ~ Contains(list, d)
    BY <1>1 DEF Without, Contains
  <1>2. CASE Contains(list, d)
    <2> DEFINE i == CHOOSE k \in 1 .. Len(list) : list[k] = d
               rest == [k \in 1 .. Len(list) - 1 |->
                          IF k < i THEN list[k] ELSE list[k + 1]]
    <2>1. i \in 1 .. Len(list) /\ list[i] = d
      BY <1>2 DEF Contains
    <2>2. Without(list, d) = rest
      BY <1>2 DEF Without
    <2>3. rest \in Seq(Fds) /\ Len(rest) = Len(list) - 1
      BY <2>1
    <2> HIDE DEF i
    <2> DEFINE from(k) == IF k < i THEN k ELSE k + 1
    <2>4. \A k \in 1 .. Len(rest) :
            from(k) \in 1 .. Len(list) /\ from(k) # i /\ rest[k] = list[from(k)]
      BY <2>1, <2>3
    <2>5. \A j, k \in 1 .. Len(rest) : from(j) = from(k) => j = k
      BY <2>1, <2>3
    <2> HIDE DEF rest, from
    <2> QED BY <2>1, <2>2, <2>3, <2>4, <2>5, SMTT(60)
  <1> QED BY <1>1, <1>2

(* NULL and a wild pointer are no slots.                                   *)
LEMMA PointerFacts ==
  /\ NULL \in Pointer /\ Wild \in Pointer /\ Slot \subseteq Pointer
  /\ NULL \notin Slot /\ Wild \notin Slot /\ NULL # Wild
  /\ Pointer = Slot \union {NULL, Wild}
  /\ UninitNext \subseteq {NULL, Wild}
  BY SlotsPositive, HeapAssumption DEF Pointer, Slot, NULL, Wild

(* A step outside the list and outside its users leaves the list alone.    *)
LEMMA FreeListKept ==
  ASSUME TypeOK, FreeListOK,
         UNCHANGED <<freelist_count, first_free_conn, next_conn>>,
         \A w \in Worker : InUse(w)' \subseteq InUse(w)
  PROVE  FreeListOK'
  <1> SUFFICES ASSUME NEW w \in Worker
               PROVE  /\ freelist_count'[w] >= 0
                      /\ \E f \in [1 .. freelist_count'[w] -> Slot] :
                           FreeList(w, f)'
    BY DEF FreeListOK
  <1>1. PICK f \in [1 .. freelist_count[w] -> Slot] : FreeList(w, f)
    BY DEF FreeListOK
  <1>2. FreeList(w, f)'
    BY <1>1 DEF FreeList
  <1> QED BY <1>1, <1>2 DEF FreeListOK

(* A step that only ends uses of slots keeps the uses apart.               *)
LEMMA UseKept ==
  ASSUME TypeOK, SlotExclusive,
         \A w \in Worker : HandingOver(w)' \subseteq HandingOver(w),
         \A w \in Worker, b \in Accepters :
           b \in HandingOver(w)' => new_conn'[b] = new_conn[b],
         \A w \in Worker, d \in Fds : epoll'[w][d] \in {epoll[w][d], NULL},
         \A w \in Worker : Releasing(w)' \subseteq Releasing(w)
  PROVE  /\ SlotExclusive'
         /\ \A w \in Worker : InUse(w)' \subseteq InUse(w)
  <1>1. \A w \in Worker : Registered(w)' \subseteq Registered(w)
    BY DEF Registered
  <1>2. \A w \in Worker : HandingOver(w)' \subseteq Accepters
    BY DEF HandingOver
  <1>3. \A w \in Worker : InUse(w)' \subseteq InUse(w)
    BY <1>1, <1>2 DEF InUse
  <1>4. SlotExclusive'
    <2> SUFFICES ASSUME NEW w \in Worker
                 PROVE  /\ \A a, b \in HandingOver(w)' :
                             new_conn'[a] = new_conn'[b] => a = b
                        /\ \A d, e \in Fds :
                             epoll'[w][d] = epoll'[w][e] /\ epoll'[w][d] # NULL
                               => d = e
                        /\ \A a \in HandingOver(w)' :
                             new_conn'[a] \notin Registered(w)' \union Releasing(w)'
                        /\ Releasing(w)' \intersect Registered(w)' = {}
      BY DEF SlotExclusive
    <2>1. \A d, e \in Fds :
            epoll'[w][d] = epoll'[w][e] /\ epoll'[w][d] # NULL => d = e
      BY DEF SlotExclusive
    <2> QED BY <1>1, <1>2, <2>1 DEF SlotExclusive
  <1> QED BY <1>3, <1>4

(* Closing a descriptor no queue watches changes no queue.                 *)
LEMMA CloseUnregistered ==
  ASSUME NEW d \in Fds, TypeOK, ReadyOK, CloseFd(d),
         \A w \in Worker : epoll[w][d] = NULL
  PROVE  open' = open \ {d} /\ epoll' = epoll /\ ready' = ready
  <1>1. epoll' = epoll
    BY DEF CloseFd, TypeOK
  <1>2. \A w \in Worker : ~ Contains(ready[w], d)
    BY DEF ReadyOK, Contains
  <1>3. ready' = ready
    BY <1>2 DEF CloseFd, TypeOK, Without
  <1> QED BY <1>1, <1>3 DEF CloseFd

(* A worker that is not waiting handles the first event of its batch.      *)
LEMMA ConnFacts ==
  ASSUME NEW w \in Worker, TypeOK, WorkerOK, wpc[w] # "wait"
  PROVE  /\ Len(events[w]) \in Nat /\ Len(events[w]) >= 1
         /\ conn(w) = events[w][1] /\ conn(w) \in Slot
  BY DEF TypeOK, WorkerOK, conn

(* What is left of a batch without its first event.                        *)
LEMMA TailFacts ==
  ASSUME NEW S, NEW q \in Seq(S), q # <<>>
  PROVE  /\ Tail(q) \in Seq(S)
         /\ Len(Tail(q)) = Len(q) - 1
         /\ \A k \in 1 .. Len(q) - 1 : Tail(q)[k] = q[k + 1]
         /\ (Len(q) > 1) <=> (Tail(q) # <<>>)
  <1>1. Len(q) \in Nat /\ Len(q) >= 1
    BY SMTT(30)
  <1>2. Tail(q) \in Seq(S) /\ Len(Tail(q)) = Len(q) - 1
    BY SMTT(30)
  <1>3. \A k \in 1 .. Len(q) - 1 : Tail(q)[k] = q[k + 1]
    BY SMTT(30)
  <1>4. \A t \in Seq(S) : t # <<>> <=> Len(t) > 0
    BY SMTT(30)
  <1>5. Tail(q) # <<>> <=> Len(Tail(q)) > 0
    BY <1>2, <1>4, Zenon
  <1>6. Len(q) > 1 <=> Len(Tail(q)) > 0
    BY <1>1, <1>2
  <1> QED BY <1>2, <1>3, <1>5, <1>6, Zenon

(* client_worker moving to the next event of its batch.                    *)
LEMMA NextEventFacts ==
  ASSUME NEW w \in Worker, TypeOK, WorkerOK, wpc[w] # "wait", NextEvent(w)
  PROVE  /\ events' \in [Worker -> Seq(Slot)]
         /\ \A v \in Worker \ {w} : events'[v] = events[v] /\ wpc'[v] = wpc[v]
         /\ Len(events'[w]) = Len(events[w]) - 1
         /\ \A k \in 1 .. Len(events'[w]) : events'[w][k] = events[w][k + 1]
         /\ wpc' \in [Worker -> WorkerPC]
         /\ wpc'[w] = IF events'[w] = <<>> THEN "wait" ELSE "serve"
  <1>1. events[w] \in Seq(Slot) /\ events[w] # <<>>
    BY DEF TypeOK, WorkerOK
  <1> DEFINE batch == events[w]
  <1>2. /\ Tail(batch) \in Seq(Slot)
        /\ Len(Tail(batch)) = Len(batch) - 1
        /\ \A k \in 1 .. Len(batch) - 1 : Tail(batch)[k] = batch[k + 1]
        /\ (Len(batch) > 1) <=> (Tail(batch) # <<>>)
    BY <1>1, TailFacts, Zenon
  <1>3. events'[w] = Tail(events[w])
    BY DEF NextEvent, TypeOK
  <1>4. events' \in [Worker -> Seq(Slot)]
    BY <1>2 DEF NextEvent, TypeOK
  <1>5. wpc' \in [Worker -> WorkerPC]
        /\ wpc'[w] = IF Len(events[w]) > 1 THEN "serve" ELSE "wait"
    BY DEF NextEvent, TypeOK, WorkerPC
  <1>6. \A v \in Worker \ {w} : events'[v] = events[v] /\ wpc'[v] = wpc[v]
    BY DEF NextEvent, TypeOK
  <1> QED BY <1>2, <1>3, <1>4, <1>5, <1>6

(* What is left of a live batch is live.                                   *)
LEMMA BatchTail ==
  ASSUME NEW w \in Worker, TypeOK, WorkerOK, BatchLive, wpc[w] # "wait",
         NextEvent(w), \A v \in Worker : Registered(v) \subseteq Registered(v)'
  PROVE  BatchLive'
  <1>1. /\ \A v \in Worker \ {w} : events'[v] = events[v] /\ wpc'[v] = wpc[v]
        /\ Len(events'[w]) = Len(events[w]) - 1
        /\ \A k \in 1 .. Len(events'[w]) : events'[w][k] = events[w][k + 1]
    BY NextEventFacts
  <1>2. Len(events[w]) \in Nat /\ Len(events[w]) >= 1
    BY ConnFacts
  <1>3. /\ \A k \in 1 .. Len(events'[w]) :
             events'[w][k] \in Registered(w)'
        /\ \A j, k \in 1 .. Len(events'[w]) :
             events'[w][j] = events'[w][k] => j = k
    <2>1. \A k \in 1 .. Len(events'[w]) : k + 1 \in 1 .. Len(events[w]) /\ k + 1 > 1
      BY <1>1, <1>2
    <2>2. \A k \in 1 .. Len(events'[w]) : events[w][k + 1] \in Registered(w)
      BY <2>1 DEF BatchLive
    <2>3. \A j, k \in 1 .. Len(events'[w]) :
            events[w][j + 1] = events[w][k + 1] => j = k
      BY <1>1, <1>2, <2>1 DEF BatchLive
    <2> QED BY <1>1, <2>2, <2>3, SMTT(60)
  <1>4. \A v \in Worker \ {w} :
          /\ \A j, k \in 1 .. Len(events'[v]) :
               events'[v][j] = events'[v][k] => j = k
          /\ \A k \in 1 .. Len(events'[v]) :
               k > 1 \/ wpc'[v] \in {"serve", "remove"} =>
                 events'[v][k] \in Registered(v)'
    BY <1>1, SMTT(60) DEF BatchLive
  <1> QED BY <1>3, <1>4 DEF BatchLive

-----------------------------------------------------------------------------
(* The accept threads.                                                     *)

(* kitserv_socket_accept: the kernel gives out a descriptor nobody uses.   *)
LEMMA AcceptStep ==
  ASSUME NEW a \in Accepters, IInv, Accept(a)
  PROVE  IInv'
  <1>0. /\ TypeOK /\ LockOK /\ AccepterOK /\ WorkerOK /\ ReadyOK /\ FreeListOK
        /\ SlotExclusive /\ SocketOwned /\ BatchLive
    BY DEF IInv
  <1>1. PICK d \in Fds \ open :
          /\ open' = open \union {d}
          /\ asock' = [asock EXCEPT ![a] = d]
    BY DEF Accept
  <1>2. /\ apc[a] = "accept"
        /\ apc' = [apc EXCEPT ![a] = "score"]
        /\ UNCHANGED <<epoll, ready, lock, freelist_count, first_free_conn,
                       next_conn, sockfd, fresh, ai, best_worker, best_score,
                       new_conn, wpc, events>>
    BY DEF Accept, poolvars, wrkvars
  <1>3. TypeOK'
    BY <1>0, <1>1, <1>2 DEF TypeOK, AccepterPC
  <1>4. LockOK'
    BY <1>0, <1>2, SMTT(60) DEF TypeOK, LockOK
  <1>5. AccepterOK'
    BY <1>0, <1>1, <1>2, FdAssumption DEF TypeOK, AccepterOK
  <1>6. WorkerOK' /\ ReadyOK' /\ BatchLive'
    BY <1>0, <1>2 DEF WorkerOK, conn, ReadyOK, BatchLive, Registered
  <1>7. SlotExclusive' /\ \A w \in Worker : InUse(w)' \subseteq InUse(w)
    BY <1>0, <1>2, UseKept DEF TypeOK, HandingOver, Releasing, conn
  <1>8. FreeListOK'
    BY <1>0, <1>2, <1>7, FreeListKept
  <1>9. SocketOwned'
    BY <1>0, <1>1, <1>2, SMTT(60) DEF TypeOK, SocketOwned, conn
  <1> QED BY <1>3, <1>4, <1>5, <1>6, <1>7, <1>8, <1>9 DEF IInv

(* select_client_worker reads one count.                                   *)
LEMMA ScoreStep ==
  ASSUME NEW a \in Accepters, IInv, Score(a)
  PROVE  IInv'
  <1>0. /\ TypeOK /\ LockOK /\ AccepterOK /\ WorkerOK /\ ReadyOK /\ FreeListOK
        /\ SlotExclusive /\ SocketOwned /\ BatchLive
    BY DEF IInv
  <1>1. /\ apc[a] = "score"
        /\ apc' \in [Accepters -> AccepterPC]
        /\ apc'[a] \in {"score", "lock"}
        /\ best_worker' \in [Accepters -> Worker]
        /\ \A b \in Accepters \ {a} :
             apc'[b] = apc[b] /\ best_worker'[b] = best_worker[b]
        /\ UNCHANGED <<open, epoll, ready, lock, freelist_count,
                       first_free_conn, next_conn, sockfd, fresh, asock,
                       new_conn, wpc, events>>
    <2>1. /\ apc[a] = "score"
          /\ UNCHANGED <<open, epoll, ready, lock, freelist_count,
                         first_free_conn, next_conn, sockfd, fresh, asock,
                         new_conn, wpc, events>>
      BY DEF Score, sysvars, poolvars, wrkvars
    <2>2. /\ apc' \in {apc, [apc EXCEPT ![a] = "lock"]}
          /\ best_worker' \in {best_worker, [best_worker EXCEPT ![a] = ai[a]]}
      BY DEF Score
    <2>3. /\ apc \in [Accepters -> AccepterPC]
          /\ best_worker \in [Accepters -> Worker]
          /\ ai[a] \in Worker
      BY <1>0 DEF TypeOK
    <2> QED BY <2>1, <2>2, <2>3 DEF AccepterPC
  <1>2. ai' \in [Accepters -> Worker] /\ best_score' \in [Accepters -> Int]
    <2>1. ~ AskedAll(a) => ai[a] + 1 \in Worker
      <3>1. ai[a] \in Worker
        BY <1>0, Zenon DEF TypeOK
      <3> QED BY <3>1, SizeAssumption DEF Worker, AskedAll
    <2>2. ai[a] \in Worker /\ freelist_count[ai[a]] \in Int
      BY <1>0 DEF TypeOK
    <2> QED BY <1>0, <2>1, <2>2, ZenonT(60) DEF Score, TypeOK
  <1>3. TypeOK'
    BY <1>0, <1>1, <1>2 DEF TypeOK
  <1>4. LockOK'
    <2>1. \A b \in Accepters :
            /\ apc'[b] \in {"take", "undefined"} <=> apc[b] \in {"take", "undefined"}
            /\ apc[b] \in {"take", "undefined"} => best_worker'[b] = best_worker[b]
      BY <1>1
    <2> QED BY <1>0, <1>1, <2>1 DEF LockOK
  <1>5. AccepterOK'
    BY <1>0, <1>1, ZenonT(60) DEF TypeOK, AccepterOK
  <1>6. WorkerOK' /\ ReadyOK' /\ BatchLive'
    BY <1>0, <1>1 DEF WorkerOK, conn, ReadyOK, BatchLive, Registered
  <1>7. SlotExclusive' /\ \A w \in Worker : InUse(w)' \subseteq InUse(w)
    BY <1>0, <1>1, UseKept DEF TypeOK, HandingOver, Releasing, conn
  <1>8. FreeListOK'
    BY <1>0, <1>1, <1>7, FreeListKept
  <1>9. SocketOwned'
    BY <1>0, <1>1 DEF TypeOK, SocketOwned, conn
  <1> QED BY <1>3, <1>4, <1>5, <1>6, <1>7, <1>8, <1>9 DEF IInv

(* connection_accept reads the head of the list inside the mutex.          *)
LEMMA LockStep ==
  ASSUME NEW a \in Accepters, IInv, Lock(a)
  PROVE  IInv'
  <1>0. /\ TypeOK /\ LockOK /\ AccepterOK /\ WorkerOK /\ ReadyOK /\ FreeListOK
        /\ SlotExclusive /\ SocketOwned /\ BatchLive
    BY DEF IInv
  <1>1. /\ apc[a] = "lock"
        /\ lock[best_worker[a]] = Nobody
        /\ lock' = [lock EXCEPT ![best_worker[a]] = a]
        /\ new_conn' = [new_conn EXCEPT ![a] = first_free_conn[best_worker[a]]]
        /\ apc' = [apc EXCEPT ![a] = "take"]
        /\ UNCHANGED <<open, epoll, ready, freelist_count, first_free_conn,
                       next_conn, sockfd, fresh, asock, ai, best_worker,
                       best_score, wpc, events>>
    BY DEF Lock, MutexFree, sysvars, wrkvars
  <1>2. TypeOK'
    BY <1>0, <1>1 DEF TypeOK, AccepterPC
  <1>3. LockOK'
    BY <1>0, <1>1, ThreadAssumption, SMTT(60) DEF TypeOK, LockOK, Nobody, Self
  <1>4. AccepterOK'
    BY <1>0, <1>1 DEF TypeOK, AccepterOK
  <1>5. WorkerOK' /\ ReadyOK' /\ BatchLive'
    BY <1>0, <1>1 DEF WorkerOK, conn, ReadyOK, BatchLive, Registered
  <1>6. SlotExclusive' /\ \A w \in Worker : InUse(w)' \subseteq InUse(w)
    BY <1>0, <1>1, UseKept DEF TypeOK, HandingOver, Releasing, conn
  <1>7. FreeListOK'
    BY <1>0, <1>1, <1>6, FreeListKept
  <1>8. SocketOwned'
    BY <1>0, <1>1 DEF TypeOK, SocketOwned, conn
  <1> QED BY <1>2, <1>3, <1>4, <1>5, <1>6, <1>7, <1>8 DEF IInv

(* connection_accept finds no slot, or a pointer that is none.             *)
LEMMA TakeNoneStep ==
  ASSUME NEW a \in Accepters, IInv, TakeNone(a) \/ TakeWild(a)
  PROVE  IInv'
  <1>0. /\ TypeOK /\ LockOK /\ AccepterOK /\ WorkerOK /\ ReadyOK /\ FreeListOK
        /\ SlotExclusive /\ SocketOwned /\ BatchLive
    BY DEF IInv
  <1>1. /\ apc[a] = "take"
        /\ \/ /\ lock' = [lock EXCEPT ![best_worker[a]] = Nobody]
              /\ apc' = [apc EXCEPT ![a] = "refuse"]
           \/ lock' = lock /\ apc' = [apc EXCEPT ![a] = "undefined"]
        /\ UNCHANGED <<open, epoll, ready, freelist_count, first_free_conn,
                       next_conn, sockfd, fresh, asock, ai, best_worker,
                       best_score, new_conn, wpc, events>>
    BY DEF TakeNone, TakeWild, Unlock, sysvars, poolvars, wrkvars
  <1>2. TypeOK'
    BY <1>0, <1>1 DEF TypeOK, AccepterPC
  <1>3. LockOK'
    BY <1>0, <1>1, ThreadAssumption, SMTT(60) DEF TypeOK, LockOK, Nobody, Self
  <1>4. AccepterOK'
    BY <1>0, <1>1, SMTT(60) DEF TypeOK, AccepterOK
  <1>5. WorkerOK' /\ ReadyOK' /\ BatchLive'
    BY <1>0, <1>1 DEF WorkerOK, conn, ReadyOK, BatchLive, Registered
  <1>6. SlotExclusive' /\ \A w \in Worker : InUse(w)' \subseteq InUse(w)
    BY <1>0, <1>1, UseKept DEF TypeOK, HandingOver, Releasing, conn
  <1>7. FreeListOK'
    BY <1>0, <1>1, <1>6, FreeListKept
  <1>8. SocketOwned'
    BY <1>0, <1>1 DEF TypeOK, SocketOwned, conn
  <1> QED BY <1>2, <1>3, <1>4, <1>5, <1>6, <1>7, <1>8 DEF IInv

(* connection_accept pops the head: the rest of the list is a list.        *)
LEMMA TakeStep ==
  ASSUME NEW a \in Accepters, IInv, Take(a)
  PROVE  IInv'
  <1> DEFINE w == best_worker[a]
             s == new_conn[a]
  <1>0. /\ TypeOK /\ LockOK /\ AccepterOK /\ WorkerOK /\ ReadyOK /\ FreeListOK
        /\ SlotExclusive /\ SocketOwned /\ BatchLive
    BY DEF IInv
  <1>1. /\ first_free_conn' = [first_free_conn EXCEPT ![w] = next_conn[w][s]]
        /\ freelist_count' = [freelist_count EXCEPT ![w] = @ - 1]
        /\ sockfd' = [sockfd EXCEPT ![w][s] = asock[a]]
        /\ lock' = [lock EXCEPT ![w] = Nobody]
        /\ apc[a] = "take"
        /\ apc' = [apc EXCEPT ![a] = "add"]
        /\ UNCHANGED <<open, epoll, ready, next_conn, fresh, asock, ai,
                       best_worker, best_score, new_conn, wpc, events>>
    BY DEF Take, Unlock, sysvars, wrkvars
  <1>2. w \in Worker /\ s \in Slot /\ s = first_free_conn[w]
    BY <1>0 DEF Take, TypeOK, AccepterOK
  <1> HIDE DEF w, s
  <1>3. PICK f \in [1 .. freelist_count[w] -> Slot] :
          freelist_count[w] >= 0 /\ FreeList(w, f)
    BY <1>0, <1>2 DEF FreeListOK
  <1>4. freelist_count[w] \in Nat \ {0} /\ s = f[1] /\ s \notin InUse(w)
    <2>1. freelist_count[w] \in Int
      BY <1>0, <1>2 DEF TypeOK
    <2>2. freelist_count[w] # 0
      BY <1>2, <1>3, PointerFacts DEF FreeList
    <2> QED BY <1>2, <1>3, <2>1, <2>2 DEF FreeList
  <1>5. /\ \A b \in Accepters : apc[b] = "add" /\ best_worker[b] = w => new_conn[b] # s
        /\ \A d \in Fds : epoll[w][d] # s
        /\ wpc[w] \in {"close", "reset", "link", "push"} => conn(w) # s
    BY <1>2, <1>4, PointerFacts DEF InUse, HandingOver, Registered, Releasing
  <1>6. TypeOK'
    <2>1. next_conn[w][s] \in Pointer /\ freelist_count[w] \in Int
          /\ asock[a] \in Fds \union {NoFd}
      BY <1>0, <1>2 DEF TypeOK
    <2> QED BY <1>0, <1>1, <1>2, <2>1, SMTT(60) DEF TypeOK, AccepterPC
  <1>7. LockOK'
    BY <1>0, <1>1, ThreadAssumption, SMTT(60) DEF TypeOK, LockOK, Nobody, Self, w
  <1>8. AccepterOK'
    <2> SUFFICES ASSUME NEW b \in Accepters
                 PROVE  /\ apc'[b] = "take" =>
                             new_conn'[b] = first_free_conn'[best_worker'[b]]
                        /\ apc'[b] = "add" =>
                             /\ new_conn'[b] \in Slot
                             /\ sockfd'[best_worker'[b]][new_conn'[b]] = asock'[b]
                        /\ apc'[b] = "accept" <=> asock'[b] = NoFd
      BY DEF AccepterOK
    <2>1. CASE b = a
      BY <1>0, <1>1, <1>2, <2>1 DEF TypeOK, AccepterOK, w, s
    <2>2. CASE b # a
      <3>1. apc[b] = "take" => best_worker[b] # w
        BY <1>0, <1>1, <2>2 DEF LockOK, TypeOK, w
      <3> QED BY <1>0, <1>1, <1>2, <1>5, <2>2, <3>1, ZenonT(60) DEF TypeOK, AccepterOK
    <2> QED BY <2>1, <2>2
  <1>9. WorkerOK'
    <2>1. wpc[w] # "push"
      BY <1>0, <1>1, <1>2, ThreadAssumption DEF LockOK, w, Self
    <2> QED BY <1>0, <1>1, <1>2, <2>1 DEF TypeOK, WorkerOK, conn
  <1>10. ReadyOK' /\ BatchLive'
    BY <1>0, <1>1 DEF ReadyOK, BatchLive, Registered
  <1>11. \A v \in Worker : InUse(v)' \subseteq
            IF v = w THEN InUse(v) \union {s} ELSE InUse(v)
    BY <1>0, <1>1 DEF TypeOK, InUse, HandingOver, Registered, Releasing, conn, w, s
  <1>12. FreeListOK'
    <2> SUFFICES ASSUME NEW v \in Worker
                 PROVE  /\ freelist_count'[v] >= 0
                        /\ \E g \in [1 .. freelist_count'[v] -> Slot] :
                             FreeList(v, g)'
      BY DEF FreeListOK
    <2>1. CASE v = w
      <3>0. PICK n \in Nat \ {0} : n = freelist_count[w]
        BY <1>4
      <3>1. freelist_count'[v] = n - 1
        BY <1>0, <1>1, <1>2, <2>1, <3>0 DEF TypeOK
      <3>2. first_free_conn'[v] = next_conn[v][f[1]] /\ next_conn' = next_conn
        BY <1>0, <1>1, <1>2, <1>4, <2>1 DEF TypeOK
      <3>3. PICK g \in [1 .. n - 1 -> Slot] :
              \A i \in 1 .. n - 1 : g[i] = f[i + 1] /\ i + 1 \in 1 .. n
        <4> DEFINE h == [i \in 1 .. n - 1 |-> f[i + 1]]
        <4>1. h \in [1 .. n - 1 -> Slot]
          BY <1>3, <3>0
        <4>2. \A i \in 1 .. n - 1 : h[i] = f[i + 1] /\ i + 1 \in 1 .. n
          BY <3>0
        <4> HIDE DEF h
        <4> QED BY <4>1, <4>2
      <3>5. /\ \A i, j \in 1 .. n : f[i] = f[j] => i = j
            /\ \A i \in 1 .. n :
                 /\ IF i = n THEN next_conn[v][f[i]] \in UninitNext
                             ELSE next_conn[v][f[i]] = f[i + 1]
                 /\ f[i] \notin InUse(v)
        BY <1>3, <2>1, <3>0 DEF FreeList
      <3>6. \A i, j \in 1 .. n - 1 : g[i] = g[j] => i = j
        BY <3>3, <3>5
      <3>7. IF n - 1 = 0 THEN first_free_conn'[v] \in UninitNext
                         ELSE first_free_conn'[v] = g[1]
        BY <3>2, <3>3, <3>5
      <3>8. ASSUME NEW i \in 1 .. n - 1
            PROVE  /\ IF i = n - 1 THEN next_conn'[v][g[i]] \in UninitNext
                                   ELSE next_conn'[v][g[i]] = g[i + 1]
                   /\ g[i] \notin InUse(v)'
        <4>1. g[i] # s
          BY <1>4, <3>3, <3>5
        <4>2. g[i] \notin InUse(v)'
          BY <1>11, <2>1, <3>3, <3>5, <4>1
        <4> QED BY <3>2, <3>3, <3>5, <4>2
      <3>9. FreeList(v, g)'
        BY <3>1, <3>6, <3>7, <3>8 DEF FreeList
      <3> QED BY <3>1, <3>3, <3>9
    <2>2. CASE v # w
      <3>1. /\ freelist_count'[v] = freelist_count[v]
            /\ first_free_conn'[v] = first_free_conn[v]
            /\ next_conn' = next_conn
            /\ InUse(v)' \subseteq InUse(v)
        BY <1>0, <1>1, <1>11, <2>2 DEF TypeOK
      <3>2. PICK g \in [1 .. freelist_count[v] -> Slot] :
              freelist_count[v] >= 0 /\ FreeList(v, g)
        BY <1>0 DEF FreeListOK
      <3>3. FreeList(v, g)'
        BY <3>1, <3>2 DEF FreeList
      <3> QED BY <3>1, <3>2, <3>3
    <2> QED BY <2>1, <2>2
  <1>13. SlotExclusive'
    <2>1. /\ \A v \in Worker : Registered(v)' = Registered(v)
          /\ \A v \in Worker : Releasing(v)' = Releasing(v)
          /\ \A v \in Worker : HandingOver(v)' =
               IF v = w THEN HandingOver(v) \union {a} ELSE HandingOver(v)
      BY <1>0, <1>1, SMTT(60) DEF TypeOK, HandingOver, Registered, Releasing, conn, w
    <2>2. /\ s \notin Registered(w) \union Releasing(w)
          /\ \A b \in HandingOver(w) : new_conn[b] # s
      BY <1>4 DEF InUse
    <2> QED BY <1>0, <1>1, <2>1, <2>2 DEF SlotExclusive, s
  <1>14. SocketOwned'
    <2>1. \A v \in Worker, t \in Slot :
            v # w \/ t # s => sockfd'[v][t] = sockfd[v][t]
      BY <1>0, <1>1 DEF TypeOK
    <2>2. \A v \in Worker, d \in Fds : epoll[v][d] # NULL =>
            sockfd'[v][epoll[v][d]] = sockfd[v][epoll[v][d]]
      <3>1. \A v \in Worker, d \in Fds :
              epoll[v][d] # NULL => epoll[v][d] \in Slot
        BY <1>0 DEF TypeOK
      <3> QED BY <1>5, <2>1, <3>1
    <2>3. \A v \in Worker : wpc[v] = "close" =>
            sockfd'[v][conn(v)] = sockfd[v][conn(v)]
      BY <1>0, <1>5, <2>1, ConnFacts
    <2>4. \A v \in Worker : conn(v)' = conn(v)
      BY <1>1 DEF conn
    <2> HIDE DEF conn
    <2> QED BY <1>0, <1>1, <2>2, <2>3, <2>4 DEF SocketOwned
  <1> QED BY <1>6, <1>7, <1>8, <1>9, <1>10, <1>12, <1>13, <1>14 DEF IInv

(* accept_worker closes a socket that no queue watches.                    *)
LEMMA RefuseStep ==
  ASSUME NEW a \in Accepters, IInv, Refuse(a)
  PROVE  IInv'
  <1>0. /\ TypeOK /\ LockOK /\ AccepterOK /\ WorkerOK /\ ReadyOK /\ FreeListOK
        /\ SlotExclusive /\ SocketOwned /\ BatchLive
    BY DEF IInv
  <1>1. /\ asock[a] \in Fds
        /\ apc[a] = "refuse"
        /\ \A w \in Worker : /\ epoll[w][asock[a]] = NULL
                             /\ wpc[w] = "close" => sockfd[w][conn(w)] # asock[a]
        /\ \A b \in Accepters \ {a} : asock[b] # NoFd => asock[b] # asock[a]
    BY <1>0 DEF Refuse, TypeOK, AccepterOK, SocketOwned
  <1>2. open' = open \ {asock[a]} /\ epoll' = epoll /\ ready' = ready
    BY <1>0, <1>1, CloseUnregistered DEF Refuse
  <1>3. /\ apc' = [apc EXCEPT ![a] = "accept"]
        /\ asock' = [asock EXCEPT ![a] = NoFd]
        /\ new_conn' = [new_conn EXCEPT ![a] = NULL]
        /\ ai' = [ai EXCEPT ![a] = 1]
        /\ best_worker' = [best_worker EXCEPT ![a] = 1]
        /\ best_score' = [best_score EXCEPT ![a] = -1]
        /\ UNCHANGED <<lock, freelist_count, first_free_conn, next_conn,
                       sockfd, fresh, wpc, events>>
    BY DEF Refuse, Restart, poolvars, wrkvars
  <1>4. TypeOK'
    <2>1. 1 \in Worker /\ NULL \in Pointer
      BY SizeAssumption, PointerFacts DEF Worker
    <2> QED BY <1>0, <1>2, <1>3, <2>1, SMTT(60) DEF TypeOK, AccepterPC
  <1>5. LockOK'
    BY <1>0, <1>1, <1>3 DEF TypeOK, LockOK
  <1>6. AccepterOK'
    BY <1>0, <1>3 DEF TypeOK, AccepterOK
  <1>7. WorkerOK' /\ ReadyOK' /\ BatchLive'
    BY <1>0, <1>2, <1>3 DEF WorkerOK, conn, ReadyOK, BatchLive, Registered
  <1>8. SlotExclusive' /\ \A w \in Worker : InUse(w)' \subseteq InUse(w)
    BY <1>0, <1>1, <1>2, <1>3, UseKept DEF TypeOK, HandingOver, Releasing, conn
  <1>9. FreeListOK'
    BY <1>0, <1>3, <1>8, FreeListKept
  <1>10. SocketOwned'
    <2>1. \A w \in Worker : conn(w)' = conn(w)
      BY <1>3 DEF conn
    <2>2. \A w \in Worker, d \in Fds : epoll[w][d] # NULL => d # asock[a]
      BY <1>1
    <2> HIDE DEF conn
    <2> QED BY <1>0, <1>1, <1>2, <1>3, <2>1, <2>2, SMTT(60) DEF TypeOK, SocketOwned
  <1> QED BY <1>4, <1>5, <1>6, <1>7, <1>8, <1>9, <1>10 DEF IInv

(* kitserv_queue_add: the slot changes hands, or is abandoned.             *)
LEMMA AddStep ==
  ASSUME NEW a \in Accepters, IInv, Add(a)
  PROVE  IInv'
  <1> DEFINE w == best_worker[a]
             s == new_conn[a]
             d == asock[a]
  <1>0. /\ TypeOK /\ LockOK /\ AccepterOK /\ WorkerOK /\ ReadyOK /\ FreeListOK
        /\ SlotExclusive /\ SocketOwned /\ BatchLive
    BY DEF IInv
  <1>1. /\ apc[a] = "add"
        /\ w \in Worker /\ s \in Slot /\ d \in Fds
        /\ sockfd[w][s] = d
        /\ d \in open
        /\ \A v \in Worker : /\ epoll[v][d] = NULL
                             /\ wpc[v] = "close" => sockfd[v][conn(v)] # d
        /\ \A b \in Accepters \ {a} : asock[b] # d
        /\ a \in HandingOver(w)
    BY <1>0, ZenonT(60) DEF Add, TypeOK, AccepterOK, SocketOwned, HandingOver
  <1>2. /\ apc' = [apc EXCEPT ![a] = "accept"]
        /\ asock' = [asock EXCEPT ![a] = NoFd]
        /\ new_conn' = [new_conn EXCEPT ![a] = NULL]
        /\ ai' = [ai EXCEPT ![a] = 1]
        /\ best_worker' = [best_worker EXCEPT ![a] = 1]
        /\ best_score' = [best_score EXCEPT ![a] = -1]
        /\ UNCHANGED <<open, lock, freelist_count, first_free_conn, next_conn,
                       sockfd, fresh, wpc, events>>
    BY DEF Add, Restart, poolvars, wrkvars
  <1>3. /\ epoll' \in {epoll, [epoll EXCEPT ![w][d] = s]}
        /\ ready' = IF epoll' = epoll THEN ready
                                      ELSE [ready EXCEPT ![w] = Append(@, d)]
    <2>1. ~ Contains(ready[w], d)
      BY <1>0, <1>1 DEF ReadyOK, Contains
    <2>2. [epoll EXCEPT ![w][d] = s] # epoll
      BY <1>0, <1>1, PointerFacts DEF TypeOK
    <2> QED BY <1>0, <1>1, <2>1, <2>2 DEF Add, Append1, TypeOK
  <1> HIDE DEF w, s, d
  <1>4. TypeOK'
    <2>1. 1 \in Worker /\ NULL \in Pointer
      BY SizeAssumption, PointerFacts DEF Worker
    <2>2. epoll' \in [Worker -> [Fds -> Slot \union {NULL}]]
      <3>1. epoll \in [Worker -> [Fds -> Slot \union {NULL}]]
        BY <1>0 DEF TypeOK
      <3>2. w \in Worker /\ d \in Fds /\ s \in Slot
        BY <1>1
      <3> QED BY <1>3, <3>1, <3>2
    <2>3. ready' \in [Worker -> Seq(Fds)]
      BY <1>0, <1>1, <1>3, SMTT(60) DEF TypeOK
    <2> QED BY <1>0, <1>2, <2>1, <2>2, <2>3, SMTT(60) DEF TypeOK, AccepterPC
  <1>5. LockOK'
    BY <1>0, <1>1, <1>2, SMTT(60) DEF TypeOK, LockOK
  <1>6. AccepterOK'
    BY <1>0, <1>2 DEF TypeOK, AccepterOK
  <1>7. WorkerOK'
    BY <1>0, <1>2 DEF WorkerOK, conn
  <1>8. ReadyOK'
    <2>1. CASE epoll' = epoll
      BY <1>0, <1>3, <2>1 DEF ReadyOK
    <2>2. CASE epoll' # epoll
      <3>1. /\ epoll'[w] = [epoll[w] EXCEPT ![d] = s]
            /\ \A v \in Worker \ {w} : epoll'[v] = epoll[v] /\ ready'[v] = ready[v]
            /\ ready'[w] = Append(ready[w], d)
            /\ ready[w] \in Seq(Fds)
            /\ epoll[w] \in [Fds -> Slot \union {NULL}]
        BY <1>0, <1>1, <1>3, <2>2 DEF TypeOK
      <3>2. /\ Len(Append(ready[w], d)) = Len(ready[w]) + 1
            /\ \A k \in 1 .. Len(ready[w]) :
                 /\ Append(ready[w], d)[k] = ready[w][k]
                 /\ ready[w][k] \in Fds /\ ready[w][k] # d
            /\ Append(ready[w], d)[Len(ready[w]) + 1] = d
        BY <1>0, <1>1, <3>1 DEF ReadyOK
      <3>3. /\ \A k \in 1 .. Len(ready'[w]) : epoll'[w][ready'[w][k]] # NULL
            /\ \A j, k \in 1 .. Len(ready'[w]) :
                 ready'[w][j] = ready'[w][k] => j = k
        BY <1>0, <1>1, <3>1, <3>2, PointerFacts DEF ReadyOK
      <3> QED BY <1>0, <3>1, <3>3, ZenonT(60) DEF ReadyOK
    <2> QED BY <2>1, <2>2
  <1>9. \A v \in Worker, e \in Fds :
          epoll'[v][e] = epoll[v][e] \/ (v = w /\ e = d /\ epoll'[v][e] = s)
    BY <1>0, <1>1, <1>3, SMTT(60) DEF TypeOK
  <1>10. /\ \A v \in Worker : HandingOver(v)' = HandingOver(v) \ {a}
         /\ \A v \in Worker : Releasing(v)' = Releasing(v)
         /\ \A v \in Worker, b \in Accepters :
              b \in HandingOver(v)' => b # a /\ new_conn'[b] = new_conn[b]
         /\ \A v \in Worker : Registered(v) \subseteq Registered(v)'
         /\ \A v \in Worker :
              Registered(v)' \subseteq IF v = w THEN Registered(v) \union {s}
                                                ELSE Registered(v)
    <2>1. \A v \in Worker : Registered(v) \subseteq Registered(v)'
      BY <1>1, <1>9 DEF Registered
    <2>2. \A v \in Worker :
              Registered(v)' \subseteq IF v = w THEN Registered(v) \union {s}
                                                ELSE Registered(v)
      BY <1>9 DEF Registered
    <2> QED BY <1>0, <1>1, <1>2, <2>1, <2>2 DEF TypeOK, HandingOver, Releasing, conn
  <1>11. BatchLive'
    BY <1>0, <1>2, <1>10 DEF BatchLive
  <1>12. /\ s \in InUse(w)
         /\ s \notin Registered(w) \union Releasing(w)
         /\ \A b \in HandingOver(w) : b # a => new_conn[b] # s
    BY <1>0, <1>1 DEF SlotExclusive, InUse, s
  <1>13. \A v \in Worker : InUse(v)' \subseteq InUse(v)
    <2>1. \A v \in Worker : HandingOver(v) \subseteq Accepters
      BY DEF HandingOver
    <2> QED BY <1>10, <1>12, <2>1 DEF InUse
  <1>14. FreeListOK'
    BY <1>0, <1>2, <1>13, FreeListKept
  <1>15. SlotExclusive'
    <2>1. \A v \in Worker : \A e, g \in Fds :
            epoll'[v][e] = epoll'[v][g] /\ epoll'[v][e] # NULL => e = g
      <3>1. \A e \in Fds : epoll[w][e] # s
        <4>1. s # NULL /\ s \notin Registered(w)
          BY <1>1, <1>12, PointerFacts
        <4> QED BY <4>1 DEF Registered
      <3> QED BY <1>0, <1>9, <3>1 DEF SlotExclusive
    <2>2. \A v \in Worker : \A b, c \in HandingOver(v)' :
            new_conn'[b] = new_conn'[c] => b = c
      <3>1. \A v \in Worker : HandingOver(v) \subseteq Accepters
        BY DEF HandingOver
      <3> QED BY <1>0, <1>10, <3>1 DEF SlotExclusive
    <2>3. \A v \in Worker : \A b \in HandingOver(v)' :
            new_conn'[b] \notin Registered(v)' \union Releasing(v)'
      <3>1. \A v \in Worker : HandingOver(v) \subseteq Accepters
        BY DEF HandingOver
      <3> QED BY <1>0, <1>10, <1>12, <3>1 DEF SlotExclusive
    <2>4. ASSUME NEW v \in Worker
          PROVE  Releasing(v)' \intersect Registered(v)' = {}
      <3>1. Releasing(v) \intersect Registered(v) = {}
        BY <1>0 DEF SlotExclusive
      <3>2. v = w => s \notin Releasing(v)
        BY <1>12
      <3>3. Releasing(v)' = Releasing(v)
        BY <1>10
      <3>4. Registered(v)' \subseteq IF v = w THEN Registered(v) \union {s}
                                             ELSE Registered(v)
        BY <1>10
      <3> QED BY <3>1, <3>2, <3>3, <3>4
    <2> QED BY <2>1, <2>2, <2>3, <2>4 DEF SlotExclusive
  <1>16. SocketOwned'
    <2>1. \A v \in Worker : conn(v)' = conn(v)
      BY <1>2 DEF conn
    <2> HIDE DEF conn
    <2>2. \A v \in Worker, e \in Fds : epoll'[v][e] # NULL =>
            /\ e \in open
            /\ sockfd[v][epoll'[v][e]] = e
            /\ \A u \in Worker \ {v} : epoll'[u][e] = NULL
      BY <1>0, <1>1, <1>9 DEF SocketOwned
    <2>3. \A v \in Worker : wpc[v] = "close" =>
            LET e == sockfd[v][conn(v)]
            IN  /\ e \in open
                /\ \A u \in Worker : /\ epoll'[u][e] = NULL
                                     /\ u # v /\ wpc[u] = "close" =>
                                          sockfd[u][conn(u)] # e
      <3> SUFFICES ASSUME NEW v \in Worker, wpc[v] = "close"
                   PROVE  LET e == sockfd[v][conn(v)]
                          IN  /\ e \in open
                              /\ \A u \in Worker :
                                   /\ epoll'[u][e] = NULL
                                   /\ u # v /\ wpc[u] = "close" =>
                                        sockfd[u][conn(u)] # e
        OBVIOUS
      <3>1. sockfd[v][conn(v)] \in Fds /\ sockfd[v][conn(v)] # d
        BY <1>0, <1>1 DEF SocketOwned, TypeOK
      <3> QED BY <1>0, <1>9, <3>1 DEF SocketOwned
    <2>4. \A b \in Accepters : asock'[b] # NoFd =>
            /\ b # a /\ asock'[b] = asock[b] /\ asock[b] \in Fds /\ asock[b] # d
      BY <1>0, <1>1, <1>2 DEF TypeOK
    <2>5. \A b \in Accepters : asock'[b] # NoFd =>
            /\ asock'[b] \in open
            /\ \A c \in Accepters \ {b} : asock'[c] # asock'[b]
            /\ \A v \in Worker : /\ epoll'[v][asock'[b]] = NULL
                                 /\ wpc[v] = "close" =>
                                      sockfd[v][conn(v)] # asock'[b]
      BY <1>0, <1>9, <1>2, <2>4, SMTT(60) DEF SocketOwned, TypeOK
    <2> QED BY <1>2, <2>1, <2>2, <2>3, <2>5 DEF SocketOwned
  <1> QED BY <1>4, <1>5, <1>6, <1>7, <1>8, <1>11, <1>14, <1>15, <1>16 DEF IInv

-----------------------------------------------------------------------------
(* The workers.                                                            *)

(* kitserv_queue_wait: different registered slots make a live batch.       *)
LEMMA WaitStep ==
  ASSUME NEW w \in Worker, IInv, Wait(w)
  PROVE  IInv'
  <1>0. /\ TypeOK /\ LockOK /\ AccepterOK /\ WorkerOK /\ ReadyOK /\ FreeListOK
        /\ SlotExclusive /\ SocketOwned /\ BatchLive
    BY DEF IInv
  <1> DEFINE n == BatchSize(w)
             list == ready[w]
             batch == [k \in 1 .. n |-> epoll[w][list[k]]]
             rest == SubSeq(list, n + 1, Len(list))
  <1>1. /\ wpc[w] = "wait"
        /\ n > 0
        /\ events' = [events EXCEPT ![w] = batch]
        /\ ready' = [ready EXCEPT ![w] = rest]
        /\ wpc' = [wpc EXCEPT ![w] = "serve"]
        /\ UNCHANGED <<open, epoll, lock, freelist_count, first_free_conn,
                       next_conn, sockfd, fresh, apc, asock, ai, best_worker,
                       best_score, new_conn>>
    BY DEF Wait, poolvars, accvars
  <1>2. /\ list \in Seq(Fds)
        /\ \A k \in 1 .. Len(list) : list[k] \in Fds /\ epoll[w][list[k]] # NULL
        /\ \A j, k \in 1 .. Len(list) : list[j] = list[k] => j = k
        /\ epoll[w] \in [Fds -> Slot \union {NULL}]
    BY <1>0 DEF TypeOK, ReadyOK
  <1>3. n \in 1 .. Len(list)
    BY <1>1, <1>2, SizeAssumption DEF BatchSize
  <1> HIDE DEF n, list
  <1>4. /\ batch \in Seq(Slot)
        /\ batch # <<>>
        /\ Len(batch) = n
        /\ \A k \in 1 .. n : batch[k] = epoll[w][list[k]]
    <2>1. \A k \in 1 .. n : epoll[w][list[k]] \in Slot
      BY <1>2, <1>3
    <2>2. batch \in [1 .. n -> Slot] /\ n \in Nat \ {0}
      BY <1>2, <1>3, <2>1
    <2> QED BY <2>2
  <1>5. /\ rest \in Seq(Fds)
        /\ Len(rest) = Len(list) - n
        /\ \A k \in 1 .. Len(rest) : rest[k] = list[k + n] /\ k + n \in 1 .. Len(list)
    BY <1>2, <1>3
  <1> HIDE DEF batch, rest
  <1>6. TypeOK'
    BY <1>0, <1>1, <1>4, <1>5 DEF TypeOK, WorkerPC
  <1>7. LockOK' /\ AccepterOK'
    BY <1>0, <1>1 DEF TypeOK, LockOK, AccepterOK
  <1>8. WorkerOK'
    BY <1>0, <1>1, <1>4 DEF TypeOK, WorkerOK, conn
  <1>9. ReadyOK'
    <2>1. \A k \in 1 .. Len(rest) : epoll[w][rest[k]] # NULL
      BY <1>2, <1>5, SMTT(60)
    <2>2. \A j, k \in 1 .. Len(rest) : rest[j] = rest[k] => j = k
      BY <1>2, <1>3, <1>5, SMTT(60)
    <2>3. ready'[w] = rest /\ \A v \in Worker \ {w} : ready'[v] = ready[v]
      BY <1>0, <1>1 DEF TypeOK
    <2> QED BY <1>0, <1>1, <2>1, <2>2, <2>3 DEF ReadyOK
  <1>10. SlotExclusive' /\ \A v \in Worker : InUse(v)' \subseteq InUse(v)
    <2>1. \A v \in Worker : Releasing(v)' \subseteq Releasing(v)
      BY <1>0, <1>1 DEF TypeOK, Releasing, conn
    <2> QED BY <1>0, <1>1, <2>1, UseKept DEF HandingOver
  <1>11. FreeListOK'
    BY <1>0, <1>1, <1>10, FreeListKept
  <1>12. SocketOwned'
    <2>1. \A v \in Worker : wpc'[v] = "close" =>
            wpc[v] = "close" /\ conn(v)' = conn(v)
      BY <1>0, <1>1 DEF TypeOK, conn
    <2> HIDE DEF conn
    <2> QED BY <1>0, <1>1, <2>1 DEF SocketOwned
  <1>13. BatchLive'
    <2>1. /\ events'[w] = batch
          /\ \A v \in Worker \ {w} : events'[v] = events[v] /\ wpc'[v] = wpc[v]
          /\ \A v \in Worker : Registered(v)' = Registered(v)
      BY <1>0, <1>1 DEF TypeOK, Registered
    <2>2. \A k \in 1 .. n : batch[k] \in Registered(w)
      BY <1>2, <1>3, <1>4 DEF Registered
    <2>3. \A j, k \in 1 .. n : batch[j] = batch[k] => j = k
      <3>1. \A j, k \in 1 .. n : j \in 1 .. Len(list) /\ k \in 1 .. Len(list)
        BY <1>2, <1>3
      <3> QED BY <1>0, <1>2, <1>4, <3>1 DEF SlotExclusive
    <2> QED BY <1>0, <1>4, <2>1, <2>2, <2>3, SMTT(60) DEF BatchLive
  <1> QED BY <1>6, <1>7, <1>8, <1>9, <1>10, <1>11, <1>12, <1>13 DEF IInv

(* kitserv_http_serve_client keeps or drops the connection.                *)
LEMMA ServeStep ==
  ASSUME NEW w \in Worker, IInv, Serve(w)
  PROVE  IInv'
  <1>0. /\ TypeOK /\ LockOK /\ AccepterOK /\ WorkerOK /\ ReadyOK /\ FreeListOK
        /\ SlotExclusive /\ SocketOwned /\ BatchLive
    BY DEF IInv
  <1>1. /\ wpc[w] = "serve"
        /\ fresh' = [fresh EXCEPT ![w][conn(w)] = FALSE]
        /\ UNCHANGED <<open, epoll, ready, lock, freelist_count,
                       first_free_conn, next_conn, sockfd, apc, asock, ai,
                       best_worker, best_score, new_conn>>
    BY DEF Serve, sysvars, poolvars, accvars
  <1>2. /\ events' \in [Worker -> Seq(Slot)]
        /\ wpc' \in [Worker -> WorkerPC]
        /\ \A v \in Worker \ {w} : events'[v] = events[v] /\ wpc'[v] = wpc[v]
        /\ wpc'[w] \in {"serve", "wait", "remove"}
        /\ wpc'[w] = "wait" <=> events'[w] = <<>>
        /\ \/ NextEvent(w)
           \/ events' = events
    <2>1. CASE NextEvent(w)
      BY <1>0, <1>1, <2>1, NextEventFacts
    <2>2. CASE wpc' = [wpc EXCEPT ![w] = "remove"] /\ UNCHANGED events
      BY <1>0, <1>1, <2>2 DEF TypeOK, WorkerPC, WorkerOK
    <2> QED BY <2>1, <2>2 DEF Serve
  <1>3. TypeOK'
    BY <1>0, <1>1, <1>2 DEF TypeOK
  <1>4. LockOK' /\ AccepterOK'
    BY <1>0, <1>1, <1>2 DEF LockOK, AccepterOK
  <1>5. WorkerOK'
    BY <1>0, <1>1, <1>2, SMTT(60) DEF WorkerOK, conn
  <1>6. ReadyOK'
    BY <1>0, <1>1 DEF ReadyOK
  <1>7. SlotExclusive' /\ \A v \in Worker : InUse(v)' \subseteq InUse(v)
    <2>1. \A v \in Worker : Releasing(v)' \subseteq Releasing(v)
      BY <1>2 DEF Releasing, conn
    <2> QED BY <1>0, <1>1, <2>1, UseKept DEF HandingOver
  <1>8. FreeListOK'
    BY <1>0, <1>1, <1>7, FreeListKept
  <1>9. SocketOwned'
    <2>1. \A v \in Worker : wpc'[v] = "close" =>
            wpc[v] = "close" /\ conn(v)' = conn(v)
      BY <1>2 DEF conn
    <2> HIDE DEF conn
    <2> QED BY <1>0, <1>1, <2>1 DEF SocketOwned
  <1>10. BatchLive'
    <2>1. \A v \in Worker : Registered(v)' = Registered(v)
      BY <1>1 DEF Registered
    <2>2. CASE NextEvent(w)
      BY <1>0, <1>1, <1>2, <2>1, <2>2, NextEventFacts, ConnFacts, BatchTail
    <2>3. CASE events' = events
      BY <1>0, <1>1, <1>2, <2>1, <2>3 DEF BatchLive
    <2> QED BY <1>2, <2>2, <2>3
  <1> QED BY <1>3, <1>4, <1>5, <1>6, <1>7, <1>8, <1>9, <1>10 DEF IInv

(* kitserv_queue_remove: the slot goes from the queue to the worker.       *)
LEMMA RemoveStep ==
  ASSUME NEW w \in Worker, IInv, Remove(w)
  PROVE  IInv'
  <1> DEFINE s == conn(w)
             d == sockfd[w][s]
  <1>0. /\ TypeOK /\ LockOK /\ AccepterOK /\ WorkerOK /\ ReadyOK /\ FreeListOK
        /\ SlotExclusive /\ SocketOwned /\ BatchLive
    BY DEF IInv
  <1>1. /\ wpc[w] = "remove"
        /\ epoll' = [epoll EXCEPT ![w][d] = NULL]
        /\ ready' = [ready EXCEPT ![w] = Without(@, d)]
        /\ wpc' = [wpc EXCEPT ![w] = "close"]
        /\ UNCHANGED <<open, lock, freelist_count, first_free_conn, next_conn,
                       sockfd, fresh, apc, asock, ai, best_worker, best_score,
                       new_conn, events>>
    BY DEF Remove, poolvars, accvars
  <1>2. /\ Len(events[w]) \in Nat /\ Len(events[w]) >= 1
        /\ s = events[w][1] /\ s \in Slot
    BY <1>0, <1>1, ConnFacts
  <1>3. s \in Registered(w)
    BY <1>0, <1>1, <1>2 DEF BatchLive
  <1>4. d \in Fds /\ epoll[w][d] = s
    BY <1>0, <1>3 DEF Registered, SocketOwned
  <1>5. /\ d \in open
        /\ \A v \in Worker \ {w} : epoll[v][d] = NULL
    BY <1>0, <1>2, <1>4, PointerFacts DEF SocketOwned
  <1>6. \A v \in Worker : conn(v)' = conn(v)
    BY <1>1 DEF conn
  <1> HIDE DEF s, d
  <1>7. \A v \in Worker, e \in Fds :
          epoll'[v][e] = IF v = w /\ e = d THEN NULL ELSE epoll[v][e]
    BY <1>0, <1>1, <1>4 DEF TypeOK
  <1>8. /\ ready'[w] \in Seq(Fds)
        /\ \A k \in 1 .. Len(ready'[w]) : epoll'[w][ready'[w][k]] # NULL
        /\ \A j, k \in 1 .. Len(ready'[w]) : ready'[w][j] = ready'[w][k] => j = k
        /\ \A v \in Worker \ {w} : ready'[v] = ready[v]
    <2> DEFINE list == ready[w]
               rest == Without(list, d)
    <2>1. /\ list \in Seq(Fds)
          /\ \A k \in 1 .. Len(list) : list[k] \in Fds /\ epoll[w][list[k]] # NULL
          /\ \A j, k \in 1 .. Len(list) : list[j] = list[k] => j = k
      BY <1>0 DEF TypeOK, ReadyOK
    <2>2. ready'[w] = rest /\ \A v \in Worker \ {w} : ready'[v] = ready[v]
      BY <1>0, <1>1 DEF TypeOK
    <2> HIDE DEF list
    <2>3. /\ rest \in Seq(Fds)
          /\ \A k \in 1 .. Len(rest) :
               rest[k] # d /\ \E j \in 1 .. Len(list) : rest[k] = list[j]
          /\ \A j, k \in 1 .. Len(rest) : rest[j] = rest[k] => j = k
      BY <2>1, WithoutProps
    <2> HIDE DEF rest
    <2> QED BY <1>7, <2>1, <2>2, <2>3
  <1>9. TypeOK'
    <2>1. epoll' \in [Worker -> [Fds -> Slot \union {NULL}]]
      BY <1>0, <1>1 DEF TypeOK
    <2>2. ready' \in [Worker -> Seq(Fds)]
      BY <1>0, <1>1, <1>8 DEF TypeOK
    <2> QED BY <1>0, <1>1, <2>1, <2>2 DEF TypeOK, WorkerPC
  <1>10. LockOK' /\ AccepterOK'
    BY <1>0, <1>1 DEF TypeOK, LockOK, AccepterOK
  <1>11. WorkerOK'
    BY <1>0, <1>1 DEF TypeOK, WorkerOK, conn
  <1>12. ReadyOK'
    <2>1. \A v \in Worker \ {w} : epoll'[v] = epoll[v]
      BY <1>0, <1>1 DEF TypeOK
    <2> QED BY <1>0, <1>8, <2>1, SMTT(60) DEF ReadyOK
  <1>13. /\ \A v \in Worker : HandingOver(v)' = HandingOver(v)
         /\ \A v \in Worker : Releasing(v)' = IF v = w THEN {s} ELSE Releasing(v)
         /\ \A v \in Worker : Registered(v)' =
              IF v = w THEN Registered(v) \ {s} ELSE Registered(v)
    <2>1. \A v \in Worker : HandingOver(v)' = HandingOver(v)
      BY <1>1 DEF HandingOver
    <2>2. \A v \in Worker : Releasing(v)' = IF v = w THEN {s} ELSE Releasing(v)
      BY <1>0, <1>1, <1>6 DEF Releasing, TypeOK, s
    <2>3. \A v \in Worker \ {w} : Registered(v)' = Registered(v)
      BY <1>7 DEF Registered
    <2>4. \A e \in Fds : epoll[w][e] = s => e = d
      BY <1>0, <1>2, <1>4, PointerFacts DEF SlotExclusive
    <2>5. Registered(w)' = Registered(w) \ {s}
      BY <1>4, <1>7, <2>4 DEF Registered
    <2> QED BY <2>1, <2>2, <2>3, <2>5
  <1>14. \A v \in Worker : InUse(v)' \subseteq InUse(v)
    BY <1>1, <1>3, <1>13 DEF InUse
  <1>15. FreeListOK'
    BY <1>0, <1>1, <1>14, FreeListKept
  <1>16. SlotExclusive'
    <2>1. \A v \in Worker : \A e, g \in Fds :
            epoll'[v][e] = epoll'[v][g] /\ epoll'[v][e] # NULL => e = g
      BY <1>0, <1>7 DEF SlotExclusive
    <2>2. \A v \in Worker : \A a \in HandingOver(v) :
            new_conn[a] \notin Registered(v)' \union Releasing(v)'
      BY <1>0, <1>3, <1>13 DEF SlotExclusive
    <2>3. \A v \in Worker : Releasing(v)' \intersect Registered(v)' = {}
      BY <1>0, <1>13 DEF SlotExclusive
    <2> QED BY <1>0, <1>1, <1>13, <2>1, <2>2, <2>3 DEF SlotExclusive
  <1>17. SocketOwned'
    <2> HIDE DEF conn
    <2>1. \A v \in Worker, e \in Fds : epoll'[v][e] # NULL =>
            /\ e \in open
            /\ sockfd[v][epoll'[v][e]] = e
            /\ \A u \in Worker \ {v} : epoll'[u][e] = NULL
      BY <1>0, <1>7 DEF SocketOwned
    <2>2. /\ \A u \in Worker : epoll'[u][d] = NULL
          /\ \A u \in Worker : u # w /\ wpc[u] = "close" => sockfd[u][conn(u)] # d
          /\ \A b \in Accepters : asock[b] # d
      <3>1. s # NULL
        BY <1>2, PointerFacts
      <3>2. \A u \in Worker : wpc[u] = "close" => sockfd[u][conn(u)] # d
        BY <1>0, <1>4, <3>1 DEF SocketOwned
      <3>3. \A b \in Accepters : asock[b] # d
        BY <1>0, <1>4, <3>1, FdAssumption DEF SocketOwned
      <3> QED BY <1>4, <1>5, <1>7, <3>2, <3>3
    <2>3. ASSUME NEW v \in Worker, wpc'[v] = "close"
          PROVE  LET e == sockfd[v][conn(v)]
                 IN  /\ e \in open
                     /\ \A u \in Worker : /\ epoll'[u][e] = NULL
                                          /\ u # v /\ wpc'[u] = "close" =>
                                               sockfd[u][conn(u)] # e
      <3>1. CASE v = w
        BY <1>0, <1>1, <1>5, <2>2, <3>1 DEF s, d, TypeOK
      <3>2. CASE v # w
        <4>1. wpc[v] = "close"
          BY <1>0, <1>1, <2>3, <3>2 DEF TypeOK
        <4>2. sockfd[v][conn(v)] # d
          BY <2>2, <3>2, <4>1
        <4>3. sockfd[v][conn(v)] \in Fds
          BY <1>0, <4>1 DEF SocketOwned, TypeOK
        <4>4. \A u \in Worker : epoll'[u][sockfd[v][conn(v)]] = NULL
          BY <1>0, <1>7, <4>1, <4>3 DEF SocketOwned
        <4>5. \A u \in Worker : u # v /\ wpc'[u] = "close" =>
                 sockfd[u][conn(u)] # sockfd[v][conn(v)]
          BY <1>0, <1>1, <4>1, <4>2 DEF SocketOwned, TypeOK, s, d
        <4> QED BY <1>0, <4>1, <4>4, <4>5 DEF SocketOwned
      <3> QED BY <3>1, <3>2
    <2>4. \A b \in Accepters : asock[b] # NoFd =>
            /\ asock[b] \in open
            /\ \A c \in Accepters \ {b} : asock[c] # asock[b]
            /\ \A v \in Worker : /\ epoll'[v][asock[b]] = NULL
                                 /\ wpc'[v] = "close" =>
                                      sockfd[v][conn(v)] # asock[b]
      <3>1. \A b \in Accepters : asock[b] # NoFd => asock[b] \in Fds
        BY <1>0 DEF TypeOK
      <3>2. \A v \in Worker : wpc'[v] = "close" =>
              \/ wpc[v] = "close"
              \/ sockfd[v][conn(v)] = d
        BY <1>0, <1>1 DEF TypeOK, s, d
      <3> QED BY <1>0, <1>7, <2>2, <3>1, <3>2 DEF SocketOwned
    <2> QED BY <1>1, <1>6, <2>1, <2>3, <2>4 DEF SocketOwned
  <1>18. BatchLive'
    <2> SUFFICES ASSUME NEW v \in Worker
                 PROVE  /\ \A j, k \in 1 .. Len(events'[v]) :
                             events'[v][j] = events'[v][k] => j = k
                        /\ \A k \in 1 .. Len(events'[v]) :
                             k > 1 \/ wpc'[v] \in {"serve", "remove"} =>
                               events'[v][k] \in Registered(v)'
      BY DEF BatchLive
    <2>1. CASE v = w
      BY <1>0, <1>1, <1>2, <1>13, <2>1 DEF BatchLive, TypeOK
    <2>2. CASE v # w
      BY <1>0, <1>1, <1>13, <2>2 DEF BatchLive, TypeOK
    <2> QED BY <2>1, <2>2
  <1> QED BY <1>9, <1>10, <1>11, <1>12, <1>15, <1>16, <1>17, <1>18 DEF IInv

(* kitserv_socket_close closes what only this worker still knows.          *)
LEMMA CloseStep ==
  ASSUME NEW w \in Worker, IInv, Close(w)
  PROVE  IInv'
  <1> DEFINE d == sockfd[w][conn(w)]
  <1>0. /\ TypeOK /\ LockOK /\ AccepterOK /\ WorkerOK /\ ReadyOK /\ FreeListOK
        /\ SlotExclusive /\ SocketOwned /\ BatchLive
    BY DEF IInv
  <1>1. /\ wpc[w] = "close"
        /\ CloseFd(d)
        /\ wpc' = [wpc EXCEPT ![w] = "reset"]
        /\ UNCHANGED <<lock, freelist_count, first_free_conn, next_conn,
                       sockfd, fresh, apc, asock, ai, best_worker, best_score,
                       new_conn, events>>
    BY DEF Close, poolvars, accvars
  <1>2. /\ d \in Fds
        /\ \A v \in Worker : /\ epoll[v][d] = NULL
                             /\ v # w /\ wpc[v] = "close" => sockfd[v][conn(v)] # d
        /\ \A b \in Accepters : asock[b] # NoFd => asock[b] # d
    BY <1>0, <1>1 DEF SocketOwned, TypeOK
  <1>3. open' = open \ {d} /\ epoll' = epoll /\ ready' = ready
    BY <1>0, <1>1, <1>2, CloseUnregistered
  <1>4. \A v \in Worker : conn(v)' = conn(v)
    BY <1>1 DEF conn
  <1> HIDE DEF d
  <1>5. TypeOK'
    BY <1>0, <1>1, <1>3 DEF TypeOK, WorkerPC
  <1>6. LockOK' /\ AccepterOK'
    BY <1>0, <1>1 DEF TypeOK, LockOK, AccepterOK
  <1>7. WorkerOK' /\ ReadyOK'
    BY <1>0, <1>1, <1>3 DEF TypeOK, WorkerOK, conn, ReadyOK
  <1>8. BatchLive'
    BY <1>0, <1>1, <1>3 DEF TypeOK, BatchLive, Registered
  <1>9. SlotExclusive' /\ \A v \in Worker : InUse(v)' \subseteq InUse(v)
    <2>1. \A v \in Worker : Releasing(v)' \subseteq Releasing(v)
      BY <1>0, <1>1, <1>4 DEF TypeOK, Releasing
    <2> QED BY <1>0, <1>1, <1>3, <2>1, UseKept DEF HandingOver
  <1>10. FreeListOK'
    BY <1>0, <1>1, <1>9, FreeListKept
  <1>11. SocketOwned'
    <2>1. \A v \in Worker : wpc'[v] = "close" => v # w /\ wpc[v] = "close"
      BY <1>0, <1>1 DEF TypeOK
    <2>2. \A v \in Worker, e \in Fds : epoll[v][e] # NULL => e # d
      BY <1>2
    <2> HIDE DEF conn
    <2> QED BY <1>0, <1>1, <1>2, <1>3, <1>4, <2>1, <2>2 DEF SocketOwned
  <1> QED BY <1>5, <1>6, <1>7, <1>8, <1>9, <1>10, <1>11 DEF IInv

(* kitserv_http_reset_client.                                              *)
LEMMA ResetStep ==
  ASSUME NEW w \in Worker, IInv, Reset(w)
  PROVE  IInv'
  <1>0. /\ TypeOK /\ LockOK /\ AccepterOK /\ WorkerOK /\ ReadyOK /\ FreeListOK
        /\ SlotExclusive /\ SocketOwned /\ BatchLive
    BY DEF IInv
  <1>1. /\ wpc[w] = "reset"
        /\ fresh' = [fresh EXCEPT ![w][conn(w)] = TRUE]
        /\ wpc' = [wpc EXCEPT ![w] = "link"]
        /\ UNCHANGED <<open, epoll, ready, lock, freelist_count,
                       first_free_conn, next_conn, sockfd, apc, asock, ai,
                       best_worker, best_score, new_conn, events>>
    BY DEF Reset, ResetClient, sysvars, poolvars, accvars
  <1>2. \A v \in Worker : conn(v)' = conn(v)
    BY <1>1 DEF conn
  <1>3. TypeOK'
    <2>1. fresh' \in [Worker -> [Slot -> BOOLEAN]]
      BY <1>0, <1>1 DEF TypeOK
    <2> QED BY <1>0, <1>1, <2>1 DEF TypeOK, WorkerPC
  <1>4. LockOK' /\ AccepterOK'
    BY <1>0, <1>1 DEF TypeOK, LockOK, AccepterOK
  <1>5. WorkerOK' /\ ReadyOK'
    BY <1>0, <1>1 DEF TypeOK, WorkerOK, conn, ReadyOK
  <1>6. BatchLive'
    BY <1>0, <1>1 DEF TypeOK, BatchLive, Registered
  <1>7. SlotExclusive' /\ \A v \in Worker : InUse(v)' \subseteq InUse(v)
    <2>1. \A v \in Worker : Releasing(v)' \subseteq Releasing(v)
      BY <1>0, <1>1, <1>2 DEF TypeOK, Releasing
    <2> QED BY <1>0, <1>1, <2>1, UseKept DEF HandingOver
  <1>8. FreeListOK'
    BY <1>0, <1>1, <1>7, FreeListKept
  <1>9. SocketOwned'
    <2>1. \A v \in Worker : wpc'[v] = "close" => wpc[v] = "close"
      BY <1>0, <1>1 DEF TypeOK
    <2> HIDE DEF conn
    <2> QED BY <1>0, <1>1, <1>2, <2>1 DEF SocketOwned
  <1> QED BY <1>3, <1>4, <1>5, <1>6, <1>7, <1>8, <1>9 DEF IInv

(* connection_close writes next_conn of a slot that is on no list.         *)
LEMMA LinkStep ==
  ASSUME NEW w \in Worker, IInv, Link(w)
  PROVE  IInv'
  <1>0. /\ TypeOK /\ LockOK /\ AccepterOK /\ WorkerOK /\ ReadyOK /\ FreeListOK
        /\ SlotExclusive /\ SocketOwned /\ BatchLive
    BY DEF IInv
  <1>1. /\ wpc[w] = "link"
        /\ lock[w] = Nobody
        /\ lock' = [lock EXCEPT ![w] = Self]
        /\ next_conn' = [next_conn EXCEPT ![w][conn(w)] = first_free_conn[w]]
        /\ wpc' = [wpc EXCEPT ![w] = "push"]
        /\ UNCHANGED <<open, epoll, ready, freelist_count, first_free_conn,
                       sockfd, fresh, apc, asock, ai, best_worker, best_score,
                       new_conn, events>>
    BY DEF Link, MutexFree, sysvars, accvars
  <1>2. \A v \in Worker : conn(v)' = conn(v)
    BY <1>1 DEF conn
  <1>3. conn(w) \in Slot
    BY <1>0, <1>1, ConnFacts
  <1>4. TypeOK'
    <2>1. next_conn' \in [Worker -> [Slot -> Pointer]]
      BY <1>0, <1>1, <1>3 DEF TypeOK
    <2>2. lock' \in [Worker -> Accepters \union {Nobody, Self}]
      BY <1>0, <1>1 DEF TypeOK
    <2> QED BY <1>0, <1>1, <2>1, <2>2 DEF TypeOK, WorkerPC
  <1>5. LockOK'
    BY <1>0, <1>1, ThreadAssumption, SMTT(60) DEF TypeOK, LockOK, Nobody, Self
  <1>6. AccepterOK' /\ ReadyOK'
    BY <1>0, <1>1 DEF AccepterOK, ReadyOK
  <1>7. WorkerOK'
    <2>1. next_conn'[w][conn(w)] = first_free_conn[w]
      BY <1>0, <1>1, <1>3 DEF TypeOK
    <2>2. \A v \in Worker \ {w} : next_conn'[v] = next_conn[v] /\ wpc'[v] = wpc[v]
      BY <1>0, <1>1 DEF TypeOK
    <2> HIDE DEF conn
    <2> QED BY <1>0, <1>1, <1>2, <2>1, <2>2 DEF WorkerOK, TypeOK
  <1>8. BatchLive'
    BY <1>0, <1>1 DEF TypeOK, BatchLive, Registered
  <1>9. SlotExclusive' /\ \A v \in Worker : InUse(v)' \subseteq InUse(v)
    <2>1. \A v \in Worker : Releasing(v)' \subseteq Releasing(v)
      BY <1>0, <1>1, <1>2 DEF TypeOK, Releasing
    <2> QED BY <1>0, <1>1, <2>1, UseKept DEF HandingOver
  <1>10. FreeListOK'
    <2> SUFFICES ASSUME NEW v \in Worker
                 PROVE  /\ freelist_count'[v] >= 0
                        /\ \E f \in [1 .. freelist_count'[v] -> Slot] :
                             FreeList(v, f)'
      BY DEF FreeListOK
    <2>1. PICK f \in [1 .. freelist_count[v] -> Slot] :
            freelist_count[v] >= 0 /\ FreeList(v, f)
      BY <1>0 DEF FreeListOK
    <2>2. \A t \in Slot : t \notin InUse(v) => next_conn'[v][t] = next_conn[v][t]
      <3>1. conn(w) \in InUse(w)
        BY <1>1 DEF InUse, Releasing
      <3> QED BY <1>0, <1>1, <3>1 DEF TypeOK
    <2>3. FreeList(v, f)'
      BY <1>1, <1>9, <2>1, <2>2 DEF FreeList
    <2> QED BY <1>1, <2>1, <2>3
  <1>11. SocketOwned'
    <2>1. \A v \in Worker : wpc'[v] = "close" => wpc[v] = "close"
      BY <1>0, <1>1 DEF TypeOK
    <2> HIDE DEF conn
    <2> QED BY <1>0, <1>1, <1>2, <2>1 DEF SocketOwned
  <1> QED BY <1>4, <1>5, <1>6, <1>7, <1>8, <1>9, <1>10, <1>11 DEF IInv

(* connection_close puts the slot before the head: a longer list.          *)
LEMMA PushStep ==
  ASSUME NEW w \in Worker, IInv, Push(w)
  PROVE  IInv'
  <1> DEFINE s == conn(w)
  <1>0. /\ TypeOK /\ LockOK /\ AccepterOK /\ WorkerOK /\ ReadyOK /\ FreeListOK
        /\ SlotExclusive /\ SocketOwned /\ BatchLive
    BY DEF IInv
  <1>1. /\ wpc[w] = "push"
        /\ first_free_conn' = [first_free_conn EXCEPT ![w] = s]
        /\ freelist_count' = [freelist_count EXCEPT ![w] = @ + 1]
        /\ lock' = [lock EXCEPT ![w] = Nobody]
        /\ NextEvent(w)
        /\ UNCHANGED <<open, epoll, ready, next_conn, sockfd, fresh, apc,
                       asock, ai, best_worker, best_score, new_conn>>
    BY DEF Push, CountFree, Unlock, sysvars, accvars
  <1>2. s \in Slot /\ next_conn[w][s] = first_free_conn[w]
    BY <1>0, <1>1, ConnFacts DEF WorkerOK
  <1>3. /\ events' \in [Worker -> Seq(Slot)]
        /\ wpc' \in [Worker -> WorkerPC]
        /\ \A v \in Worker \ {w} : events'[v] = events[v] /\ wpc'[v] = wpc[v]
        /\ wpc'[w] \in {"serve", "wait"}
        /\ wpc'[w] = "wait" <=> events'[w] = <<>>
    BY <1>0, <1>1, NextEventFacts
  <1>4. lock[w] = Self
    BY <1>0, <1>1 DEF LockOK
  <1>5. TypeOK'
    <2>1. first_free_conn' \in [Worker -> Pointer]
      BY <1>0, <1>1, <1>2, PointerFacts DEF TypeOK
    <2>2. freelist_count' \in [Worker -> Int]
      BY <1>0, <1>1 DEF TypeOK
    <2>3. lock' \in [Worker -> Accepters \union {Nobody, Self}]
      BY <1>0, <1>1 DEF TypeOK
    <2> QED BY <1>0, <1>1, <1>3, <2>1, <2>2, <2>3 DEF TypeOK
  <1>6. LockOK'
    BY <1>0, <1>1, <1>3, <1>4, ThreadAssumption, SMTT(60) DEF TypeOK, LockOK, Nobody, Self
  <1>7. AccepterOK'
    <2>1. \A b \in Accepters : apc[b] = "take" => best_worker[b] # w
      BY <1>0, <1>4, ThreadAssumption DEF LockOK
    <2>2. \A v \in Worker \ {w} : first_free_conn'[v] = first_free_conn[v]
      BY <1>0, <1>1 DEF TypeOK
    <2>3. \A b \in Accepters : best_worker[b] \in Worker
      BY <1>0 DEF TypeOK
    <2> QED BY <1>0, <1>1, <2>1, <2>2, <2>3 DEF AccepterOK
  <1>8. WorkerOK'
    <2>1. \A v \in Worker \ {w} : first_free_conn'[v] = first_free_conn[v]
                                  /\ conn(v)' = conn(v)
      BY <1>0, <1>1, <1>3 DEF TypeOK, conn
    <2> HIDE DEF conn
    <2> QED BY <1>0, <1>1, <1>3, <2>1, ZenonT(60) DEF WorkerOK
  <1>9. ReadyOK'
    BY <1>0, <1>1 DEF ReadyOK
  <1>10. /\ SlotExclusive'
         /\ \A v \in Worker : InUse(v)' \subseteq InUse(v)
         /\ s \notin InUse(w)'
    <2>1. /\ \A v \in Worker \ {w} : Releasing(v)' = Releasing(v)
          /\ Releasing(w)' = {}
          /\ Releasing(w) = {s}
      BY <1>1, <1>3 DEF Releasing, conn
    <2>2. SlotExclusive' /\ \A v \in Worker : InUse(v)' \subseteq InUse(v)
      BY <1>0, <1>1, <2>1, UseKept DEF HandingOver
    <2>3. /\ HandingOver(w)' = HandingOver(w)
          /\ Registered(w)' = Registered(w)
      BY <1>1 DEF HandingOver, Registered
    <2>4. /\ \A b \in HandingOver(w) : new_conn[b] # s
          /\ s \notin Registered(w)
      BY <1>0, <2>1 DEF SlotExclusive
    <2>5. s \notin {new_conn[b] : b \in HandingOver(w)}
      BY <2>4
    <2>6. InUse(w)' = {new_conn[b] : b \in HandingOver(w)} \union Registered(w)
      BY <1>1, <2>1, <2>3 DEF InUse
    <2> QED BY <2>2, <2>4, <2>5, <2>6
  <1>11. s \in InUse(w)
    BY <1>1 DEF InUse, Releasing
  <1>12. PICK t \in Slot : t = s
    BY <1>2
  <1>13. FreeListOK'
    <2> HIDE DEF s
    <2> SUFFICES ASSUME NEW v \in Worker
                 PROVE  /\ freelist_count'[v] >= 0
                        /\ \E g \in [1 .. freelist_count'[v] -> Slot] :
                             FreeList(v, g)'
      BY DEF FreeListOK
    <2>1. PICK f \in [1 .. freelist_count[v] -> Slot] :
            freelist_count[v] >= 0 /\ FreeList(v, f)
      BY <1>0 DEF FreeListOK
    <2>2. CASE v = w
      <3>1. PICK n \in Nat : n = freelist_count[v]
        BY <1>0, <2>1 DEF TypeOK
      <3>2. /\ freelist_count'[v] = n + 1
            /\ first_free_conn'[v] = t
            /\ next_conn' = next_conn
            /\ next_conn[v][t] = first_free_conn[v]
            /\ InUse(v)' \subseteq InUse(v)
            /\ t \notin InUse(v)'
            /\ t \in InUse(v)
        BY <1>0, <1>1, <1>2, <1>10, <1>11, <1>12, <2>2, <3>1 DEF TypeOK
      <3>3. PICK g \in [1 .. n + 1 -> Slot] :
              \A i \in 1 .. n + 1 : g[i] = IF i = 1 THEN t ELSE f[i - 1]
        <4> DEFINE h == [i \in 1 .. n + 1 |-> IF i = 1 THEN t ELSE f[i - 1]]
        <4>1. h \in [1 .. n + 1 -> Slot]
          BY <2>1, <3>1
        <4>2. \A i \in 1 .. n + 1 : h[i] = IF i = 1 THEN t ELSE f[i - 1]
          OBVIOUS
        <4> HIDE DEF h
        <4> QED BY <4>1, <4>2
      <3>4. /\ \A i, j \in 1 .. n : f[i] = f[j] => i = j
            /\ IF n = 0 THEN first_free_conn[v] \in UninitNext
                        ELSE first_free_conn[v] = f[1]
            /\ \A i \in 1 .. n :
                 /\ IF i = n THEN next_conn[v][f[i]] \in UninitNext
                             ELSE next_conn[v][f[i]] = f[i + 1]
                 /\ f[i] \notin InUse(v)
        BY <2>1, <3>1 DEF FreeList
      <3>5. \A i \in 2 .. n + 1 : i - 1 \in 1 .. n /\ g[i] = f[i - 1] /\ g[i] # t
        BY <3>1, <3>2, <3>3, <3>4
      <3>6. \A i, j \in 1 .. n + 1 : g[i] = g[j] => i = j
        <4>1. \A i \in 1 .. n + 1 : i = 1 \/ i \in 2 .. n + 1
          OBVIOUS
        <4>2. g[1] = t
          BY <3>3
        <4>3. \A i, j \in 2 .. n + 1 : g[i] = g[j] => i = j
          BY <3>4, <3>5, SMTT(60)
        <4> QED BY <3>5, <4>1, <4>2, <4>3
      <3>7. n + 1 # 0 /\ first_free_conn'[v] = g[1]
        <4>1. n + 1 # 0 /\ 1 \in 1 .. n + 1
          BY <3>1
        <4> QED BY <3>2, <3>3, <4>1
      <3>8. ASSUME NEW i \in 1 .. n + 1
            PROVE  /\ IF i = n + 1 THEN next_conn'[v][g[i]] \in UninitNext
                                   ELSE next_conn'[v][g[i]] = g[i + 1]
                   /\ g[i] \notin InUse(v)'
        <4>1. CASE i = 1
          BY <3>2, <3>3, <3>4, <4>1
        <4>2. CASE i # 1
          <5>1. i - 1 \in 1 .. n /\ g[i] = f[i - 1]
            BY <3>5, <4>2
          <5>2. i # n + 1 => g[i + 1] = f[i]
            BY <3>3, <4>2
          <5> QED BY <3>2, <3>4, <5>1, <5>2
        <4> QED BY <4>1, <4>2
      <3>9. FreeList(v, g)'
        BY <3>2, <3>6, <3>7, <3>8 DEF FreeList
      <3> QED BY <3>2, <3>3, <3>9
    <2>3. CASE v # w
      <3>1. /\ freelist_count'[v] = freelist_count[v]
            /\ first_free_conn'[v] = first_free_conn[v]
            /\ next_conn' = next_conn
            /\ InUse(v)' \subseteq InUse(v)
        BY <1>0, <1>1, <1>10, <2>3 DEF TypeOK
      <3>2. FreeList(v, f)'
        BY <2>1, <3>1 DEF FreeList
      <3> QED BY <2>1, <3>1, <3>2
    <2> QED BY <2>2, <2>3
  <1>14. SocketOwned'
    <2>1. \A v \in Worker : wpc'[v] = "close" =>
            wpc[v] = "close" /\ conn(v)' = conn(v)
      BY <1>3 DEF conn
    <2> HIDE DEF conn
    <2> QED BY <1>0, <1>1, <2>1 DEF SocketOwned
  <1>15. BatchLive'
    <2>1. \A v \in Worker : Registered(v) \subseteq Registered(v)'
      BY <1>1 DEF Registered
    <2> QED BY <1>0, <1>1, <2>1, BatchTail
  <1> QED BY <1>5, <1>6, <1>7, <1>8, <1>9, <1>10, <1>13, <1>14, <1>15 DEF IInv

(* An edge on a watched socket.                                            *)
LEMMA ActivityStep ==
  ASSUME NEW w \in Worker, NEW d \in Fds, IInv, Activity(w, d)
  PROVE  IInv'
  <1>0. /\ TypeOK /\ LockOK /\ AccepterOK /\ WorkerOK /\ ReadyOK /\ FreeListOK
        /\ SlotExclusive /\ SocketOwned /\ BatchLive
    BY DEF IInv
  <1>1. /\ epoll[w][d] # NULL
        /\ ~ Contains(ready[w], d)
        /\ ready' = [ready EXCEPT ![w] = Append(@, d)]
        /\ UNCHANGED <<open, epoll, lock, freelist_count, first_free_conn,
                       next_conn, sockfd, fresh, apc, asock, ai, best_worker,
                       best_score, new_conn, wpc, events>>
    BY DEF Activity, poolvars, accvars, wrkvars
  <1>2. TypeOK'
    <2>1. ready' \in [Worker -> Seq(Fds)]
      BY <1>0, <1>1 DEF TypeOK
    <2> QED BY <1>0, <1>1, <2>1 DEF TypeOK
  <1>3. ReadyOK'
    <2> DEFINE list == ready[w]
    <2>1. /\ list \in Seq(Fds)
          /\ \A k \in 1 .. Len(list) : epoll[w][list[k]] # NULL /\ list[k] # d
          /\ \A j, k \in 1 .. Len(list) : list[j] = list[k] => j = k
      BY <1>0, <1>1 DEF TypeOK, ReadyOK, Contains
    <2>2. /\ ready'[w] = Append(list, d)
          /\ \A v \in Worker \ {w} : ready'[v] = ready[v]
      BY <1>0, <1>1 DEF TypeOK
    <2> HIDE DEF list
    <2>3. /\ \A k \in 1 .. Len(Append(list, d)) :
               epoll[w][Append(list, d)[k]] # NULL
          /\ \A j, k \in 1 .. Len(Append(list, d)) :
               Append(list, d)[j] = Append(list, d)[k] => j = k
      BY <1>1, <2>1
    <2> QED BY <1>0, <1>1, <2>2, <2>3, SMTT(60) DEF ReadyOK
  <1>4. SlotExclusive' /\ \A v \in Worker : InUse(v)' \subseteq InUse(v)
    BY <1>0, <1>1, UseKept DEF HandingOver, Releasing, conn
  <1>5. FreeListOK'
    BY <1>0, <1>1, <1>4, FreeListKept
  <1>6. LockOK' /\ AccepterOK' /\ WorkerOK' /\ SocketOwned' /\ BatchLive'
    BY <1>0, <1>1 DEF LockOK, AccepterOK, WorkerOK, SocketOwned, BatchLive,
                      Registered, conn
  <1> QED BY <1>2, <1>3, <1>4, <1>5, <1>6 DEF IInv

(* A step of nothing modelled here.                                        *)
LEMMA StutterStep ==
  ASSUME IInv, UNCHANGED vars
  PROVE  IInv'
  <1>1. UNCHANGED <<open, epoll, ready, lock, freelist_count, first_free_conn,
                    next_conn, sockfd, fresh, apc, asock, ai, best_worker,
                    best_score, new_conn, wpc, events>>
    BY DEF vars, sysvars, poolvars, accvars, wrkvars
  <1>2. SlotExclusive' /\ \A v \in Worker : InUse(v)' \subseteq InUse(v)
    BY <1>1, UseKept DEF IInv, HandingOver, Releasing, conn
  <1>3. FreeListOK'
    BY <1>1, <1>2, FreeListKept DEF IInv
  <1>4. TypeOK'
    BY <1>1 DEF IInv, TypeOK
  <1>5. LockOK' /\ AccepterOK' /\ WorkerOK' /\ ReadyOK'
    BY <1>1 DEF IInv, LockOK, AccepterOK, WorkerOK, ReadyOK, conn
  <1>6. SocketOwned' /\ BatchLive'
    BY <1>1 DEF IInv, SocketOwned, BatchLive, Registered, conn
  <1> QED BY <1>2, <1>3, <1>4, <1>5, <1>6 DEF IInv

(* kitserv_server_start and connection_init: every slot on its list, in    *)
(* order, and nobody using anything.                                       *)
LEMMA InitInv == Init => IInv
  <1> SUFFICES ASSUME Init PROVE IInv
    OBVIOUS
  <1>1. PICK last \in [Worker -> UninitNext] :
          next_conn = [w \in Worker |->
                        [s \in Slot |-> IF s < slots THEN s + 1 ELSE last[w]]]
    BY DEF Init
  <1>2. /\ open = {}
        /\ epoll = [w \in Worker |-> [d \in Fds |-> NULL]]
        /\ ready = [w \in Worker |-> <<>>]
        /\ lock = [w \in Worker |-> Nobody]
        /\ freelist_count = [w \in Worker |-> slots]
        /\ first_free_conn = [w \in Worker |-> 1]
        /\ sockfd = [w \in Worker |-> [s \in Slot |-> NoFd]]
        /\ fresh = [w \in Worker |-> [s \in Slot |-> TRUE]]
        /\ apc = [a \in Accepters |-> "accept"]
        /\ asock = [a \in Accepters |-> NoFd]
        /\ ai = [a \in Accepters |-> 1]
        /\ best_worker = [a \in Accepters |-> 1]
        /\ best_score = [a \in Accepters |-> -1]
        /\ new_conn = [a \in Accepters |-> NULL]
        /\ wpc = [w \in Worker |-> "wait"]
        /\ events = [w \in Worker |-> <<>>]
    BY DEF Init
  <1>3. \A s \in Slot : s \in 1 .. slots
    BY DEF Slot
  <1>4. TypeOK
    <2>1. 1 \in Worker /\ 1 \in Slot /\ 1 \in Pointer /\ NULL \in Pointer
      BY SizeAssumption, SlotsPositive, PointerFacts DEF Worker, Slot
    <2>2. next_conn \in [Worker -> [Slot -> Pointer]]
      <3>1. \A s \in Slot : s < slots => s + 1 \in Slot
        BY SlotsPositive DEF Slot
      <3>2. \A w \in Worker : last[w] \in Pointer
        BY PointerFacts
      <3> QED BY <1>1, <3>1, <3>2, PointerFacts
    <2> QED BY <1>2, <2>1, <2>2, SlotsPositive DEF TypeOK, AccepterPC, WorkerPC
  <1>5. LockOK /\ AccepterOK /\ WorkerOK /\ ReadyOK
    BY <1>2, ThreadAssumption, FdAssumption
       DEF LockOK, AccepterOK, WorkerOK, ReadyOK, Nobody, Self
  <1>6. \A w \in Worker : /\ HandingOver(w) = {} /\ Releasing(w) = {}
                          /\ Registered(w) = {} /\ InUse(w) = {}
    BY <1>2 DEF HandingOver, Releasing, Registered, InUse
  <1>7. SlotExclusive /\ SocketOwned /\ BatchLive
    BY <1>2, <1>6 DEF SlotExclusive, SocketOwned, BatchLive
  <1>8. FreeListOK
    <2> SUFFICES ASSUME NEW w \in Worker
                 PROVE  /\ freelist_count[w] >= 0
                        /\ \E f \in [1 .. freelist_count[w] -> Slot] : FreeList(w, f)
      BY DEF FreeListOK
    <2> DEFINE f == [i \in 1 .. slots |-> i]
    <2>1. f \in [1 .. freelist_count[w] -> Slot] /\ freelist_count[w] >= 0
      BY <1>2, SlotsPositive DEF Slot
    <2>2. \A i \in 1 .. slots :
            next_conn[w][i] = IF i < slots THEN i + 1 ELSE last[w]
      BY <1>1 DEF Slot
    <2>3. FreeList(w, f)
      BY <1>2, <1>6, <2>2, SlotsPositive DEF FreeList
    <2> QED BY <2>1, <2>3
  <1> QED BY <1>4, <1>5, <1>7, <1>8 DEF IInv

(* Every step preserves the invariant.                                     *)
LEMMA NextInv == IInv /\ [Next]_vars => IInv'
  <1> SUFFICES ASSUME IInv, [Next]_vars PROVE IInv'
    OBVIOUS
  <1>1. ASSUME NEW a \in Accepters, Accepter(a) PROVE IInv'
    BY <1>1, AcceptStep, ScoreStep, LockStep, TakeStep, TakeNoneStep,
       RefuseStep, AddStep DEF Accepter
  <1>2. ASSUME NEW w \in Worker, ClientWorker(w) PROVE IInv'
    BY <1>2, WaitStep, ServeStep, RemoveStep, CloseStep, ResetStep, LinkStep,
       PushStep DEF ClientWorker
  <1>3. ASSUME NEW w \in Worker, NEW d \in Fds, Activity(w, d) PROVE IInv'
    BY <1>3, ActivityStep
  <1>4. CASE UNCHANGED vars
    BY <1>4, StutterStep
  <1> QED BY <1>1, <1>2, <1>3, <1>4 DEF Next

-----------------------------------------------------------------------------
(* The threads of kitserv.c keep what they know of each other true.        *)
THEOREM InductiveInvariant == Spec => []IInv
  BY InitInv, NextInv, PTL DEF Spec

(* Every variable keeps its type: in particular no thread ever works on a  *)
(* slot or a worker that does not exist (select_client_worker, accept_worker,*)
(* client_worker).                                                         *)
THEOREM TypeCorrect == Spec => []TypeOK
  <1>1. IInv => TypeOK
    BY DEF IInv
  <1> QED BY <1>1, InductiveInvariant, PTL

(* connection_accept and connection_close keep the free list a chain of    *)
(* freelist_count different unused slots, in every interleaving.           *)
THEOREM FreeListIntact == Spec => []FreeListOK
  <1>1. IInv => FreeListOK
    BY DEF IInv
  <1> QED BY <1>1, InductiveInvariant, PTL

(* "active connections should not be shared" (kitserv.c:41): connection    *)
(* slots always have one user at most.                                     *)
THEOREM SlotsNotShared == Spec => []SlotExclusive
  <1>1. IInv => SlotExclusive
    BY DEF IInv
  <1> QED BY <1>1, InductiveInvariant, PTL

(* client_worker and accept_worker only touch descriptors of their own     *)
(* connections, although the kernel reuses the numbers at once.            *)
THEOREM DescriptorsOwned == Spec => []SocketOwned
  <1>1. IInv => SocketOwned
    BY DEF IInv
  <1> QED BY <1>1, InductiveInvariant, PTL

(* No event of a batch of client_worker refers to a slot that was freed.   *)
THEOREM BatchesLive == Spec => []BatchLive
  <1>1. IInv => BatchLive
    BY DEF IInv
  <1> QED BY <1>1, InductiveInvariant, PTL

-----------------------------------------------------------------------------
(* A slot the list begins with.                                            *)

(* The head of a free list that is not empty is an unused slot, and that   *)
(* of an empty one no slot.                                                *)
LEMMA HeadFacts ==
  ASSUME NEW w \in Worker, TypeOK, FreeListOK
  PROVE  /\ freelist_count[w] \in Nat
         /\ first_free_conn[w] \in Slot => /\ freelist_count[w] > 0
                                           /\ first_free_conn[w] \notin InUse(w)
         /\ first_free_conn[w] \notin Slot => freelist_count[w] = 0
  <1>1. PICK f \in [1 .. freelist_count[w] -> Slot] : FreeList(w, f)
    BY DEF FreeListOK
  <1>2. freelist_count[w] \in Nat
    BY DEF FreeListOK, TypeOK
  <1>3. CASE freelist_count[w] = 0
    <2>1. first_free_conn[w] \in UninitNext
      BY <1>1, <1>3 DEF FreeList
    <2> QED BY <1>3, <2>1, PointerFacts
  <1>4. CASE freelist_count[w] # 0
    <2>1. 1 \in 1 .. freelist_count[w]
      BY <1>2, <1>4
    <2>2. first_free_conn[w] = f[1] /\ f[1] \in Slot /\ f[1] \notin InUse(w)
      BY <1>1, <1>4, <2>1 DEF FreeList
    <2> QED BY <1>2, <1>4, <2>2
  <1> QED BY <1>3, <1>4

-----------------------------------------------------------------------------
(* Slots that are not reset.                                               *)

(* A step that resets nothing, registers no less and leaves the workers    *)
(* where they are keeps FreshOK.                                           *)
LEMMA FreshKept ==
  ASSUME FreshOK, UNCHANGED <<fresh, wpc, events>>,
         \A w \in Worker : Registered(w) \subseteq Registered(w)'
  PROVE  FreshOK'
  BY DEF FreshOK, conn

(* An accept thread resets no client and ends no registration.             *)
LEMMA FreshAccepter ==
  ASSUME NEW a \in Accepters, IInv, FreshOK, Accepter(a)
  PROVE  FreshOK'
  <1>1. UNCHANGED <<fresh, wpc, events>>
    BY DEF Accepter, Accept, Score, Lock, Take, TakeNone, TakeWild, Refuse, Add,
           wrkvars
  <1>2. CASE UNCHANGED epoll
    BY <1>1, <1>2, FreshKept DEF Registered
  <1>3. CASE Refuse(a)
    <2>1. asock[a] \in Fds /\ \A w \in Worker : epoll[w][asock[a]] = NULL
      BY <1>3 DEF Refuse, IInv, TypeOK, AccepterOK, SocketOwned
    <2>2. epoll' = epoll
      BY <1>3, <2>1, CloseUnregistered DEF Refuse, IInv
    <2> QED BY <1>2, <2>2
  <1>4. CASE Add(a)
    <2>1. asock[a] \in Fds /\ \A w \in Worker : epoll[w][asock[a]] = NULL
      BY <1>4 DEF Add, IInv, TypeOK, AccepterOK, SocketOwned
    <2>2. \A w \in Worker, d \in Fds \ {asock[a]} : epoll'[w][d] = epoll[w][d]
      <3>1. epoll \in [Worker -> [Fds -> Slot \union {NULL}]]
        BY DEF IInv, TypeOK
      <3>2. \/ epoll' = [epoll EXCEPT ![best_worker[a]][asock[a]] = new_conn[a]]
            \/ epoll' = epoll
        BY <1>4 DEF Add
      <3> QED BY <3>1, <3>2
    <2>3. \A w \in Worker : Registered(w) \subseteq Registered(w)'
      BY <2>1, <2>2 DEF Registered
    <2> QED BY <1>1, <2>3, FreshKept
  <1> QED
    BY <1>2, <1>3, <1>4
       DEF Accepter, Accept, Score, Lock, Take, TakeNone, TakeWild, sysvars

(* A worker serves what is registered, and resets what it unregisters.     *)
LEMMA FreshWorker ==
  ASSUME NEW w \in Worker, IInv, FreshOK, ClientWorker(w)
  PROVE  FreshOK'
  <1> SUFFICES ASSUME NEW v \in Worker, NEW s \in Slot, ~ fresh'[v][s]
               PROVE  \/ s \in Registered(v)'
                      \/ wpc'[v] \in {"close", "reset"} /\ s = conn(v)'
    BY DEF FreshOK
  <1>1. TypeOK /\ WorkerOK /\ ReadyOK /\ SocketOwned /\ BatchLive
    BY DEF IInv
  <1>2. wpc[w] # "wait" => conn(w) \in Slot /\ Len(events[w]) >= 1
                           /\ conn(w) = events[w][1] /\ Len(events[w]) \in Nat
    BY <1>1, ConnFacts
  <1>3. CASE Wait(w)
    <2>1. UNCHANGED <<epoll, fresh>> /\ wpc[w] = "wait"
          /\ (v # w => wpc'[v] = wpc[v] /\ events'[v] = events[v])
      BY <1>1, <1>3 DEF Wait, TypeOK
    <2> QED BY <2>1 DEF FreshOK, Registered, conn
  <1>4. CASE Serve(w)
    <2>1. UNCHANGED epoll /\ wpc[w] = "serve" /\ wpc[w] # "wait"
      BY <1>4 DEF Serve, sysvars
    <2>2. v # w => wpc'[v] = wpc[v] /\ events'[v] = events[v]
      BY <1>1, <1>4, <2>1, NextEventFacts, ZenonT(60) DEF Serve, TypeOK
    <2>3. v = w /\ s = conn(w) => s \in Registered(w)
      BY <1>1, <1>2, <2>1 DEF BatchLive
    <2>4. v # w \/ s # conn(w) => ~ fresh[v][s]
      BY <1>1, <1>2, <1>4, <2>1 DEF Serve, TypeOK
    <2> QED BY <2>1, <2>2, <2>3, <2>4 DEF FreshOK, Registered, conn
  <1>5. CASE Remove(w)
    <2> DEFINE d == sockfd[w][conn(w)]
    <2>1. /\ UNCHANGED <<fresh, events>> /\ wpc[w] = "remove"
          /\ wpc'[w] = "close" /\ (v # w => wpc'[v] = wpc[v])
      BY <1>1, <1>5 DEF Remove, TypeOK
    <2>2. v # w => Registered(v)' = Registered(v)
      BY <1>1, <1>5 DEF Remove, TypeOK, Registered
    <2>3. CASE v # w
      BY <2>1, <2>2, <2>3 DEF FreshOK, conn
    <2>4. CASE v = w
      <3>1. s \in Registered(w)
        BY <2>1, <2>4 DEF FreshOK
      <3>2. PICK e \in Fds : epoll[w][e] = s
        BY <3>1 DEF Registered
      <3>3. s # NULL /\ sockfd[w][s] = e
        BY <1>1, <3>2, PointerFacts DEF SocketOwned
      <3>4. CASE e # d
        <4>1. epoll'[w][e] = s
          BY <1>1, <1>5, <3>2, <3>4 DEF Remove, TypeOK
        <4> QED BY <2>4, <3>3, <4>1 DEF Registered
      <3>5. CASE e = d
        <4>1. conn(w) \in Registered(w)
          BY <1>1, <1>2, <2>1 DEF BatchLive
        <4>2. PICK c \in Fds : epoll[w][c] = conn(w) /\ conn(w) # NULL
          BY <4>1 DEF Registered
        <4>3. c = d
          BY <1>1, <4>2 DEF SocketOwned
        <4>4. s = conn(w)
          BY <3>2, <3>5, <4>2, <4>3
        <4> QED BY <2>1, <2>4, <4>4 DEF conn
      <3> QED BY <3>4, <3>5
    <2> QED BY <2>3, <2>4
  <1>6. CASE Close(w)
    <2> DEFINE d == sockfd[w][conn(w)]
    <2>1. /\ UNCHANGED <<fresh, events>> /\ wpc[w] = "close"
          /\ wpc'[w] = "reset" /\ (v # w => wpc'[v] = wpc[v])
      BY <1>1, <1>6 DEF Close, TypeOK
    <2>2. d \in Fds /\ \A u \in Worker : epoll[u][d] = NULL
      BY <1>1, <2>1 DEF SocketOwned, TypeOK
    <2>3. epoll' = epoll
      BY <1>1, <1>6, <2>2, CloseUnregistered DEF Close
    <2> QED BY <2>1, <2>3 DEF FreshOK, Registered, conn
  <1>7. CASE Reset(w)
    <2>1. /\ UNCHANGED <<epoll, events>> /\ wpc[w] = "reset" /\ wpc[w] # "wait"
          /\ (v # w => wpc'[v] = wpc[v])
      BY <1>1, <1>7 DEF Reset, TypeOK, sysvars
    <2>2. v # w \/ s # conn(w)
      BY <1>1, <1>2, <1>7, <2>1 DEF Reset, ResetClient, TypeOK
    <2>3. ~ fresh[v][s]
      BY <1>1, <1>2, <1>7, <2>1, <2>2 DEF Reset, ResetClient, TypeOK
    <2> QED BY <2>1, <2>2, <2>3 DEF FreshOK, Registered, conn
  <1>8. CASE Link(w)
    <2>1. /\ UNCHANGED <<epoll, events, fresh>> /\ wpc[w] = "link"
          /\ (v # w => wpc'[v] = wpc[v])
      BY <1>1, <1>8 DEF Link, TypeOK, sysvars
    <2> QED BY <2>1 DEF FreshOK, Registered, conn
  <1>9. CASE Push(w)
    <2>1. UNCHANGED <<epoll, fresh>> /\ wpc[w] = "push" /\ wpc[w] # "wait"
      BY <1>9 DEF Push, sysvars
    <2>2. v # w => wpc'[v] = wpc[v] /\ events'[v] = events[v]
      BY <1>1, <1>9, <2>1, NextEventFacts DEF Push
    <2> QED BY <2>1, <2>2 DEF FreshOK, Registered, conn
  <1> QED BY <1>3, <1>4, <1>5, <1>6, <1>7, <1>8, <1>9 DEF ClientWorker

(* Every slot of a new container is reset.                                 *)
LEMMA FreshInit == Init => FreshOK
  BY DEF Init, FreshOK

(* Every step keeps FreshOK.                                               *)
LEMMA FreshNext == IInv /\ FreshOK /\ [Next]_vars => FreshOK'
  <1> SUFFICES ASSUME IInv, FreshOK, [Next]_vars PROVE FreshOK'
    OBVIOUS
  <1>1. ASSUME NEW w \in Worker, NEW d \in Fds, Activity(w, d) PROVE FreshOK'
    BY <1>1, FreshKept DEF Activity, Registered, wrkvars
  <1>2. CASE UNCHANGED vars
    BY <1>2, FreshKept DEF vars, Registered, wrkvars, sysvars
  <1> QED BY <1>1, <1>2, FreshAccepter, FreshWorker DEF Next

-----------------------------------------------------------------------------
(* Scores.                                                                 *)

(* Before the first connection nothing has been asked.                     *)
LEMMA ScoreInit == Init => ScoreOK
  BY SlotsPositive, SizeAssumption DEF Init, ScoreOK, Worker

(* Every step keeps ScoreOK: a worker only adds to its count, and nobody   *)
(* else takes from it.                                                     *)
LEMMA ScoreNext == IInv /\ ScoreOK /\ [Next]_vars => ScoreOK'
  <1> SUFFICES ASSUME IInv, ScoreOK, [Next]_vars,
                      \A b, c \in Accepters : b = c,
                      NEW a \in Accepters
               PROVE  /\ apc'[a] = "accept" => best_score'[a] = -1
                      /\ apc'[a] \in {"accept", "score"} => ai'[a] = 1 \/ best_score'[a] >= 0
                      /\ apc'[a] \in {"lock", "take"} => best_score'[a] >= 0
                      /\ apc'[a] \in {"accept", "score", "lock", "take"} =>
                           freelist_count'[best_worker'[a]] >= best_score'[a]
                      /\ apc'[a] = "refuse" => best_score'[a] = 0
    BY DEF ScoreOK
  <1>1. TypeOK /\ FreeListOK /\ AccepterOK
    BY DEF IInv
  <1>2. \A w \in Worker : freelist_count[w] \in Nat
    BY <1>1, HeadFacts
  <1>3. /\ apc[a] = "accept" => best_score[a] = -1
        /\ apc[a] \in {"accept", "score"} => ai[a] = 1 \/ best_score[a] >= 0
        /\ apc[a] \in {"lock", "take"} => best_score[a] >= 0
        /\ apc[a] \in {"accept", "score", "lock", "take"} =>
             freelist_count[best_worker[a]] >= best_score[a]
        /\ apc[a] = "refuse" => best_score[a] = 0
    BY DEF ScoreOK
  <1>4. ai[a] \in Worker /\ best_worker[a] \in Worker /\ best_score[a] \in Int
    BY <1>1 DEF TypeOK
  <1>5. CASE Accept(a)
    BY <1>1, <1>3, <1>5 DEF Accept, TypeOK, poolvars
  <1>6. CASE Score(a)
    <2>1. apc[a] = "score" /\ UNCHANGED freelist_count
      BY <1>6 DEF Score, poolvars
    <2>2. apc'[a] \in {"score", "lock"}
      BY <1>1, <1>6 DEF Score, TypeOK
    <2>3. CASE Better(a)
      <3>1. best_worker'[a] = ai[a] /\ best_score'[a] = freelist_count[ai[a]]
        BY <1>1, <1>6, <2>3 DEF Score, TypeOK
      <3> QED BY <1>2, <1>4, <2>1, <2>2, <3>1
    <2>4. CASE ~ Better(a)
      <3>1. best_worker'[a] = best_worker[a] /\ best_score'[a] = best_score[a]
        BY <1>6, <2>4 DEF Score
      <3>2. best_score[a] >= 0
        BY <1>2, <1>4, <2>4 DEF Better
      <3> QED BY <1>3, <2>1, <2>2, <3>1, <3>2
    <2> QED BY <2>3, <2>4
  <1>7. CASE Lock(a)
    BY <1>1, <1>3, <1>7 DEF Lock, TypeOK
  <1>8. CASE Take(a)
    <2>1. apc'[a] = "add"
      BY <1>1, <1>8 DEF Take, TypeOK
    <2> QED BY <2>1
  <1>9. CASE TakeNone(a)
    <2>1. /\ apc[a] = "take" /\ new_conn[a] = NULL /\ apc'[a] = "refuse"
          /\ UNCHANGED best_score
      BY <1>1, <1>9 DEF TakeNone, TypeOK
    <2>2. first_free_conn[best_worker[a]] = NULL
      BY <1>1, <2>1 DEF AccepterOK
    <2>3. freelist_count[best_worker[a]] = 0
      BY <1>1, <1>4, <2>2, HeadFacts, PointerFacts
    <2>4. best_score[a] = 0
      BY <1>3, <1>4, <2>1, <2>3
    <2> QED BY <2>1, <2>4
  <1>10. CASE TakeWild(a)
    <2>1. apc'[a] = "undefined"
      BY <1>1, <1>10 DEF TakeWild, TypeOK
    <2> QED BY <2>1
  <1>11. ASSUME Restart(a), UNCHANGED poolvars PROVE
           /\ apc'[a] = "accept" /\ best_score'[a] = -1 /\ ai'[a] = 1
           /\ freelist_count'[best_worker'[a]] >= best_score'[a]
    <2>1. best_worker'[a] = 1 /\ 1 \in Worker
      BY <1>1, <1>11, SizeAssumption DEF Restart, TypeOK, Worker
    <2> QED BY <1>1, <1>2, <1>11, <2>1 DEF Restart, TypeOK, poolvars
  <1>12. CASE Refuse(a) \/ Add(a)
    BY <1>11, <1>12 DEF Refuse, Add
  <1>13. ASSUME UNCHANGED accvars,
                \A w \in Worker : freelist_count'[w] >= freelist_count[w]
                                  /\ freelist_count'[w] \in Int
         PROVE  /\ UNCHANGED <<apc, ai, best_worker, best_score>>
                /\ apc[a] \in {"accept", "score", "lock", "take"} =>
                     freelist_count'[best_worker[a]] >= best_score[a]
    BY <1>2, <1>3, <1>4, <1>13 DEF accvars
  <1>14. ASSUME NEW w \in Worker, ClientWorker(w)
         PROVE  /\ UNCHANGED accvars
                /\ \A v \in Worker : freelist_count'[v] >= freelist_count[v]
                                     /\ freelist_count'[v] \in Int
    <2>1. CASE Push(w)
      BY <1>1, <1>2, <2>1, SMTT(60) DEF Push, CountFree, TypeOK
    <2>2. CASE ~ Push(w)
      <3>1. UNCHANGED <<accvars, freelist_count>>
        BY <1>14, <2>2 DEF ClientWorker, Wait, Serve, Remove, Close, Reset, Link, poolvars
      <3> QED BY <1>2, <3>1
    <2> QED BY <2>1, <2>2
  <1>15. CASE \E w \in Worker : ClientWorker(w)
    BY <1>3, <1>13, <1>14, <1>15
  <1>16. CASE UNCHANGED <<accvars, poolvars>>
    BY <1>2, <1>3, <1>13, <1>16 DEF poolvars
  <1>17. CASE \E w \in Worker, d \in Fds : Activity(w, d)
    BY <1>16, <1>17 DEF Activity
  <1>18. CASE UNCHANGED vars
    BY <1>16, <1>18 DEF vars
  <1>19. CASE \E b \in Accepters : Accepter(b)
    BY <1>5, <1>6, <1>7, <1>8, <1>9, <1>10, <1>12, <1>19 DEF Accepter
  <1> QED BY <1>15, <1>17, <1>18, <1>19 DEF Next

-----------------------------------------------------------------------------
(* Slots in use and slots on the list.                                     *)

(* The users of a worker's slots use slots of its container.               *)
LEMMA InUseFinite ==
  ASSUME NEW w \in Worker, IInv
  PROVE  /\ InUse(w) \subseteq Slot
         /\ IsFiniteSet(InUse(w)) /\ Cardinality(InUse(w)) \in Nat
  <1>1. \A a \in HandingOver(w) : new_conn[a] \in Slot
    BY DEF IInv, AccepterOK, HandingOver
  <1>2. Registered(w) \subseteq Slot
    BY DEF IInv, TypeOK, Registered
  <1>3. Releasing(w) \subseteq Slot
    BY ConnFacts DEF IInv, Releasing
  <1>4. InUse(w) \subseteq Slot
    BY <1>1, <1>2, <1>3 DEF InUse
  <1>5. IsFiniteSet(Slot)
    BY SlotsPositive, FS_Interval DEF Slot
  <1> QED BY <1>4, <1>5, FS_Subset, FS_CardinalityType

(* A step that changes no count and adds no user, and loses one only when  *)
(* a registration may fail.                                                *)
LEMMA ConservedKept ==
  ASSUME IInv, SlotsConserved, UNCHANGED freelist_count,
         \A w \in Worker : InUse(w)' = InUse(w) \/ (AddMayFail /\ InUse(w)' \subseteq InUse(w))
  PROVE  SlotsConserved'
  <1> SUFFICES ASSUME NEW w \in Worker
               PROVE  IF AddMayFail
                        THEN freelist_count[w] + Cardinality(InUse(w)') <= slots
                        ELSE freelist_count[w] + Cardinality(InUse(w)') = slots
    BY DEF SlotsConserved
  <1>1. IF AddMayFail THEN freelist_count[w] + Cardinality(InUse(w)) <= slots
                      ELSE freelist_count[w] + Cardinality(InUse(w)) = slots
    BY DEF SlotsConserved
  <1>2. CASE InUse(w)' = InUse(w)
    BY <1>1, <1>2
  <1>3. CASE AddMayFail /\ InUse(w)' \subseteq InUse(w)
    <2>1. IsFiniteSet(InUse(w)') /\ Cardinality(InUse(w)') <= Cardinality(InUse(w))
          /\ Cardinality(InUse(w)) \in Nat
      BY <1>3, InUseFinite, FS_Subset
    <2>2. Cardinality(InUse(w)') \in Nat /\ freelist_count[w] \in Int /\ slots \in Nat
      BY <2>1, FS_CardinalityType, SlotsPositive DEF IInv, TypeOK
    <2> QED BY <1>1, <1>3, <2>1, <2>2
  <1> QED BY <1>2, <1>3

(* connection_accept: what the list loses the accept thread has.           *)
LEMMA ConservedTake ==
  ASSUME NEW a \in Accepters, IInv, SlotsConserved, Take(a)
  PROVE  SlotsConserved'
  <1>0. PICK w \in Worker, s \in Slot : w = best_worker[a] /\ s = new_conn[a]
    BY DEF Take, IInv, TypeOK
  <1>1. /\ w \in Worker /\ s \in Slot /\ apc[a] = "take" /\ s = first_free_conn[w]
        /\ apc' = [apc EXCEPT ![a] = "add"]
        /\ UNCHANGED <<new_conn, best_worker, epoll, wpc, events>>
        /\ freelist_count' = [freelist_count EXCEPT ![w] = @ - 1]
    BY <1>0 DEF Take, IInv, TypeOK, AccepterOK, sysvars, wrkvars
  <1>2. freelist_count[w] \in Nat /\ s \notin InUse(w)
    BY <1>1, HeadFacts DEF IInv
  <1>3. \A v \in Worker : /\ Registered(v)' = Registered(v)
                          /\ Releasing(v)' = Releasing(v)
    BY <1>1 DEF Registered, Releasing, conn
  <1>4. \A b \in Accepters : apc'[b] = IF b = a THEN "add" ELSE apc[b]
    BY <1>1 DEF IInv, TypeOK
  <1>5. HandingOver(w)' = HandingOver(w) \union {a}
    BY <1>0, <1>1, <1>4 DEF HandingOver
  <1>6. \A v \in Worker \ {w} : HandingOver(v)' = HandingOver(v)
    BY <1>0, <1>1, <1>4 DEF HandingOver
  <1>7. InUse(w)' = InUse(w) \union {s}
    BY <1>0, <1>1, <1>3, <1>5, ZenonT(60) DEF InUse
  <1>8. \A v \in Worker \ {w} : InUse(v)' = InUse(v)
    BY <1>1, <1>3, <1>6 DEF InUse
  <1>9. /\ Cardinality(InUse(w)') = Cardinality(InUse(w)) + 1
        /\ Cardinality(InUse(w)) \in Nat
    BY <1>1, <1>2, <1>7, InUseFinite, FS_AddElement
  <1>10. /\ freelist_count'[w] = freelist_count[w] - 1
         /\ \A v \in Worker \ {w} : freelist_count'[v] = freelist_count[v]
    BY <1>1 DEF IInv, TypeOK
  <1>11. freelist_count'[w] + Cardinality(InUse(w)') = freelist_count[w] + Cardinality(InUse(w))
    BY <1>2, <1>9, <1>10
  <1> QED BY <1>8, <1>10, <1>11 DEF SlotsConserved

(* connection_close: what the worker gives up the list has.                *)
LEMMA ConservedPush ==
  ASSUME NEW w \in Worker, IInv, SlotsConserved, Push(w)
  PROVE  SlotsConserved'
  <1> DEFINE s == conn(w)
  <1>1. /\ TypeOK /\ WorkerOK /\ SlotExclusive /\ wpc[w] = "push" /\ NextEvent(w)
        /\ UNCHANGED <<new_conn, best_worker, apc, epoll>>
        /\ freelist_count' = [freelist_count EXCEPT ![w] = @ + 1]
    BY DEF Push, IInv, sysvars, accvars, CountFree
  <1>2. \A v \in Worker : /\ Registered(v)' = Registered(v)
                          /\ HandingOver(v)' = HandingOver(v)
    BY <1>1 DEF Registered, HandingOver
  <1>3. /\ wpc'[w] \in {"wait", "serve"}
        /\ \A v \in Worker \ {w} : events'[v] = events[v] /\ wpc'[v] = wpc[v]
    BY <1>1, NextEventFacts
  <1>4. /\ Releasing(w) = {s} /\ Releasing(w)' = {}
        /\ \A v \in Worker \ {w} : Releasing(v)' = Releasing(v)
    BY <1>1, <1>3 DEF Releasing, conn
  <1>5. s \notin Registered(w) /\ \A a \in HandingOver(w) : new_conn[a] # s
    BY <1>1, <1>4 DEF SlotExclusive
  <1>6. InUse(w)' = {new_conn[a] : a \in HandingOver(w)} \union Registered(w)
    BY <1>1, <1>2, <1>4 DEF InUse
  <1>7. InUse(w) = InUse(w)' \union {s} /\ s \notin InUse(w)'
    BY <1>4, <1>5, <1>6 DEF InUse
  <1>8. \A v \in Worker \ {w} : InUse(v)' = InUse(v)
    BY <1>1, <1>2, <1>4 DEF InUse
  <1>9. /\ Cardinality(InUse(w)) = Cardinality(InUse(w)') + 1
        /\ Cardinality(InUse(w)') \in Nat
    <2>1. IsFiniteSet(InUse(w)')
      BY <1>7, InUseFinite, FS_Subset
    <2> QED BY <1>7, <2>1, FS_AddElement, FS_CardinalityType
  <1>10. /\ freelist_count'[w] = freelist_count[w] + 1 /\ freelist_count[w] \in Int
         /\ \A v \in Worker \ {w} : freelist_count'[v] = freelist_count[v]
    BY <1>1 DEF TypeOK
  <1>11. freelist_count'[w] + Cardinality(InUse(w)') = freelist_count[w] + Cardinality(InUse(w))
    BY <1>9, <1>10
  <1> QED BY <1>8, <1>10, <1>11 DEF SlotsConserved

(* The other steps of an accept thread: it hands the slot over to a queue, *)
(* or the registration fails and nobody has it.                            *)
LEMMA ConservedAccepter ==
  ASSUME NEW a \in Accepters, IInv, SlotsConserved, Accepter(a)
  PROVE  SlotsConserved'
  <1>1. TypeOK /\ AccepterOK /\ SocketOwned /\ ReadyOK
    BY DEF IInv
  <1>2. UNCHANGED <<wpc, events>> /\ \A v \in Worker : Releasing(v)' = Releasing(v)
    BY DEF Accepter, Accept, Score, Lock, Take, TakeNone, TakeWild, Refuse, Add,
           wrkvars, Releasing, conn
  <1>3. ASSUME \A b \in Accepters \ {a} : /\ apc'[b] = apc[b] /\ new_conn'[b] = new_conn[b]
                                          /\ best_worker'[b] = best_worker[b],
               apc[a] # "add", apc'[a] # "add", epoll' = epoll,
               UNCHANGED freelist_count
        PROVE  SlotsConserved'
    <2>1. \A v \in Worker : HandingOver(v)' = HandingOver(v)
      BY <1>3 DEF HandingOver
    <2>2. \A v \in Worker : \A b \in HandingOver(v) : new_conn'[b] = new_conn[b]
      BY <1>3 DEF HandingOver
    <2>3. \A v \in Worker : {new_conn'[b] : b \in HandingOver(v)}
                              = {new_conn[b] : b \in HandingOver(v)}
      BY <2>2
    <2>4. \A v \in Worker : InUse(v)' = InUse(v)
      BY <1>2, <1>3, <2>1, <2>3 DEF InUse, Registered
    <2> QED BY <1>3, <2>4, ConservedKept
  <1>4. CASE Accept(a)
    BY <1>1, <1>3, <1>4 DEF Accept, TypeOK, poolvars
  <1>5. CASE Score(a)
    BY <1>1, <1>3, <1>5, ZenonT(60) DEF Score, TypeOK, poolvars, sysvars
  <1>6. CASE Lock(a)
    BY <1>1, <1>3, <1>6 DEF Lock, TypeOK, sysvars
  <1>7. CASE TakeNone(a)
    BY <1>1, <1>3, <1>7 DEF TakeNone, TypeOK, sysvars
  <1>8. CASE TakeWild(a)
    BY <1>1, <1>3, <1>8 DEF TakeWild, TypeOK, sysvars, poolvars
  <1>9. CASE Refuse(a)
    <2>1. asock[a] \in Fds /\ \A v \in Worker : epoll[v][asock[a]] = NULL
      BY <1>1, <1>9 DEF Refuse, TypeOK, AccepterOK, SocketOwned
    <2>2. epoll' = epoll
      BY <1>1, <1>9, <2>1, CloseUnregistered DEF Refuse
    <2> QED BY <1>1, <1>3, <1>9, <2>2 DEF Refuse, Restart, TypeOK, poolvars
  <1>10. CASE Add(a)
    <2>0. PICK w \in Worker, d \in Fds, s \in Slot :
            w = best_worker[a] /\ d = asock[a] /\ s = new_conn[a]
      BY <1>1, <1>10 DEF Add, TypeOK, AccepterOK
    <2>1. /\ apc[a] = "add" /\ apc' = [apc EXCEPT ![a] = "accept"]
          /\ new_conn' = [new_conn EXCEPT ![a] = NULL]
          /\ best_worker' = [best_worker EXCEPT ![a] = 1]
          /\ UNCHANGED freelist_count
          /\ w \in Worker /\ d \in Fds /\ epoll[w][d] = NULL /\ s \in Slot /\ s # NULL
      BY <1>1, <1>10, <2>0, PointerFacts, ZenonT(60)
         DEF Add, Restart, TypeOK, AccepterOK, SocketOwned, poolvars
    <2>2. \A v \in Worker : /\ HandingOver(v)' = HandingOver(v) \ {a}
                            /\ a \in HandingOver(v) <=> v = w
      BY <1>1, <2>0, <2>1 DEF HandingOver, TypeOK
    <2>3. \A b \in Accepters \ {a} : new_conn'[b] = new_conn[b]
      BY <1>1, <2>1 DEF TypeOK
    <2>4. \A v \in Worker : {new_conn'[b] : b \in HandingOver(v)'}
                              = {new_conn[b] : b \in HandingOver(v) \ {a}}
      <3>1. \A v \in Worker : \A b \in HandingOver(v) \ {a} : new_conn'[b] = new_conn[b]
        BY <2>3 DEF HandingOver
      <3> QED BY <2>2, <3>1
    <2>5. CASE epoll' = [epoll EXCEPT ![w][d] = s]
      <3>1. /\ epoll'[w][d] = s
            /\ \A e \in Fds \ {d} : epoll'[w][e] = epoll[w][e]
            /\ \A v \in Worker \ {w} : epoll'[v] = epoll[v]
        BY <1>1, <2>1, <2>5 DEF TypeOK
      <3>2. Registered(w)' = Registered(w) \union {s}
        BY <2>1, <3>1 DEF Registered
      <3>3. \A v \in Worker \ {w} : Registered(v)' = Registered(v)
        BY <3>1 DEF Registered
      <3>4. {new_conn[b] : b \in HandingOver(w)}
              = {new_conn[b] : b \in HandingOver(w) \ {a}} \union {s}
        BY <2>0, <2>1, <2>2
      <3>5. InUse(w)' = InUse(w)
        BY <1>2, <2>1, <2>4, <3>2, <3>4 DEF InUse
      <3>6. \A v \in Worker \ {w} : HandingOver(v) \ {a} = HandingOver(v)
        BY <2>2
      <3>7. \A v \in Worker \ {w} : InUse(v)' = InUse(v)
        BY <1>2, <2>4, <3>3, <3>6 DEF InUse
      <3> QED BY <2>1, <3>5, <3>7, ConservedKept
    <2>6. CASE AddMayFail /\ UNCHANGED epoll
      <3>1. \A v \in Worker : Registered(v)' = Registered(v)
        BY <2>6 DEF Registered
      <3>2. ASSUME NEW v \in Worker PROVE InUse(v)' \subseteq InUse(v)
        <4>1. {new_conn'[b] : b \in HandingOver(v)'} \subseteq {new_conn[b] : b \in HandingOver(v)}
          <5>1. {new_conn[b] : b \in HandingOver(v) \ {a}} \subseteq {new_conn[b] : b \in HandingOver(v)}
            OBVIOUS
          <5> QED BY <2>4, <5>1
        <4>2. Registered(v)' = Registered(v) /\ Releasing(v)' = Releasing(v)
          BY <1>2, <3>1
        <4> QED BY <4>1, <4>2 DEF InUse
      <3> QED BY <2>1, <2>6, <3>2, ConservedKept
    <2> QED BY <1>10, <2>0, <2>5, <2>6 DEF Add
  <1>11. CASE Take(a)
    BY <1>11, ConservedTake
  <1> QED BY <1>4, <1>5, <1>6, <1>7, <1>8, <1>9, <1>10, <1>11 DEF Accepter

(* The other steps of a worker: a slot it takes out of the queue is its    *)
(* own until the push.                                                     *)
LEMMA ConservedWorker ==
  ASSUME NEW w \in Worker, IInv, SlotsConserved, ClientWorker(w)
  PROVE  SlotsConserved'
  <1>1. TypeOK /\ WorkerOK /\ SocketOwned /\ ReadyOK /\ BatchLive
    BY DEF IInv
  <1>2. UNCHANGED <<apc, new_conn, best_worker>>
    BY DEF ClientWorker, Wait, Serve, Remove, Close, Reset, Link, Push, accvars
  <1>3. \A v \in Worker : HandingOver(v)' = HandingOver(v)
    BY <1>2 DEF HandingOver
  <1>4. ASSUME epoll' = epoll, UNCHANGED freelist_count, Releasing(w)' = Releasing(w),
               \A v \in Worker \ {w} : wpc'[v] = wpc[v] /\ events'[v] = events[v]
        PROVE  SlotsConserved'
    <2>1. \A v \in Worker : Registered(v)' = Registered(v) /\ Releasing(v)' = Releasing(v)
      BY <1>4 DEF Registered, Releasing, conn
    <2>2. \A v \in Worker : InUse(v)' = InUse(v)
      BY <1>2, <1>3, <2>1 DEF InUse
    <2> QED BY <1>4, <2>2, ConservedKept
  <1>5. CASE Wait(w)
    BY <1>1, <1>4, <1>5 DEF Wait, TypeOK, poolvars, Releasing
  <1>6. CASE Serve(w)
    <2>1. wpc[w] = "serve" /\ UNCHANGED <<epoll, freelist_count>>
      BY <1>6 DEF Serve, sysvars, poolvars
    <2>2. /\ wpc'[w] \in {"wait", "serve", "remove"}
          /\ \A v \in Worker \ {w} : wpc'[v] = wpc[v] /\ events'[v] = events[v]
      BY <1>1, <1>6, <2>1, NextEventFacts, ZenonT(60) DEF Serve, TypeOK
    <2> QED BY <1>4, <2>1, <2>2 DEF Releasing
  <1>7. CASE Remove(w)
    <2> DEFINE d == sockfd[w][conn(w)]
               s == conn(w)
    <2>1. /\ wpc[w] = "remove" /\ wpc' = [wpc EXCEPT ![w] = "close"] /\ UNCHANGED events
          /\ UNCHANGED freelist_count /\ epoll' = [epoll EXCEPT ![w][d] = NULL]
      BY <1>7 DEF Remove, poolvars
    <2>2. s \in Slot /\ s # NULL /\ s \in Registered(w)
      BY <1>1, <2>1, ConnFacts, PointerFacts DEF BatchLive
    <2>3. d \in Fds /\ epoll[w][d] = s
      BY <1>1, <2>2 DEF SocketOwned, Registered
    <2>4. /\ epoll'[w][d] = NULL
          /\ \A e \in Fds \ {d} : epoll'[w][e] = epoll[w][e]
          /\ \A v \in Worker \ {w} : epoll'[v] = epoll[v]
      BY <1>1, <2>1, <2>3 DEF TypeOK
    <2>5. Registered(w)' \union {s} = Registered(w)
      BY <2>2, <2>3, <2>4 DEF Registered
    <2>6. Releasing(w) = {} /\ Releasing(w)' = {s}
      BY <1>1, <2>1 DEF Releasing, conn, TypeOK
    <2>7. \A v \in Worker \ {w} : Registered(v)' = Registered(v) /\ Releasing(v)' = Releasing(v)
      BY <1>1, <2>1, <2>4 DEF Registered, Releasing, conn, TypeOK
    <2>8. \A v \in Worker : InUse(v)' = InUse(v)
      BY <1>2, <1>3, <2>5, <2>6, <2>7 DEF InUse
    <2> QED BY <2>1, <2>8, ConservedKept
  <1>8. CASE Close(w)
    <2>1. /\ wpc[w] = "close" /\ wpc' = [wpc EXCEPT ![w] = "reset"] /\ UNCHANGED events
          /\ UNCHANGED freelist_count
      BY <1>8 DEF Close, poolvars
    <2>2. sockfd[w][conn(w)] \in Fds /\ \A v \in Worker : epoll[v][sockfd[w][conn(w)]] = NULL
      BY <1>1, <2>1 DEF SocketOwned, TypeOK
    <2>3. epoll' = epoll
      BY <1>1, <1>8, <2>2, CloseUnregistered DEF Close
    <2> QED BY <1>1, <1>4, <2>1, <2>3 DEF Releasing, conn, TypeOK
  <1>9. CASE Reset(w)
    BY <1>1, <1>4, <1>9 DEF Reset, sysvars, poolvars, Releasing, conn, TypeOK
  <1>10. CASE Link(w)
    BY <1>1, <1>4, <1>10 DEF Link, sysvars, Releasing, conn, TypeOK
  <1>11. CASE Push(w)
    BY <1>11, ConservedPush
  <1> QED BY <1>5, <1>6, <1>7, <1>8, <1>9, <1>10, <1>11 DEF ClientWorker

(* connection_init: all slots are on the list.                             *)
LEMMA ConservedInit == Init => SlotsConserved
  <1> SUFFICES ASSUME Init, NEW w \in Worker
               PROVE  InUse(w) = {} /\ freelist_count[w] = slots
    BY SlotsPositive, FS_EmptySet DEF SlotsConserved
  <1> QED BY DEF Init, InUse, HandingOver, Registered, Releasing

(* Every step conserves the slots.                                         *)
LEMMA ConservedNext == IInv /\ SlotsConserved /\ [Next]_vars => SlotsConserved'
  <1> SUFFICES ASSUME IInv, SlotsConserved, [Next]_vars PROVE SlotsConserved'
    OBVIOUS
  <1>1. ASSUME UNCHANGED <<epoll, poolvars, accvars, wrkvars>> PROVE SlotsConserved'
    <2>1. \A w \in Worker : InUse(w)' = InUse(w)
      BY <1>1 DEF accvars, wrkvars, InUse, HandingOver, Registered, Releasing, conn
    <2> QED BY <1>1, <2>1, ConservedKept DEF poolvars
  <1>2. ASSUME NEW w \in Worker, NEW d \in Fds, Activity(w, d) PROVE SlotsConserved'
    BY <1>1, <1>2 DEF Activity
  <1>3. CASE UNCHANGED vars
    BY <1>1, <1>3 DEF vars, sysvars
  <1> QED BY <1>2, <1>3, ConservedAccepter, ConservedWorker DEF Next

-----------------------------------------------------------------------------
(* connection_accept asserts nothing in vain: whatever the interleaving,   *)
(* the slot it pops was reset by connection_close before it was linked,    *)
(* and the list it pops from counts it.                                    *)
THEOREM ResetBeforeReuse == Spec => []FreshOnAccept
  <1>1. IInv /\ FreshOK => FreshOnAccept
    <2> SUFFICES ASSUME IInv, FreshOK, NEW a \in Accepters,
                        apc[a] = "take", new_conn[a] \in Slot
                 PROVE  /\ fresh[best_worker[a]][new_conn[a]]
                        /\ freelist_count[best_worker[a]] > 0
      BY DEF FreshOnAccept
    <2> DEFINE w == best_worker[a]
               s == new_conn[a]
    <2>1. w \in Worker /\ s = first_free_conn[w]
      BY DEF IInv, TypeOK, AccepterOK
    <2>2. freelist_count[w] > 0 /\ s \notin InUse(w)
      BY <2>1, HeadFacts DEF IInv
    <2>3. s \notin Registered(w) /\ s \notin Releasing(w)
      BY <2>2 DEF InUse
    <2>4. fresh[w][s]
      BY <2>1, <2>3 DEF FreshOK, Releasing
    <2> QED BY <2>2, <2>4
  <1>2. Spec => []FreshOK
    BY FreshInit, FreshNext, InductiveInvariant, PTL DEF Spec
  <1> QED BY <1>1, <1>2, InductiveInvariant, PTL

(* select_client_worker releases the mutex of a worker before its choice   *)
(* is used: with one accept thread the score is a floor all the same, and  *)
(* a client is refused only after every worker reported no free slot.      *)
THEOREM RefusalsJustified == Spec => []RefusedOnlyWhenFull
  <1>1. ScoreOK => RefusedOnlyWhenFull
    <2> SUFFICES ASSUME ScoreOK, Cardinality(Accepters) = 1
                 PROVE  \A a \in Accepters :
                          /\ apc[a] \in {"lock", "take"} =>
                               freelist_count[best_worker[a]] >= best_score[a]
                          /\ apc[a] = "refuse" => best_score[a] = 0
      BY DEF RefusedOnlyWhenFull
    <2>1. \E x : Accepters = {x}
      BY FS_Singleton, ThreadAssumption
    <2> QED BY <2>1 DEF ScoreOK
  <1>2. Spec => []ScoreOK
    BY ScoreInit, ScoreNext, InductiveInvariant, PTL DEF Spec
  <1> QED BY <1>1, <1>2, PTL

(* connection_accept and connection_close lose no slot: those that are     *)
(* counted free and those in use add up to the container, unless a         *)
(* registration failed and nobody noticed (kitserv.c:245).                 *)
THEOREM NoSlotLost == Spec => []SlotsConserved
  BY ConservedInit, ConservedNext, InductiveInvariant, PTL DEF Spec

-----------------------------------------------------------------------------
(* The slots the list reaches.                                             *)

(* A set of naturals has a least element.                                  *)
LEMMA LeastNatural ==
  ASSUME NEW T, T \subseteq Nat, T # {}
  PROVE  \E x \in T : \A y \in T : x <= y
  <1> DEFINE Upto(n) == 0 .. n
             C == {Upto(n) : n \in T}
             R == StrictSubsetOrdering(Nat)
  <1>1. C \subseteq FiniteSubsetsOf(Nat) /\ C # {}
    <2>1. \A n \in T : IsFiniteSet(0 .. n) /\ 0 .. n \subseteq Nat
      BY FS_Interval
    <2> QED BY <2>1 DEF FiniteSubsetsOf
  <1>2. PICK s \in C : \A t \in C : ~ (<<t, s>> \in R)
    <2>1. IsWellFoundedOn(R, FiniteSubsetsOf(Nat))
      BY FS_StrictSubsetOrderingWellFounded
    <2> HIDE DEF R, C
    <2> QED BY <1>1, <2>1, WFMin
  <1>3. PICK x \in T : s = Upto(x)
    OBVIOUS
  <1>4. ASSUME NEW y \in T, y < x PROVE FALSE
    <2>1. /\ Upto(y) \in SUBSET Nat /\ Upto(x) \in SUBSET Nat
          /\ Upto(y) \subseteq Upto(x) /\ x \in Upto(x) /\ x \notin Upto(y)
      BY <1>4
    <2>2. <<Upto(y), Upto(x)>> \in R
      BY <2>1 DEF StrictSubsetOrdering
    <2> QED BY <1>2, <1>3, <2>2
  <1> QED BY <1>4

(* The nodes f of a list, as its head and its links give them.             *)
Chain(w, f) ==
  /\ freelist_count[w] > 0 => f[1] = first_free_conn[w]
  /\ \A i \in 2 .. freelist_count[w] : f[i] = next_conn[w][f[i - 1]]

Nodes(w) == [1 .. freelist_count[w] -> Slot]

(* Following the links from the head meets the nodes and nothing else.     *)
LEMMA FreeSlotsAre ==
  \A w \in Worker : freelist_count[w] \in Nat =>
    \A f \in Nodes(w) : Chain(w, f) =>
      FreeSlots(w) = {f[k] : k \in 1 .. freelist_count[w]}
  <1> SUFFICES ASSUME NEW w \in Worker, freelist_count[w] \in Nat,
                      NEW f \in Nodes(w), Chain(w, f)
               PROVE  FreeSlots(w) = {f[k] : k \in 1 .. freelist_count[w]}
    OBVIOUS
  <1> DEFINE D == 1 .. freelist_count[w]
             Body(g) == [k \in D |-> IF k = 1 THEN first_free_conn[w]
                                              ELSE next_conn[w][g[k - 1]]]
             node == CHOOSE g : g = Body(g)
  <1>1. f = Body(f)
    <2>1. f = [k \in D |-> f[k]]
      BY DEF Nodes
    <2>2. ASSUME NEW k \in D PROVE f[k] = Body(f)[k]
      <3>1. k = 1 \/ k \in 2 .. freelist_count[w]
        OBVIOUS
      <3>2. k = 1 => freelist_count[w] > 0
        OBVIOUS
      <3> QED BY <3>1, <3>2 DEF Chain
    <2> QED BY <2>1, <2>2
  <1>2. node = Body(node)
    BY <1>1, Zenon
  <1>3. FreeSlots(w) = {node[k] : k \in D}
    BY DEF FreeSlots
  <1> HIDE DEF node
  <1>4. ASSUME NEW m \in D, node[m] # f[m] PROVE FALSE
    <2> DEFINE T == {k \in D : node[k] # f[k]}
    <2>1. PICK k \in T : \A j \in T : k <= j
      <3>1. T \subseteq Nat /\ T # {}
        BY <1>4
      <3> HIDE DEF T
      <3> QED BY <3>1, LeastNatural
    <2>2. /\ node[k] = IF k = 1 THEN first_free_conn[w] ELSE next_conn[w][node[k - 1]]
          /\ f[k] = IF k = 1 THEN first_free_conn[w] ELSE next_conn[w][f[k - 1]]
      BY <1>1, <1>2
    <2>3. k # 1
      BY <2>2
    <2>4. k - 1 \in D /\ k - 1 \notin T
      BY <2>1, <2>3
    <2>5. node[k - 1] = f[k - 1]
      BY <2>4
    <2> QED BY <2>2, <2>3, <2>5
  <1>5. \A k \in D : node[k] = f[k]
    BY <1>4
  <1> QED BY <1>3, <1>5

LEMMA NextSlotsAre ==
  (\A w \in Worker : freelist_count[w] \in Nat =>
     \A f \in Nodes(w) : Chain(w, f) =>
       FreeSlots(w) = {f[k] : k \in 1 .. freelist_count[w]})'
  BY FreeSlotsAre, PTL

(* The nodes of a list that is intact.                                     *)
LEMMA NodesOf ==
  ASSUME NEW w \in Worker, TypeOK, FreeListOK
  PROVE  /\ freelist_count[w] \in Nat
         /\ \E f \in Nodes(w) :
              /\ FreeList(w, f) /\ Chain(w, f)
              /\ FreeSlots(w) = {f[k] : k \in 1 .. freelist_count[w]}
  <1>1. freelist_count[w] \in Nat
    BY HeadFacts
  <1>2. PICK f \in Nodes(w) : FreeList(w, f)
    BY DEF FreeListOK, Nodes
  <1>3. Chain(w, f)
    <2>1. ASSUME NEW i \in 2 .. freelist_count[w]
          PROVE  f[i] = next_conn[w][f[i - 1]]
      <3>1. i - 1 \in 1 .. freelist_count[w] /\ i - 1 # freelist_count[w]
            /\ (i - 1) + 1 = i
        BY <1>1
      <3> QED BY <1>2, <3>1 DEF FreeList
    <2> QED BY <1>1, <1>2, <2>1 DEF Chain, FreeList
  <1> QED BY <1>1, <1>2, <1>3, FreeSlotsAre

(* A slot on the list has no user.                                         *)
LEMMA FreeFacts ==
  ASSUME NEW w \in Worker, IInv
  PROVE  /\ FreeSlots(w) \subseteq Slot
         /\ \A s \in FreeSlots(w) : s \notin InUse(w)
         /\ first_free_conn[w] \in Slot => first_free_conn[w] \in FreeSlots(w)
         /\ first_free_conn[w] \notin Slot => FreeSlots(w) = {}
         /\ Closed(w) \subseteq Releasing(w)
         /\ \A s \in FreeSlots(w) : s \notin Closed(w)
  <1>1. TypeOK /\ FreeListOK
    BY DEF IInv
  <1>2. PICK f \in Nodes(w) :
          /\ FreeList(w, f)
          /\ FreeSlots(w) = {f[k] : k \in 1 .. freelist_count[w]}
    BY <1>1, NodesOf
  <1>3. freelist_count[w] \in Nat
    BY <1>1, NodesOf
  <1>4. \A k \in 1 .. freelist_count[w] : f[k] \in Slot /\ f[k] \notin InUse(w)
    BY <1>2 DEF FreeList, Nodes
  <1>5. ASSUME first_free_conn[w] \in Slot
        PROVE  first_free_conn[w] \in FreeSlots(w)
    <2>1. freelist_count[w] > 0
      BY <1>1, <1>5, HeadFacts
    <2>2. 1 \in 1 .. freelist_count[w] /\ first_free_conn[w] = f[1]
      BY <1>2, <1>3, <2>1 DEF FreeList
    <2> QED BY <1>2, <2>2
  <1>6. first_free_conn[w] \notin Slot => FreeSlots(w) = {}
    BY <1>1, <1>2, HeadFacts
  <1>7. Closed(w) \subseteq Releasing(w) /\ Releasing(w) \subseteq InUse(w)
    BY DEF Closed, Releasing, InUse
  <1> QED BY <1>2, <1>4, <1>5, <1>6, <1>7

(* A step that leaves the head, the count and the links of free slots.     *)
LEMMA FreeKept ==
  ASSUME NEW w \in Worker, IInv,
         freelist_count'[w] = freelist_count[w],
         first_free_conn'[w] = first_free_conn[w],
         \A t \in FreeSlots(w) : next_conn'[w][t] = next_conn[w][t]
  PROVE  FreeSlots(w)' = FreeSlots(w)
  <1>1. PICK f \in Nodes(w) :
          /\ Chain(w, f)
          /\ FreeSlots(w) = {f[k] : k \in 1 .. freelist_count[w]}
    BY NodesOf DEF IInv
  <1>2. freelist_count[w] \in Nat
    BY NodesOf DEF IInv
  <1>3. \A i \in 2 .. freelist_count[w] : i - 1 \in 1 .. freelist_count[w]
    BY <1>2
  <1>4. \A i \in 2 .. freelist_count[w] : f[i - 1] \in FreeSlots(w)
    BY <1>1, <1>3
  <1>5. Chain(w, f)'
    BY <1>1, <1>4 DEF Chain
  <1>6. f \in Nodes(w)'
    BY DEF Nodes
  <1> QED BY <1>1, <1>2, <1>5, <1>6, NextSlotsAre

(* The list without its head.                                              *)
LEMMA FreePopped ==
  ASSUME NEW w \in Worker, IInv, first_free_conn[w] \in Slot,
         freelist_count'[w] = freelist_count[w] - 1,
         first_free_conn'[w] = next_conn[w][first_free_conn[w]],
         next_conn' = next_conn
  PROVE  FreeSlots(w)' = FreeSlots(w) \ {first_free_conn[w]}
  <1>1. PICK f \in Nodes(w) :
          /\ FreeList(w, f) /\ Chain(w, f)
          /\ FreeSlots(w) = {f[k] : k \in 1 .. freelist_count[w]}
    BY NodesOf DEF IInv
  <1>2. PICK n \in Nat : freelist_count[w] = n + 1
    <2>1. freelist_count[w] \in Nat /\ freelist_count[w] > 0
      BY HeadFacts DEF IInv
    <2> QED BY <2>1
  <1> DEFINE g == [k \in 1 .. n |-> f[k + 1]]
  <1>3. /\ \A k \in 1 .. n + 1 : f[k] \in Slot
        /\ \A i, j \in 1 .. n + 1 : f[i] = f[j] => i = j
        /\ f[1] = first_free_conn[w]
        /\ \A i \in 2 .. n + 1 : f[i] = next_conn[w][f[i - 1]]
    BY <1>1, <1>2 DEF FreeList, Chain, Nodes
  <1>4. g \in Nodes(w)' /\ freelist_count'[w] = n
    BY <1>2, <1>3 DEF Nodes
  <1>5. Chain(w, g)'
    <2>1. n > 0 => g[1] = next_conn[w][f[1]]
      <3>1. n > 0 => 2 \in 2 .. n + 1 /\ 1 \in 1 .. n /\ 2 - 1 = 1 /\ 1 + 1 = 2
        OBVIOUS
      <3> QED BY <1>3, <3>1
    <2>2. ASSUME NEW i \in 2 .. n PROVE g[i] = next_conn[w][g[i - 1]]
      <3>1. i \in 1 .. n /\ i - 1 \in 1 .. n /\ i + 1 \in 2 .. n + 1
            /\ (i + 1) - 1 = i /\ (i - 1) + 1 = i
        OBVIOUS
      <3> QED BY <1>3, <3>1
    <2> HIDE DEF g
    <2> QED BY <1>3, <1>4, <2>1, <2>2 DEF Chain
  <1>7. FreeSlots(w)' = {g[k] : k \in 1 .. n}
    <2> HIDE DEF g
    <2> QED BY <1>4, <1>5, NextSlotsAre
  <1>8. FreeSlots(w) = {f[k] : k \in 1 .. n + 1}
    BY <1>1, <1>2
  <1>9. ASSUME NEW s PROVE s \in FreeSlots(w)' <=> s \in FreeSlots(w) /\ s # f[1]
    <2>1. ASSUME s \in FreeSlots(w)' PROVE s \in FreeSlots(w) /\ s # f[1]
      <3>1. PICK k \in 1 .. n : s = g[k]
        BY <1>7, <2>1
      <3>2. k + 1 \in 1 .. n + 1 /\ k + 1 # 1 /\ 1 \in 1 .. n + 1 /\ s = f[k + 1]
        BY <3>1
      <3> QED BY <1>3, <1>8, <3>2
    <2>2. ASSUME s \in FreeSlots(w), s # f[1] PROVE s \in FreeSlots(w)'
      <3>1. PICK k \in 1 .. n + 1 : s = f[k]
        BY <1>8, <2>2
      <3>2. k - 1 \in 1 .. n /\ (k - 1) + 1 = k
        BY <2>2, <3>1
      <3>3. s = g[k - 1]
        BY <3>1, <3>2
      <3> QED BY <1>7, <3>2, <3>3
    <2> QED BY <2>1, <2>2
  <1> QED BY <1>3, <1>9

(* The list with a slot before its head.                                   *)
LEMMA FreePushed ==
  ASSUME NEW w \in Worker, NEW s \in Slot, IInv,
         freelist_count'[w] = freelist_count[w] + 1,
         first_free_conn'[w] = s,
         next_conn[w][s] = first_free_conn[w],
         next_conn' = next_conn
  PROVE  FreeSlots(w)' = FreeSlots(w) \union {s}
  <1>1. PICK f \in Nodes(w) :
          /\ Chain(w, f)
          /\ FreeSlots(w) = {f[k] : k \in 1 .. freelist_count[w]}
    BY NodesOf DEF IInv
  <1>2. PICK n \in Nat : freelist_count[w] = n
    BY NodesOf DEF IInv
  <1> DEFINE g == [k \in 1 .. n + 1 |-> IF k = 1 THEN s ELSE f[k - 1]]
  <1>3. /\ \A k \in 1 .. n : f[k] \in Slot
        /\ n > 0 => f[1] = first_free_conn[w]
        /\ \A i \in 2 .. n : f[i] = next_conn[w][f[i - 1]]
    BY <1>1, <1>2 DEF Chain, Nodes
  <1>4. /\ g[1] = s
        /\ \A k \in 1 .. n : k + 1 \in 1 .. n + 1 /\ g[k + 1] = f[k]
        /\ \A k \in 2 .. n + 1 : k - 1 \in 1 .. n /\ (k - 1) + 1 = k
    OBVIOUS
  <1>5. g \in Nodes(w)' /\ freelist_count'[w] = n + 1
    BY <1>2, <1>3 DEF Nodes
  <1> HIDE DEF g
  <1>6. Chain(w, g)'
    <2>1. ASSUME NEW i \in 2 .. n + 1 PROVE g[i] = next_conn[w][g[i - 1]]
      <3>1. i - 1 \in 1 .. n /\ g[i] = f[i - 1]
        BY <1>4
      <3>2. CASE i = 2
        BY <1>3, <1>4, <3>1, <3>2
      <3>3. CASE i # 2
        <4>1. i - 2 \in 1 .. n /\ (i - 2) + 1 = i - 1 /\ i - 1 \in 2 .. n
              /\ (i - 1) - 1 = i - 2
          BY <3>3
        <4>2. g[i - 1] = f[i - 2] /\ f[i - 1] = next_conn[w][f[i - 2]]
          BY <1>3, <1>4, <4>1
        <4> QED BY <3>1, <4>2
      <3> QED BY <3>2, <3>3
    <2> QED BY <1>4, <1>5, <2>1 DEF Chain
  <1>8. FreeSlots(w)' = {g[k] : k \in 1 .. n + 1}
    BY <1>5, <1>6, NextSlotsAre
  <1>9. ASSUME NEW t PROVE t \in FreeSlots(w)' <=> t \in FreeSlots(w) \/ t = s
    <2>1. ASSUME t \in FreeSlots(w)' PROVE t \in FreeSlots(w) \/ t = s
      <3>1. PICK k \in 1 .. n + 1 : t = g[k]
        BY <1>8, <2>1
      <3>2. k = 1 \/ k \in 2 .. n + 1
        OBVIOUS
      <3> QED BY <1>1, <1>2, <1>4, <3>1, <3>2
    <2>2. ASSUME t \in FreeSlots(w) PROVE t \in FreeSlots(w)'
      <3>1. PICK k \in 1 .. n : t = f[k]
        BY <1>1, <1>2, <2>2
      <3> QED BY <1>4, <1>8, <3>1
    <2>3. s \in FreeSlots(w)'
      <3>1. 1 \in 1 .. n + 1
        OBVIOUS
      <3> QED BY <1>4, <1>8, <3>1
    <2> QED BY <2>1, <2>2, <2>3
  <1> QED BY <1>9

-----------------------------------------------------------------------------
(* The abstract pool: the sockets of accept threads and of slots.          *)

Waiting == {"score", "lock", "take", "undefined"}

(* The sockets of the accept threads other than a that are in pcs.         *)
Others(a, pcs) == {asock[b] : b \in {c \in Accepters \ {a} : apc[c] \in pcs}}

(* A step of an accept thread moves its own socket only.                   *)
LEMMA WithOthers ==
  ASSUME NEW a \in Accepters, NEW pcs,
         \A b \in Accepters \ {a} : apc'[b] = apc[b] /\ asock'[b] = asock[b]
  PROVE  /\ With(pcs) = Others(a, pcs) \union (IF apc[a] \in pcs THEN {asock[a]} ELSE {})
         /\ With(pcs)' = Others(a, pcs) \union (IF apc'[a] \in pcs THEN {asock'[a]} ELSE {})
  <1>1. ASSUME NEW x
        PROVE  x \in With(pcs) <=> x \in Others(a, pcs) \/ (apc[a] \in pcs /\ x = asock[a])
    BY DEF With, Others
  <1>2. ASSUME NEW x
        PROVE  x \in With(pcs)' <=> x \in Others(a, pcs) \/ (apc'[a] \in pcs /\ x = asock'[a])
    BY DEF With, Others
  <1> QED BY <1>1, <1>2

(* A thread that is in none of pcs before and after takes nothing along.   *)
LEMMA WithSame ==
  ASSUME NEW a \in Accepters, NEW pcs, apc[a] \notin pcs, apc'[a] \notin pcs,
         \A b \in Accepters \ {a} : apc'[b] = apc[b] /\ asock'[b] = asock[b]
  PROVE  With(pcs)' = With(pcs)
  BY WithOthers

(* No two accept threads have the same socket, and each one's is open.     *)
LEMMA SocketApart ==
  ASSUME NEW a \in Accepters, NEW pcs, IInv, apc[a] # "accept"
  PROVE  /\ asock[a] \in Fds /\ asock[a] \in open /\ asock[a] # NoFd
         /\ asock[a] \notin Others(a, pcs)
  <1>1. asock[a] # NoFd /\ asock[a] \in open /\ open \subseteq Fds
        /\ \A b \in Accepters \ {a} : asock[b] # asock[a]
    BY DEF IInv, TypeOK, AccepterOK, SocketOwned
  <1> QED BY <1>1 DEF Others

(* What the abstract pool holds is open.                                   *)
LEMMA HeldOpen ==
  ASSUME IInv, HoldOK
  PROVE  Pool!InUseFds \subseteq open \union {NoFd}
  <1>1. \A a \in Accepters : apc[a] \in Waiting \union {"refuse"} => asock[a] \in open
    BY DEF IInv, AccepterOK, SocketOwned, Waiting
  <1>2. accepted \subseteq open /\ rejected \subseteq open
    BY <1>1 DEF accepted, rejected, With, Waiting
  <1>3. \A w \in Worker, s \in Slot : client[w][s] \in open \union {NoFd}
    BY DEF client, HoldOK
  <1> QED BY <1>2, <1>3 DEF Pool!InUseFds

(* A step that moves no socket and no slot is none of the abstract pool.   *)
LEMMA PoolUnseen ==
  ASSUME HoldOK, UNCHANGED <<sockfd, open, accepted, rejected>>,
         \A w \in Worker : FreeSlots(w)' = FreeSlots(w) /\ Closed(w)' = Closed(w)
  PROVE  UNCHANGED Pool!vars /\ HoldOK'
  <1>1. \A w \in Worker : Serving(w)' = Serving(w)
    BY DEF Serving
  <1>2. UNCHANGED <<client, free>>
    BY <1>1 DEF client, free
  <1>3. HoldOK'
    BY <1>1 DEF HoldOK
  <1> QED BY <1>2, <1>3 DEF Pool!vars

(* A step outside the lists keeps what they reach.                         *)
LEMMA ListsKept ==
  ASSUME IInv, UNCHANGED <<freelist_count, first_free_conn, next_conn>>
  PROVE  \A w \in Worker : FreeSlots(w)' = FreeSlots(w)
  BY FreeKept

(* kitserv_socket_accept takes a number no slot and no thread has.         *)
LEMMA PoolAccept ==
  ASSUME NEW a \in Accepters, IInv, HoldOK, Accept(a)
  PROVE  [Pool!Next]_Pool!vars /\ HoldOK'
  <1>1. PICK d \in Fds \ open :
          open' = open \union {d} /\ asock' = [asock EXCEPT ![a] = d]
    BY DEF Accept
  <1>2. /\ apc[a] = "accept" /\ apc' = [apc EXCEPT ![a] = "score"]
        /\ UNCHANGED <<freelist_count, first_free_conn, next_conn, sockfd, wpc, events>>
    BY DEF Accept, poolvars, wrkvars
  <1>3. /\ apc'[a] = "score" /\ asock'[a] = d
        /\ \A b \in Accepters \ {a} : apc'[b] = apc[b] /\ asock'[b] = asock[b]
    BY <1>1, <1>2 DEF IInv, TypeOK
  <1>4. accepted' = accepted \union {d} /\ rejected' = rejected
    <2>1. With(Waiting)' = With(Waiting) \union {d}
      BY <1>2, <1>3, WithOthers DEF Waiting
    <2>2. With({"refuse"})' = With({"refuse"})
      BY <1>2, <1>3, WithSame
    <2> QED BY <2>1, <2>2 DEF accepted, rejected, Waiting
  <1>5. \A w \in Worker : FreeSlots(w)' = FreeSlots(w) /\ Closed(w)' = Closed(w)
    BY <1>2, ListsKept DEF Closed, conn
  <1>6. \A w \in Worker : Serving(w)' = Serving(w)
    BY <1>5 DEF Serving
  <1>7. UNCHANGED <<client, free>>
    BY <1>2, <1>5, <1>6 DEF client, free
  <1>8. d \notin Pool!InUseFds
    BY <1>1, HeldOpen, FdAssumption
  <1>9. Pool!Accept(d)
    BY <1>4, <1>7, <1>8 DEF Pool!Accept
  <1>10. HoldOK'
    BY <1>1, <1>2, <1>4, <1>6 DEF HoldOK
  <1> QED BY <1>1, <1>9, <1>10 DEF Pool!Next

(* select_client_worker, the head read inside the mutex, a wild pointer    *)
(* and a registration are not seen.                                        *)
LEMMA PoolUnseenAccepter ==
  ASSUME NEW a \in Accepters, IInv, HoldOK,
         Score(a) \/ Lock(a) \/ TakeWild(a) \/ Add(a)
  PROVE  UNCHANGED Pool!vars /\ HoldOK'
  <1>1. UNCHANGED <<open, freelist_count, first_free_conn, next_conn, sockfd, wpc, events>>
    BY DEF Score, Lock, TakeWild, Add, sysvars, poolvars, wrkvars
  <1>2. \A w \in Worker : FreeSlots(w)' = FreeSlots(w) /\ Closed(w)' = Closed(w)
    BY <1>1, ListsKept DEF Closed, conn
  <1>3. accepted' = accepted /\ rejected' = rejected
    <2>1. CASE Add(a)
      <3>1. /\ apc[a] = "add" /\ apc'[a] = "accept"
            /\ \A b \in Accepters \ {a} : apc'[b] = apc[b] /\ asock'[b] = asock[b]
        BY <2>1 DEF Add, Restart, IInv, TypeOK
      <3>2. With(Waiting)' = With(Waiting)
        BY <3>1, WithSame DEF Waiting
      <3>3. With({"refuse"})' = With({"refuse"})
        BY <3>1, WithSame
      <3> QED BY <3>2, <3>3 DEF accepted, rejected, Waiting
    <2>2. CASE Score(a) \/ Lock(a) \/ TakeWild(a)
      <3>1. asock' = asock /\ apc[a] \in Waiting
        BY <2>2 DEF Score, Lock, TakeWild, Waiting
      <3>2. \/ apc' = apc
            \/ \E to \in Waiting : apc' = [apc EXCEPT ![a] = to]
        BY <2>2 DEF Score, Lock, TakeWild, Waiting
      <3>3. /\ apc'[a] \in Waiting
            /\ \A b \in Accepters \ {a} : apc'[b] = apc[b] /\ asock'[b] = asock[b]
        BY <3>1, <3>2 DEF IInv, TypeOK
      <3> QED BY <3>1, <3>3, WithOthers DEF accepted, rejected, Waiting
    <2> QED BY <2>1, <2>2
  <1> QED BY <1>1, <1>2, <1>3, PoolUnseen

(* connection_accept gives the socket to a free slot.                      *)
LEMMA PoolTake ==
  ASSUME NEW a \in Accepters, IInv, HoldOK, Take(a)
  PROVE  [Pool!Next]_Pool!vars /\ HoldOK'
  <1>0. PICK w \in Worker, s \in Slot, d \in Fds :
          /\ w = best_worker[a] /\ s = new_conn[a] /\ d = asock[a]
          /\ s = first_free_conn[w]
    <2>1. apc[a] = "take" /\ new_conn[a] \in Slot
      BY DEF Take
    <2>2. /\ best_worker[a] \in Worker
          /\ new_conn[a] = first_free_conn[best_worker[a]]
      BY <2>1 DEF IInv, TypeOK, AccepterOK
    <2>3. asock[a] \in Fds
      BY <2>1, SocketApart
    <2> QED BY <2>1, <2>2, <2>3
  <1>1. /\ apc[a] = "take"
        /\ first_free_conn' = [first_free_conn EXCEPT ![w] = next_conn[w][s]]
        /\ freelist_count' = [freelist_count EXCEPT ![w] = @ - 1]
        /\ sockfd' = [sockfd EXCEPT ![w][s] = d]
        /\ apc' = [apc EXCEPT ![a] = "add"]
        /\ UNCHANGED <<open, next_conn, asock, wpc, events>>
    BY <1>0 DEF Take, sysvars, wrkvars
  <1>2. s = first_free_conn[w]
    BY <1>0
  <1>3. d \in open /\ d # NoFd /\ d \notin Others(a, Waiting)
    BY <1>0, <1>1, SocketApart
  <1>4. d \notin Others(a, {"refuse"})
    BY <1>0, <1>1, SocketApart
  <1>5. /\ apc'[a] = "add" /\ apc[a] = "take"
        /\ \A b \in Accepters \ {a} : apc'[b] = apc[b] /\ asock'[b] = asock[b]
    BY <1>1 DEF IInv, TypeOK
  <1>6. accepted' = accepted \ {d} /\ d \in accepted
    BY <1>0, <1>3, <1>5, WithOthers DEF accepted, Waiting
  <1>7. rejected' = rejected /\ d \notin rejected
    BY <1>0, <1>4, <1>5, WithOthers DEF rejected
  <1>8. FreeSlots(w)' = FreeSlots(w) \ {s} /\ s \in FreeSlots(w)
    <2>1. /\ freelist_count'[w] = freelist_count[w] - 1
          /\ first_free_conn'[w] = next_conn[w][s]
      BY <1>1, <1>2 DEF IInv, TypeOK
    <2> QED BY <1>1, <1>2, <2>1, FreePopped, FreeFacts
  <1>9. \A v \in Worker \ {w} : FreeSlots(v)' = FreeSlots(v)
    <2>1. \A v \in Worker \ {w} : /\ freelist_count'[v] = freelist_count[v]
                                  /\ first_free_conn'[v] = first_free_conn[v]
      BY <1>1, <1>2 DEF IInv, TypeOK
    <2> QED BY <1>1, <2>1, FreeKept
  <1>10. \A v \in Worker : Closed(v)' = Closed(v)
    BY <1>1 DEF Closed, conn
  <1>11. s \notin Closed(w) /\ s \notin Serving(w)
    BY <1>2, <1>8, FreeFacts DEF Serving
  <1>12. /\ Serving(w)' = Serving(w) \union {s}
         /\ \A v \in Worker \ {w} : Serving(v)' = Serving(v)
    BY <1>1, <1>2, <1>8, <1>9, <1>10, <1>11 DEF Serving
  <1>13. /\ sockfd'[w][s] = d
         /\ \A v \in Worker, t \in Slot : v # w \/ t # s => sockfd'[v][t] = sockfd[v][t]
    BY <1>1, <1>2 DEF IInv, TypeOK
  <1>14. \A v \in Worker : Serving(v) \subseteq Slot
    BY DEF Serving
  <1>15. free' = [free EXCEPT ![w] = @ \ {s}] /\ s \in free[w]
    BY <1>2, <1>8, <1>9 DEF free
  <1>16. client' = [client EXCEPT ![w][s] = d]
    <2>1. \A v \in Worker, t \in Slot :
            (IF t \in Serving(v)' THEN sockfd'[v][t] ELSE NoFd)
              = (IF v = w /\ t = s THEN d ELSE IF t \in Serving(v) THEN sockfd[v][t] ELSE NoFd)
      BY <1>12, <1>13
    <2> QED BY <1>1, <1>2, <2>1, ZenonT(60) DEF client
  <1>17. Pool!Assign(d, w, s)
    BY <1>6, <1>7, <1>15, <1>16 DEF Pool!Assign
  <1>18. HoldOK'
    <2> SUFFICES ASSUME NEW v \in Worker, NEW t \in Serving(v)'
                 PROVE  /\ sockfd'[v][t] \in open'
                        /\ sockfd'[v][t] \notin accepted' \union rejected'
                        /\ \A u \in Worker : \A r \in Serving(u)' :
                             sockfd'[u][r] = sockfd'[v][t] => u = v /\ r = t
      BY DEF HoldOK
    <2>1. \A u \in Worker : \A r \in Serving(u)' : (u = w /\ r = s) \/
             (r \in Serving(u) /\ sockfd'[u][r] = sockfd[u][r] /\ sockfd[u][r] # d)
      BY <1>6, <1>11, <1>12, <1>13, <1>14 DEF HoldOK
    <2>2. CASE v = w /\ t = s
      BY <1>1, <1>3, <1>6, <1>7, <1>13, <2>1, <2>2
    <2>3. CASE v # w \/ t # s
      <3>1. t \in Serving(v) /\ sockfd'[v][t] = sockfd[v][t] /\ sockfd[v][t] # d
        BY <2>1, <2>3
      <3>2. \A u \in Worker : \A r \in Serving(u) :
              sockfd[u][r] = sockfd[v][t] => u = v /\ r = t
        BY <3>1 DEF HoldOK
      <3>3. sockfd[v][t] \in open /\ sockfd[v][t] \notin accepted \union rejected
        BY <3>1 DEF HoldOK
      <3> QED BY <1>1, <1>6, <1>7, <1>13, <2>1, <3>1, <3>2, <3>3
    <2> QED BY <2>2, <2>3
  <1> QED BY <1>1, <1>2, <1>3, <1>17, <1>18 DEF Pool!Next

(* connection_accept finds no free slot.                                   *)
LEMMA PoolTakeNone ==
  ASSUME NEW a \in Accepters, IInv, HoldOK, TakeNone(a)
  PROVE  [Pool!Next]_Pool!vars /\ HoldOK'
  <1> DEFINE w == best_worker[a]
             d == asock[a]
  <1>1. /\ apc[a] = "take" /\ new_conn[a] = NULL
        /\ apc' = [apc EXCEPT ![a] = "refuse"]
        /\ UNCHANGED <<open, freelist_count, first_free_conn, next_conn, sockfd,
                       asock, wpc, events>>
    BY DEF TakeNone, sysvars, wrkvars
  <1>2. w \in Worker /\ first_free_conn[w] = NULL
    BY <1>1 DEF IInv, TypeOK, AccepterOK
  <1>3. d \in Fds /\ d \notin Others(a, Waiting)
    BY <1>1, SocketApart
  <1>4. /\ apc'[a] = "refuse" /\ asock'[a] = d
        /\ \A b \in Accepters \ {a} : apc'[b] = apc[b] /\ asock'[b] = asock[b]
    BY <1>1 DEF IInv, TypeOK
  <1>5. accepted' = accepted \ {d} /\ d \in accepted
    BY <1>1, <1>3, <1>4, WithOthers DEF accepted, Waiting
  <1>6. rejected' = rejected \union {d}
    BY <1>1, <1>4, WithOthers DEF rejected
  <1>7. FreeSlots(w) = {}
    BY <1>2, FreeFacts, PointerFacts
  <1>8. \A v \in Worker : FreeSlots(v)' = FreeSlots(v) /\ Closed(v)' = Closed(v)
    BY <1>1, ListsKept DEF Closed, conn
  <1>9. \A v \in Worker : Serving(v)' = Serving(v)
    BY <1>8 DEF Serving
  <1>10. UNCHANGED <<client, free>> /\ free[w] = {}
    BY <1>1, <1>2, <1>7, <1>8, <1>9 DEF client, free
  <1>11. Pool!Reject(d, w)
    BY <1>5, <1>6, <1>10 DEF Pool!Reject
  <1>12. accepted' \union rejected' = accepted \union rejected
    BY <1>5, <1>6
  <1>13. HoldOK'
    BY <1>1, <1>9, <1>12 DEF HoldOK
  <1> QED BY <1>2, <1>3, <1>11, <1>13 DEF Pool!Next

(* accept_worker closes the socket of a client it has no slot for.         *)
LEMMA PoolRefuse ==
  ASSUME NEW a \in Accepters, IInv, HoldOK, Refuse(a)
  PROVE  [Pool!Next]_Pool!vars /\ HoldOK'
  <1> DEFINE d == asock[a]
  <1>1. /\ apc[a] = "refuse" /\ open' = open \ {d}
        /\ UNCHANGED <<freelist_count, first_free_conn, next_conn, sockfd, wpc, events>>
    BY DEF Refuse, CloseFd, poolvars, wrkvars
  <1>2. /\ apc'[a] = "accept"
        /\ \A b \in Accepters \ {a} : apc'[b] = apc[b] /\ asock'[b] = asock[b]
    BY DEF Refuse, Restart, IInv, TypeOK
  <1>3. d \in Fds /\ d \notin Others(a, {"refuse"})
    BY <1>1, SocketApart
  <1>4. accepted' = accepted /\ rejected' = rejected \ {d} /\ d \in rejected
    <2>1. With(Waiting)' = With(Waiting)
      BY <1>1, <1>2, WithSame DEF Waiting
    <2>2. With({"refuse"})' = With({"refuse"}) \ {d} /\ d \in With({"refuse"})
      BY <1>1, <1>2, <1>3, WithOthers
    <2> QED BY <2>1, <2>2 DEF accepted, rejected, Waiting
  <1>5. \A v \in Worker : FreeSlots(v)' = FreeSlots(v) /\ Closed(v)' = Closed(v)
    BY <1>1, ListsKept DEF Closed, conn
  <1>6. \A v \in Worker : Serving(v)' = Serving(v)
    BY <1>5 DEF Serving
  <1>7. UNCHANGED <<client, free>>
    BY <1>1, <1>5, <1>6 DEF client, free
  <1>8. Pool!Close(d)
    BY <1>4, <1>7 DEF Pool!Close
  <1>9. HoldOK'
    BY <1>1, <1>4, <1>6 DEF HoldOK
  <1> QED BY <1>3, <1>8, <1>9 DEF Pool!Next

(* client_worker between two connections, and the parts of                 *)
(* connection_close that move no slot and no socket.                       *)
LEMMA PoolUnseenWorker ==
  ASSUME NEW w \in Worker, IInv, HoldOK,
         Wait(w) \/ Serve(w) \/ Remove(w) \/ Reset(w) \/ Link(w)
  PROVE  UNCHANGED Pool!vars /\ HoldOK'
  <1>1. /\ UNCHANGED <<open, freelist_count, first_free_conn, sockfd, apc, asock>>
        /\ ~ Link(w) => next_conn' = next_conn
    BY DEF Wait, Serve, Remove, Reset, Link, sysvars, poolvars, accvars
  <1>2. accepted' = accepted /\ rejected' = rejected
    BY <1>1 DEF accepted, rejected, With
  <1>3. /\ \A v \in Worker \ {w} : events'[v] = events[v] /\ wpc'[v] = wpc[v]
        /\ Closed(w)' = Closed(w)
    <2>1. TypeOK /\ WorkerOK
      BY DEF IInv
    <2>2. CASE Wait(w)
      <3>1. /\ wpc[w] = "wait" /\ wpc'[w] = "serve"
            /\ \A v \in Worker \ {w} : events'[v] = events[v] /\ wpc'[v] = wpc[v]
        BY <2>1, <2>2 DEF Wait, TypeOK
      <3> QED BY <3>1 DEF Closed
    <2>3. CASE Serve(w)
      <3>1. wpc[w] = "serve" /\ (NextEvent(w) \/ (wpc' = [wpc EXCEPT ![w] = "remove"] /\ UNCHANGED events))
        BY <2>3 DEF Serve
      <3>2. /\ wpc'[w] \in {"serve", "wait", "remove"}
            /\ \A v \in Worker \ {w} : events'[v] = events[v] /\ wpc'[v] = wpc[v]
        <4>1. CASE NextEvent(w)
          BY <2>1, <3>1, <4>1, NextEventFacts
        <4>2. CASE wpc' = [wpc EXCEPT ![w] = "remove"] /\ UNCHANGED events
          BY <2>1, <4>2 DEF TypeOK
        <4> QED BY <3>1, <4>1, <4>2
      <3> QED BY <3>1, <3>2 DEF Closed
    <2>4. CASE Remove(w) \/ Reset(w) \/ Link(w)
      <3>1. /\ events' = events
            /\ \/ wpc[w] = "remove" /\ wpc' = [wpc EXCEPT ![w] = "close"]
               \/ wpc[w] = "reset" /\ wpc' = [wpc EXCEPT ![w] = "link"]
               \/ wpc[w] = "link" /\ wpc' = [wpc EXCEPT ![w] = "push"]
        BY <2>4 DEF Remove, Reset, Link
      <3>2. /\ \A v \in Worker \ {w} : wpc'[v] = wpc[v]
            /\ wpc'[w] \in {"reset", "link", "push"} <=> wpc[w] \in {"reset", "link", "push"}
        BY <2>1, <3>1 DEF TypeOK
      <3> QED BY <3>1, <3>2 DEF Closed, conn
    <2> QED BY <2>2, <2>3, <2>4
  <1>4. \A v \in Worker : Closed(v)' = Closed(v)
    BY <1>3 DEF Closed, conn
  <1>5. \A v \in Worker : FreeSlots(v)' = FreeSlots(v)
    <2>1. CASE Link(w)
      <3>1. wpc[w] = "link" /\ next_conn' = [next_conn EXCEPT ![w][conn(w)] = first_free_conn[w]]
        BY <2>1 DEF Link
      <3>2. conn(w) \in InUse(w)
        BY <3>1 DEF InUse, Releasing
      <3>3. \A v \in Worker : \A t \in FreeSlots(v) : next_conn'[v][t] = next_conn[v][t]
        BY <3>1, <3>2, FreeFacts, ZenonT(60) DEF IInv, TypeOK
      <3> QED BY <1>1, <3>3, FreeKept
    <2> QED BY <1>1, <2>1, ListsKept
  <1> QED BY <1>1, <1>2, <1>4, <1>5, PoolUnseen

(* client_worker closes the socket of the slot it has unregistered.        *)
LEMMA PoolClose ==
  ASSUME NEW w \in Worker, IInv, HoldOK, Close(w)
  PROVE  [Pool!Next]_Pool!vars /\ HoldOK'
  <1> DEFINE s == conn(w)
             d == sockfd[w][s]
  <1>1. /\ wpc[w] = "close" /\ open' = open \ {d}
        /\ wpc' = [wpc EXCEPT ![w] = "reset"]
        /\ UNCHANGED <<freelist_count, first_free_conn, next_conn, sockfd, apc,
                       asock, events>>
    BY DEF Close, CloseFd, poolvars, accvars
  <1>2. s \in Slot /\ d \in Fds /\ d # NoFd
    <2>1. s \in Slot
      BY <1>1, ConnFacts DEF IInv
    <2>2. d \in open
      BY <1>1 DEF IInv, SocketOwned
    <2> QED BY <2>1, <2>2, FdAssumption DEF IInv, TypeOK
  <1>3. s \in Serving(w) /\ Closed(w) = {}
    <2>1. Closed(w) = {} /\ s \in InUse(w)
      BY <1>1 DEF Closed, InUse, Releasing
    <2> QED BY <1>2, <2>1, FreeFacts DEF Serving
  <1>4. /\ Closed(w)' = {s}
        /\ \A v \in Worker \ {w} : Closed(v)' = Closed(v)
    BY <1>1 DEF IInv, TypeOK, Closed, conn
  <1>5. accepted' = accepted /\ rejected' = rejected
    BY <1>1 DEF accepted, rejected, With
  <1>6. \A v \in Worker : FreeSlots(v)' = FreeSlots(v)
    BY <1>1, ListsKept
  <1> HIDE DEF s
  <1>7. /\ Serving(w)' = Serving(w) \ {s}
        /\ \A v \in Worker \ {w} : Serving(v)' = Serving(v)
    BY <1>3, <1>4, <1>6 DEF Serving
  <1>8. \A v \in Worker : Serving(v) \subseteq Slot
    BY DEF Serving
  <1>9. free' = free
    BY <1>6 DEF free
  <1>10. client' = [client EXCEPT ![w][s] = NoFd] /\ client[w][s] # NoFd
    <2>1. \A v \in Worker, t \in Slot :
            (IF t \in Serving(v)' THEN sockfd'[v][t] ELSE NoFd)
              = (IF v = w /\ t = s THEN NoFd ELSE IF t \in Serving(v) THEN sockfd[v][t] ELSE NoFd)
      BY <1>1, <1>7
    <2> QED BY <1>1, <1>2, <1>3, <2>1 DEF client
  <1>11. Pool!Drop(w, s)
    BY <1>5, <1>9, <1>10 DEF Pool!Drop
  <1>12. HoldOK'
    <2> SUFFICES ASSUME NEW v \in Worker, NEW t \in Serving(v)'
                 PROVE  /\ sockfd[v][t] \in open'
                        /\ sockfd[v][t] \notin accepted \union rejected
                        /\ \A u \in Worker : \A r \in Serving(u)' :
                             sockfd[u][r] = sockfd[v][t] => u = v /\ r = t
      BY <1>1, <1>5 DEF HoldOK
    <2>1. \A u \in Worker : Serving(u)' \subseteq Serving(u)
      BY <1>7
    <2>2. v # w \/ t # s
      BY <1>7
    <2>3. sockfd[v][t] # d
      BY <1>3, <2>1, <2>2 DEF HoldOK
    <2> QED BY <1>1, <2>1, <2>3 DEF HoldOK
  <1> QED BY <1>2, <1>11, <1>12 DEF Pool!Next

(* connection_close gives the slot back after its socket was closed.       *)
LEMMA PoolPush ==
  ASSUME NEW w \in Worker, IInv, HoldOK, Push(w)
  PROVE  [Pool!Next]_Pool!vars /\ HoldOK'
  <1> DEFINE s == conn(w)
  <1>1. /\ wpc[w] = "push" /\ NextEvent(w)
        /\ first_free_conn' = [first_free_conn EXCEPT ![w] = s]
        /\ freelist_count' = [freelist_count EXCEPT ![w] = @ + 1]
        /\ UNCHANGED <<open, next_conn, sockfd, apc, asock>>
    BY DEF Push, CountFree, sysvars, accvars
  <1>2. s \in Slot /\ next_conn[w][s] = first_free_conn[w]
    BY <1>1, ConnFacts DEF IInv, WorkerOK
  <1>3. /\ \A v \in Worker \ {w} : events'[v] = events[v] /\ wpc'[v] = wpc[v]
        /\ wpc'[w] \in {"serve", "wait"}
    BY <1>1, NextEventFacts DEF IInv
  <1>4. Closed(w) = {s} /\ Closed(w)' = {}
    BY <1>1, <1>3 DEF Closed
  <1>5. \A v \in Worker \ {w} : Closed(v)' = Closed(v)
    BY <1>3 DEF Closed, conn
  <1>6. accepted' = accepted /\ rejected' = rejected
    BY <1>1 DEF accepted, rejected, With
  <1> HIDE DEF s
  <1>7. FreeSlots(w)' = FreeSlots(w) \union {s} /\ s \notin FreeSlots(w)
    <2>1. freelist_count'[w] = freelist_count[w] + 1 /\ first_free_conn'[w] = s
      BY <1>1 DEF IInv, TypeOK
    <2> QED BY <1>1, <1>2, <1>4, <2>1, FreePushed, FreeFacts
  <1>8. \A v \in Worker \ {w} : FreeSlots(v)' = FreeSlots(v)
    <2>1. \A v \in Worker \ {w} : /\ freelist_count'[v] = freelist_count[v]
                                  /\ first_free_conn'[v] = first_free_conn[v]
      BY <1>1 DEF IInv, TypeOK
    <2> QED BY <1>1, <2>1, FreeKept
  <1>9. \A v \in Worker : Serving(v)' = Serving(v)
    BY <1>4, <1>5, <1>7, <1>8 DEF Serving
  <1>10. client' = client /\ client[w][s] = NoFd
    BY <1>1, <1>2, <1>4, <1>9 DEF client, Serving
  <1>11. free' = [free EXCEPT ![w] = @ \union {s}] /\ s \notin free[w]
    BY <1>7, <1>8 DEF free
  <1>12. Pool!Recycle(w, s)
    BY <1>6, <1>10, <1>11 DEF Pool!Recycle
  <1>13. HoldOK'
    BY <1>1, <1>6, <1>9 DEF HoldOK
  <1> QED BY <1>2, <1>12, <1>13 DEF Pool!Next

(* connection_init: every slot is free and no socket is held.              *)
LEMMA PoolInit == Init => Pool!Init /\ HoldOK
  <1> SUFFICES ASSUME Init PROVE Pool!Init /\ HoldOK
    OBVIOUS
  <1>1. accepted = {} /\ rejected = {}
    BY DEF Init, accepted, rejected, With
  <1>2. ASSUME NEW w \in Worker PROVE FreeSlots(w) = Slot
    <2> DEFINE f == [k \in Slot |-> k]
    <2>1. /\ slots \in Nat /\ slots > 0 /\ freelist_count[w] = slots
          /\ first_free_conn[w] = 1
      BY SlotsPositive DEF Init
    <2>2. f \in Nodes(w) /\ \A k \in 1 .. slots : f[k] = k
      BY <2>1 DEF Nodes, Slot
    <2>3. \A i \in 2 .. slots : next_conn[w][i - 1] = i
      <3>1. PICK last \in [Worker -> UninitNext] :
              next_conn = [v \in Worker |->
                            [s \in Slot |-> IF s < slots THEN s + 1 ELSE last[v]]]
        BY DEF Init
      <3>2. ASSUME NEW i \in 2 .. slots PROVE next_conn[w][i - 1] = i
        <4>1. i - 1 \in Slot /\ i - 1 < slots /\ (i - 1) + 1 = i
          BY <2>1 DEF Slot
        <4> QED BY <3>1, <4>1
      <3> QED BY <3>2
    <2> HIDE DEF f
    <2>4. Chain(w, f)
      <3>1. 1 \in 1 .. slots /\ \A i \in 2 .. slots : i \in 1 .. slots /\ i - 1 \in 1 .. slots
        BY <2>1
      <3> QED BY <2>1, <2>2, <2>3, <3>1 DEF Chain
    <2>5. FreeSlots(w) = {f[k] : k \in 1 .. slots}
      BY <2>1, <2>2, <2>4, FreeSlotsAre
    <2> QED BY <2>2, <2>5 DEF Slot
  <1>3. \A w \in Worker : Serving(w) = {}
    BY <1>2 DEF Serving
  <1>4. client = [w \in Worker |-> [s \in Slot |-> NoFd]]
    BY <1>3 DEF client
  <1>5. free = [w \in Worker |-> Slot]
    BY <1>2 DEF free
  <1> QED BY <1>1, <1>3, <1>4, <1>5 DEF Pool!Init, HoldOK

(* Every step is one of SlotPool, or none that it sees.                    *)
LEMMA PoolStep ==
  ASSUME IInv, HoldOK, [Next]_vars
  PROVE  [Pool!Next]_Pool!vars /\ HoldOK'
  <1>1. ASSUME NEW w \in Worker, NEW d \in Fds, Activity(w, d)
        PROVE  UNCHANGED Pool!vars /\ HoldOK'
    <2>1. UNCHANGED <<open, freelist_count, first_free_conn, next_conn, sockfd,
                      apc, asock, wpc, events>>
      BY <1>1 DEF Activity, poolvars, accvars, wrkvars
    <2>2. \A v \in Worker : FreeSlots(v)' = FreeSlots(v) /\ Closed(v)' = Closed(v)
      BY <2>1, ListsKept DEF Closed, conn
    <2>3. accepted' = accepted /\ rejected' = rejected
      BY <2>1 DEF accepted, rejected, With
    <2> QED BY <2>1, <2>2, <2>3, PoolUnseen
  <1>2. CASE UNCHANGED vars
    <2>1. UNCHANGED <<open, freelist_count, first_free_conn, next_conn, sockfd,
                      apc, asock, wpc, events>>
      BY <1>2 DEF vars, sysvars, poolvars, accvars, wrkvars
    <2>2. \A v \in Worker : FreeSlots(v)' = FreeSlots(v) /\ Closed(v)' = Closed(v)
      BY <2>1, ListsKept DEF Closed, conn
    <2>3. accepted' = accepted /\ rejected' = rejected
      BY <2>1 DEF accepted, rejected, With
    <2> QED BY <2>1, <2>2, <2>3, PoolUnseen
  <1>3. ASSUME NEW a \in Accepters, Accepter(a)
        PROVE  [Pool!Next]_Pool!vars /\ HoldOK'
    BY <1>3, PoolAccept, PoolUnseenAccepter, PoolTake, PoolTakeNone, PoolRefuse
       DEF Accepter
  <1>4. ASSUME NEW w \in Worker, ClientWorker(w)
        PROVE  [Pool!Next]_Pool!vars /\ HoldOK'
    BY <1>4, PoolUnseenWorker, PoolClose, PoolPush DEF ClientWorker
  <1> QED BY <1>1, <1>2, <1>3, <1>4 DEF Next

(* The pool keeps its promise, whatever the interleaving of accept threads *)
(* and workers and whatever registrations fail (connection_accept,         *)
(* connection_close, client_worker): a socket gets a slot of its own or is *)
(* refused for want of one, and is closed before its slot is free again.   *)
THEOREM PoolRefinement == Spec => PoolSpec
  <1>1. Spec => []HoldOK
    BY PoolInit, PoolStep, InductiveInvariant, PTL DEF Spec
  <1> QED BY <1>1, PoolInit, PoolStep, InductiveInvariant, PTL
          DEF Spec, PoolSpec, Pool!Spec
=============================================================================
