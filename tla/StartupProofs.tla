--------------------------- MODULE StartupProofs ----------------------------
(***************************************************************************)
(* Proofs about Startup for any number of workers: a server that runs      *)
(* listens where it should, and no accept thread runs before every worker  *)
(* is ready.  The second rests on counting: the barrier opens when left is *)
(* 0, left is the number of its parties less those that have arrived, and  *)
(* its parties are exactly the main thread and the threads it creates.     *)
(***************************************************************************)
EXTENDS Startup, FiniteSetTheorems, TLAPS

(* The main thread's two families are different, and no workers.           *)
LEMMA FamilyFacts ==
  /\ NumWorkers \in Nat \ {0}
  /\ v4 # v6 /\ v4 \in Families /\ v6 \in Families /\ Families = {v4, v6}
  /\ v4 \notin Workers /\ v6 \notin Workers
  /\ Threads = Workers \union Families
  BY StartAssumption DEF v4, v6, Families, Workers, Threads

(* kitserv.c:345 counts a party for every thread.                          *)
LEMMA PartiesCount ==
  ASSUME bind \subseteq Families
  PROVE  /\ IsFiniteSet(Workers \union bind)
         /\ Cardinality(Workers \union bind) \in Nat
         /\ Parties = Cardinality(Workers \union bind) + 1
  <1>1. IsFiniteSet(Workers) /\ Cardinality(Workers) = NumWorkers
    BY FS_Interval, StartAssumption DEF Workers
  <1>2. IsFiniteSet(Families)
    <2>1. IsFiniteSet({v4}) /\ Families = {v4} \union {v6}
      BY FS_Singleton, FamilyFacts
    <2> QED BY <2>1, FS_AddElement
  <1>3. IsFiniteSet(bind)
    BY <1>2, FS_Subset
  <1>4. Workers \intersect bind = {}
    BY FamilyFacts
  <1>5. /\ IsFiniteSet(Workers \union bind)
        /\ Cardinality(Workers \union bind) = NumWorkers + Cardinality(bind) - 0
    BY <1>1, <1>3, <1>4, FS_Union, FS_EmptySet
  <1>6. Cardinality(bind) \in Nat
    BY <1>3, FS_CardinalityType
  <1> QED BY <1>5, <1>6, FamilyFacts DEF Parties

(* When the barrier opens, every thread has arrived.                       *)
LEMMA OpenMeansArrived ==
  ASSUME TypeOK, BarrierOK, pc \in {"create", "wait", "sigwait"}, left = 0
  PROVE  Arrived = Workers \union bind
  <1>1. Arrived \subseteq Workers \union bind
    BY DEF BarrierOK, Arrived
  <1>2. /\ IsFiniteSet(Workers \union bind)
        /\ Cardinality(Workers \union bind) \in Nat
        /\ Parties = Cardinality(Workers \union bind) + 1
    BY PartiesCount DEF TypeOK
  <1>3. /\ IsFiniteSet(Arrived)
        /\ Cardinality(Arrived) <= Cardinality(Workers \union bind)
        /\ Cardinality(Workers \union bind) = Cardinality(Arrived)
             => Workers \union bind = Arrived
    BY <1>1, <1>2, FS_Subset
  <1>4. Cardinality(Arrived) \in Nat
    BY <1>3, FS_CardinalityType
  <1>5. left = Parties - Cardinality(Arrived) - (IF pc = "create" THEN 0 ELSE 1)
    BY DEF BarrierOK
  <1> QED BY <1>2, <1>3, <1>4, <1>5

-----------------------------------------------------------------------------
(* A step of the command line or of binding creates no thread.             *)
LEMMA BarrierUntouched ==
  ASSUME BarrierOK, UNCHANGED barrier,
         pc \in {"options", "check", "bind6", "bind4"},
         pc' \in {"options", "check", "bind6", "bind4", "barrier", "exit"}
  PROVE  BarrierOK'
  <1>1. \A t \in Threads : state[t] = "none"
    BY DEF BarrierOK
  <1>2. UNCHANGED <<state, pool, left>>
    BY DEF barrier
  <1>3. Families \subseteq Threads
    BY FamilyFacts
  <1>4. pc' \notin {"create", "wait", "sigwait"}
    OBVIOUS
  <1> QED BY <1>1, <1>2, <1>3, <1>4 DEF BarrierOK, Arrived, Running

(* main's options and the checks of kitserv_server_start.                  *)
LEMMA OptionsInv ==
  ASSUME IInv, Options \/ Check
  PROVE  IInv'
  <1>1. /\ UNCHANGED <<fd, barrier>> /\ TypeOK /\ BindOK /\ BarrierOK
        /\ pc \in {"options", "check"}
        /\ pc' \in {"options", "check", "bind6", "exit"}
        /\ pc' = "bind6" => bind' = want' /\ want' = want
        /\ bind' \in {bind, want} /\ want' \in {want} \union {{f} : f \in Families}
    BY DEF IInv, Options, Check, OptionFamily, OptionSlots, OptionRoot, OptionBad,
           OptionsDone, config
  <1>2. \A f \in Families : fd[f] = "none"
    BY <1>1 DEF BindOK
  <1>3. BarrierOK'
    BY <1>1, BarrierUntouched
  <1>4. TypeOK'
    BY <1>1 DEF TypeOK, barrier
  <1>5. BindOK'
    BY <1>1, <1>2, FamilyFacts DEF BindOK
  <1> QED BY <1>3, <1>4, <1>5 DEF IInv

(* find_and_bind_socket and its callers.                                   *)
LEMMA BindInv ==
  ASSUME IInv,
         NotAsked \/ Socket \/ BindTo \/ Listen \/ \E e \in Errnos : SocketFails(e)
  PROVE  IInv'
  <1>1. TypeOK /\ BindOK /\ BarrierOK
    BY DEF IInv
  <1>2. /\ pc \in {"bind6", "bind4"} /\ UNCHANGED <<want, barrier>>
        /\ pc' \in {pc, AfterBind, "exit"}
    BY DEF NotAsked, Socket, BindTo, Listen, SocketFails, Moves, Binding, config
  <1>3. BarrierOK'
    BY <1>1, <1>2, BarrierUntouched DEF AfterBind
  <1>4. CASE NotAsked
    <2>1. UNCHANGED <<bind, fd>> /\ pc' = AfterBind /\ Target \notin bind
      BY <1>4 DEF NotAsked
    <2>2. TypeOK'
      BY <1>1, <1>2, <2>1 DEF TypeOK, AfterBind, barrier
    <2>3. BindOK'
      BY <1>1, <1>2, <2>1, FamilyFacts DEF TypeOK, BindOK, Settled, Target, AfterBind
    <2> QED BY <1>3, <2>2, <2>3 DEF IInv
  <1>5. ASSUME NEW from, NEW to \in {"open", "bound", "listening"}, Moves(from, to),
               pc' = IF to = "listening" THEN AfterBind ELSE pc
        PROVE  IInv'
    <2>1. /\ Target \in bind /\ UNCHANGED bind
          /\ fd' = [fd EXCEPT ![Target] = to]
      BY <1>5 DEF Moves, Binding
    <2>2. TypeOK'
      BY <1>1, <1>2, <1>5, <2>1 DEF TypeOK, AfterBind, barrier
    <2>3. \A f \in Families : fd'[f] = IF f = Target THEN to ELSE fd[f]
      BY <1>1, <2>1 DEF TypeOK
    <2>4. ASSUME pc = "bind6" PROVE BindOK'
      <3>1. Target = v6 /\ v6 \in bind /\ fd'[v6] = to /\ fd'[v4] = fd[v4]
        BY <2>1, <2>3, <2>4, FamilyFacts DEF Target
      <3>2. bind = want /\ fd[v4] = "none"
        BY <1>1, <2>4 DEF BindOK
      <3>3. pc' = IF to = "listening" THEN "bind4" ELSE "bind6"
        BY <1>5, <2>4 DEF AfterBind
      <3> QED BY <1>2, <2>1, <3>1, <3>2, <3>3, FamilyFacts DEF BindOK, Settled
    <2>5. ASSUME pc = "bind4" PROVE BindOK'
      <3>1. Target = v4 /\ v4 \in bind /\ fd'[v4] = to /\ fd'[v6] = fd[v6]
        BY <2>1, <2>3, <2>5, FamilyFacts DEF Target
      <3>2. pc' = IF to = "listening" THEN "barrier" ELSE "bind4"
        BY <1>5, <2>5 DEF AfterBind
      <3> QED BY <1>1, <1>2, <2>1, <2>5, <3>1, <3>2, FamilyFacts DEF BindOK, Settled
    <2> QED BY <1>2, <1>3, <2>2, <2>4, <2>5 DEF IInv
  <1>6. CASE Socket \/ BindTo \/ Listen
    BY <1>5, <1>6 DEF Socket, BindTo, Listen
  <1>7. ASSUME NEW e \in Errnos, SocketFails(e) PROVE IInv'
    <2>1. fd' = [fd EXCEPT ![Target] = "none"] /\ Target \in bind
      BY <1>7 DEF SocketFails, Binding
    <2>2. \/ pc = "bind6" /\ bind' = (bind \ {v6}) \union {v4} /\ pc' = "bind4"
          \/ pc = "bind4" /\ v6 \in bind /\ bind' = bind \ {v4} /\ pc' = "barrier"
          \/ pc' = "exit" /\ bind' = bind
      BY <1>7 DEF SocketFails, NoSupport, AfterBind
    <2>3. TypeOK'
      BY <1>1, <1>2, <2>1, <2>2, FamilyFacts DEF TypeOK, barrier
    <2>4. ASSUME pc = "bind6", bind' = (bind \ {v6}) \union {v4}, pc' = "bind4"
          PROVE  BindOK'
      <3>1. Target = v6 /\ fd'[v6] = "none" /\ fd'[v4] = fd[v4]
        BY <1>1, <2>1, <2>4, FamilyFacts DEF Target, TypeOK
      <3> QED BY <1>2, <2>4, <3>1, FamilyFacts DEF BindOK, Settled
    <2>5. ASSUME pc = "bind4", v6 \in bind, bind' = bind \ {v4}, pc' = "barrier"
          PROVE  BindOK'
      <3>1. Target = v4 /\ fd'[v4] = "none" /\ fd'[v6] = fd[v6]
        BY <1>1, <2>1, <2>5, FamilyFacts DEF Target, TypeOK
      <3> QED BY <1>1, <1>2, <2>5, <3>1, FamilyFacts DEF BindOK, Settled
    <2>6. ASSUME pc' = "exit" PROVE BindOK'
      BY <2>6 DEF BindOK
    <2>7. BindOK'
      BY <2>2, <2>4, <2>5, <2>6
    <2> QED BY <1>3, <2>3, <2>7 DEF IInv
  <1> QED BY <1>4, <1>6, <1>7

(* The sockets stay as they are once the barrier has been made.            *)
LEMMA BindStays ==
  ASSUME BindOK, UNCHANGED <<want, bind, fd>>,
         pc \in {"barrier", "create", "wait", "sigwait"},
         pc' \in {"barrier", "create", "wait", "sigwait", "exit"}
  PROVE  BindOK'
  BY DEF BindOK, Settled

(* The main thread from the barrier to the signal.                         *)
LEMMA MainInv ==
  ASSUME IInv,
         InitBarrier \/ (\E t \in Threads : Create(t)) \/ MainArrives \/ MainRuns \/ Signal
  PROVE  IInv'
  <1>1. TypeOK /\ BindOK /\ BarrierOK
    BY DEF IInv
  <1>2. /\ UNCHANGED <<want, bind, fd, pool>>
        /\ pc \in {"barrier", "create", "wait", "sigwait"}
        /\ pc' \in {"create", "wait", "sigwait", "exit"}
    BY <1>1 DEF InitBarrier, Create, MainArrives, MainRuns, Signal, config, barrier, TypeOK
  <1>3. BindOK'
    BY <1>1, <1>2, BindStays
  <1>4. Parties' = Parties /\ Parties \in Int
    BY <1>1, <1>2, PartiesCount DEF Parties, TypeOK
  <1>5. CASE InitBarrier
    <2>1. /\ pc = "barrier" /\ pc' = "create" /\ left' = Parties /\ UNCHANGED state
          /\ \A t \in Threads : state[t] = "none"
      BY <1>1, <1>5 DEF InitBarrier, BarrierOK
    <2>2. Arrived' = {} /\ Cardinality({}) = 0
      BY <2>1, FS_EmptySet DEF Arrived
    <2>3. BarrierOK'
      BY <1>2, <1>4, <2>1, <2>2, FamilyFacts DEF BarrierOK, Running
    <2> QED BY <1>1, <1>2, <1>3, <1>4, <2>1, <2>3 DEF IInv, TypeOK
  <1>6. ASSUME NEW t \in Threads, Create(t) PROVE IInv'
    <2>1. /\ pc = "create" /\ UNCHANGED <<pc, left>> /\ state[t] = "none"
          /\ t \in Workers \union bind /\ state' = [state EXCEPT ![t] = "new"]
      BY <1>6 DEF Create, Created, InTurn
    <2>2. \A u \in Threads : state'[u] = IF u = t THEN "new" ELSE state[u]
      BY <1>1, <2>1 DEF TypeOK
    <2>3. Arrived' = Arrived
      BY <2>1, <2>2 DEF Arrived
    <2>4. t \in Families => fd[t] = "listening"
      BY <1>1, <2>1, FamilyFacts DEF BindOK, Settled
    <2>5. BarrierOK'
      BY <1>1, <1>2, <1>4, <2>1, <2>2, <2>3, <2>4, FamilyFacts DEF BarrierOK, Running
    <2> QED BY <1>1, <1>2, <1>3, <2>1, <2>5 DEF IInv, TypeOK
  <1>7. CASE MainArrives
    <2>1. pc = "create" /\ pc' = "wait" /\ left' = left - 1 /\ UNCHANGED state
      BY <1>7 DEF MainArrives, Arrive
    <2>2. Arrived' = Arrived /\ Cardinality(Arrived) \in Nat
      <3>1. Arrived \subseteq Workers \union bind
        BY <1>1, <2>1 DEF BarrierOK, Arrived
      <3> QED BY <1>1, <2>1, <3>1, PartiesCount, FS_Subset, FS_CardinalityType
              DEF Arrived, TypeOK
    <2>3. BarrierOK'
      BY <1>1, <1>2, <1>4, <2>1, <2>2 DEF BarrierOK, Running
    <2> QED BY <1>1, <1>2, <1>3, <2>1, <2>3 DEF IInv, TypeOK
  <1>8. CASE MainRuns \/ Signal
    <2>1. /\ pc \in {"wait", "sigwait"} /\ pc' \in {"sigwait", "exit"}
          /\ UNCHANGED <<left, state>>
      BY <1>8 DEF MainRuns, Signal, barrier
    <2>2. Arrived' = Arrived
      BY <2>1 DEF Arrived
    <2>3. BarrierOK'
      BY <1>1, <1>2, <1>4, <2>1, <2>2 DEF BarrierOK, Running
    <2> QED BY <1>1, <1>2, <1>3, <2>1, <2>3 DEF IInv, TypeOK
  <1> QED BY <1>5, <1>6, <1>7, <1>8

(* client_worker and accept_worker up to their loops.                      *)
LEMMA ThreadInv ==
  ASSUME IInv, NEW t \in Threads, Thread(t)
  PROVE  IInv'
  <1>1. TypeOK /\ BindOK /\ BarrierOK
    BY DEF IInv
  <1>2. UNCHANGED <<want, pc, bind, fd>> /\ pc # "exit" /\ state[t] \in {"new", "wait"}
    BY DEF Thread, WorkerInit, Arrives, Runs, config, Alive
  <1>3. pc \in {"create", "wait", "sigwait"}
    BY <1>1, <1>2 DEF BarrierOK, TypeOK
  <1>4. BindOK'
    BY <1>1, <1>2, <1>3, BindStays
  <1>5. Parties' = Parties /\ Parties \in Int
    BY <1>1, <1>2, PartiesCount DEF Parties, TypeOK
  <1>6. CASE t \in Workers /\ WorkerInit(t)
    <2>1. UNCHANGED <<left, state>> /\ pool' = pool \union {t} /\ t \in Workers
      BY <1>6 DEF WorkerInit
    <2>2. Arrived' = Arrived
      BY <2>1 DEF Arrived
    <2>3. BarrierOK'
      BY <1>1, <1>2, <1>3, <1>5, <2>1, <2>2 DEF BarrierOK, Running, TypeOK
    <2> QED BY <1>1, <1>2, <1>4, <2>1, <2>3 DEF IInv, TypeOK
  <1>7. CASE Arrives(t)
    <2>1. /\ state[t] = "new" /\ left' = left - 1 /\ UNCHANGED pool
          /\ state' = [state EXCEPT ![t] = "wait"] /\ (t \in Workers => t \in pool)
      BY <1>7, FamilyFacts DEF Arrives, Arrive, Ready
    <2>2. \A u \in Threads : state'[u] = IF u = t THEN "wait" ELSE state[u]
      BY <1>1, <2>1 DEF TypeOK
    <2>3. Arrived' = Arrived \union {t} /\ t \notin Arrived
      BY <2>1, <2>2 DEF Arrived
    <2>4. IsFiniteSet(Arrived)
      <3>1. Arrived \subseteq Workers \union bind
        BY <1>1, <1>3 DEF BarrierOK, Arrived
      <3> QED BY <1>1, <3>1, PartiesCount, FS_Subset DEF TypeOK
    <2>5. Cardinality(Arrived') = Cardinality(Arrived) + 1 /\ Cardinality(Arrived) \in Nat
      BY <2>3, <2>4, FS_AddElement, FS_CardinalityType
    <2>6. left' = Parties' - Cardinality(Arrived') - (IF pc' = "create" THEN 0 ELSE 1)
      BY <1>1, <1>2, <1>3, <1>5, <2>1, <2>5 DEF BarrierOK
    <2>7. Arrived' \intersect Workers \subseteq pool'
      BY <1>1, <2>1, <2>3 DEF BarrierOK
    <2>8. BarrierOK'
      <3>1. \A u \in Threads : state'[u] # "none" => u \in Workers \union bind'
        BY <1>1, <1>2, <1>3, <2>1, <2>2 DEF BarrierOK
      <3>2. \A f \in Families : state'[f] # "none" => fd'[f] = "listening"
        BY <1>1, <1>2, <2>1, <2>2, FamilyFacts DEF BarrierOK
      <3>3. \A u \in Threads : Running(u)' => pool' = Workers
        BY <1>1, <2>1, <2>2 DEF BarrierOK, Running
      <3> QED BY <1>2, <1>3, <2>6, <2>7, <3>1, <3>2, <3>3 DEF BarrierOK
    <2> QED BY <1>1, <1>2, <1>4, <2>1, <2>8 DEF IInv, TypeOK
  <1>8. CASE Runs(t)
    <2>1. /\ state[t] = "wait" /\ left = 0 /\ UNCHANGED <<left, pool>>
          /\ state' = [state EXCEPT ![t] = "run"]
      BY <1>8 DEF Runs, Open
    <2>2. \A u \in Threads : state'[u] = IF u = t THEN "run" ELSE state[u]
      BY <1>1, <2>1 DEF TypeOK
    <2>3. Arrived' = Arrived
      BY <2>1, <2>2 DEF Arrived
    <2>4. pool = Workers
      <3>1. Workers \subseteq Arrived
        BY <1>1, <1>3, <2>1, OpenMeansArrived
      <3> QED BY <1>1, <3>1 DEF BarrierOK, TypeOK
    <2>5. BarrierOK'
      BY <1>1, <1>2, <1>3, <1>5, <2>1, <2>2, <2>3, <2>4, FamilyFacts
         DEF BarrierOK, Running
    <2> QED BY <1>1, <1>2, <1>4, <2>1, <2>5 DEF IInv, TypeOK
  <1> QED BY <1>6, <1>7, <1>8 DEF Thread

(* The first states: nothing is open and no thread is there.               *)
LEMMA InitInv == Init => IInv
  <1> SUFFICES ASSUME Init PROVE IInv
    OBVIOUS
  <1>1. TypeOK
    BY DEF Init, TypeOK
  <1>2. BindOK
    BY DEF Init, BindOK
  <1>3. BarrierOK
    BY FamilyFacts DEF Init, BarrierOK, Arrived, Running
  <1> QED BY <1>1, <1>2, <1>3 DEF IInv

(* Every step preserves the invariant.                                     *)
LEMMA NextInv == IInv /\ [Next]_vars => IInv'
  <1> SUFFICES ASSUME IInv, [Next]_vars PROVE IInv'
    OBVIOUS
  <1>1. CASE UNCHANGED vars
    <2>1. UNCHANGED <<want, num_slots, root, pc, bind, fd, left, state, pool>>
      BY <1>1 DEF vars, config, barrier
    <2> QED BY <2>1 DEF IInv, TypeOK, BindOK, BarrierOK, Settled, Arrived, Parties, Running
  <1> QED
    BY <1>1, OptionsInv, BindInv, MainInv, ThreadInv DEF Next, Main

-----------------------------------------------------------------------------
(* main and kitserv_server_start keep the invariant.                       *)
THEOREM StartInvariant == Spec => []IInv
  BY InitInv, NextInv, PTL DEF Spec

(* A server that has come as far as creating threads listens on every      *)
(* family it still wants and holds no other socket (kitserv_server_start,  *)
(* find_and_bind_socket).                                                  *)
THEOREM ListensAsWanted == Spec => []SomeSocket
  <1>1. IInv => SomeSocket
    BY DEF IInv, BindOK, Settled, SomeSocket
  <1> QED BY <1>1, StartInvariant, PTL

(* accept_worker gets past the barrier only when every client_worker has   *)
(* its pool and its queue, whatever the number of workers.                 *)
THEOREM NobodyAcceptsEarly == Spec => []NoEarlyAccept
  <1>1. IInv => NoEarlyAccept
    BY FamilyFacts DEF IInv, BarrierOK, NoEarlyAccept, Running
  <1> QED BY <1>1, StartInvariant, PTL
=============================================================================
