------------------------------ MODULE Startup -------------------------------
(***************************************************************************)
(* From the command line to serving: main's options, the checks of         *)
(* kitserv_server_start, a socket for each family with the fallbacks       *)
(* between them, and the barrier that holds the accept threads back until  *)
(* every worker has its pool and its queue.  ConnPool starts where this    *)
(* ends.                                                                   *)
(*                                                                         *)
(* Threads run from their creation.  perror leaves errno alone.            *)
(***************************************************************************)
EXTENDS Integers, FiniteSets

CONSTANTS
  NumWorkers,  (* config->num_workers, the option -t                       *)
  SlotCounts   (* values of -s and of an embedding program's num_slots     *)

ASSUME StartAssumption == NumWorkers \in Nat \ {0} /\ SlotCounts \subseteq Int

Workers == 1 .. NumWorkers
v4 == NumWorkers + 1         \* accepters[0]
v6 == NumWorkers + 2         \* accepters[1]
Families == {v4, v6}
Threads == Workers \union Families
DefaultSlots == 128

VARIABLES
  want,        (* families the configuration asks for                      *)
  num_slots,   (* in the configuration                                     *)
  root,        (* -w was given                                             *)
  pc,          (* of the main thread                                       *)
  bind,        (* families still wanted: bind_ipv4, bind_ipv6              *)
  fd,          (* the socket of each family: "none", "open", "bound" or    *)
               (* "listening"                                              *)
  left,        (* arrivals the barrier still waits for; -1 when there is   *)
               (* no barrier                                               *)
  state,       (* of each helper thread                                    *)
  pool         (* workers whose connection_init and queue_init are done    *)
config == <<want, num_slots, root>>
barrier == <<left, state, pool>>
vars == <<config, pc, bind, fd, barrier>>

(* main's defaults, or an embedding program's call with a configuration of *)
(* its own.                                                                *)
Init ==
  /\ \/ pc = "options" /\ want = Families /\ num_slots = DefaultSlots
     \/ pc = "check" /\ want \in SUBSET Families /\ num_slots \in SlotCounts
  /\ root = FALSE /\ bind = {} /\ left = -1 /\ pool = {}
  /\ fd = [f \in Families |-> "none"]
  /\ state = [t \in Threads |-> "none"]

-----------------------------------------------------------------------------
(* main: options in any order and number.                                  *)
OptionFamily(f) ==
  /\ pc = "options" /\ want' = {f}
  /\ UNCHANGED <<num_slots, root, pc, bind, fd, barrier>>
OptionRoot ==
  /\ pc = "options" /\ root' = TRUE
  /\ UNCHANGED <<want, num_slots, pc, bind, fd, barrier>>
OptionSlots(n) ==
  /\ pc = "options" /\ num_slots' = n /\ pc' = IF n < 1 THEN "exit" ELSE pc
  /\ UNCHANGED <<want, root, bind, fd, barrier>>

(* A worker count below 1, -h, or an option there is not.                  *)
OptionBad == pc = "options" /\ pc' = "exit" /\ UNCHANGED <<config, bind, fd, barrier>>
OptionsDone ==
  /\ pc = "options" /\ pc' = IF root THEN "check" ELSE "exit"
  /\ UNCHANGED <<config, bind, fd, barrier>>

(* kitserv_server_start refuses fewer slots than workers.                  *)
Check ==
  /\ pc = "check" /\ bind' = want
  /\ pc' = IF num_slots < NumWorkers THEN "exit" ELSE "bind6"
  /\ UNCHANGED <<config, fd, barrier>>

-----------------------------------------------------------------------------
(* IPv6 first, then IPv4.                                                  *)
Target == IF pc = "bind6" THEN v6 ELSE v4
Binding == pc \in {"bind6", "bind4"} /\ Target \in bind
AfterBind == IF pc = "bind6" THEN "bind4" ELSE "barrier"

NotAsked ==
  /\ pc \in {"bind6", "bind4"} /\ Target \notin bind
  /\ pc' = AfterBind /\ UNCHANGED <<config, bind, fd, barrier>>

(* find_and_bind_socket, on the first address of the family.               *)
Moves(from, to) ==
  /\ Binding /\ fd[Target] = from
  /\ fd' = [fd EXCEPT ![Target] = to] /\ UNCHANGED <<config, bind, barrier>>
Socket == Moves("none", "open") /\ UNCHANGED pc
BindTo == Moves("open", "bound") /\ UNCHANGED pc
Listen == Moves("bound", "listening") /\ pc' = AfterBind

(* Any of its calls may fail; the socket is closed and the caller falls    *)
(* back or gives up.  Without IPv6 support it is IPv4 instead; an IPv4     *)
(* address already in use is the dual-bound IPv6 socket's.                 *)
NoSupportFault == bind' = bind \ {v6}
NoSupport == bind' = (bind \ {v6}) \union {v4}

SocketFails(errno) ==
  /\ Binding /\ fd' = [fd EXCEPT ![Target] = "none"]
  /\ \/ pc = "bind6" /\ errno = "EAFNOSUPPORT" /\ NoSupport /\ pc' = AfterBind
     \/ /\ pc = "bind4" /\ errno = "EADDRINUSE" /\ v6 \in bind
        /\ bind' = bind \ {v4} /\ pc' = AfterBind
     \/ /\ ~ (pc = "bind6" /\ errno = "EAFNOSUPPORT")
        /\ ~ (pc = "bind4" /\ errno = "EADDRINUSE" /\ v6 \in bind)
        /\ pc' = "exit" /\ UNCHANGED bind
  /\ UNCHANGED <<config, barrier>>

(* One arrival for each worker, each accept thread and the main thread.    *)
PartiesFault == NumWorkers + Cardinality(bind)
PartiesWanted == NumWorkers + Cardinality(want) + 1
Parties == NumWorkers + Cardinality(bind) + 1

InitBarrier ==
  /\ pc = "barrier" /\ left' = Parties /\ pc' = "create"
  /\ UNCHANGED <<config, bind, fd, state, pool>>

(* Workers are created in order, then the accept threads, IPv4 first.      *)
Created(t) == state[t] # "none"
InTurn(t) ==
  /\ t \in Workers \union bind
  /\ \A u \in Workers \union bind : u < t => Created(u)
Create(t) ==
  /\ pc = "create" /\ ~ Created(t) /\ InTurn(t)
  /\ state' = [state EXCEPT ![t] = "new"]
  /\ UNCHANGED <<config, pc, bind, fd, left, pool>>

(* pthread_barrier_wait: the last arrival lets the others go.              *)
Arrive == left > 0 /\ left' = left - 1
Open == left = 0

MainArrives ==
  /\ pc = "create" /\ \A t \in Workers \union bind : Created(t)
  /\ Arrive /\ pc' = "wait" /\ UNCHANGED <<config, bind, fd, state, pool>>

(* The barrier is destroyed, and the main thread waits for a signal.       *)
MainRuns ==
  /\ pc = "wait" /\ Open /\ pc' = "sigwait"
  /\ UNCHANGED <<config, bind, fd, barrier>>
Signal == pc = "sigwait" /\ pc' = "exit" /\ UNCHANGED <<config, bind, fd, barrier>>

(* While the process lives: client_worker and accept_worker.               *)
Alive == pc # "exit"
WorkerInit(w) ==
  /\ Alive /\ state[w] = "new" /\ w \notin pool
  /\ pool' = pool \union {w} /\ UNCHANGED <<config, pc, bind, fd, left, state>>

Ready(t) == t \in Families \/ t \in pool
Arrives(t) ==
  /\ Alive /\ state[t] = "new" /\ Ready(t) /\ Arrive
  /\ state' = [state EXCEPT ![t] = "wait"] /\ UNCHANGED <<config, pc, bind, fd, pool>>
Runs(t) ==
  /\ Alive /\ state[t] = "wait" /\ Open
  /\ state' = [state EXCEPT ![t] = "run"] /\ UNCHANGED <<config, pc, bind, fd, left, pool>>

Options ==
  \/ \E f \in Families : OptionFamily(f)
  \/ \E n \in SlotCounts : OptionSlots(n)
  \/ OptionRoot \/ OptionBad \/ OptionsDone
Errnos == {"EAFNOSUPPORT", "EADDRINUSE", "other"}
Main ==
  \/ Check \/ NotAsked \/ Socket \/ BindTo \/ Listen
  \/ \E e \in Errnos : SocketFails(e)
  \/ InitBarrier \/ (\E t \in Threads : Create(t)) \/ MainArrives \/ MainRuns
Thread(t) == (t \in Workers /\ WorkerInit(t)) \/ Arrives(t) \/ Runs(t)

Next == Options \/ Main \/ Signal \/ \E t \in Threads : Thread(t)
Spec == Init /\ [][Next]_vars
FairSpec == Spec /\ WF_vars(Main) /\ \A t \in Threads : WF_vars(Thread(t))

-----------------------------------------------------------------------------
Running(t) == state[t] = "run"

(* No accept thread takes a connection, and chooses a worker for it,       *)
(* before every worker has its free list and its event queue, and no       *)
(* accept thread runs without a socket.                                    *)
NoEarlyAccept ==
  \A f \in Families : Running(f) => pool = Workers /\ fd[f] = "listening"

(* The sockets a server runs with: every family it still wants listens,   *)
(* no descriptor of a failed attempt is left, a server asked for a family  *)
(* has one, IPv6 only when asked, IPv4 when asked or instead of IPv6       *)
(* ("falls back to IPv4 if no IPv6", main.c).                              *)
SomeSocket ==
  pc \in {"create", "wait", "sigwait"} =>
    /\ \A f \in Families : fd[f] = IF f \in bind THEN "listening" ELSE "none"
    /\ want # {} => bind # {}
    /\ v6 \in bind => v6 \in want
    /\ v4 \in bind => v4 \in want \/ v6 \notin bind

(* Every thread that was created gets past the barrier, unless the process *)
(* ends: the parties of the barrier are exactly the threads.               *)
EveryoneStarts ==
  \A t \in Threads : (state[t] = "new") ~> (Running(t) \/ pc = "exit")

-----------------------------------------------------------------------------
(* The inductive invariant.                                                *)
TypeOK ==
  /\ want \subseteq Families /\ bind \subseteq Families /\ pool \subseteq Workers
  /\ pc \in {"options", "check", "bind6", "bind4", "barrier", "create", "wait",
             "sigwait", "exit"}
  /\ fd \in [Families -> {"none", "open", "bound", "listening"}]
  /\ state \in [Threads -> {"none", "new", "wait", "run"}]
  /\ left \in Int

Settled(f) == fd[f] = IF f \in bind THEN "listening" ELSE "none"

(* What is bound so far.                                                   *)
BindOK ==
  /\ pc \in {"options", "check"} => \A f \in Families : fd[f] = "none"
  /\ pc = "bind6" => bind = want /\ fd[v4] = "none" /\ (v6 \notin bind => fd[v6] = "none")
  /\ pc = "bind4" => Settled(v6) /\ (v4 \notin bind => fd[v4] = "none")
  /\ pc \in {"bind4", "barrier", "create", "wait", "sigwait"} =>
       /\ want # {} => bind # {}
       /\ v6 \in bind => v6 \in want
       /\ v4 \in bind => v4 \in want \/ v6 \notin bind
  /\ pc \in {"barrier", "create", "wait", "sigwait"} => \A f \in Families : Settled(f)

(* The barrier waits for those that have not arrived yet, and a thread     *)
(* arrives when it is ready.                                               *)
Arrived == {t \in Threads : state[t] \in {"wait", "run"}}
BarrierOK ==
  /\ pc \in {"options", "check", "bind6", "bind4", "barrier"} =>
       \A t \in Threads : state[t] = "none"
  /\ pc \in {"create", "wait", "sigwait"} =>
       /\ \A t \in Threads : state[t] # "none" => t \in Workers \union bind
       /\ left = Parties - Cardinality(Arrived) - (IF pc = "create" THEN 0 ELSE 1)
  /\ Arrived \intersect Workers \subseteq pool
  /\ \A f \in Families : state[f] # "none" => fd[f] = "listening"
  /\ \A t \in Threads : Running(t) => pool = Workers

IInv == TypeOK /\ BindOK /\ BarrierOK
=============================================================================
