------------------------------ MODULE ApiTree -------------------------------
(***************************************************************************)
(* The API tree: its walk, one action per level, the calls of the endpoint *)
(* it hits, which may return to wait for a payload and be called again,    *)
(* and the transaction fields that steer them.  Transaction composes it    *)
(* with the static files and the response.                                 *)
(*                                                                         *)
(* A path is the sequence of its segments, a segment a sequence of         *)
(* letters.  tail is what lies in the buffer behind the path's end: the    *)
(* segments of the query, and then bytes no prefix equals.                 *)
(***************************************************************************)
EXTENDS Integers, Sequences, SequencesExt, FiniteSetsExt

CONSTANTS Nodes, Root,
          Prefix,      \* of each node but the root
          Entries,     \* of each node: its endpoints, in order
          Subtrees,    \* of each node: nodes, in order
          None         \* NULL

Endpoint == [prefix : Seq(STRING), method : {"GET", "PUT", "POST", "DELETE"},
             finishes : BOOLEAN, handler : STRING]

(* The ways to count the depth of every node: a tree has one.              *)
Depths ==
  { depth \in [Nodes -> 1 .. Cardinality(Nodes)] :
      /\ depth[Root] = 1
      /\ \A n \in Nodes : \A i \in 1 .. Len(Subtrees[n]) :
           depth[Subtrees[n][i]] = depth[n] + 1 }

ASSUME TreeAssumption ==
  /\ Root \in Nodes /\ IsFiniteSet(Nodes) /\ Depths # {}
  /\ Prefix \in [Nodes -> Seq(STRING)]
  /\ Subtrees \in [Nodes -> Seq(Nodes \ {Root})]
  /\ Entries \in [Nodes -> Seq(Endpoint)]
  /\ \A n \in Nodes : \A i \in 1 .. Len(Entries[n]) : Entries[n][i].handler # None

VARIABLES
  phase,       (* "recv", "parse", "serve", "prepare", "send"              *)
  request,     (* its path, tail and method, and what Transaction adds     *)
  node, at,    (* current_tree, and the segment that path points to        *)
  allow,       (* api_allow_flags                                          *)
  hit,         (* api_endpoint_hit                                         *)
  data,        (* api_internal_data: the transaction that saved it         *)
  turn         (* 0 and 1, from one transaction to the next                *)

treeVars == <<phase, request, node, at, allow, hit, data, turn>>

TreeInit ==
  /\ phase = "recv" /\ request = None /\ node = Root /\ at = 1
  /\ allow = {} /\ hit = None /\ data = None /\ turn = 0

-----------------------------------------------------------------------------
(* Memory as the walk sees it: the path, the tail, and whatever follows.   *)
Unknown == << "?" >>
Segment(k) ==
  LET string == request.path \o request.tail
  IN  IF k <= Len(string) THEN string[k] ELSE Unknown

(* Only slashes up to the end of the string that segment k is in.          *)
FinishedFault(k) == k >= Len(request.path)
Finished(k) ==
  IF k > Len(request.path) + Len(request.tail) THEN FALSE
  ELSE LET string == IF k <= Len(request.path) THEN request.path
                                                ELSE request.path \o request.tail
       IN  \A j \in k + 1 .. Len(string) : string[j] = <<>>

(* HEAD includes the flag of GET.                                          *)
Accepts(e) == e.method = IF request.method = "HEAD" THEN "GET" ELSE request.method

Hits(n, k) ==
  { i \in 1 .. Len(Entries[n]) :
      /\ Entries[n][i].prefix = Segment(k)
      /\ Entries[n][i].finishes => Finished(k) }

Taken(n, k) == { i \in Hits(n, k) : Accepts(Entries[n][i]) }
Methods(n, s) == { Entries[n][i].method : i \in s }

(* A subtree's length is its own, but the letters are those of the root's  *)
(* subtree of the same index; what lies behind the root's array may equal  *)
(* anything.                                                               *)
Compared(n, j, k) ==
  /\ Len(Prefix[Subtrees[n][j]]) = Len(Segment(k))
  /\ j <= Len(Subtrees[Root]) => IsPrefix(Segment(k), Prefix[Subtrees[Root][j]])
Certain(n, j, k) == Compared(n, j, k) /\ j <= Len(Subtrees[Root])

(* The subtrees the walk may enter: the first that compares equal.         *)
Entered(n, k) ==
  { j \in 1 .. Len(Subtrees[n]) :
      Compared(n, j, k) /\ \A i \in 1 .. j - 1 : ~ Certain(n, i, k) }
Leaves(n, k) == \A j \in 1 .. Len(Subtrees[n]) : ~ Certain(n, j, k)

-----------------------------------------------------------------------------
(* A request is parsed; serve_request begins at the root.                  *)
Receive(r) ==
  /\ phase = "recv"
  /\ phase' = IF hit = None THEN "parse" ELSE "serve"
  /\ request' = r /\ node' = Root /\ at' = 1
  /\ UNCHANGED <<allow, hit, data, turn>>

(* An endpoint that accepts the method: the flags of those before it are   *)
(* collected with its own.                                                 *)
Hit ==
  /\ phase = "parse" /\ Taken(node, at) # {}
  /\ LET first == Min(Taken(node, at))
     IN  /\ hit' = Entries[node][first].handler
         /\ allow' = allow \union Methods(node, {i \in Hits(node, at) : i <= first})
  /\ phase' = "serve"
  /\ UNCHANGED <<request, node, at, data, turn>>

AllowFault(n, k) == Methods(n, {Max(Hits(n, k))})
Allow(n, k) == Methods(n, Hits(n, k))

MethodRefused ==
  /\ phase = "parse" /\ Hits(node, at) # {} /\ Taken(node, at) = {}
  /\ allow' = allow \union Allow(node, at)
  /\ phase' = "prepare"
  /\ UNCHANGED <<request, node, at, hit, data, turn>>

Descend ==
  /\ phase = "parse" /\ Hits(node, at) = {}
  /\ \E j \in Entered(node, at) : node' = Subtrees[node][j]
  /\ at' = at + 1
  /\ UNCHANGED <<phase, request, allow, hit, data, turn>>

(* Nothing matched: the request is a static one.                           *)
NoMatch ==
  /\ phase = "parse" /\ Hits(node, at) = {} /\ Leaves(node, at)
  /\ phase' = "prepare"
  /\ UNCHANGED <<request, node, at, allow, hit, data, turn>>

(* The endpoint is called, and saves its state or does not; unless it sets *)
(* a status (done) it is called again.                                     *)
Call(done) ==
  /\ phase = "serve"
  /\ data' \in {data, turn}
  /\ phase' = IF done THEN "prepare" ELSE phase
  /\ UNCHANGED <<request, node, at, allow, hit, turn>>

(* The transaction is zeroed for the next one.                             *)
CleanupFault == allow' = {} /\ hit' = None /\ UNCHANGED data
Cleanup == allow' = {} /\ hit' = None /\ data' = None

NextTransaction ==
  /\ phase = "send"
  /\ phase' = "recv" /\ turn' = 1 - turn /\ Cleanup
  /\ request' = None /\ node' = Root /\ at' = 1

-----------------------------------------------------------------------------
(* The reference: the nodes that the first d segments lead to, and the     *)
(* endpoints of a node that are named by the next one.                     *)
path == request.path
ReachBy(p) ==
  LET To[d \in 0 .. Len(p)] ==
        IF d = 0 THEN {Root}
        ELSE { m \in Nodes \ {Root} :
                 Prefix[m] = p[d] /\ \E n \in To[d - 1] : m \in Range(Subtrees[n]) }
  IN  To
Reach == ReachBy(path)
Named(n, d) ==
  { i \in 1 .. Len(Entries[n]) :
      /\ Entries[n][i].prefix = path[d + 1]
      /\ Entries[n][i].finishes => \A j \in d + 2 .. Len(path) : path[j] = <<>> }
Levels == { d \in 0 .. Len(path) - 1 : \E n \in Reach[d] : Named(n, d) # {} }
Accepted(n, d) == { i \in Named(n, d) : Accepts(Entries[n][i]) }
Refused == phase = "prepare" /\ allow # {} /\ hit = None
Routed == phase \in {"serve", "prepare"}

(* A request is routed to the first endpoint of the first level that has   *)
(* one for its path and method, is refused with every method of that level *)
(* when it has none for the method, and is static when no level has any,   *)
(* unless its path ends inside the tree (kitserv_server_start(3)).  Where  *)
(* it ends there the walk goes on behind it; and "no match" in kitserv.h   *)
(* would let the subtrees be tried after a level without the method.       *)
RoutedRight ==
  Routed /\ (Levels # {} \/ Reach[Len(path)] = {}) =>
    IF Levels = {} THEN hit = None /\ ~ Refused
    ELSE \E n \in Reach[Min(Levels)] :
           LET took == Accepted(n, Min(Levels))
           IN  IF took # {} THEN hit = Entries[n][Min(took)].handler /\ ~ Refused
               ELSE /\ hit = None /\ Refused
                    /\ allow = Methods(n, Named(n, Min(Levels)))

(* What a transaction finds is its own: the walk starts from the zeroed    *)
(* state serve_request asserts, and an endpoint is given NULL or what it   *)
(* saved for this request, however often it was called for others.         *)
OwnState ==
  /\ phase = "parse" => data = None /\ hit = None /\ allow = {}
  /\ phase = "serve" => data \in {None, turn}

(* The trees whose letters the comparison knows: a subtree is called like  *)
(* the root's subtree of the same index, and those have different names.   *)
(* Every tree of one level is such a tree if its names differ.             *)
LettersAgree ==
  LET top == Subtrees[Root]
  IN  /\ \A n \in Nodes : \A j \in 1 .. Len(Subtrees[n]) :
           j <= Len(top) /\ Prefix[Subtrees[n][j]] = Prefix[top[j]]
      /\ \A i, j \in 1 .. Len(top) : Prefix[top[i]] = Prefix[top[j]] => i = j

(* In such a tree the walk is at the only node that the segments so far    *)
(* lead to, and has passed no endpoint that they name.                     *)
WalkOK ==
  phase = "parse" =>
    /\ \A d \in 0 .. Len(path) - 1 : d < at - 1 => \A n \in Reach[d] : Named(n, d) = {}
    /\ IF at <= Len(path) THEN Reach[at - 1] = {node} ELSE Reach[Len(path)] # {}

-----------------------------------------------------------------------------
(* kitserv_server_start(3): "Each subtree or entry contains a prefix field *)
(* which is compared against the current path element": an endpoint of     *)
(* the subtree the path names is found.                                    *)
NestedReached == Routed /\ Levels # {} => hit # None \/ Refused
=============================================================================
