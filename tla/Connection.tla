----------------------------- MODULE Connection -----------------------------
(***************************************************************************)
(* What a kitserv connection promises its peer, without buffers, states or *)
(* system calls: requests are answered one by one in the order they were   *)
(* sent, each once and not before enough of it has arrived, a response is  *)
(* delivered to its last unit before the next one begins, unless the file  *)
(* it is sent from turns out too short, and after a final one nothing      *)
(* follows.  ServeClient implements it.                                    *)
(***************************************************************************)
EXTENDS Naturals, Sequences, SequencesExt

CONSTANTS
  Need,         (* of each request: input that must be there to answer it  *)
  Final,        (* requests whose response ends the connection             *)
  MayCut        (* requests whose response may be cut short                *)

VARIABLES
  arrived,      (* units of input the peer has sent                        *)
  promised,     (* units of all responses begun, tagged with the request   *)
  delivered,    (* units the peer's socket has taken                       *)
  live          (* the connection has not been closed                      *)

vars == <<arrived, promised, delivered, live>>

Init == arrived = 0 /\ promised = <<>> /\ delivered = <<>> /\ live = TRUE

begun == IF promised = <<>> THEN 0 ELSE Last(promised)[1]
Whole == delivered = promised

Arrive ==
  /\ live /\ arrived' = arrived + 1
  /\ UNCHANGED <<promised, delivered, live>>

(* The response to the next request, of any length.                        *)
Begin ==
  /\ live /\ Whole /\ begun \notin Final
  /\ begun + 1 \in DOMAIN Need /\ Need[begun + 1] <= arrived
  /\ IsStrictPrefix(promised, promised')
  /\ \A k \in Len(promised) + 1 .. Len(promised') : promised'[k][1] = begun + 1
  /\ UNCHANGED <<arrived, delivered, live>>

Deliver ==
  /\ live
  /\ IsStrictPrefix(delivered, delivered') /\ IsPrefix(delivered', promised)
  /\ UNCHANGED <<arrived, promised, live>>

Cut ==
  /\ live /\ begun \in MayCut
  /\ ~ Whole /\ promised' = delivered
  /\ UNCHANGED <<arrived, delivered, live>>

(* Either side may give up at any time.                                    *)
Close ==
  /\ live /\ live' = FALSE
  /\ UNCHANGED <<arrived, promised, delivered>>

Next == Arrive \/ Begin \/ Deliver \/ Cut \/ Close
Spec == Init /\ [][Next]_vars
=============================================================================
