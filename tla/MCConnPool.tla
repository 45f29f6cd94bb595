----------------------------- MODULE MCConnPool -----------------------------
(* Instances of ConnPool for TLC.                                          *)
EXTENDS ConnPool, TLC

(* A heap that reads as zeroes, and one with anything in it.               *)
ZeroHeap == {NULL}
AnyHeap  == {NULL, Wild}

(* The threads of an accepter and the numbers of descriptors are           *)
(* interchangeable.  Only for runs without liveness properties.            *)
Symmetry == Permutations(Accepters) \union Permutations(Fds)
=============================================================================
