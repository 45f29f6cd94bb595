------------------------------ MODULE MCBuffer ------------------------------
(* Lengths for the runs of Buffer.                                         *)
EXTENDS Buffer
Short == 1 .. 5
Long == 1 .. 9
=============================================================================
