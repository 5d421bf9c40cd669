------------------------------ MODULE MCStorage ------------------------------
(* The instances of Storage that the MCStorage_*.cfg files check. *)
EXTENDS Storage

CONSTANTS p1, p2

\* The payload of an ENQUEUE is longer than that of an ACK.
Bodies == [add |-> 2, done |-> 1]

Symmetric == Permutations(Proc)
=============================================================================
