------------------------------- MODULE MCLock --------------------------------
(* The instances of Lock that the MCLock_*.cfg files check. *)
EXTENDS Lock

CONSTANTS p1, p2, t1, t2, t3, d1, d2, d3

\* Two threads in one process, one in the other.
Homes == [t \in Thread |-> IF t = t3 THEN p2 ELSE p1]
=============================================================================
