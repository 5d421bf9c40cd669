----------------------------- MODULE MCDelivery -----------------------------
(* Delivery on a small instance: two jobs that compete for three tokens.   *)
EXTENDS Delivery, TLC

CONSTANTS i1, i2, t1, t2, t3

\* Jobs are interchangeable, and so are tokens.
Symmetry == Permutations({i1, i2}) \cup Permutations({t1, t2, t3})
=============================================================================
