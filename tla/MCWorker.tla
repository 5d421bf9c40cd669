------------------------------ MODULE MCWorker ------------------------------
(* The instances of Worker that the MCWorker_*.cfg files check. *)
EXTENDS Worker

CONSTANTS i1, i2, w1, w2, w3, x1, t1, t2

\* Bound: the deadlines that beats, each adding a time-out, reach by MaxTime.
UpTo48 == 0..48
=============================================================================
