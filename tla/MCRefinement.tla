---------------------------- MODULE MCRefinement ----------------------------
(* The instances of MCQueue, run with the history variable of the refinement. *)
EXTENDS MCQueue, QueueRefinement
=============================================================================
