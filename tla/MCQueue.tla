------------------------------- MODULE MCQueue -------------------------------
(* The instances of Queue that the MCQueue_*.cfg files check. *)
EXTENDS QueueProperties

CONSTANTS p1, p2, a, b, c

Call(ids, priority, delay, limit) ==
  [ids |-> ids, priority |-> priority, delay |-> delay, limit |-> limit]

\* One job at a time; b outranks a, and c comes later.
Ranked == {Call(<<a>>, 0, 0, 2), Call(<<b>>, 1, 0, 2), Call(<<c>>, 1, 1, 2)}

\* Two jobs in one call, the first also alone.
Paired == {Call(<<a, b>>, 0, 0, 2), Call(<<a>>, 0, 0, 2)}
Single == {Call(<<a>>, 0, 0, 2)}
Fragile == {Call(<<a>>, 0, 0, 1)}
Mixed == Single \cup Fragile

\* Processes are interchangeable.
Symmetry == Permutations({p1, p2})
=============================================================================
