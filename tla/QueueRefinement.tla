--------------------------- MODULE QueueRefinement ---------------------------
(***************************************************************************)
(* Queue implements Delivery: the jobs of Delivery are those the log       *)
(* describes, its grants are what the history of records says of each      *)
(* lease.  view is a history variable that holds both; it only spares TLC  *)
(* computing them at every mention.                                        *)
(***************************************************************************)
EXTENDS QueueProperties

CONSTANT Tokens      \* the lease tokens there may be: 1, 2, ... where there is no bound

ASSUME TokensAssumption == Tokens \subseteq Nat \ {0}

VARIABLE view

Lowercase == [s \in States |->
  CASE s = "READY" -> "ready" [] s = "LEASED" -> "leased"
    [] s = "DONE" -> "done" [] s = "DEAD" -> "dead"]

DeliveryJobs(jobs) ==
  [id \in JobId |->
     IF id \notin DOMAIN jobs
     THEN [state |-> "absent", attempts |-> 0, limit |-> 0, available |-> 0,
           deadline |-> 0, token |-> None]
     ELSE [state     |-> Lowercase[jobs[id].state],
           attempts  |-> jobs[id].attempts,
           limit     |-> jobs[id].max_attempts,
           available |-> jobs[id].available_at,
           deadline  |-> IF jobs[id].state = "LEASED" THEN jobs[id].lease_deadline ELSE 0,
           token     |-> jobs[id].lease_token]]

\* A reap, as the history records it.
Expiry(r) == r.type = "RECLAIM" \/ (r.type = "DEAD" /\ r.error = "expired")

\* When the lease at position i of history h ends: at the deadline it was given
\* last, unless a record other than a reap took the job from its holder before.
GrantEnd(h, i) ==
  LET after(types) == {k \in At(h, types, h[i].id) : k > i}
      ends         == after({"ACK", "NACK", "RECLAIM", "DEAD", "PURGE"})
      extended     == {k \in after({"EXTEND"}) : \A e \in ends : k < e}
      deadline     == h[Max({i} \cup extended)].deadline
  IN IF ends = {} \/ Expiry(h[Min(ends)]) THEN deadline ELSE h[Min(ends)].at

DeliveryGrants(h) ==
  {[id |-> h[i].id, token |-> h[i].token, from |-> h[i].at, until |-> GrantEnd(h, i)] :
     i \in {k \in DOMAIN h : h[k].type = "LEASE"}}

ViewOf(recs, h) ==
  [jobs |-> The({DeliveryJobs(jobs) : jobs \in {Replay(EmptyIndex, recs).jobs}}), grants |-> DeliveryGrants(h)]

RInit == Init /\ view = ViewOf(log.recs, History)

RNext == Next /\ \E recs \in {log.recs'}, h \in {History'} : view' = ViewOf(recs, h)

RSpec == RInit /\ [][RNext]_<<vars, view>>

D == INSTANCE Delivery WITH
       Id <- JobId, Token <- Tokens, NoToken <- None,
       Limits <- {b.limit : b \in Batches},
       Delays <- 0..MaxDelay \cup NackDelays \cup {b.delay : b \in Batches},
       Timeouts <- Timeouts \cup Extensions,
       Deadlines <- Nat,
       jobs <- view.jobs, grants <- view.grants

\* Every operation of a queue, with the reaping that precedes it, is a step of
\* Delivery: deliveries are exclusive, bounded in number, and never of a job that
\* is finished, delayed or held; a job is completed or renewed only while its lease runs.
ImplementsDelivery == D!Spec
=============================================================================
