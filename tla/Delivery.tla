------------------------------ MODULE Delivery ------------------------------
(***************************************************************************)
(* What a queue promises about deliveries, whatever it does inside: jobs   *)
(* are created, granted to one holder for a time, completed, retried after *)
(* a delay, given up on, revived and removed.                              *)
(*                                                                         *)
(* A grant [id, token, from, until] is the interval during which the       *)
(* holder of token could rely on having job id to itself.  Grants are      *)
(* never forgotten: they are what the promise is about.                    *)
(***************************************************************************)
EXTENDS Naturals

CONSTANTS
  Id,          \* jobs that may exist
  Token,       \* lease tokens
  NoToken,     \* the token of a job nobody holds
  Limits,      \* values of max_attempts
  Delays,      \* delays before a job is available
  Timeouts,    \* visibility timeouts, and what an extension adds
  MaxTime,     \* bound: the clock stops here
  Deadlines    \* bound: the deadlines there may be, Nat where there is no bound

ASSUME ConstantsAssumption ==
  /\ NoToken \notin Token
  /\ Limits \subseteq Nat \ {0}
  /\ Delays \subseteq Nat /\ Timeouts \subseteq Nat /\ MaxTime \in Nat
  /\ Deadlines \subseteq Nat

VARIABLES now, jobs, grants

vars == <<now, jobs, grants>>

Absent == [state |-> "absent", attempts |-> 0, limit |-> 0, available |-> 0,
           deadline |-> 0, token |-> NoToken]

Job == [state : {"absent", "ready", "leased", "done", "dead"}, attempts : Nat,
        limit : Nat, available : Nat, deadline : Nat, token : Token \cup {NoToken}]

Grant == [id : Id, token : Token, from : Nat, until : Nat]

Init == now = 0 /\ jobs = [i \in Id |-> Absent] /\ grants = {}

-----------------------------------------------------------------------------
(***************************************************************************)
(* One job's moves.  Released is the record of a job that stops being      *)
(* held.                                                                   *)
(***************************************************************************)
Released(j, state) == [j EXCEPT !.state = state, !.deadline = 0, !.token = NoToken]

Retried(j, delay) == [Released(j, "ready") EXCEPT !.available = now + delay]

\* Slip: at its very deadline a lease still counts.
LapsedLate(j) == j.state = "leased" /\ j.deadline < now

Lapsed(j) == j.state = "leased" /\ j.deadline <= now

\* Slip: a lease is reaped before its deadline.
ReapedEarly(j) ==
  IF j.state # "leased" THEN {}
  ELSE IF j.attempts >= j.limit THEN {Released(j, "dead")}
  ELSE {Retried(j, d) : d \in Delays}

\* A lease past its deadline is returned to the queue, or buried at its limit.
Reaped(j) ==
  IF ~Lapsed(j) THEN {}
  ELSE IF j.attempts >= j.limit THEN {Released(j, "dead")}
  ELSE {Retried(j, d) : d \in Delays}

Created ==
  {[state |-> "ready", attempts |-> 0, limit |-> l, available |-> now + d,
    deadline |-> 0, token |-> NoToken] : l \in Limits, d \in Delays}

\* Slip: a token may be drawn again.
Reusable == Token

\* A token is drawn once.
Unused == {t \in Token : \A g \in grants : g.token # t}

Leased(j, d, t) ==
  [j EXCEPT !.state = "leased", !.attempts = @ + 1, !.deadline = now + d, !.token = t]

Granted(j) == {Leased(j, d, t) : d \in Timeouts, t \in Unused}

\* Slip: the comparison is one off.
FailedLate(j) ==
  IF j.attempts > j.limit THEN {Released(j, "dead")}
  ELSE {Retried(j, d) : d \in Delays}

Failed(j) ==
  IF j.attempts >= j.limit THEN {Released(j, "dead")}
  ELSE {Retried(j, d) : d \in Delays}

Extended(j) == {[j EXCEPT !.deadline = @ + d] : d \in Timeouts}

Revived(j) == [Retried(j, 0) EXCEPT !.attempts = 0]

\* A lapsed lease has no move: it is reaped first.
Moves(j) ==
  CASE j.state = "absent" -> Created
    [] j.state = "ready" ->
         {Absent} \cup (IF j.available <= now THEN Granted(j) ELSE {})
    [] j.state = "leased" ->
         IF Lapsed(j) THEN {}
         ELSE {Absent, Released(j, "done")} \cup Failed(j) \cup Extended(j)
    [] j.state = "done" -> {Absent}
    [] j.state = "dead" -> {Absent, Revived(j)}

\* What a job may be once the lapsed leases are reaped, or some of them, and what
\* it may be once that job has made its move, if it makes one.
Swept(j) == {j} \cup Reaped(j)
Moved(j) == {j} \cup Moves(j)

-----------------------------------------------------------------------------
(***************************************************************************)
(* A step reaps, then moves any of the jobs.  A grant runs to the deadline *)
(* while its job is held under its token.  It ends now when a move takes   *)
(* the job from its holder (who completed or failed it, or an operator who *)
(* removed it); being reaped is no such move, the grant keeps its end.     *)
(***************************************************************************)
Until(g, mid) ==
  IF mid[g.id].token # g.token THEN g.until
  ELSE IF jobs'[g.id].token = g.token THEN jobs'[g.id].deadline
  ELSE now

NewlyHeld(mid) == {i \in Id : jobs'[i].token # NoToken /\ jobs'[i].token # mid[i].token}

StepThrough(mid) ==
  /\ jobs' \in {f \in [Id -> UNION {Moved(mid[i]) : i \in Id}] :
                  \A i \in Id : f[i] \in Moved(mid[i])}
  /\ \A i \in Id : jobs'[i].deadline \in Deadlines
  /\ \A i, k \in NewlyHeld(mid) : jobs'[i].token = jobs'[k].token => i = k
  /\ grants' = {[g EXCEPT !.until = Until(g, mid)] : g \in grants} \cup
               {[id |-> i, token |-> jobs'[i].token, from |-> now,
                 until |-> jobs'[i].deadline] : i \in NewlyHeld(mid)}
  /\ UNCHANGED now

Step ==
  \E mid \in {f \in [Id -> UNION {Swept(jobs[i]) : i \in Id}] :
                \A i \in Id : f[i] \in Swept(jobs[i])} : StepThrough(mid)

Tick == now < MaxTime /\ now' = now + 1 /\ UNCHANGED <<jobs, grants>>

Next == Step \/ Tick

Spec == Init /\ [][Next]_vars

-----------------------------------------------------------------------------
\* The types of the variables.
TypeOK == now \in Nat /\ jobs \in [Id -> Job] /\ grants \subseteq Grant

\* No two grants of one job overlap in time: until its deadline a holder has the
\* job to itself (_reap, _require_lease, lease).
Exclusive ==
  \A g, h \in grants : g.id = h.id /\ g # h => g.until <= h.from \/ h.until <= g.from

\* A job is never delivered more often than its limit since it was created or
\* last revived, and one that is available again has a delivery left.
AttemptsBounded ==
  \A i \in Id : /\ jobs[i].attempts <= jobs[i].limit
                /\ jobs[i].state = "ready" => jobs[i].attempts < jobs[i].limit

(***************************************************************************)
(* The inductive invariant: exactly the held jobs have a token; a held     *)
(* job's grant is there and runs to the deadline; every other grant is     *)
(* over; tokens are never reused.                                          *)
(***************************************************************************)
HeldIffToken == \A i \in Id : jobs[i].token # NoToken <=> jobs[i].state = "leased"

HeldHasGrant ==
  \A i \in Id : jobs[i].state = "leased" =>
    \E g \in grants : g.id = i /\ g.token = jobs[i].token

TokensUnique == \A g, h \in grants : g.token = h.token => g = h

GrantsStarted == \A g \in grants : g.from <= now

GrantsEnd ==
  \A g \in grants : IF jobs[g.id].token = g.token THEN g.until = jobs[g.id].deadline
                                                  ELSE g.until <= now

\* Nobody else's grant of a held job reaches into the holder's.
HolderIsLatest ==
  \A g, h \in grants :
    g.id = h.id /\ g # h /\ jobs[g.id].token = g.token => h.until <= g.from

IInv == /\ TypeOK /\ HeldIffToken /\ HeldHasGrant /\ TokensUnique
        /\ GrantsStarted /\ GrantsEnd /\ HolderIsLatest /\ Exclusive

\* A grant keeps its start, and one that has run out by the clock is never lengthened: a
\* lapsed lease cannot be extended (extend, _require_lease).
LapsedStaysLapsed ==
  [][\A g \in grants : g.until <= now =>
       \E h \in grants' : h.token = g.token /\ h.from = g.from /\ h.until <= g.until]_vars
=============================================================================
