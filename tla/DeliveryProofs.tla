--------------------------- MODULE DeliveryProofs ---------------------------
(***************************************************************************)
(* Proofs about Delivery, for every set of jobs and tokens: grants of one  *)
(* job never overlap, a lapsed grant is never lengthened, and no job is    *)
(* delivered beyond its limit.                                             *)
(*                                                                         *)
(* A step takes each job j to some m (reaped or not) and on to some k      *)
(* (moved or not).  SweptFacts and MovedFacts say what that does to one    *)
(* job's token and deadline; JobStep puts the two together; GrantStep      *)
(* turns them into what happens to one grant; the invariant follows        *)
(* conjunct by conjunct.                                                   *)
(***************************************************************************)
EXTENDS Delivery, TLAPS

\* A job has a token exactly while it is leased.
WellHeld(j) == j.token # NoToken <=> j.state = "leased"

\* A job that is released is typed and has no token.
LEMMA ReleasedFacts ==
  ASSUME NEW j \in Job, NEW state \in {"ready", "done", "dead"}
  PROVE  /\ Released(j, state) \in Job
         /\ Released(j, state).token = NoToken /\ Released(j, state).state = state
BY DEF Released, Job

\* So is a job that is returned to the queue.
LEMMA RetriedFacts ==
  ASSUME now \in Nat, NEW j \in Job, NEW d \in Nat
  PROVE  /\ Retried(j, d) \in Job
         /\ Retried(j, d).token = NoToken /\ Retried(j, d).state = "ready"
<1> DEFINE r == Released(j, "ready")
<1>1. r \in Job /\ r.token = NoToken /\ r.state = "ready"
  BY ReleasedFacts
<1>2. Retried(j, d) = [r EXCEPT !.available = now + d]
  BY DEF Retried
<1>3. now + d \in Nat
  OBVIOUS
<1> HIDE DEF r
<1> QED
  BY <1>1, <1>2, <1>3 DEF Job

\* A job that is leased is typed and has the token and the deadline it was given.
LEMMA LeasedFacts ==
  ASSUME now \in Nat, NEW j \in Job, NEW d \in Nat, NEW t \in Token
  PROVE  LET k == Leased(j, d, t)
         IN  /\ k \in Job /\ k.state = "leased" /\ k.attempts = j.attempts + 1
             /\ k.limit = j.limit /\ k.token = t /\ k.deadline = now + d
<1>1. j.attempts + 1 \in Nat /\ now + d \in Nat
  BY DEF Job
<1> QED
  BY <1>1 DEF Leased, Job

\* Reaping keeps a job as it is, or takes a lapsed one from its holder (_reap).
LEMMA SweptFacts ==
  ASSUME now \in Nat, NEW j \in Job, WellHeld(j), NEW m \in Swept(j)
  PROVE  /\ m \in Job /\ WellHeld(m)
         /\ m = j \/ (m.token = NoToken /\ j.deadline <= now)
<1>1. CASE m = j
  BY <1>1
<1>2. CASE m = Released(j, "dead") /\ Lapsed(j)
  BY <1>2, ReleasedFacts DEF Lapsed, WellHeld
<1>3. CASE \E d \in Delays : m = Retried(j, d) /\ Lapsed(j)
  <2>1. PICK d \in Delays : m = Retried(j, d) /\ Lapsed(j)
    BY <1>3
  <2>2. d \in Nat
    BY ConstantsAssumption
  <2> QED
    BY <2>1, <2>2, RetriedFacts DEF Lapsed, WellHeld
<1> QED
  BY <1>1, <1>2, <1>3 DEF Swept, Reaped

\* What a move does to a job's token: keep it (and the deadline too, once that has
\* passed), drop it before the deadline, or set one that was never used before.
LEMMA MovedFacts ==
  ASSUME now \in Nat, NEW m \in Job, WellHeld(m), NEW k \in Moved(m)
  PROVE  /\ k \in Job /\ WellHeld(k)
         /\ \/ /\ k.token = m.token
               /\ k.token = NoToken \/ k = m \/ m.deadline > now
            \/ /\ k.token = NoToken /\ m.deadline > now
            \/ /\ m.token = NoToken /\ k.token \in Token /\ k.deadline >= now
               /\ \A g \in grants : g.token # k.token
<1> USE ConstantsAssumption
<1>1. CASE k = m
  BY <1>1
<1>2. CASE k \in Created /\ m.state = "absent"
  <2>1. PICK l \in Limits, d \in Delays :
          k = [state |-> "ready", attempts |-> 0, limit |-> l, available |-> now + d,
               deadline |-> 0, token |-> NoToken]
    BY <1>2 DEF Created
  <2>2. l \in Nat /\ now + d \in Nat
    OBVIOUS
  <2>3. k \in Job /\ k.token = NoToken /\ k.state = "ready"
    BY <2>1, <2>2 DEF Job
  <2> QED
    BY <1>2, <2>3 DEF WellHeld
<1>3. CASE k = Absent /\ m.state \in {"ready", "done", "dead"}
  BY <1>3 DEF Absent, Job, WellHeld
<1>4. CASE k \in Granted(m) /\ m.state = "ready"
  <2>1. PICK d \in Timeouts, t \in Unused : k = Leased(m, d, t)
    BY <1>4 DEF Granted
  <2>2. /\ now + d \in Nat /\ now + d >= now
        /\ t \in Token /\ t # NoToken /\ \A g \in grants : g.token # t
    BY DEF Unused
  <2>3. k \in Job /\ k.token = t /\ k.state = "leased" /\ k.deadline = now + d
    BY <2>1, <2>2, LeasedFacts
  <2> QED
    BY <1>4, <2>1, <2>2, <2>3 DEF WellHeld
<1>5. CASE m.state = "leased" /\ ~Lapsed(m) /\ k \in {Absent, Released(m, "done")}
  <2>1. k \in Job /\ k.token = NoToken /\ k.state # "leased"
    BY <1>5, ReleasedFacts DEF Absent, Job
  <2> QED
    BY <1>5, <2>1 DEF Lapsed, Job, WellHeld
<1>6. CASE m.state = "leased" /\ ~Lapsed(m) /\ k \in Failed(m)
  <2>1. k = Released(m, "dead") \/ \E d \in Delays : k = Retried(m, d)
    BY <1>6 DEF Failed
  <2>2. \A d \in Delays : d \in Nat
    OBVIOUS
  <2>3. k \in Job /\ k.token = NoToken /\ k.state # "leased"
    BY <2>1, <2>2, ReleasedFacts, RetriedFacts
  <2> QED
    BY <1>6, <2>3 DEF Lapsed, Job, WellHeld
<1>7. CASE m.state = "leased" /\ ~Lapsed(m) /\ k \in Extended(m)
  <2>1. PICK d \in Timeouts : k = [m EXCEPT !.deadline = @ + d]
    BY <1>7 DEF Extended
  <2>2. m.deadline \in Nat /\ m.deadline + d \in Nat
    BY DEF Job
  <2>3. k \in Job /\ k.token = m.token /\ k.state = m.state
    BY <2>1, <2>2 DEF Job
  <2> QED
    BY <1>7, <2>2, <2>3 DEF Lapsed, WellHeld
<1>8. CASE m.state = "dead" /\ k = Revived(m)
  <2> DEFINE r == Retried(m, 0)
  <2>1. r \in Job /\ r.token = NoToken /\ r.state = "ready"
    BY RetriedFacts
  <2>2. k = [r EXCEPT !.attempts = 0]
    BY <1>8 DEF Revived
  <2> HIDE DEF r
  <2>3. k \in Job /\ k.token = NoToken /\ k.state = "ready"
    BY <2>1, <2>2 DEF Job
  <2> QED
    BY <1>8, <2>3 DEF WellHeld
<1> QED
  <2> m.state \in {"absent", "ready", "leased", "done", "dead"}
    BY DEF Job
  <2> QED
    BY <1>1, <1>2, <1>3, <1>4, <1>5, <1>6, <1>7, <1>8 DEF Moved, Moves

-----------------------------------------------------------------------------
\* The part of the invariant that speaks of jobs and of one grant at a time.
HeldInv == TypeOK /\ HeldIffToken /\ TokensUnique /\ GrantsStarted /\ GrantsEnd

\* The states a step may pass through.
Sweeps == {f \in [Id -> UNION {Swept(jobs[i]) : i \in Id}] :
             \A i \in Id : f[i] \in Swept(jobs[i])}

Renewed(g, mid) == [g EXCEPT !.until = Until(g, mid)]

NewGrant(i) == [id |-> i, token |-> jobs'[i].token, from |-> now,
                until |-> jobs'[i].deadline]

\* One job through a step: its new state is typed, and its token is kept, dropped
\* or fresh.
LEMMA JobStep ==
  ASSUME HeldInv, NEW mid \in Sweeps, StepThrough(mid), NEW i \in Id
  PROVE  /\ jobs'[i] \in Job /\ WellHeld(jobs'[i])
         /\ mid[i] = jobs[i] \/ (mid[i].token = NoToken /\ jobs[i].deadline <= now)
         /\ \/ /\ jobs'[i].token = mid[i].token
               /\ jobs'[i].token = NoToken \/ jobs'[i] = mid[i] \/ mid[i].deadline > now
            \/ /\ jobs'[i].token = NoToken /\ mid[i].deadline > now
            \/ /\ mid[i].token = NoToken /\ jobs'[i].token \in Token
               /\ jobs'[i].deadline >= now
               /\ \A g \in grants : g.token # jobs'[i].token
<1>1. now \in Nat /\ jobs[i] \in Job /\ WellHeld(jobs[i]) /\ mid[i] \in Swept(jobs[i])
  BY DEF HeldInv, TypeOK, HeldIffToken, WellHeld, Sweeps
<1>2. /\ mid[i] \in Job /\ WellHeld(mid[i])
      /\ mid[i] = jobs[i] \/ (mid[i].token = NoToken /\ jobs[i].deadline <= now)
  BY <1>1, SweptFacts
<1>3. jobs'[i] \in Moved(mid[i])
  BY DEF StepThrough
<1> QED
  BY <1>1, <1>2, <1>3, MovedFacts

\* One grant through a step: it stays the current one and runs to the deadline, or
\* it is over by now; one that was over keeps its end, and so does one whose end
\* has come.
LEMMA GrantStep ==
  ASSUME HeldInv, NEW mid \in Sweeps, StepThrough(mid), NEW g \in grants
  PROVE  /\ Until(g, mid) \in Nat
         /\ jobs'[g.id].token = g.token =>
              /\ jobs[g.id].token = g.token
              /\ Until(g, mid) = jobs'[g.id].deadline
         /\ jobs'[g.id].token # g.token => Until(g, mid) <= now
         /\ jobs[g.id].token # g.token => Until(g, mid) = g.until
         /\ g.until <= now => Until(g, mid) <= g.until
<1> DEFINE i == g.id
<1>1. /\ g \in Grant /\ i \in Id /\ g.token \in Token /\ g.token # NoToken
      /\ g.until \in Nat /\ now \in Nat /\ jobs[i] \in Job
  BY ConstantsAssumption DEF HeldInv, TypeOK, Grant
<1>2. IF jobs[i].token = g.token THEN g.until = jobs[i].deadline ELSE g.until <= now
  BY DEF HeldInv, GrantsEnd
<1>3. /\ jobs'[i] \in Job
      /\ mid[i] = jobs[i] \/ (mid[i].token = NoToken /\ jobs[i].deadline <= now)
      /\ \/ /\ jobs'[i].token = mid[i].token
            /\ jobs'[i].token = NoToken \/ jobs'[i] = mid[i] \/ mid[i].deadline > now
         \/ /\ jobs'[i].token = NoToken /\ mid[i].deadline > now
         \/ /\ mid[i].token = NoToken /\ jobs'[i].token # g.token
  BY <1>1, JobStep
<1>4. jobs[i].deadline \in Nat /\ jobs'[i].deadline \in Nat
  BY <1>1, <1>3 DEF Job
<1>5. CASE mid[i].token # g.token
  <2>1. Until(g, mid) = g.until /\ jobs'[i].token # g.token
    BY <1>1, <1>3, <1>5 DEF Until
  <2>2. g.until <= now
    BY <1>2, <1>3, <1>5
  <2> QED
    BY <1>1, <2>1, <2>2
<1>6. CASE mid[i].token = g.token
  <2>1. mid[i] = jobs[i] /\ jobs[i].token = g.token /\ g.until = jobs[i].deadline
    BY <1>1, <1>2, <1>3, <1>6
  <2>2. CASE jobs'[i].token = g.token
    BY <1>1, <1>3, <1>4, <1>6, <2>1, <2>2 DEF Until
  <2>3. CASE jobs'[i].token # g.token
    <3>1. Until(g, mid) = now
      BY <1>6, <2>3 DEF Until
    <3>2. jobs[i].deadline > now
      BY <1>1, <1>3, <1>6, <2>1, <2>3
    <3> QED
      BY <1>1, <1>4, <2>1, <2>3, <3>1, <3>2
  <2> QED
    BY <2>2, <2>3
<1> QED
  BY <1>5, <1>6

\* A grant that was there keeps all but its end.
LEMMA RenewedFacts ==
  ASSUME HeldInv, NEW mid \in Sweeps, StepThrough(mid), NEW g \in grants
  PROVE  LET r == Renewed(g, mid)
         IN  /\ r \in grants' /\ r \in Grant
             /\ r.id = g.id /\ r.token = g.token /\ r.from = g.from
             /\ r.until = Until(g, mid)
<1>1. Until(g, mid) \in Nat
  BY GrantStep
<1>2. g \in Grant
  BY DEF HeldInv, TypeOK
<1>3. Renewed(g, mid) \in grants'
  BY DEF StepThrough, Renewed
<1> QED
  BY <1>1, <1>2, <1>3 DEF Renewed, Grant

\* A new grant starts now under a token no grant has had, and runs to the deadline;
\* every earlier grant of the job is over by now.
LEMMA NewGrantFacts ==
  ASSUME HeldInv, NEW mid \in Sweeps, StepThrough(mid), NEW i \in NewlyHeld(mid)
  PROVE  LET n == NewGrant(i)
         IN  /\ i \in Id /\ n \in grants' /\ n \in Grant
             /\ n.id = i /\ n.token = jobs'[i].token /\ n.from = now
             /\ n.until = jobs'[i].deadline
             /\ \A g \in grants : g.token # n.token
             /\ \A g \in grants : g.id = i => Until(g, mid) <= now
<1>1. i \in Id /\ jobs'[i].token # NoToken /\ jobs'[i].token # mid[i].token
  BY DEF NewlyHeld
<1>2. /\ jobs'[i] \in Job /\ jobs'[i].token \in Token
      /\ \A g \in grants : g.token # jobs'[i].token
  BY <1>1, JobStep
<1>3. now \in Nat /\ jobs'[i].deadline \in Nat
  BY <1>2 DEF Job, HeldInv, TypeOK
<1>4. NewGrant(i) \in grants'
  BY DEF StepThrough, NewGrant
<1>5. ASSUME NEW g \in grants, g.id = i PROVE Until(g, mid) <= now
  BY <1>2, <1>5, GrantStep
<1> QED
  BY <1>1, <1>2, <1>3, <1>4, <1>5 DEF NewGrant, Grant

\* Every grant after a step is a renewed one or a new one.
LEMMA GrantsAfter ==
  ASSUME NEW mid \in Sweeps, StepThrough(mid), NEW g \in grants'
  PROVE  \/ \E o \in grants : g = Renewed(o, mid)
         \/ \E i \in NewlyHeld(mid) : g = NewGrant(i)
BY DEF StepThrough, Renewed, NewGrant

-----------------------------------------------------------------------------
\* A step preserves the invariant.
LEMMA StepInv ==
  ASSUME IInv, NEW mid \in Sweeps, StepThrough(mid)
  PROVE  IInv'
<1>1. HeldInv
  BY DEF IInv, HeldInv
<1>2. now' = now /\ now \in Nat
  BY <1>1 DEF StepThrough, HeldInv, TypeOK
<1>3. TypeOK'
  <2>1. jobs' \in [Id -> Job]
    <3>1. \A i \in Id : jobs'[i] \in Job
      BY <1>1, JobStep
    <3>2. jobs' = [i \in Id |-> jobs'[i]]
      BY DEF StepThrough
    <3> QED
      BY <3>1, <3>2
  <2>2. ASSUME NEW g \in grants' PROVE g \in Grant
    BY <1>1, GrantsAfter, RenewedFacts, NewGrantFacts
  <2> QED
    BY <1>2, <2>1, <2>2 DEF TypeOK
<1>4. HeldIffToken'
  BY <1>1, JobStep DEF HeldIffToken, WellHeld
<1>5. HeldHasGrant'
  <2> SUFFICES ASSUME NEW i \in Id, jobs'[i].state = "leased"
               PROVE  \E g \in grants' : g.id = i /\ g.token = jobs'[i].token
    BY DEF HeldHasGrant
  <2>1. jobs'[i].token # NoToken
    BY <1>4 DEF HeldIffToken
  <2>2. CASE i \in NewlyHeld(mid)
    BY <1>1, <2>2, NewGrantFacts
  <2>3. CASE i \notin NewlyHeld(mid)
    <3>1. jobs'[i].token = mid[i].token
      BY <2>1, <2>3 DEF NewlyHeld
    <3>2. mid[i] = jobs[i]
      BY <1>1, <2>1, <3>1, JobStep
    <3>3. PICK g \in grants : g.id = i /\ g.token = jobs[i].token
      BY <2>1, <3>1, <3>2 DEF IInv, HeldHasGrant, HeldIffToken
    <3> QED
      BY <1>1, <3>1, <3>2, <3>3, RenewedFacts
  <2> QED
    BY <2>2, <2>3
<1>6. TokensUnique'
  <2> SUFFICES ASSUME NEW g \in grants', NEW h \in grants', g.token = h.token
               PROVE  g = h
    BY DEF TokensUnique
  <2>1. CASE \E o, p \in grants : g = Renewed(o, mid) /\ h = Renewed(p, mid)
    BY <1>1, <2>1, RenewedFacts DEF HeldInv, TokensUnique
  <2>2. CASE \E o \in grants, i \in NewlyHeld(mid) :
               {g, h} = {Renewed(o, mid), NewGrant(i)}
    <3>1. PICK o \in grants, i \in NewlyHeld(mid) :
            {g, h} = {Renewed(o, mid), NewGrant(i)}
      BY <2>2
    <3>2. Renewed(o, mid).token # NewGrant(i).token
      BY <1>1, RenewedFacts, NewGrantFacts
    <3> QED
      BY <3>1, <3>2
  <2>3. CASE \E i, k \in NewlyHeld(mid) : g = NewGrant(i) /\ h = NewGrant(k)
    <3>1. PICK i, k \in NewlyHeld(mid) : g = NewGrant(i) /\ h = NewGrant(k)
      BY <2>3
    <3>2. jobs'[i].token = jobs'[k].token
      BY <1>1, <3>1, NewGrantFacts
    <3>3. i = k
      BY <3>2 DEF StepThrough
    <3> QED
      BY <3>1, <3>3
  <2> QED
    BY <2>1, <2>2, <2>3, GrantsAfter
<1>7. GrantsStarted'
  <2> SUFFICES ASSUME NEW g \in grants' PROVE g.from <= now
    BY <1>2 DEF GrantsStarted
  <2>1. CASE \E o \in grants : g = Renewed(o, mid)
    BY <1>1, <2>1, RenewedFacts DEF HeldInv, GrantsStarted
  <2>2. CASE \E i \in NewlyHeld(mid) : g = NewGrant(i)
    BY <1>1, <1>2, <2>2, NewGrantFacts
  <2> QED
    BY <2>1, <2>2, GrantsAfter
<1>8. GrantsEnd'
  <2> SUFFICES ASSUME NEW g \in grants'
               PROVE  IF jobs'[g.id].token = g.token THEN g.until = jobs'[g.id].deadline
                                                     ELSE g.until <= now
    BY <1>2 DEF GrantsEnd
  <2>1. CASE \E o \in grants : g = Renewed(o, mid)
    BY <1>1, <2>1, RenewedFacts, GrantStep
  <2>2. CASE \E i \in NewlyHeld(mid) : g = NewGrant(i)
    BY <1>1, <2>2, NewGrantFacts
  <2> QED
    BY <2>1, <2>2, GrantsAfter
\* The grant of a job's holder, renewed or new, comes after all others of that job.
<1>9. HolderIsLatest'
  <2> SUFFICES ASSUME NEW g \in grants', NEW h \in grants', g.id = h.id, g # h,
                      jobs'[g.id].token = g.token
               PROVE  h.until <= g.from
    BY DEF HolderIsLatest
  <2>1. CASE \E o \in grants : g = Renewed(o, mid)
    <3>1. PICK o \in grants : g = Renewed(o, mid)
      BY <2>1
    <3>2. g.id = o.id /\ g.token = o.token /\ g.from = o.from /\ jobs[o.id].token = o.token
      BY <1>1, <3>1, RenewedFacts, GrantStep
    <3>3. ASSUME NEW i \in NewlyHeld(mid), h = NewGrant(i) PROVE FALSE
      <4>1. h.id = i /\ h.token = jobs'[i].token /\ o.token # h.token
        BY <1>1, <3>3, NewGrantFacts
      <4> QED
        BY <3>2, <4>1
    <3>4. PICK p \in grants : h = Renewed(p, mid)
      BY <3>3, GrantsAfter
    <3>5. h.id = p.id /\ h.until = Until(p, mid) /\ p # o /\ p.id = o.id
      BY <1>1, <3>1, <3>2, <3>4, RenewedFacts
    <3>6. p.token # o.token
      BY <3>5 DEF IInv, TokensUnique
    <3>7. Until(p, mid) = p.until
      BY <1>1, <3>2, <3>5, <3>6, GrantStep
    <3>8. p.until <= o.from
      BY <3>2, <3>5 DEF IInv, HolderIsLatest
    <3> QED
      BY <3>2, <3>5, <3>7, <3>8
  <2>2. CASE \E i \in NewlyHeld(mid) : g = NewGrant(i)
    <3>1. PICK i \in NewlyHeld(mid) : g = NewGrant(i)
      BY <2>2
    <3>2. g.id = i /\ g.from = now
      BY <1>1, <3>1, NewGrantFacts
    <3>3. \A k \in NewlyHeld(mid) : h # NewGrant(k)
      BY <1>1, <3>1, <3>2, NewGrantFacts
    <3>4. PICK p \in grants : h = Renewed(p, mid)
      BY <3>3, GrantsAfter
    <3>5. p.id = i /\ h.until = Until(p, mid)
      BY <1>1, <3>2, <3>4, RenewedFacts
    <3>6. Until(p, mid) <= now
      BY <1>1, <3>5, NewGrantFacts
    <3> QED
      BY <3>2, <3>5, <3>6
  <2> QED
    BY <2>1, <2>2, GrantsAfter
\* Two grants of one job: the holder's comes last, and those of former holders do
\* not change, except that the last holder's may just have been cut short.
<1>10. Exclusive'
  <2> SUFFICES ASSUME NEW g \in grants', NEW h \in grants', g.id = h.id, g # h
               PROVE  g.until <= h.from \/ h.until <= g.from
    BY DEF Exclusive
  <2>1. CASE \E i \in NewlyHeld(mid) : g = NewGrant(i)
    BY <1>1, <1>9, <2>1, NewGrantFacts DEF HolderIsLatest
  <2>2. CASE \E i \in NewlyHeld(mid) : h = NewGrant(i)
    BY <1>1, <1>9, <2>2, NewGrantFacts DEF HolderIsLatest
  <2>3. CASE \E o, p \in grants : g = Renewed(o, mid) /\ h = Renewed(p, mid)
    <3>1. PICK o, p \in grants : g = Renewed(o, mid) /\ h = Renewed(p, mid)
      BY <2>3
    <3>2. /\ g.id = o.id /\ g.from = o.from /\ g.until = Until(o, mid)
          /\ h.id = p.id /\ h.from = p.from /\ h.until = Until(p, mid)
          /\ o.id = p.id /\ o # p
      BY <1>1, <3>1, RenewedFacts
    <3>3. o.token # p.token
      BY <3>2 DEF IInv, TokensUnique
    <3>4. CASE jobs[o.id].token = o.token
      <4>1. p.until <= o.from
        BY <3>2, <3>4 DEF IInv, HolderIsLatest
      <4>2. Until(p, mid) = p.until
        BY <1>1, <3>2, <3>3, <3>4, GrantStep
      <4> QED
        BY <3>2, <4>1, <4>2
    <3>5. CASE jobs[p.id].token = p.token
      <4>1. o.until <= p.from
        BY <3>2, <3>5 DEF IInv, HolderIsLatest
      <4>2. Until(o, mid) = o.until
        BY <1>1, <3>2, <3>3, <3>5, GrantStep
      <4> QED
        BY <3>2, <4>1, <4>2
    <3>6. CASE jobs[o.id].token # o.token /\ jobs[p.id].token # p.token
      <4>1. Until(o, mid) = o.until /\ Until(p, mid) = p.until
        BY <1>1, <3>6, GrantStep
      <4>2. o.until <= p.from \/ p.until <= o.from
        BY <3>2 DEF IInv, Exclusive
      <4> QED
        BY <3>2, <4>1, <4>2
    <3> QED
      BY <3>4, <3>5, <3>6
  <2> QED
    BY <2>1, <2>2, <2>3, GrantsAfter
<1> QED
  BY <1>3, <1>4, <1>5, <1>6, <1>7, <1>8, <1>9, <1>10 DEF IInv

\* So does the passing of time.
LEMMA TickInv ==
  ASSUME IInv, Tick
  PROVE  IInv'
<1>1. jobs' = jobs /\ grants' = grants /\ now' = now + 1 /\ now \in Nat
  BY DEF Tick, IInv, TypeOK
<1>2. \A g \in grants : g.from \in Nat /\ g.until \in Nat /\ g.from <= now'
  BY <1>1 DEF IInv, TypeOK, Grant, GrantsStarted
<1>3. GrantsEnd'
  <2> SUFFICES ASSUME NEW g \in grants, jobs[g.id].token # g.token
               PROVE  g.until <= now + 1
    BY <1>1 DEF IInv, GrantsEnd
  <2>1. g.until <= now
    BY DEF IInv, GrantsEnd
  <2> QED
    BY <1>1, <1>2, <2>1
<1> QED
  BY <1>1, <1>2, <1>3 DEF IInv, TypeOK, HeldIffToken, HeldHasGrant, TokensUnique,
                          GrantsStarted, HolderIsLatest, Exclusive

\* The initial state: no job, no grant.
LEMMA InitInv == Init => IInv
BY ConstantsAssumption
DEF Init, IInv, TypeOK, Job, Absent, HeldIffToken, HeldHasGrant, TokensUnique,
    GrantsStarted, GrantsEnd, HolderIsLatest, Exclusive

\* The invariant is inductive.
LEMMA NextInv == IInv /\ [Next]_vars => IInv'
<1> SUFFICES ASSUME IInv, [Next]_vars PROVE IInv'
  OBVIOUS
<1>1. CASE Step
  <2>1. PICK mid \in Sweeps : StepThrough(mid)
    BY <1>1 DEF Step, Sweeps
  <2> QED
    BY <2>1, StepInv
<1>2. CASE Tick
  BY <1>2, TickInv
<1>3. CASE UNCHANGED vars
  BY <1>3 DEF vars, IInv, TypeOK, HeldIffToken, HeldHasGrant, TokensUnique,
              GrantsStarted, GrantsEnd, HolderIsLatest, Exclusive
<1> QED
  BY <1>1, <1>2, <1>3 DEF Next

\* Whatever the queue does, the invariant holds (lease, ack, nack, extend, _reap).
THEOREM Invariance == Spec => []IInv
<1> QED
  BY InitInv, NextInv, PTL DEF Spec

\* The clock, the jobs and the grants keep their types.
THEOREM Typed == Spec => []TypeOK
<1>1. IInv => TypeOK
  BY DEF IInv
<1> QED
  BY <1>1, Invariance, PTL

\* Two holders never have the same job at the same time: a lease is granted only
\* when every earlier one is over, whoever holds it and however the jobs were
\* reaped, retried, removed or created again in between (_reap before every
\* operation, _require_lease in ack, nack and extend).
THEOREM ExclusiveGrants == Spec => []Exclusive
<1>1. IInv => Exclusive
  BY DEF IInv
<1> QED
  BY <1>1, Invariance, PTL

\* A grant that has run out is never lengthened: extend refuses a lapsed lease,
\* though nobody may have reaped it yet when the call arrives.
THEOREM LapsedGrantsStay == Spec => LapsedStaysLapsed
<1> DEFINE Stay == \A g \in grants : g.until <= now =>
             \E h \in grants' : h.token = g.token /\ h.from = g.from /\ h.until <= g.until
<1>1. IInv /\ [Next]_vars => [Stay]_vars
  <2> SUFFICES ASSUME IInv, [Next]_vars PROVE Stay \/ UNCHANGED vars
    OBVIOUS
  <2>1. CASE Step
    <3>1. PICK mid \in Sweeps : StepThrough(mid)
      BY <2>1 DEF Step, Sweeps
    <3>2. HeldInv
      BY DEF IInv, HeldInv
    <3> SUFFICES ASSUME NEW g \in grants, g.until <= now
                 PROVE  \E h \in grants' : /\ h.token = g.token /\ h.from = g.from
                                           /\ h.until <= g.until
      OBVIOUS
    <3> QED
      BY <3>1, <3>2, RenewedFacts, GrantStep
  <2>2. CASE Tick
    BY <2>2 DEF Tick, IInv, TypeOK, Grant
  <2> QED
    BY <2>1, <2>2 DEF Next
<1> QED
  BY <1>1, Invariance, PTL DEF Spec, LapsedStaysLapsed

-----------------------------------------------------------------------------
(***************************************************************************)
(* Bounded redelivery.                                                     *)
(***************************************************************************)
\* What AttemptsBounded needs to be inductive: a job that was created has a limit
\* of at least one, which is what a revived job's reset is measured against.
WithinLimit(j) == /\ j.attempts <= j.limit
                  /\ j.state = "ready" => j.attempts < j.limit
                  /\ j.state # "absent" => j.limit > 0

\* Releasing a job keeps it within its limit, unless it is made ready at it.
LEMMA ReleasedWithin ==
  ASSUME NEW j \in Job, WithinLimit(j), j.state # "absent",
         NEW state \in {"ready", "done", "dead"}, state = "ready" => j.attempts < j.limit
  PROVE  WithinLimit(Released(j, state))
BY DEF Released, WithinLimit, Job

\* A job returned to the queue has an attempt left.
LEMMA RetriedWithin ==
  ASSUME NEW j \in Job, WithinLimit(j), j.state # "absent", j.attempts < j.limit,
         NEW d
  PROVE  WithinLimit(Retried(j, d))
<1> DEFINE r == Released(j, "ready")
<1>1. WithinLimit(r) /\ r \in Job /\ r.state = "ready"
  BY ReleasedWithin, ReleasedFacts
<1>2. Retried(j, d) = [r EXCEPT !.available = now + d]
  BY DEF Retried
<1> HIDE DEF r
<1> QED
  BY <1>1, <1>2 DEF WithinLimit, Job

\* Reaping keeps every job within its limit: the last attempt is buried.
LEMMA SweptWithin ==
  ASSUME now \in Nat, NEW j \in Job, WithinLimit(j), NEW m \in Swept(j)
  PROVE  m \in Job /\ WithinLimit(m)
<1>1. CASE m = j
  BY <1>1
<1>2. CASE Lapsed(j) /\ j.attempts >= j.limit /\ m = Released(j, "dead")
  BY <1>2, ReleasedFacts, ReleasedWithin DEF Lapsed
<1>3. CASE Lapsed(j) /\ ~(j.attempts >= j.limit) /\ \E d \in Delays : m = Retried(j, d)
  <2>1. PICK d \in Delays : m = Retried(j, d)
    BY <1>3
  <2>2. d \in Nat /\ j.attempts < j.limit /\ j.state # "absent"
    BY <1>3, ConstantsAssumption DEF Lapsed, Job
  <2> QED
    BY <2>1, <2>2, RetriedFacts, RetriedWithin
<1> QED
  BY <1>1, <1>2, <1>3 DEF Swept, Reaped

\* So does every move: a delivery is counted, a failure at the limit buries.
LEMMA MovedWithin ==
  ASSUME now \in Nat, NEW m \in Job, WithinLimit(m), NEW k \in Moved(m)
  PROVE  WithinLimit(k)
<1> USE ConstantsAssumption
<1>1. CASE k = m
  BY <1>1
<1>2. CASE k \in Created
  <2>1. PICK l \in Limits, d \in Delays :
          k = [state |-> "ready", attempts |-> 0, limit |-> l, available |-> now + d,
               deadline |-> 0, token |-> NoToken]
    BY <1>2 DEF Created
  <2> QED
    BY <2>1 DEF WithinLimit
<1>3. CASE k = Absent
  BY <1>3 DEF Absent, WithinLimit
<1>4. CASE k \in Granted(m) /\ m.state = "ready"
  <2>1. PICK d \in Timeouts, t \in Unused : k = Leased(m, d, t)
    BY <1>4 DEF Granted
  <2>2. d \in Nat /\ t \in Token
    BY DEF Unused
  <2>3. k.state = "leased" /\ k.attempts = m.attempts + 1 /\ k.limit = m.limit
    BY <2>1, <2>2, LeasedFacts
  <2> QED
    BY <1>4, <2>3 DEF WithinLimit, Job
<1>5. CASE m.state = "leased" /\ k = Released(m, "done")
  BY <1>5, ReleasedWithin
<1>6. CASE m.state = "leased" /\ k \in Failed(m)
  <2>1. CASE m.attempts >= m.limit
    BY <1>6, <2>1, ReleasedWithin DEF Failed
  <2>2. CASE ~(m.attempts >= m.limit)
    <3>1. PICK d \in Delays : k = Retried(m, d)
      BY <1>6, <2>2 DEF Failed
    <3>2. m.attempts < m.limit
      BY <2>2 DEF Job
    <3> QED
      BY <1>6, <3>1, <3>2, RetriedWithin
  <2> QED
    BY <2>1, <2>2
<1>7. CASE m.state = "leased" /\ k \in Extended(m)
  <2>1. PICK d \in Timeouts : k = [m EXCEPT !.deadline = @ + d]
    BY <1>7 DEF Extended
  <2> QED
    BY <2>1 DEF Job, WithinLimit
<1>8. CASE m.state = "dead" /\ k = Revived(m)
  <2> DEFINE r == Retried(m, 0)
  <2> DEFINE q == Released(m, "ready")
  <2>1. q \in Job /\ q.state = "ready" /\ q.limit = m.limit
    BY ReleasedFacts DEF Released, Job
  <2>2. r = [q EXCEPT !.available = now + 0] /\ r \in Job
    BY RetriedFacts DEF Retried
  <2> HIDE DEF q
  <2>3. r.state = "ready" /\ r.limit = m.limit
    BY <2>1, <2>2 DEF Job
  <2>4. k = [r EXCEPT !.attempts = 0]
    BY <1>8 DEF Revived
  <2> HIDE DEF r
  <2>5. k.state = "ready" /\ k.limit = m.limit /\ k.attempts = 0
    BY <2>2, <2>3, <2>4 DEF Job
  <2>6. m.limit \in Nat /\ m.limit > 0
    BY <1>8 DEF WithinLimit, Job
  <2> QED
    BY <2>5, <2>6 DEF WithinLimit
<1> QED
  <2> m.state \in {"absent", "ready", "leased", "done", "dead"}
    BY DEF Job
  <2> QED
    BY <1>1, <1>2, <1>3, <1>4, <1>5, <1>6, <1>7, <1>8 DEF Moved, Moves

\* No job is delivered beyond its limit between two revivals, whether its attempts
\* end in a failure, in a crash of the holder or in a deadline missed (nack, _reap).
THEOREM BoundedDeliveries == Spec => []AttemptsBounded
<1> DEFINE Within == \A i \in Id : WithinLimit(jobs[i])
<1>1. Init => Within
  <2>1. WithinLimit(Absent)
    BY DEF WithinLimit, Absent
  <2> QED
    BY <2>1 DEF Init
<1>2. TypeOK /\ Within /\ [Next]_vars => Within'
  <2> SUFFICES ASSUME TypeOK, Within, [Next]_vars, NEW i \in Id
               PROVE  WithinLimit(jobs[i])'
    OBVIOUS
  <2>1. CASE Step
    <3>1. PICK mid \in Sweeps : StepThrough(mid)
      BY <2>1 DEF Step, Sweeps
    <3>2. now \in Nat /\ jobs[i] \in Job /\ mid[i] \in Swept(jobs[i])
      BY DEF TypeOK, Sweeps
    <3>3. jobs'[i] \in Moved(mid[i])
      BY <3>1 DEF StepThrough
    <3>4. mid[i] \in Job /\ WithinLimit(mid[i])
      BY <3>2, SweptWithin
    <3>5. WithinLimit(jobs'[i])
      BY <3>2, <3>3, <3>4, MovedWithin
    <3> QED
      BY <3>5 DEF WithinLimit
  <2>2. CASE Tick \/ UNCHANGED vars
    BY <2>2 DEF Tick, vars, WithinLimit
  <2> QED
    BY <2>1, <2>2 DEF Next
<1>3. Within => AttemptsBounded
  BY DEF WithinLimit, AttemptsBounded
<1> QED
  BY <1>1, <1>2, <1>3, Typed, PTL DEF Spec
=============================================================================
