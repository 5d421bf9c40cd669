-------------------------------- MODULE Queue --------------------------------
(***************************************************************************)
(* A queue (nobroker/queue.py): processes that share one append-only log   *)
(* and each keep an index of the prefix they have read.                    *)
(*                                                                         *)
(* Every public operation runs under the exclusive file lock, so it is one *)
(* action: catch up with the log, repair a torn tail, reap lapsed leases,  *)
(* then the operation itself.  What can come between is a crash or an      *)
(* error in the middle of a write; each write has those outcomes too.      *)
(*                                                                         *)
(* Time is a natural number.  The clock is sampled once per operation.     *)
(***************************************************************************)
EXTENDS Index

CONSTANTS
  Proc,           \* processes that open the queue directory
  JobId,          \* job keys callers use (a uuid is a key nobody used before)
  Batches,        \* enqueue_many calls: [ids, priority, delay, limit]
  Counts,         \* counts passed to lease
  Timeouts,       \* visibility timeouts passed to lease
  Extensions,     \* seconds passed to extend
  NackDelays,     \* explicit delays passed to nack
  Base, Factor, MaxDelay, JitterPercent,    \* BackoffPolicy
  Fsync,          \* the queue's fsync setting
  Ops,            \* which operations the environment calls
  Faults,         \* what may go wrong: kill, raise, abort, interrupt, power, clock
  Watched,        \* the replies recorded in told
  MaxTime, MaxEvents, MaxGen, MaxFaults     \* bounds of the instance

ASSUME BackoffAssumption ==
  /\ Base \in Nat /\ Factor \in Nat \ {0} /\ MaxDelay \in Nat
  /\ JitterPercent \in 0..100

ASSUME InputAssumption ==
  /\ Batches \subseteq [ids : Seq(JobId), priority : Int, delay : Nat, limit : Nat]
  /\ Counts \subseteq Nat \ {0} /\ Timeouts \subseteq Nat
  /\ Extensions \subseteq Nat /\ NackDelays \subseteq Nat

ASSUME BoundsAssumption == MaxTime \in Nat /\ MaxEvents \in Nat /\ MaxGen \in Nat /\ MaxFaults \in Nat

VARIABLES
  log,      \* the live log: [gen, recs, torn, synced], synced a count of records
  proc,     \* what each process holds: [up, gen, pos, idx]
  now,      \* the wall clock
  issued,   \* lease tokens drawn so far; a token is its draw number
  past,     \* ghost: [events, kept], the records retired by compactions and how
            \*   many records at the head of the live log are snapshots of them
  told,     \* ghost: what callers were told, as far as Watched asks
  faults    \* how many faults have happened

vars == <<log, proc, now, issued, past, told, faults>>

Down == [up |-> FALSE, gen |-> 0, pos |-> 0, idx |-> EmptyIndex]

Init ==
  /\ log = [gen |-> 0, recs |-> <<>>, torn |-> FALSE, synced |-> 0]
  /\ proc = [p \in Proc |-> Down]
  /\ now = 0
  /\ issued = 0
  /\ past = [events |-> <<>>, kept |-> 0]
  /\ told = {}
  /\ faults = 0

\* The jobs the log describes: what a process that opened it now would see.
Jobs == Replay(EmptyIndex, log.recs).jobs

\* Every record ever persisted and not lost since, snapshots left out.
History == past.events \o SubSeq(log.recs, past.kept + 1, Len(log.recs))

-----------------------------------------------------------------------------
(***************************************************************************)
(* Retry delays (backoff.py): exponential, capped, with jitter.  The delay *)
(* is drawn when the record is written and stored as a time.               *)
(***************************************************************************)
DelaysFor(attempts) ==
  IF attempts <= 0 THEN {0}
  ELSE LET raw == Min({Base * Factor ^ (attempts - 1), MaxDelay}) IN
       {d \in 0..raw : 100 * d >= raw * (100 - JitterPercent)}

-----------------------------------------------------------------------------
(***************************************************************************)
(* The write path.  A session [log, idx] is the state of a process inside  *)
(* a transaction, always caught up with its log.                           *)
(***************************************************************************)
Repaired(l) == IF l.torn THEN [l EXCEPT !.torn = FALSE, !.synced = Len(l.recs)] ELSE l

\* Slip: the pointer file is not looked at again, the log is taken to have grown.
CaughtUpSameLog(p) ==
  [log |-> Repaired(log),
   idx |-> Replay(proc[p].idx, SubSeq(log.recs, proc[p].pos + 1, Len(log.recs)))]

CaughtUp(p) ==
  [log |-> Repaired(log),
   idx |-> IF proc[p].gen # log.gen
           THEN Replay(EmptyIndex, log.recs)
           ELSE Replay(proc[p].idx, SubSeq(log.recs, proc[p].pos + 1, Len(log.recs)))]

Attached(s) == [up |-> TRUE, gen |-> s.log.gen, pos |-> Len(s.log.recs), idx |-> s.idx]

\* Slip: the write is acknowledged before the fsync.
AppendedUnsynced(l, recs) == [l EXCEPT !.recs = @ \o recs]

Appended(l, recs) ==
  [l EXCEPT !.recs = @ \o recs,
            !.synced = IF Fsync /\ recs # <<>> THEN Len(l.recs) + Len(recs) ELSE @]

Committed(s, recs) == [log |-> Appended(s.log, recs), idx |-> Replay(s.idx, recs)]

\* The operation ends: the session becomes the process's state.
Returns(p, s, replies) ==
  /\ log' = s.log
  /\ proc' = [proc EXCEPT ![p] = Attached(s)]
  /\ told' = told \cup {r \in replies : r.how \in Watched}
  /\ UNCHANGED faults

\* The process dies, or an exception leaves the operation while the index keeps
\* what was already done to it and the read position stays before the write.
Breaks(p, s) ==
  /\ faults < MaxFaults
  /\ faults' = faults + 1
  /\ \/ "kill" \in Faults /\ proc' = [proc EXCEPT ![p] = Down]
     \/ "raise" \in Faults /\ proc' = [proc EXCEPT ![p] = Attached(s)]
  /\ UNCHANGED told

\* Slip: memory first, disk second.
InterruptedAfterApply(p, s, recs) ==
  /\ recs # <<>>
  /\ Breaks(p, [s EXCEPT !.idx = Replay(@, recs)])
  /\ \E k \in 0..Len(recs), torn \in BOOLEAN :
       /\ torn => k < Len(recs)
       /\ log' = [s.log EXCEPT !.recs = @ \o SubSeq(recs, 1, k), !.torn = torn]

\* A batch is one write: any prefix of it may have reached the file, cut inside
\* a record (torn) or all of it without the fsync.
Interrupted(p, s, recs) ==
  /\ recs # <<>>
  /\ Breaks(p, s)
  /\ \E k \in 0..Len(recs), torn \in BOOLEAN :
       /\ torn => k < Len(recs)
       /\ log' = [s.log EXCEPT !.recs = @ \o SubSeq(recs, 1, k), !.torn = torn]

Commit(p, s, recs, replies) ==
  \/ \E t \in {Committed(s, recs)} : Returns(p, t, replies)
  \/ Interrupted(p, s, recs)

-----------------------------------------------------------------------------
(***************************************************************************)
(* _transaction: catch up, reap, then Body on the session.                 *)
(***************************************************************************)
ReapRecord(idx, id, delay) ==
  IF idx.jobs[id].attempts >= idx.jobs[id].max_attempts
  THEN [type |-> "DEAD", id |-> id, at |-> now, error |-> "expired"]
  ELSE [type |-> "RECLAIM", id |-> id, at |-> now, available_at |-> now + delay]

ReapBatches(idx) ==
  UNION {{[i \in DOMAIN ids |-> ReapRecord(idx, ids[i], delay[i])] :
            delay \in {d \in [DOMAIN ids -> 0..MaxDelay] :
                         \A i \in DOMAIN ids : d[i] \in DelaysFor(idx.jobs[ids[i]].attempts)}} :
           ids \in ExpiredLeases(idx, now)}

\* The instance is bounded by the number of records ever written.
Bounded == Len(past'.events) + Len(log'.recs) - past'.kept <= MaxEvents

Transaction(op, p, Body(_)) ==
  /\ op \in Ops
  /\ proc[p].up
  /\ \E s \in {CaughtUp(p)} :
       \E batch \in ReapBatches(s.idx), popped \in {[s EXCEPT !.idx = WithoutLapsed(@, now)]} :
         \/ \E t \in {Committed(popped, batch)} : Body(t)
         \/ Interrupted(p, popped, batch) /\ UNCHANGED <<issued, past>>
  /\ UNCHANGED now
  /\ Bounded

Told(how, id, token) == {[how |-> how, id |-> id, token |-> token]}

\* Slip: any holder there ever was may act for the present one.
HoldsSomeLease(idx, id, token) == idx.jobs[id].state = "LEASED"

\* _require_lease: a bare id (None) skips the token check.
HoldsLease(idx, id, token) ==
  /\ idx.jobs[id].state = "LEASED"
  /\ token \in {None, idx.jobs[id].lease_token}

\* The ways a caller can name a job: by id, or by a Job that carries one of the
\* tokens it was ever leased with.
Handles(id) ==
  {None} \cup {r.token : r \in {e \in ToSet(History) : e.type = "LEASE" /\ e.id = id}}

-----------------------------------------------------------------------------
Open(p) ==
  /\ ~proc[p].up
  /\ proc' = [proc EXCEPT ![p] = Attached([log |-> Repaired(log),
                                           idx |-> Replay(EmptyIndex, log.recs)])]
  /\ log' = Repaired(log)
  /\ UNCHANGED <<now, issued, past, told, faults>>

Ascending(S) == Orders(S, LAMBDA j, k : j < k)

\* The keys of a call that the index does not know, in the order given: a set with
\* that one sequence.
Fresh(idx, ids) ==
  {[i \in DOMAIN order |-> ids[order[i]]] :
     order \in Ascending({k \in DOMAIN ids : ids[k] \notin DOMAIN idx.jobs})}

NewJob(batch, seq) ==
  [priority |-> batch.priority, state |-> "READY", attempts |-> 0,
   max_attempts |-> batch.limit, available_at |-> now + batch.delay,
   lease_deadline |-> None, lease_token |-> None, seq |-> seq]

\* enqueue and enqueue_many: keys the index knows are answered with the job that
\* exists; the others become one batch of ENQUEUE records.
Enqueue(p, batch) ==
  Transaction("enqueue", p, LAMBDA s :
    \E fresh \in Fresh(s.idx, batch.ids) :
      /\ Commit(p, [s EXCEPT !.idx.seq = @ + Len(fresh)],
                [i \in DOMAIN fresh |-> ToDict(fresh[i], NewJob(batch, s.idx.seq + i))],
                UNION {Told("created", id, None) : id \in ToSet(fresh)})
      /\ UNCHANGED <<issued, past>>)

\* One more call of next_ready, and up to count of them: [ids, idx].
TakeOne(so) ==
  The({[ids |-> so.ids \o next.ids, idx |-> next.idx] : next \in {NextReady(so.idx, now)}})

Taken(idx, count) ==
  LET after[n \in 0..count] ==
        IF n = 0 THEN [ids |-> <<>>, idx |-> idx]
        ELSE The({TakeOne(so) : so \in {after[n - 1]}})
  IN after[count]

LeaseRecords(s, ids, timeout) ==
  [i \in DOMAIN ids |->
     [type |-> "LEASE", id |-> ids[i], at |-> now, deadline |-> now + timeout,
      attempts |-> s.idx.jobs[ids[i]].attempts + 1, token |-> issued + i]]

Lease(p, count, timeout) ==
  Transaction("lease", p, LAMBDA s :
    \E taken \in {Taken(s.idx, count)} :
      /\ Commit(p, [s EXCEPT !.idx = taken.idx],
                LeaseRecords(s, taken.ids, timeout), {})
      /\ issued' = issued + Len(taken.ids)
      /\ UNCHANGED past)

\* An exception inside the loop of lease: what is in taken goes back.  One that
\* arrives between next_ready and taken.append ("interrupt") finds the last job
\* popped and not yet in taken.
AbortedLease(p, count) ==
  Transaction("lease", p, LAMBDA s :
    \E n \in 0..count : \E taken \in {Taken(s.idx, n)} :
      LET givenBack(ids) == [s EXCEPT !.idx = Restore(taken.idx, ToSet(ids))]
      IN /\ \/ /\ "abort" \in Faults
               /\ proc' = [proc EXCEPT ![p] = Attached(givenBack(taken.ids))]
            \/ /\ "interrupt" \in Faults /\ taken.ids # <<>>
               /\ proc' = [proc EXCEPT ![p] = Attached(givenBack(Front(taken.ids)))]
         /\ log' = s.log
         /\ faults < MaxFaults /\ faults' = faults + 1
         /\ UNCHANGED <<issued, past, told>>)

Ack(p, id, token) ==
  Transaction("ack", p, LAMBDA s :
    /\ \/ /\ id \notin DOMAIN s.idx.jobs
          /\ Returns(p, s, {})
       \/ /\ id \in DOMAIN s.idx.jobs
          /\ \/ /\ s.idx.jobs[id].state = "DONE"
                /\ Returns(p, s, Told("already", id, token))
             \/ /\ s.idx.jobs[id].state # "DONE" /\ ~HoldsLease(s.idx, id, token)
                /\ Returns(p, s, {})
             \/ /\ HoldsLease(s.idx, id, token)
                /\ Commit(p, s, <<[type |-> "ACK", id |-> id, at |-> now]>>,
                          Told("acked", id, token))
    /\ UNCHANGED <<issued, past>>)

\* The shape nack and extend share: the current lease, or an error.
WithLease(op, p, id, token, Body(_)) ==
  Transaction(op, p, LAMBDA s :
    /\ \/ /\ id \in DOMAIN s.idx.jobs /\ HoldsLease(s.idx, id, token)
          /\ Body(s)
       \/ /\ ~(id \in DOMAIN s.idx.jobs /\ HoldsLease(s.idx, id, token))
          /\ Returns(p, s, {})
    /\ UNCHANGED <<issued, past>>)

Nack(p, id, token) ==
  WithLease("nack", p, id, token, LAMBDA s :
    LET job == s.idx.jobs[id] IN
    \/ /\ job.attempts >= job.max_attempts
       /\ Commit(p, s, <<[type |-> "DEAD", id |-> id, at |-> now,
                       error |-> "reported"]>>, {})
    \/ /\ job.attempts < job.max_attempts
       /\ \E wait \in DelaysFor(job.attempts) \cup NackDelays :
            Commit(p, s, <<[type |-> "NACK", id |-> id, at |-> now,
                            attempts |-> job.attempts, available_at |-> now + wait]>>, {}))

Extend(p, id, token, seconds) ==
  WithLease("extend", p, id, token, LAMBDA s :
    Commit(p, s, <<[type |-> "EXTEND", id |-> id, at |-> now,
                    deadline |-> Max({s.idx.jobs[id].lease_deadline, now}) + seconds]>>, {}))

RequeueRecords(ids) ==
  [i \in DOMAIN ids |-> [type |-> "REQUEUE", id |-> ids[i], at |-> now, available_at |-> now]]

\* requeue_dead of one job; any other state is an error after the prologue.
RequeueOne(p, id) ==
  Transaction("requeue", p, LAMBDA s :
    LET targets == IF id \in DOMAIN s.idx.jobs /\ s.idx.jobs[id].state = "DEAD"
                   THEN <<id>> ELSE <<>>
    IN Commit(p, s, RequeueRecords(targets), {}) /\ UNCHANGED <<issued, past>>)

RequeueAll(p) ==
  Transaction("requeue", p, LAMBDA s :
    \E ids \in BySeq(s.idx, {id \in DOMAIN s.idx.jobs : s.idx.jobs[id].state = "DEAD"}) :
      Commit(p, s, RequeueRecords(ids), {}) /\ UNCHANGED <<issued, past>>)

Purge(p) ==
  Transaction("purge", p, LAMBDA s :
    Commit(p, s, <<[type |-> "PURGE", at |-> now]>>, {}) /\ UNCHANGED <<issued, past>>)

\* get, stats, list_jobs, dlq, len: the prologue and nothing more.
Read(p) == Transaction("read", p, LAMBDA s : Returns(p, s, {}) /\ UNCHANGED <<issued, past>>)

-----------------------------------------------------------------------------
(***************************************************************************)
(* compact: a new generation holds one ENQUEUE per live job; replacing the *)
(* pointer file is the commit point.  Before it a failure (an exception,   *)
(* or a kill) leaves the old log live, after it the new one; a process     *)
(* that survives it still holds the old one.                               *)
(***************************************************************************)
Compacted(l, idx, ids) ==
  [gen |-> l.gen + 1, recs |-> [i \in DOMAIN ids |-> ToDict(ids[i], idx.jobs[ids[i]])],
   torn |-> FALSE, synced |-> Len(ids)]

Flip(s, ids) ==
  /\ log' = Compacted(s.log, s.idx, ids)
  /\ past' = [events |-> past.events \o
                         SubSeq(s.log.recs, past.kept + 1, Len(s.log.recs)),
              kept |-> Len(ids)]

Compact(p) ==
  /\ log.gen < MaxGen
  /\ Transaction("compact", p, LAMBDA s :
       \E live \in LiveJobs(s.idx) :
       /\ \/ /\ Flip(s, live)
             /\ proc' = [proc EXCEPT ![p] =
                           [up |-> TRUE, gen |-> s.log.gen + 1, pos |-> Len(live),
                            idx |-> Retain(s.idx, live)]]
             /\ UNCHANGED <<told, faults>>
          \/ /\ Flip(s, live) \/ (log' = s.log /\ UNCHANGED past)
             /\ Breaks(p, s)
       /\ UNCHANGED issued)

-----------------------------------------------------------------------------
(***************************************************************************)
(* The environment.                                                        *)
(***************************************************************************)
\* close, a normal exit, or SIGKILL between two operations: nothing to undo.
Stop(p) ==
  /\ "stop" \in Ops
  /\ proc[p].up
  /\ proc' = [proc EXCEPT ![p] = Down]
  /\ UNCHANGED <<log, now, issued, past, told, faults>>

\* The machine goes down: what was not fsynced may be gone, or torn.
PowerLoss ==
  /\ "power" \in Faults /\ faults < MaxFaults /\ faults' = faults + 1
  /\ \E n \in log.synced..Len(log.recs), torn \in BOOLEAN :
       /\ torn => log.torn \/ n < Len(log.recs)
       /\ log' = [log EXCEPT !.recs = SubSeq(@, 1, n), !.torn = torn]
  /\ proc' = [p \in Proc |-> Down]
  /\ UNCHANGED <<now, issued, past, told>>

\* Somebody waits for the clock: a delay or a lease that has not run out.
Awaited ==
  \E id \in DOMAIN Jobs :
    \/ Jobs[id].state = "READY" /\ Jobs[id].available_at > now
    \/ Jobs[id].state = "LEASED" /\ Jobs[id].lease_deadline > now

Tick ==
  /\ now < MaxTime
  /\ "idle" \in Ops \/ Awaited
  /\ now' = now + 1
  /\ UNCHANGED <<log, proc, issued, past, told, faults>>

\* The wall clock is stepped back.
ClockBack ==
  /\ "clock" \in Faults /\ faults < MaxFaults /\ faults' = faults + 1
  /\ now > 0
  /\ now' = now - 1
  /\ UNCHANGED <<log, proc, issued, past, told>>

Next ==
  \/ \E p \in Proc :
       Open(p) \/ Stop(p) \/ RequeueAll(p) \/ Purge(p) \/ Read(p) \/ Compact(p)
  \/ \E p \in Proc, batch \in Batches : Enqueue(p, batch)
  \/ \E p \in Proc, count \in Counts, timeout \in Timeouts : Lease(p, count, timeout)
  \/ \E p \in Proc, count \in Counts : AbortedLease(p, count)
  \/ \E p \in Proc, id \in JobId : RequeueOne(p, id)
  \/ \E p \in Proc, id \in JobId : \E token \in Handles(id) : Ack(p, id, token)
  \/ \E p \in Proc, id \in JobId : \E token \in Handles(id) : Nack(p, id, token)
  \/ \E p \in Proc, id \in JobId, seconds \in Extensions :
       \E token \in Handles(id) : Extend(p, id, token, seconds)
  \/ PowerLoss \/ Tick \/ ClockBack

Spec == Init /\ [][Next]_vars

\* What the code's scheduling gives: the clock runs, a process that died is
\* started again, and the polling loop of a worker keeps calling lease.
Poll(p) == \E t \in Timeouts : Lease(p, 1, t)

FairSpec ==
  Spec /\ WF_vars(Tick) /\ \A p \in Proc : WF_vars(Open(p)) /\ WF_vars(Poll(p))
=============================================================================
