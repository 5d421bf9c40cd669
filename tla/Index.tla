-------------------------------- MODULE Index --------------------------------
(***************************************************************************)
(* The in-memory index of a queue (nobroker/index.py): a pure value        *)
(*                                                                         *)
(*   [jobs, seq, orphans, ready, scheduled, leases]                        *)
(*                                                                         *)
(* rebuilt by folding log records.  The module declares no variable: each  *)
(* method of the class is an operator from an index to an index.           *)
(*                                                                         *)
(* What a job's payload, error text and enqueue time say is left out: no   *)
(* control flow reads them.  A heap is the SET of its entries: two equal   *)
(* entries are never pushed, because every push follows a bump of          *)
(* job.version, a pop of that very entry, or a new seq.                    *)
(***************************************************************************)
EXTENDS Integers, Sequences, FiniteSets, SequencesExt, FiniteSetsExt

CONSTANT None       \* Python's None: no deadline, no token

ASSUME NoneAssumption == None \notin Nat

EmptyIndex == [jobs |-> <<>>, seq |-> 0, orphans |-> 0,
               ready |-> {}, scheduled |-> {}, leases |-> {}]

(***************************************************************************)
(* The element of a singleton.  TLC computes the argument of an operator   *)
(* again at each of its uses when it evaluates a primed expression or      *)
(* ENABLED; a bound variable is a value, so The({op(x) : x \in {v}}) is    *)
(* op(v) with v computed once.  The quantifiers over singletons in Queue   *)
(* are there for that too.                                                 *)
(***************************************************************************)
The(S) == CHOOSE x \in S : TRUE

\* The sequences that hold each element of S once, none before one that precedes it.
Orders(S, Before(_, _)) ==
  {s \in Bijection(1..Cardinality(S), S) :
     \A i, j \in DOMAIN s : i < j => ~Before(s[j], s[i])}

\* f with key x bound to v, x new or not.
Put(f, x, v) == [y \in DOMAIN f \cup {x} |-> IF y = x THEN v ELSE f[y]]

-----------------------------------------------------------------------------
(***************************************************************************)
(* Records.  An ENQUEUE carries the whole job (Job.to_dict); the version   *)
(* is the one field of a job that is not serialised.                       *)
(***************************************************************************)
\* Slip: a job is written as if it had never been delivered.
ToDictUndelivered(id, job) ==
  [type |-> "ENQUEUE", id |-> id, priority |-> job.priority,
   state |-> job.state, attempts |-> 0,
   max_attempts |-> job.max_attempts, available_at |-> job.available_at,
   lease_deadline |-> job.lease_deadline, lease_token |-> job.lease_token,
   seq |-> job.seq]

ToDict(id, job) ==
  [type |-> "ENQUEUE", id |-> id, priority |-> job.priority,
   state |-> job.state, attempts |-> job.attempts,
   max_attempts |-> job.max_attempts, available_at |-> job.available_at,
   lease_deadline |-> job.lease_deadline, lease_token |-> job.lease_token,
   seq |-> job.seq]

FromDict(rec) ==
  [priority |-> rec.priority, state |-> rec.state, attempts |-> rec.attempts,
   max_attempts |-> rec.max_attempts, available_at |-> rec.available_at,
   lease_deadline |-> rec.lease_deadline, lease_token |-> rec.lease_token,
   seq |-> rec.seq, version |-> 0]

Unversioned(job) == [job EXCEPT !.version = 0]

-----------------------------------------------------------------------------
(***************************************************************************)
(* The three heaps.  Schedule and Hold push; Admit chooses between them for a  *)
(* job that arrives whole, from an ENQUEUE record.                         *)
(***************************************************************************)
ScheduledEntry(id, job) ==
  [at |-> job.available_at, seq |-> job.seq, version |-> job.version, id |-> id]

LeaseEntry(id, job) ==
  [deadline |-> job.lease_deadline, version |-> job.version, id |-> id]

Schedule(idx, id) ==
  [idx EXCEPT !.scheduled = @ \cup {ScheduledEntry(id, idx.jobs[id])}]

Hold(idx, id) == [idx EXCEPT !.leases = @ \cup {LeaseEntry(id, idx.jobs[id])}]

\* Slip: a leased job that comes in whole gets no timeout.
AdmitReadyOnly(idx, id) == IF idx.jobs[id].state = "READY" THEN Schedule(idx, id) ELSE idx

Waits(job) == job.state = "READY"

TimesOut(job) == job.state = "LEASED" /\ job.lease_deadline # None

Admit(idx, id) ==
  CASE Waits(idx.jobs[id]) -> Schedule(idx, id)
    [] TimesOut(idx.jobs[id]) -> Hold(idx, id)
    [] OTHER -> idx

\* What a heap entry must still agree with to be more than garbage.
Current(idx, e, state) ==
  /\ e.id \in DOMAIN idx.jobs
  /\ idx.jobs[e.id].version = e.version
  /\ idx.jobs[e.id].state = state

-----------------------------------------------------------------------------
(***************************************************************************)
(* Index.apply: one handler per record type.  Every handler but ENQUEUE    *)
(* and PURGE names a job and only counts an orphan when it is unknown.     *)
(***************************************************************************)
Bumped(job) == [job EXCEPT !.version = @ + 1]

\* Slip: deadline and token outlive the lease.
UnleasedInName(job, state) == Bumped([job EXCEPT !.state = state])

Unleased(job, state) ==
  Bumped([job EXCEPT !.state = state, !.lease_deadline = None, !.lease_token = None])

Store(idx, id, job) == [idx EXCEPT !.jobs = Put(@, id, job)]

\* Slip: a reader does not learn the sequence numbers others used.
ApplyEnqueueUncounted(idx, rec) == Admit(Store(idx, rec.id, FromDict(rec)), rec.id)

ApplyEnqueue(idx, rec) ==
  Admit([Store(idx, rec.id, FromDict(rec)) EXCEPT
           !.seq = IF rec.seq > @ THEN rec.seq ELSE @], rec.id)

ApplyLease(idx, rec) ==
  Hold(Store(idx, rec.id,
             Bumped([idx.jobs[rec.id] EXCEPT
                       !.state = "LEASED", !.attempts = rec.attempts,
                       !.lease_deadline = rec.deadline, !.lease_token = rec.token])),
       rec.id)

\* Slip: the new deadline is stored, the lease heap keeps the old one.
ApplyExtendUnheld(idx, rec) ==
  IF idx.jobs[rec.id].state # "LEASED" THEN idx
  ELSE Store(idx, rec.id, Bumped([idx.jobs[rec.id] EXCEPT !.lease_deadline = rec.deadline]))

ApplyExtend(idx, rec) ==
  IF idx.jobs[rec.id].state # "LEASED" THEN idx
  ELSE Hold(Store(idx, rec.id,
                  Bumped([idx.jobs[rec.id] EXCEPT !.lease_deadline = rec.deadline])),
            rec.id)

ApplyAck(idx, rec) == Store(idx, rec.id, Unleased(idx.jobs[rec.id], "DONE"))

ApplyNack(idx, rec) ==
  Schedule(Store(idx, rec.id,
                 Unleased([idx.jobs[rec.id] EXCEPT !.attempts = rec.attempts,
                             !.available_at = rec.available_at], "READY")),
           rec.id)

ApplyReclaim(idx, rec) ==
  Schedule(Store(idx, rec.id,
                 Unleased([idx.jobs[rec.id] EXCEPT
                             !.available_at = rec.available_at], "READY")),
           rec.id)

ApplyDead(idx, rec) == Store(idx, rec.id, Unleased(idx.jobs[rec.id], "DEAD"))

ApplyRequeue(idx, rec) ==
  Schedule(Store(idx, rec.id,
                 Unleased([idx.jobs[rec.id] EXCEPT !.attempts = 0,
                             !.available_at = rec.available_at], "READY")),
           rec.id)

ApplyPurge(idx) ==
  [idx EXCEPT !.jobs = <<>>, !.ready = {}, !.scheduled = {}, !.leases = {}]

Apply(idx, rec) ==
  CASE rec.type = "ENQUEUE" -> ApplyEnqueue(idx, rec)
    [] rec.type = "PURGE" -> ApplyPurge(idx)
    [] rec.type \notin {"ENQUEUE", "PURGE"} /\ rec.id \notin DOMAIN idx.jobs ->
         [idx EXCEPT !.orphans = @ + 1]
    [] OTHER ->
         CASE rec.type = "LEASE" -> ApplyLease(idx, rec)
           [] rec.type = "EXTEND" -> ApplyExtend(idx, rec)
           [] rec.type = "ACK" -> ApplyAck(idx, rec)
           [] rec.type = "NACK" -> ApplyNack(idx, rec)
           [] rec.type = "RECLAIM" -> ApplyReclaim(idx, rec)
           [] rec.type = "DEAD" -> ApplyDead(idx, rec)
           [] rec.type = "REQUEUE" -> ApplyRequeue(idx, rec)

Replay(idx, recs) ==
  LET after[n \in 0..Len(recs)] ==
        IF n = 0 THEN idx
        ELSE The({Apply(before, recs[n]) : before \in {after[n - 1]}})
  IN after[Len(recs)]

-----------------------------------------------------------------------------
(***************************************************************************)
(* Leasing.  promote moves what is due from the scheduled to the ready     *)
(* heap and drops what is stale; next_ready pops the best entry, dropping  *)
(* the stale ones above it and sending back those not due after all (the   *)
(* clock stepped back since they were promoted).                           *)
(***************************************************************************)
Promote(idx, now) ==
  LET due == {e \in idx.scheduled : e.at <= now} IN
  [idx EXCEPT !.scheduled = @ \ due,
              !.ready = @ \cup
                {[priority |-> idx.jobs[e.id].priority, at |-> e.at, seq |-> e.seq,
                  version |-> e.version, id |-> e.id] :
                   e \in {d \in due : Current(idx, d, "READY")}}]

\* Slip: who waited longest goes first, whatever its priority.
PrecedesByTime(e, f) ==
  \/ e.at < f.at
  \/ e.at = f.at /\ e.priority > f.priority
  \/ e.at = f.at /\ e.priority = f.priority /\ e.seq < f.seq
  \/ e.at = f.at /\ e.priority = f.priority /\ e.seq = f.seq /\ e.version < f.version

\* The order of the ready heap: (-priority, available_at, seq, version).
Precedes(e, f) ==
  \/ e.priority > f.priority
  \/ e.priority = f.priority /\ e.at < f.at
  \/ e.priority = f.priority /\ e.at = f.at /\ e.seq < f.seq
  \/ e.priority = f.priority /\ e.at = f.at /\ e.seq = f.seq /\ e.version < f.version

\* [ids, idx]: the job popped, if any was eligible, and the index after it.
NextReady(idx0, now) ==
  LET idx      == Promote(idx0, now)
      valid    == {e \in idx.ready : Current(idx, e, "READY")}
      eligible == {e \in valid : idx.jobs[e.id].available_at <= now}
      later    == valid \ eligible
      sentBack(popped) == {ScheduledEntry(e.id, idx.jobs[e.id]) : e \in popped \cap later}
  IN IF eligible = {}
     THEN [ids |-> <<>>,
           idx |-> [idx EXCEPT !.ready = {}, !.scheduled = @ \cup sentBack(later)]]
     ELSE LET best   == CHOOSE e \in eligible : \A f \in eligible : ~Precedes(f, e)
              popped == {e \in idx.ready : e = best \/ Precedes(e, best)}
          IN [ids |-> <<best.id>>,
              idx |-> [idx EXCEPT !.ready = @ \ popped,
                                  !.scheduled = @ \cup sentBack(popped)]]

\* Slip: the jobs of an aborted lease are not given back.
RestoreNothing(idx, ids) == idx

\* restore, for each of these jobs.
Restore(idx, ids) ==
  [idx EXCEPT !.scheduled = @ \cup {ScheduledEntry(id, idx.jobs[id]) : id \in ids}]

\* Slip: at its very deadline a lease still counts.
LapsedLate(idx, now) == {e \in idx.leases : e.deadline < now}

\* The lease-heap entries a reap at time now pops, and the jobs among them that
\* really have timed out, in heap order (ids break its ties; here any order does).
Lapsed(idx, now) == {e \in idx.leases : e.deadline <= now}

ExpiredLeases(idx, now) ==
  LET entries == {e \in Lapsed(idx, now) : Current(idx, e, "LEASED")}
      before(e, f) == \/ e.deadline < f.deadline
                      \/ e.deadline = f.deadline /\ e.version < f.version
  IN {[i \in DOMAIN s |-> s[i].id] : s \in Orders(entries, before)}

WithoutLapsed(idx, now) == [idx EXCEPT !.leases = @ \ Lapsed(idx, now)]

-----------------------------------------------------------------------------
(***************************************************************************)
(* Compaction keeps the jobs that are not DONE, oldest first.              *)
(***************************************************************************)
\* Jobs in the order they are held and listed in.
BySeq(idx, ids) == Orders(ids, LAMBDA a, b : idx.jobs[a].seq < idx.jobs[b].seq)

LiveJobs(idx) == BySeq(idx, {id \in DOMAIN idx.jobs : idx.jobs[id].state # "DONE"})

RebuildHeaps(idx) ==
  LET jobs == idx.jobs IN
  [idx EXCEPT
     !.ready = {},
     !.scheduled = {ScheduledEntry(id, jobs[id]) : id \in {i \in DOMAIN jobs : Waits(jobs[i])}},
     !.leases = {LeaseEntry(id, jobs[id]) : id \in {i \in DOMAIN jobs : TimesOut(jobs[i])}}]

\* Slip: the compacting process keeps what it left out of the new log.
RetainEverything(idx, ids) == idx

Retain(idx, ids) ==
  RebuildHeaps([idx EXCEPT !.jobs = [id \in ToSet(ids) |-> idx.jobs[id]]])
=============================================================================
