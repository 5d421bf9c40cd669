-------------------------- MODULE QueueProperties ---------------------------
(***************************************************************************)
(* What Queue is checked against: invariants that relate the index of a    *)
(* process to the log, properties of the history of records and of what    *)
(* callers were told.                                                      *)
(***************************************************************************)
EXTENDS Queue

States == {"READY", "LEASED", "DONE", "DEAD"}

RecordTypes == {"ENQUEUE", "LEASE", "EXTEND", "ACK", "NACK", "RECLAIM", "DEAD",
                "REQUEUE", "PURGE"}

\* A job has a deadline and a token when it is LEASED, and at no other time.
HeldWhenLeased(job) ==
  /\ job.state = "LEASED" <=> job.lease_token # None
  /\ job.state = "LEASED" <=> job.lease_deadline # None

Job ==
  {job \in [priority : Int, state : States, attempts : Nat, max_attempts : Nat,
            available_at : Nat, lease_deadline : Nat \cup {None},
            lease_token : Nat \cup {None}, seq : Nat \ {0}, version : Nat] :
     HeldWhenLeased(job)}

Finite(S) == {T \in SUBSET S : IsFiniteSet(T)}

IsIndex(idx) ==
  /\ idx \in
       [jobs      : {idx.jobs},
        seq       : Nat,
        orphans   : Nat,
        ready     : Finite([priority : Int, at : Nat, seq : Nat, version : Nat, id : JobId]),
        scheduled : Finite([at : Nat, seq : Nat, version : Nat, id : JobId]),
        leases    : Finite([deadline : Nat, version : Nat, id : JobId])]
  /\ DOMAIN idx.jobs \in Finite(JobId)
  /\ idx.jobs \in [DOMAIN idx.jobs -> Job]

Record ==
  {rec \in [type : {"ENQUEUE"}, id : JobId, priority : Int, state : States,
            attempts : Nat, max_attempts : Nat, available_at : Nat,
            lease_deadline : Nat \cup {None}, lease_token : Nat \cup {None},
            seq : Nat \ {0}] : HeldWhenLeased(rec)} \cup
  [type : {"LEASE"}, id : JobId, at : Nat, deadline : Nat, attempts : Nat, token : Nat] \cup
  [type : {"EXTEND"}, id : JobId, at : Nat, deadline : Nat] \cup
  [type : {"ACK"}, id : JobId, at : Nat] \cup
  [type : {"NACK"}, id : JobId, at : Nat, attempts : Nat, available_at : Nat] \cup
  [type : {"RECLAIM", "REQUEUE"}, id : JobId, at : Nat, available_at : Nat] \cup
  [type : {"DEAD"}, id : JobId, at : Nat, error : {"expired", "reported"}] \cup
  [type : {"PURGE"}, at : Nat]

TypeOK ==
  /\ log \in [gen : 0..MaxGen, recs : Seq(Record), torn : BOOLEAN, synced : Nat]
  /\ log.synced <= Len(log.recs)
  /\ DOMAIN proc = Proc
  /\ \A p \in Proc :
       /\ proc[p] \in [up : BOOLEAN, gen : 0..log.gen, pos : Nat, idx : {proc[p].idx}]
       /\ IsIndex(proc[p].idx)
  /\ past \in [events : Seq(Record), kept : Nat] /\ past.kept <= log.synced
  /\ now \in 0..MaxTime /\ issued \in Nat /\ faults \in 0..MaxFaults

-----------------------------------------------------------------------------
(***************************************************************************)
(* A process and the log.                                                  *)
(***************************************************************************)
Attending == {p \in Proc : proc[p].up /\ proc[p].gen = log.gen}

\* What reading the first n records gives.
Reading(n) == Replay(EmptyIndex, SubSeq(log.recs, 1, n))

\* The jobs are the same, whatever their versions, and no sequence number that
\* was used is free.
Mirrors(idx, read) ==
  /\ DOMAIN idx.jobs = DOMAIN read.jobs
  /\ \A id \in DOMAIN read.jobs : Unversioned(idx.jobs[id]) = Unversioned(read.jobs[id])
  /\ idx.seq >= read.seq

\* A process that holds the live generation has in memory exactly the jobs that a
\* fresh replay of the records it has read gives, whatever it wrote, failed to
\* write or compacted itself ("replay is a pure function of the log",
\* Index.retain; disk first, memory second).
CacheOfLog ==
  \A p \in Attending : /\ proc[p].pos <= Len(log.recs)
                       /\ Mirrors(proc[p].idx, Reading(proc[p].pos))

\* A READY job can be found: exactly one entry of the two waiting heaps stands
\* for it.  None and it is invisible to this process; two and one lease call hands
\* it out twice (_admit, _schedule, promote, next_ready, restore, rebuild_heaps).
ReadyCovered ==
  \A p \in Proc : LET idx == proc[p].idx IN
    \A id \in DOMAIN idx.jobs : idx.jobs[id].state = "READY" =>
      Cardinality({e \in idx.ready : e.id = id /\ Current(idx, e, "READY")}) +
      Cardinality({e \in idx.scheduled : e.id = id /\ Current(idx, e, "READY")}) = 1

\* A LEASED job can time out: one lease-heap entry stands for it, at its present
\* deadline (_admit, _apply_lease, _apply_extend, expired_leases).
LeaseCovered ==
  \A p \in Proc : LET idx == proc[p].idx IN
    \A id \in DOMAIN idx.jobs : idx.jobs[id].state = "LEASED" =>
      \E e \in idx.leases : e = LeaseEntry(id, idx.jobs[id])

\* No record names a job the reader does not know: the log loses no history it
\* needs, across purges, compactions and torn tails (Index.apply).
NoOrphans == \A p \in Proc : proc[p].idx.orphans = 0

DistinctSeqs(jobs) == \A a, b \in DOMAIN jobs : a # b => jobs[a].seq # jobs[b].seq

\* The insertion counter makes ordering total: no two jobs share a seq, although
\* each process counts on its own and compaction makes a reader's count smaller.
SeqUnique == DistinctSeqs(Jobs)

\* A log that may be cut here: nothing in it refers to what it does not contain, and
\* the numbers in use are counted.
Sound(read) ==
  /\ read.orphans = 0
  /\ DistinctSeqs(read.jobs)
  /\ \A id \in DOMAIN read.jobs : read.jobs[id].seq <= read.seq

\* Wherever a crash or a power loss cuts the log, what is left is sound.
SoundLog == \A n \in 0..Len(log.recs) : Sound(Reading(n))

\* The inductive invariant.
IInv == TypeOK /\ SoundLog /\ CacheOfLog /\ NoOrphans

-----------------------------------------------------------------------------
(***************************************************************************)
(* The history of records and what callers were told.                      *)
(***************************************************************************)
\* Record r is of this type and about id; a purge is about every id.
Is(r, type, id) == r.type = type /\ (type # "PURGE" => r.id = id)

\* The positions of h where one of these types of record is about id.
At(h, types, id) == {i \in DOMAIN h : \E t \in types : Is(h[i], t, id)}

\* A position strictly between i and k is among these.
Between(i, k, positions) == \E j \in positions : i < j /\ j < k

\* A job whose creation a caller was told of is in the log, until it is completed
\* or purged: not a crash, a torn tail, a power loss or a compaction loses it
\* (enqueue: durable by the time this returns).
NothingLost ==
  LET h == History  known == DOMAIN Jobs IN
  \A r \in told : r.how = "created" =>
    \E i \in At(h, {"ENQUEUE"}, r.id) :
      r.id \in known \/ \E k \in At(h, {"ACK", "PURGE"}, r.id) : i < k

\* A job whose completion a caller was told of is not delivered again, unless it
\* was enqueued anew.
CompletedStaysCompleted ==
  LET h == History IN
  \A r \in told : r.how = "acked" =>
    \E i \in At(h, {"ACK"}, r.id) :
      \A k \in At(h, {"LEASE"}, r.id) :
        i < k => Between(i, k, At(h, {"ENQUEUE", "PURGE"}, r.id))

\* The completion of job id under token: an ACK that follows the lease of that
\* token with nothing in between that ended the lease.
CompletedBy(h, id, token) ==
  \E i \in At(h, {"LEASE"}, id), k \in At(h, {"ACK"}, id) :
    /\ h[i].token = token /\ i < k
    /\ ~Between(i, k, At(h, RecordTypes \ {"EXTEND"}, id))

\* An ack that completed a job came from the holder of its current lease: one whose
\* lease was reclaimed or redelivered meanwhile is refused (_require_lease).
AckFenced ==
  LET h == History IN
  \A r \in told : r.how = "acked" /\ r.token # None => CompletedBy(h, r.id, r.token)

\* A cut of the log is a place where the next power loss may leave it: anywhere after
\* what is synced, if the queue syncs at all.
Cuts == IF Fsync THEN log.synced..Len(log.recs) ELSE {Len(log.recs)}

HistoryTo(n) == past.events \o SubSeq(log.recs, past.kept + 1, n)

\* Job id was created in h, and is to be done unless h says what became of it.
Known(h, jobs, id) ==
  \E i \in At(h, {"ENQUEUE"}, id) :
    \/ \E k \in At(h, {"ACK", "PURGE"}, id) : i < k
    \/ id \in DOMAIN jobs /\ jobs[id].state # "DONE"

\* Job id was completed in h, and cannot be leased next unless it was created anew.
Finished(h, jobs, id) ==
  \E i \in At(h, {"ACK"}, id) :
    /\ \A k \in At(h, {"LEASE"}, id) :
         i < k => Between(i, k, At(h, {"ENQUEUE", "PURGE"}, id))
    /\ \/ \E j \in At(h, {"ENQUEUE", "PURGE"}, id) : i < j
       \/ id \in DOMAIN jobs => jobs[id].state = "DONE"

\* The lease a job is held on is the last thing, renewals apart, that h says of it.
LeasesRecorded(h, jobs) ==
  \A id \in DOMAIN jobs : jobs[id].state = "LEASED" =>
    \E i \in At(h, {"LEASE"}, id) :
      /\ h[i].token = jobs[id].lease_token
      /\ \A k \in At(h, RecordTypes \ {"EXTEND"}, id) : k <= i

\* History h and these jobs bear out these replies, and will after whatever follows.
BearsOut(h, jobs, replies) ==
  /\ LeasesRecorded(h, jobs)
  /\ \A r \in replies :
       /\ r.how = "created" => Known(h, jobs, r.id)
       /\ r.how = "acked" => Finished(h, jobs, r.id)
       /\ r.how = "acked" /\ r.token # None => CompletedBy(h, r.id, r.token)

\* Wherever a power loss cuts the log, it bears out every reply ever given: the
\* inductive form of NothingLost, CompletedStaysCompleted and AckFenced.
RepliesKept == \A n \in Cuts : BearsOut(HistoryTo(n), Reading(n).jobs, told)

\* A job is leased at most max_attempts times from the record that created or
\* revived it, compactions in between included (_reap, nack, to_dict).
DeliveriesBounded ==
  LET h == History IN
  \A id \in JobId :
    LET starts  == At(h, {"ENQUEUE", "REQUEUE", "PURGE"}, id)
        created == At(h, {"ENQUEUE"}, id)
    IN \A i \in starts, c \in created : c <= i /\ ~Between(c, i + 1, created) =>
         Cardinality({k \in At(h, {"LEASE"}, id) : i < k /\ ~Between(i, k, starts)})
           <= h[c].max_attempts

\* The order a lease follows: priority, then time available, then insertion.
GoesBefore(best, left) ==
  \/ best.priority > left.priority
  \/ /\ best.priority = left.priority
     /\ \/ best.available_at < left.available_at
        \/ best.available_at = left.available_at /\ best.seq < left.seq

\* A lease takes the best job there is: each LEASE in the history goes before every
\* job that was still eligible once it was written (promote, next_ready).
LeasesBestFirst ==
  LET h == History IN
  \A i \in {k \in DOMAIN h : h[k].type = "LEASE"} :
    LET jobs == Replay(EmptyIndex, SubSeq(h, 1, i)).jobs IN
    \A id \in DOMAIN jobs :
      jobs[id].state = "READY" /\ jobs[id].available_at <= h[i].at =>
        GoesBefore(jobs[h[i].id], jobs[id])

\* A job in the log that still needs work.
Unsettled(id) == LET jobs == Jobs IN id \in DOMAIN jobs /\ jobs[id].state \in {"READY", "LEASED"}

\* Every job comes to rest: completed, dead-lettered or gone (_reap and max_attempts,
\* given a worker that polls and a clock that runs).
Settles == \A id \in JobId : Unsettled(id) ~> ~Unsettled(id)
=============================================================================
