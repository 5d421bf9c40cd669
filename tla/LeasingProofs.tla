---------------------------- MODULE LeasingProofs -----------------------------
(***************************************************************************)
(* The heaps of a process stand for the jobs it knows: while no write      *)
(* fails under it, every leased job can time out and every waiting job is  *)
(* on one heap, so that lease finds it, and finds the best one first.  And *)
(* no job is leased more often than its limit allows.                      *)
(***************************************************************************)
EXTENDS QueueProofs

-----------------------------------------------------------------------------
(***************************************************************************)
(* What operations have in common.  After the prologue an operation has a  *)
(* session s; it may change heaps and count numbers, which gives t, and    *)
(* then write one batch.                                                   *)
(***************************************************************************)
Prepares(s, t) ==
  /\ Session(t) /\ t.log = s.log
  /\ t.idx.jobs = s.idx.jobs /\ t.idx.leases = s.idx.leases

SameHeaps(a, b) == a.ready = b.ready /\ a.scheduled = b.scheduled

\* No call names one key twice.
DistinctKeys ==
  \A call \in Batches : \A i, j \in DOMAIN call.ids : i # j => call.ids[i] # call.ids[j]

\* A batch of new jobs, under keys nobody has.
Creates(idx, recs) ==
  /\ \A k \in 1..Len(recs) :
       /\ recs[k].type = "ENQUEUE" /\ recs[k].state = "READY" /\ recs[k].attempts = 0
       /\ recs[k].id \notin DOMAIN idx.jobs
       /\ \E call \in Batches : /\ recs[k].max_attempts = call.limit
                                /\ recs[k].available_at = now + call.delay
  /\ DistinctKeys => \A j, k \in 1..Len(recs) : j # k => recs[j].id # recs[k].id

\* What requeue_dead says of a dead job, and ack, nack and extend of a leased one.
Suits(job, rec) ==
  \/ rec.type = "REQUEUE" /\ job.state = "DEAD" /\ rec.available_at = now
  \/ /\ job.state = "LEASED"
     /\ \/ rec.type = "ACK"
        \/ /\ rec.type = "NACK"
           /\ rec.attempts = job.attempts /\ rec.attempts < job.max_attempts
           /\ \E wait \in DelaysFor(job.attempts) \cup NackDelays : rec.available_at = now + wait
        \/ /\ rec.type = "DEAD" /\ rec.error = "reported"
           /\ job.attempts >= job.max_attempts
        \/ /\ rec.type = "EXTEND"
           /\ \E seconds \in Extensions :
                rec.deadline = Max({job.lease_deadline, now}) + seconds

\* A record of ack, nack, extend, requeue_dead or purge.
Marks(idx, rec) ==
  /\ rec.at = now
  /\ \/ rec.type = "PURGE"
     \/ NamesJob(rec) /\ rec.id \in DOMAIN idx.jobs /\ Suits(idx.jobs[rec.id], rec)

\* What lease writes, having taken some jobs off the heaps.
Hands(s, t, recs) ==
  \E n \in Nat, timeout \in Timeouts : LET taken == Taken(s.idx, n) IN
    t.idx = taken.idx /\ recs = LeaseRecords(s, taken.ids, timeout)

\* What lease leaves when it is cut short: the jobs it took are back on the heaps,
\* all but the last if the signal came between the pop and the append.
GivesBack(idx, out) ==
  \E n \in Nat : LET taken == Taken(idx, n) IN
    \/ out = Restore(taken.idx, ToSet(taken.ids))
    \/ /\ "interrupt" \in Faults /\ taken.ids # <<>>
       /\ out = Restore(taken.idx, ToSet(Front(taken.ids)))

Proper(s, t, recs) ==
  /\ Prepares(s, t) /\ recs \in Seq(Record)
  /\ \/ Hands(s, t, recs)
     \/ SameHeaps(t.idx, s.idx) /\ Creates(s.idx, recs)
     \/ /\ t = s /\ \A k \in 1..Len(recs) : Marks(s.idx, recs[k])
        /\ Len(recs) <= 1 \/ \A k \in 1..Len(recs) : recs[k].type = "REQUEUE"

\* A token is drawn for each lease, and for nothing else.
Draws(recs) ==
  issued' = IF \E k \in 1..Len(recs) : recs[k].type = "LEASE" THEN issued + Len(recs) ELSE issued

\* How an operation of p ends, once batch is what its prologue found to reap.
Ends(p, batch) ==
  LET s == Begun(p, batch) IN
  /\ now' = now
  /\ \/ /\ UNCHANGED <<issued, past>>
        /\ \/ Interrupted(p, Popped(p), batch)
           \/ \E replies : Returns(p, s, replies)
           \/ \E t : /\ Prepares(s, t) /\ GivesBack(s.idx, t.idx)
                     /\ proc' = [proc EXCEPT ![p] = Attached(t)] /\ log' = s.log
           \/ Breaks(p, s) /\ log' = s.log
     \/ /\ past' = past
        /\ \E t, recs, replies : Proper(s, t, recs) /\ Commit(p, t, recs, replies) /\ Draws(recs)
     \/ /\ issued' = issued
        /\ \E live \in LiveJobs(s.idx) :
             /\ Flip(s, live)
             /\ \/ Breaks(p, s)
                \/ \E q : q.idx = Retain(s.idx, live) /\ proc' = [proc EXCEPT ![p] = q]

Operates(p) == proc[p].up /\ \E batch \in ReapBatches(CaughtUp(p).idx) : Ends(p, batch)

LEMMA MarkFacts ==
  ASSUME NEW idx, NEW rec, Marks(idx, rec)
  PROVE  /\ rec.type \notin {"LEASE", "RECLAIM", "ENQUEUE"}
         /\ rec.type # "PURGE" => NamesJob(rec) /\ rec.id \in DOMAIN idx.jobs
         /\ rec.type = "NACK" => /\ rec.attempts = idx.jobs[rec.id].attempts
                                 /\ rec.attempts < idx.jobs[rec.id].max_attempts
<1>1. CASE rec.type = "PURGE"
  BY <1>1
<1>2. CASE NamesJob(rec) /\ rec.id \in DOMAIN idx.jobs /\ Suits(idx.jobs[rec.id], rec)
  BY <1>2 DEF NamesJob, Suits
<1> QED
  BY <1>1, <1>2 DEF Marks

LEMMA EndsOperates ==
  ASSUME NEW p, proc[p].up, NEW batch \in ReapBatches(CaughtUp(p).idx), Ends(p, batch)
  PROVE  Operates(p)
  BY DEF Operates

LEMMA ReturnsEnds ==
  ASSUME NEW p, NEW batch, UNCHANGED <<issued, past, now>>,
         (\E replies : Returns(p, Begun(p, batch), replies)) \/ Interrupted(p, Popped(p), batch)
  PROVE  Ends(p, batch)
  BY DEF Ends

LEMMA CommitEnds ==
  ASSUME NEW p, NEW batch, past' = past, now' = now, NEW t, NEW recs, NEW replies,
         Proper(Begun(p, batch), t, recs), Commit(p, t, recs, replies), Draws(recs)
  PROVE  Ends(p, batch)
<1>1. \E t2, recs2, replies2 :
        /\ Proper(Begun(p, batch), t2, recs2) /\ Commit(p, t2, recs2, replies2)
        /\ Draws(recs2)
  OBVIOUS
<1> QED
  BY <1>1 DEF Ends

LEMMA ReadOperates == ASSUME IInv, NEW p \in Proc, Read(p) PROVE Operates(p)
<1>1. proc[p].up
  BY DEF Read, Transaction
<1>2. PICK batch \in ReapBatches(CaughtUp(p).idx) :
        /\ Returns(p, Begun(p, batch), {}) \/ Interrupted(p, Popped(p), batch)
        /\ UNCHANGED <<issued, past, now>>
  BY DEF Read, Transaction, Popped, Begun
<1> QED
  BY <1>1, <1>2, ReturnsEnds, EndsOperates

LEMMA OneOperates ==
  ASSUME IInv, NEW p \in Proc, proc[p].up, NEW batch \in ReapBatches(CaughtUp(p).idx),
         NEW rec \in Record, Marks(Begun(p, batch).idx, rec), NEW replies,
         Commit(p, Begun(p, batch), <<rec>>, replies), UNCHANGED <<issued, past, now>>
  PROVE  Operates(p)
<1> DEFINE s == Begun(p, batch)  recs == <<rec>>
<1>1. Session(s)
  BY BegunFacts
<1>2. /\ recs \in Seq(Record) /\ Commit(p, s, recs, replies) /\ Len(recs) <= 1
      /\ \A k \in 1..Len(recs) : Marks(s.idx, recs[k])
  <2>1. Len(recs) = 1 /\ recs[1] = rec
    OBVIOUS
  <2> QED
    BY <2>1
<1> HIDE DEF s, recs
<1>3. Proper(s, s, recs)
  BY <1>1, <1>2 DEF Proper, Prepares
<1>4. Draws(recs)
  <2>1. \A k \in 1..Len(recs) : recs[k].type # "LEASE"
    BY <1>2, MarkFacts
  <2> QED
    BY <2>1 DEF Draws
<1> QED
  BY <1>2, <1>3, <1>4, CommitEnds, EndsOperates DEF s

LEMMA PurgeOperates == ASSUME IInv, NEW p \in Proc, Purge(p) PROVE Operates(p)
<1> DEFINE rec == [type |-> "PURGE", at |-> now]
<1>1. proc[p].up
  BY DEF Purge, Transaction
<1>2. PICK batch \in ReapBatches(CaughtUp(p).idx) :
        /\ Commit(p, Begun(p, batch), <<rec>>, {}) \/ Interrupted(p, Popped(p), batch)
        /\ UNCHANGED <<issued, past, now>>
  BY DEF Purge, Transaction, Popped, Begun
<1>3. rec \in Record /\ Marks(Begun(p, batch).idx, rec)
  BY NowType DEF Record, Marks
<1> HIDE DEF rec
<1>4. CASE Commit(p, Begun(p, batch), <<rec>>, {})
  BY <1>1, <1>2, <1>3, <1>4, OneOperates
<1>5. CASE Interrupted(p, Popped(p), batch)
  BY <1>1, <1>2, <1>5, ReturnsEnds, EndsOperates
<1> QED
  BY <1>2, <1>4, <1>5

LEMMA AckOperates ==
  ASSUME IInv, NEW p \in Proc, NEW id \in JobId, NEW token, Ack(p, id, token)
  PROVE  Operates(p)
<1> DEFINE rec == [type |-> "ACK", id |-> id, at |-> now]
<1>1. proc[p].up
  BY DEF Ack, Transaction
<1>2. PICK batch \in ReapBatches(CaughtUp(p).idx) :
        /\ \/ \E replies : Returns(p, Begun(p, batch), replies)
           \/ /\ id \in DOMAIN Begun(p, batch).idx.jobs
              /\ Begun(p, batch).idx.jobs[id].state = "LEASED"
              /\ \E replies : Commit(p, Begun(p, batch), <<rec>>, replies)
           \/ Interrupted(p, Popped(p), batch)
        /\ UNCHANGED <<issued, past, now>>
  BY DEF Ack, Transaction, HoldsLease, Popped, Begun
<1>3. rec \in Record /\ NamesJob(rec) /\ rec.id = id /\ rec.type = "ACK" /\ rec.at = now
  BY NowType DEF Record, NamesJob
<1> HIDE DEF rec
<1>4. CASE /\ id \in DOMAIN Begun(p, batch).idx.jobs
           /\ Begun(p, batch).idx.jobs[id].state = "LEASED"
           /\ \E replies : Commit(p, Begun(p, batch), <<rec>>, replies)
  <2>1. Marks(Begun(p, batch).idx, rec)
    BY <1>3, <1>4 DEF Marks, Suits
  <2> QED
    BY <1>1, <1>2, <1>3, <1>4, <2>1, OneOperates
<1>5. CASE (\E replies : Returns(p, Begun(p, batch), replies)) \/ Interrupted(p, Popped(p), batch)
  BY <1>1, <1>2, <1>5, ReturnsEnds, EndsOperates
<1> QED
  BY <1>2, <1>4, <1>5

LEMMA NackOperates ==
  ASSUME IInv, NEW p \in Proc, NEW id \in JobId, NEW token, Nack(p, id, token)
  PROVE  Operates(p)
<1> DEFINE dead == [type |-> "DEAD", id |-> id, at |-> now, error |-> "reported"]
           nack(n, wait) == [type |-> "NACK", id |-> id, at |-> now, attempts |-> n,
                             available_at |-> now + wait]
<1>1. proc[p].up
  BY DEF Nack, WithLease, Transaction
<1>2. PICK batch \in ReapBatches(CaughtUp(p).idx) :
        LET s == Begun(p, batch)  job == s.idx.jobs[id]  n == job.attempts IN
        /\ \/ Returns(p, s, {})
           \/ /\ id \in DOMAIN s.idx.jobs /\ HoldsLease(s.idx, id, token)
              /\ \/ n >= job.max_attempts /\ Commit(p, s, <<dead>>, {})
                 \/ /\ n < job.max_attempts
                    /\ \E wait \in DelaysFor(n) \cup NackDelays : Commit(p, s, <<nack(n, wait)>>, {})
           \/ Interrupted(p, Popped(p), batch)
        /\ UNCHANGED <<issued, past, now>>
  BY DEF Nack, WithLease, Transaction, Popped, Begun
<1> DEFINE s == Begun(p, batch)  job == s.idx.jobs[id]  n == job.attempts
<1>3. s.idx \in Indexes
  BY <1>1, BegunFacts
<1>4. CASE Returns(p, s, {}) \/ Interrupted(p, Popped(p), batch)
  BY <1>1, <1>2, <1>4, ReturnsEnds, EndsOperates
<1>5. /\ dead \in Record /\ NamesJob(dead) /\ dead.id = id /\ dead.type = "DEAD"
      /\ dead.error = "reported" /\ dead.at = now
  BY NowType DEF Record, NamesJob
<1>6. ASSUME NEW m \in Nat, NEW wait \in Nat
      PROVE  /\ nack(m, wait) \in Record /\ NamesJob(nack(m, wait)) /\ nack(m, wait).id = id
             /\ nack(m, wait).type = "NACK" /\ nack(m, wait).attempts = m
             /\ nack(m, wait).at = now /\ nack(m, wait).available_at = now + wait
  BY NowType DEF Record, NamesJob
<1> HIDE DEF s, dead, nack
<1>7. CASE /\ id \in DOMAIN s.idx.jobs /\ HoldsLease(s.idx, id, token)
           /\ n >= job.max_attempts /\ Commit(p, s, <<dead>>, {})
  <2>1. Marks(s.idx, dead)
    BY <1>5, <1>7 DEF Marks, Suits, HoldsLease
  <2> QED
    BY <1>1, <1>2, <1>5, <1>7, <2>1, OneOperates DEF s
<1>8. CASE /\ id \in DOMAIN s.idx.jobs /\ HoldsLease(s.idx, id, token)
           /\ n < job.max_attempts
           /\ \E wait \in DelaysFor(n) \cup NackDelays : Commit(p, s, <<nack(n, wait)>>, {})
  <2>1. PICK wait \in DelaysFor(n) \cup NackDelays : Commit(p, s, <<nack(n, wait)>>, {})
    BY <1>8
  <2>2. wait \in Nat
    BY <2>1, DelaysType, InputAssumption
  <2>3. n \in Nat
    BY <1>3, <1>8, HeldFacts
  <2> DEFINE rec == nack(n, wait)
  <2>4. /\ rec \in Record /\ NamesJob(rec) /\ rec.id = id /\ rec.type = "NACK"
        /\ rec.attempts = n /\ rec.at = now /\ rec.available_at = now + wait
    BY <1>6, <2>2, <2>3
  <2> HIDE DEF rec
  <2>5. Commit(p, s, <<rec>>, {})
    BY <2>1 DEF rec
  <2>6. Marks(s.idx, rec)
    BY <1>8, <2>1, <2>4 DEF Marks, Suits, HoldsLease
  <2> QED
    BY <1>1, <1>2, <2>4, <2>5, <2>6, OneOperates DEF s
<1> QED
  BY <1>2, <1>4, <1>7, <1>8 DEF s

LEMMA ExtendOperates ==
  ASSUME IInv, NEW p \in Proc, NEW id \in JobId, NEW token, NEW seconds \in Extensions,
         Extend(p, id, token, seconds)
  PROVE  Operates(p)
<1> DEFINE extend(d) == [type |-> "EXTEND", id |-> id, at |-> now,
                         deadline |-> Max({d, now}) + seconds]
<1>1. proc[p].up
  BY DEF Extend, WithLease, Transaction
<1>2. PICK batch \in ReapBatches(CaughtUp(p).idx) :
        LET s == Begun(p, batch) IN
        /\ \/ Returns(p, s, {})
           \/ /\ id \in DOMAIN s.idx.jobs /\ HoldsLease(s.idx, id, token)
              /\ Commit(p, s, <<extend(s.idx.jobs[id].lease_deadline)>>, {})
           \/ Interrupted(p, Popped(p), batch)
        /\ UNCHANGED <<issued, past, now>>
  BY DEF Extend, WithLease, Transaction, Popped, Begun
<1> DEFINE s == Begun(p, batch)  rec == extend(s.idx.jobs[id].lease_deadline)
<1>3. s.idx \in Indexes
  BY <1>1, BegunFacts
<1>4. CASE Returns(p, s, {}) \/ Interrupted(p, Popped(p), batch)
  BY <1>1, <1>2, <1>4, ReturnsEnds, EndsOperates
<1> HIDE DEF s
<1>5. CASE /\ id \in DOMAIN s.idx.jobs /\ HoldsLease(s.idx, id, token)
           /\ Commit(p, s, <<rec>>, {})
  <2>1. s.idx.jobs[id].lease_deadline \in Nat /\ seconds \in Nat /\ now \in Nat
    BY <1>3, <1>5, HeldFacts, NowType, InputAssumption
  <2>2. Max({s.idx.jobs[id].lease_deadline, now}) + seconds \in Nat
    BY <2>1, MaxOfTwo
  <2>3. /\ rec \in Record /\ NamesJob(rec) /\ rec.id = id /\ rec.type = "EXTEND"
        /\ rec.at = now /\ rec.deadline = Max({s.idx.jobs[id].lease_deadline, now}) + seconds
    BY <2>1, <2>2 DEF Record, NamesJob
  <2> HIDE DEF rec
  <2>4. Marks(s.idx, rec)
    BY <1>5, <2>3 DEF Marks, Suits, HoldsLease
  <2> QED
    BY <1>1, <1>2, <1>5, <2>3, <2>4, OneOperates DEF s
<1> QED
  BY <1>2, <1>4, <1>5 DEF s

LEMMA RequeueOperates ==
  ASSUME IInv, NEW p \in Proc, proc[p].up, NEW batch \in ReapBatches(CaughtUp(p).idx),
         NEW ids \in Seq(JobId),
         \A i \in 1..Len(ids) : /\ ids[i] \in DOMAIN Begun(p, batch).idx.jobs
                                /\ Begun(p, batch).idx.jobs[ids[i]].state = "DEAD",
         Commit(p, Begun(p, batch), RequeueRecords(ids), {}), UNCHANGED <<issued, past, now>>
  PROVE  Operates(p)
<1> DEFINE s == Begun(p, batch)  recs == RequeueRecords(ids)
<1>1. Session(s)
  BY BegunFacts
<1>2. Len(ids) \in Nat /\ DOMAIN ids = 1..Len(ids)
  OBVIOUS
<1>3. recs \in Seq(Record)
  BY <1>1, RequeueBatch
<1>4. recs = [i \in DOMAIN ids |-> [type |-> "REQUEUE", id |-> ids[i], at |-> now,
                                    available_at |-> now]]
  BY DEF RequeueRecords
<1>5. Commit(p, s, recs, {})
  OBVIOUS
<1> HIDE DEF recs, s
<1>6. DOMAIN recs = 1..Len(ids) /\ DOMAIN recs = 1..Len(recs)
  BY <1>2, <1>3, <1>4, LenProperties
<1>7. \A i \in 1..Len(recs) :
        /\ recs[i].type = "REQUEUE" /\ recs[i].id = ids[i] /\ i \in 1..Len(ids)
        /\ recs[i].at = now /\ recs[i].available_at = now
  BY <1>4, <1>6
<1>8. \A i \in 1..Len(recs) : Marks(s.idx, recs[i])
  BY <1>7 DEF Marks, Suits, NamesJob, s
<1>9. Proper(s, s, recs)
  BY <1>1, <1>3, <1>7, <1>8 DEF Proper, Prepares
<1>10. Draws(recs)
  BY <1>7 DEF Draws
<1> QED
  BY <1>5, <1>9, <1>10, CommitEnds, EndsOperates DEF s

LEMMA RequeueOneOperates ==
  ASSUME IInv, NEW p \in Proc, NEW id \in JobId, RequeueOne(p, id)
  PROVE  Operates(p)
<1>1. proc[p].up
  BY DEF RequeueOne, Transaction
<1>2. PICK batch \in ReapBatches(CaughtUp(p).idx) :
        LET s == Begun(p, batch)
            targets == IF id \in DOMAIN s.idx.jobs /\ s.idx.jobs[id].state = "DEAD"
                       THEN <<id>> ELSE <<>>
        IN
        /\ Commit(p, s, RequeueRecords(targets), {}) \/ Interrupted(p, Popped(p), batch)
        /\ UNCHANGED <<issued, past, now>>
  BY DEF RequeueOne, Transaction, Popped, Begun
<1> DEFINE s == Begun(p, batch)
           targets == IF id \in DOMAIN s.idx.jobs /\ s.idx.jobs[id].state = "DEAD"
                      THEN <<id>> ELSE <<>>
<1> HIDE DEF s
<1>3. /\ targets \in Seq(JobId)
      /\ \A i \in 1..Len(targets) : /\ targets[i] \in DOMAIN s.idx.jobs
                                    /\ s.idx.jobs[targets[i]].state = "DEAD"
  <2>1. CASE id \in DOMAIN s.idx.jobs /\ s.idx.jobs[id].state = "DEAD"
    BY <2>1
  <2>2. CASE ~(id \in DOMAIN s.idx.jobs /\ s.idx.jobs[id].state = "DEAD")
    BY <2>2
  <2> QED
    BY <2>1, <2>2
<1>4. CASE Commit(p, s, RequeueRecords(targets), {})
  <2> HIDE DEF targets
  <2> QED
    BY <1>1, <1>2, <1>3, <1>4, RequeueOperates DEF s
<1>5. CASE Interrupted(p, Popped(p), batch)
  BY <1>1, <1>2, <1>5, ReturnsEnds, EndsOperates
<1> QED
  BY <1>2, <1>4, <1>5 DEF s

LEMMA RequeueAllOperates == ASSUME IInv, NEW p \in Proc, RequeueAll(p) PROVE Operates(p)
<1> DEFINE deadIds(idx) == {id \in DOMAIN idx.jobs : idx.jobs[id].state = "DEAD"}
<1>1. proc[p].up
  BY DEF RequeueAll, Transaction
<1>2. PICK batch \in ReapBatches(CaughtUp(p).idx) :
        LET s == Begun(p, batch) IN
        /\ \/ \E ids \in BySeq(s.idx, deadIds(s.idx)) : Commit(p, s, RequeueRecords(ids), {})
           \/ Interrupted(p, Popped(p), batch)
        /\ UNCHANGED <<issued, past, now>>
  BY DEF RequeueAll, Transaction, Popped, Begun
<1> DEFINE s == Begun(p, batch)
<1>3. s.idx \in Indexes
  BY <1>1, BegunFacts
<1> HIDE DEF s
<1>4. CASE \E ids \in BySeq(s.idx, deadIds(s.idx)) : Commit(p, s, RequeueRecords(ids), {})
  <2>1. PICK ids \in BySeq(s.idx, deadIds(s.idx)) : Commit(p, s, RequeueRecords(ids), {})
    BY <1>4
  <2> DEFINE dead == deadIds(s.idx)
  <2>2. IsFiniteSet(dead)
    BY <1>3, JobsType, FS_Subset DEF Finite
  <2>3. ids \in BySeq(s.idx, dead)
    BY <2>1
  <2>4. \A id \in dead : id \in DOMAIN s.idx.jobs /\ id \in JobId /\ s.idx.jobs[id].state = "DEAD"
    BY <1>3, JobsType
  <2> HIDE DEF dead
  <2>5. ids \in Seq(dead)
    BY <2>2, <2>3, BySeqFacts
  <2>6. /\ ids \in Seq(JobId)
        /\ \A i \in 1..Len(ids) : /\ ids[i] \in DOMAIN s.idx.jobs
                                  /\ s.idx.jobs[ids[i]].state = "DEAD"
    BY <2>4, <2>5
  <2> QED
    BY <1>1, <1>2, <2>1, <2>6, RequeueOperates DEF s
<1>5. CASE Interrupted(p, Popped(p), batch)
  BY <1>1, <1>2, <1>5, ReturnsEnds, EndsOperates
<1> QED
  BY <1>2, <1>4, <1>5 DEF s

\* The keys an enqueue uses are new, and distinct if those of the call are.
LEMMA FreshKeys ==
  ASSUME NEW idx, NEW ids \in Seq(JobId), NEW fresh \in Fresh(idx, ids)
  PROVE  /\ \A i \in 1..Len(fresh) : fresh[i] \notin DOMAIN idx.jobs
         /\ (\A i, j \in DOMAIN ids : i # j => ids[i] # ids[j]) =>
              \A i, j \in 1..Len(fresh) : i # j => fresh[i] # fresh[j]
<1> DEFINE unknown == {k \in DOMAIN ids : ids[k] \notin DOMAIN idx.jobs}
<1>1. PICK order \in Ascending(unknown) : fresh = [i \in DOMAIN order |-> ids[order[i]]]
  BY DEF Fresh
<1>2. IsFiniteSet(unknown)
  <2>1. DOMAIN ids = 1..Len(ids) /\ Len(ids) \in Nat
    OBVIOUS
  <2>2. IsFiniteSet(1..Len(ids))
    BY <2>1, FS_Interval
  <2> QED
    BY <2>1, <2>2, FS_Subset
<1>3. order \in Bijection(1..Cardinality(unknown), unknown)
  BY <1>1 DEF Ascending, Orders
<1>4. \A k \in unknown : k \in DOMAIN ids /\ ids[k] \notin DOMAIN idx.jobs
  OBVIOUS
<1> HIDE DEF unknown
<1>5. order \in Seq(unknown) /\ \A i, j \in 1..Len(order) : i # j => order[i] # order[j]
  BY <1>2, <1>3, Arranged
<1>6. DOMAIN order = 1..Len(order) /\ Len(order) \in Nat
  BY <1>5
<1>7. DOMAIN fresh = 1..Len(order) /\ \A i \in 1..Len(order) : fresh[i] = ids[order[i]]
  BY <1>1, <1>6
<1>8. Len(fresh) = Len(order)
  BY <1>6, <1>7, FreshFacts
<1>9. \A i \in 1..Len(order) : order[i] \in unknown
  BY <1>5
<1> QED
  BY <1>4, <1>5, <1>7, <1>8, <1>9

LEMMA EnqueueOperates ==
  ASSUME IInv, NEW p \in Proc, NEW call \in Batches, Enqueue(p, call)
  PROVE  Operates(p)
<1>1. proc[p].up
  BY DEF Enqueue, Transaction
<1>2. PICK batch \in ReapBatches(CaughtUp(p).idx) :
        LET s == Begun(p, batch) IN
        /\ \/ \E fresh \in Fresh(s.idx, call.ids) : \E replies :
                Commit(p, [s EXCEPT !.idx.seq = @ + Len(fresh)],
                       [i \in DOMAIN fresh |-> ToDict(fresh[i], NewJob(call, s.idx.seq + i))],
                       replies)
           \/ Interrupted(p, Popped(p), batch)
        /\ UNCHANGED <<issued, past, now>>
  BY DEF Enqueue, Transaction, Popped, Begun
<1> DEFINE s == Begun(p, batch)
<1>3. Session(s) /\ s.idx \in Indexes /\ s = [log |-> s.log, idx |-> s.idx]
  BY <1>1, BegunFacts
<1> HIDE DEF s
<1>4. CASE \E fresh \in Fresh(s.idx, call.ids) : \E replies :
             Commit(p, [s EXCEPT !.idx.seq = @ + Len(fresh)],
                    [i \in DOMAIN fresh |-> ToDict(fresh[i], NewJob(call, s.idx.seq + i))],
                    replies)
  <2>0. PICK fresh \in Fresh(s.idx, call.ids) : \E replies :
          Commit(p, [s EXCEPT !.idx.seq = @ + Len(fresh)],
                 [i \in DOMAIN fresh |-> ToDict(fresh[i], NewJob(call, s.idx.seq + i))],
                 replies)
    BY <1>4
  <2>1. PICK replies :
          Commit(p, [s EXCEPT !.idx.seq = @ + Len(fresh)],
                 [i \in DOMAIN fresh |-> ToDict(fresh[i], NewJob(call, s.idx.seq + i))],
                 replies)
    BY <2>0
  <2> DEFINE t == [s EXCEPT !.idx.seq = @ + Len(fresh)]  base == s.idx.seq
             recs == [i \in DOMAIN fresh |-> ToDict(fresh[i], NewJob(call, base + i))]
  <2>2. fresh \in Seq(JobId) /\ Len(fresh) \in Nat
    BY <2>0, FreshFacts, InputAssumption
  <2>3. Session(t) /\ t.log = s.log /\ base \in Nat
    BY <1>3, <2>2, CountedSession
  <2>4. Commit(p, t, recs, replies)
    BY <2>1
  <2>5. /\ t.idx.jobs = s.idx.jobs /\ t.idx.leases = s.idx.leases
        /\ SameHeaps(t.idx, s.idx)
    BY <1>3 DEF Indexes, SameHeaps
  <2> HIDE DEF t, base
  <2>6. DOMAIN fresh = 1..Len(fresh) /\ \A i \in 1..Len(fresh) : fresh[i] \in JobId
    BY <2>2
  <2>7. \A i \in 1..Len(fresh) : recs[i] = ToDict(fresh[i], NewJob(call, base + i))
    BY <2>6
  <2>8. recs = [i \in DOMAIN fresh |-> recs[i]]
    OBVIOUS
  <2> HIDE DEF recs
  <2>9. \A i \in 1..Len(fresh) : recs[i] \in Record
    <3>1. \A i \in 1..Len(fresh) : base + i \in Nat \ {0}
      BY <2>2, <2>3
    <3> QED
      BY <2>6, <2>7, <3>1, NewRecord
  <2>10. \A i \in 1..Len(fresh) :
           /\ recs[i].type = "ENQUEUE" /\ recs[i].state = "READY" /\ recs[i].attempts = 0
           /\ recs[i].id = fresh[i] /\ recs[i].max_attempts = call.limit
           /\ recs[i].available_at = now + call.delay
    <3>1. ASSUME NEW id, NEW n
          PROVE  LET rec == ToDict(id, NewJob(call, n)) IN
                 /\ rec.type = "ENQUEUE" /\ rec.state = "READY" /\ rec.attempts = 0
                 /\ rec.id = id /\ rec.max_attempts = call.limit
                 /\ rec.available_at = now + call.delay
      BY DEF ToDict, NewJob
    <3> QED
      BY <2>7, <3>1
  <2>11. recs \in Seq(Record) /\ Len(recs) = Len(fresh)
    BY <2>2, <2>8, <2>9, MappedSeq
  <2>12. Creates(s.idx, recs)
    <3>1. call.ids \in Seq(JobId)
      BY InputAssumption
    <3>2. /\ \A i \in 1..Len(fresh) : fresh[i] \notin DOMAIN s.idx.jobs
          /\ DistinctKeys => \A i, j \in 1..Len(fresh) : i # j => fresh[i] # fresh[j]
      BY <2>0, <3>1, FreshKeys DEF DistinctKeys
    <3> QED
      BY <2>10, <2>11, <3>2 DEF Creates
  <2>13. Proper(s, t, recs)
    BY <2>3, <2>5, <2>11, <2>12 DEF Proper, Prepares
  <2>14. Draws(recs)
    BY <1>2, <2>10, <2>11 DEF Draws
  <2> QED
    BY <1>1, <1>2, <2>4, <2>13, <2>14, CommitEnds, EndsOperates DEF s
<1>5. CASE Interrupted(p, Popped(p), batch)
  BY <1>1, <1>2, <1>5, ReturnsEnds, EndsOperates
<1> QED
  BY <1>2, <1>4, <1>5 DEF s

LEMMA LeaseOperates ==
  ASSUME IInv, NEW p \in Proc, NEW count \in Counts, NEW timeout \in Timeouts,
         Lease(p, count, timeout)
  PROVE  Operates(p)
<1>1. proc[p].up
  BY DEF Lease, Transaction
<1>2. PICK batch \in ReapBatches(CaughtUp(p).idx) :
        LET s == Begun(p, batch)  taken == Taken(s.idx, count) IN
        /\ \/ /\ Commit(p, [s EXCEPT !.idx = taken.idx], LeaseRecords(s, taken.ids, timeout), {})
              /\ issued' = issued + Len(taken.ids)
           \/ Interrupted(p, Popped(p), batch) /\ issued' = issued
        /\ UNCHANGED <<past, now>>
  BY DEF Lease, Transaction, Popped, Begun
<1> DEFINE s == Begun(p, batch)  taken == Taken(s.idx, count)  t == [s EXCEPT !.idx = taken.idx]
           recs == LeaseRecords(s, taken.ids, timeout)
<1>3. Session(s) /\ s.idx \in Indexes /\ count \in Nat /\ timeout \in Nat
  BY <1>1, BegunFacts, InputAssumption
<1> HIDE DEF s
<1>4. CASE Commit(p, t, recs, {}) /\ issued' = issued + Len(taken.ids)
  <2>1. /\ Session(t) /\ t.log = s.log /\ t.idx = taken.idx
        /\ taken.ids \in Seq(WaitingIds(s.idx)) /\ taken.idx.jobs = s.idx.jobs
    BY <1>3, TakenSession
  <2>2. taken.idx.leases = s.idx.leases
    BY <1>3, TakenFacts DEF Takings
  <2>3. Hands(s, t, recs)
    BY <1>3, <2>1 DEF Hands
  <2> HIDE DEF taken
  <2>4. recs \in Seq(Record)
    BY <1>3, <2>1, LeaseBatch
  <2>5. Draws(recs)
    <3>1. Len(recs) = Len(taken.ids) /\ \A k \in 1..Len(recs) : recs[k].type = "LEASE"
      BY <2>1 DEF LeaseRecords
    <3>2. issued \in Nat /\ Len(recs) \in Nat
      BY <2>4, NowType
    <3> HIDE DEF recs
    <3>3. Len(recs) = 0 => issued + Len(recs) = issued
      BY <3>2
    <3>4. Len(recs) # 0 => \E k \in 1..Len(recs) : recs[k].type = "LEASE"
      BY <3>1, <3>2
    <3> QED
      BY <1>4, <3>1, <3>3, <3>4 DEF Draws
  <2> HIDE DEF t, recs
  <2>6. Proper(s, t, recs)
    BY <2>1, <2>2, <2>3, <2>4 DEF Proper, Prepares
  <2> QED
    BY <1>1, <1>2, <1>4, <2>5, <2>6, CommitEnds, EndsOperates DEF s
<1>5. CASE Interrupted(p, Popped(p), batch) /\ issued' = issued
  BY <1>1, <1>2, <1>5, ReturnsEnds, EndsOperates
<1> QED
  BY <1>2, <1>4, <1>5 DEF s

LEMMA AbortedLeaseOperates ==
  ASSUME IInv, NEW p \in Proc, NEW count \in Counts, AbortedLease(p, count)
  PROVE  Operates(p)
<1>1. proc[p].up
  BY DEF AbortedLease, Transaction
<1> DEFINE back(s, taken, ids) == Attached([s EXCEPT !.idx = Restore(taken.idx, ToSet(ids))])
           ends(s, taken) ==
             /\ \/ proc' = [proc EXCEPT ![p] = back(s, taken, taken.ids)]
                \/ /\ "interrupt" \in Faults /\ taken.ids # <<>>
                   /\ proc' = [proc EXCEPT ![p] = back(s, taken, Front(taken.ids))]
             /\ log' = s.log
<1>2. PICK batch \in ReapBatches(CaughtUp(p).idx) :
        /\ \/ \E n \in 0..count : ends(Begun(p, batch), Taken(Begun(p, batch).idx, n))
           \/ Interrupted(p, Popped(p), batch)
        /\ UNCHANGED <<issued, past, now>>
  <2> DEFINE aborts(s, taken) ==
               /\ \/ /\ "abort" \in Faults
                     /\ proc' = [proc EXCEPT ![p] = back(s, taken, taken.ids)]
                  \/ /\ "interrupt" \in Faults /\ taken.ids # <<>>
                     /\ proc' = [proc EXCEPT ![p] = back(s, taken, Front(taken.ids))]
               /\ log' = s.log
               /\ faults < MaxFaults /\ faults' = faults + 1
               /\ UNCHANGED <<issued, past, told>>
  <2>1. \E s \in {CaughtUp(p)} :
          \E batch \in ReapBatches(s.idx), popped \in {[s EXCEPT !.idx = WithoutLapsed(@, now)]} :
            \/ \E t \in {Committed(popped, batch)} :
                 \E n \in 0..count : \E taken \in {Taken(t.idx, n)} : aborts(t, taken)
            \/ Interrupted(p, popped, batch) /\ UNCHANGED <<issued, past>>
    BY DEF AbortedLease, Transaction
  <2>0. now' = now
    BY DEF AbortedLease, Transaction
  <2>2. \A s, taken : aborts(s, taken) => ends(s, taken) /\ UNCHANGED <<issued, past>>
    OBVIOUS
  <2> HIDE DEF aborts, ends
  <2>3. PICK batch \in ReapBatches(CaughtUp(p).idx) :
          \/ \E n \in 0..count : aborts(Begun(p, batch), Taken(Begun(p, batch).idx, n))
          \/ Interrupted(p, Popped(p), batch) /\ UNCHANGED <<issued, past>>
    BY <2>1 DEF Popped, Begun
  <2> QED
    BY <2>0, <2>2, <2>3
<1> DEFINE s == Begun(p, batch)
<1>3. Session(s) /\ s.idx \in Indexes /\ count \in Nat /\ s = [log |-> s.log, idx |-> s.idx]
  BY <1>1, BegunFacts, InputAssumption
<1> HIDE DEF s
<1>4. ASSUME NEW n \in 0..count, NEW ids,
             \/ ids = Taken(s.idx, n).ids
             \/ /\ "interrupt" \in Faults
                /\ ids = Front(Taken(s.idx, n).ids) /\ Taken(s.idx, n).ids # <<>>,
             proc' = [proc EXCEPT ![p] = back(s, Taken(s.idx, n), ids)], log' = s.log
      PROVE  Ends(p, batch)
  <2> DEFINE t == [s EXCEPT !.idx = Restore(Taken(s.idx, n).idx, ToSet(ids))]
  <2>1. n \in Nat
    BY <1>3
  <2>2. Session(t) /\ t.log = s.log
    BY <1>3, <1>4, <2>1, GivenBack
  <2>3. t.idx = Restore(Taken(s.idx, n).idx, ToSet(ids))
    BY <1>3
  <2>4. t.idx.jobs = s.idx.jobs /\ t.idx.leases = s.idx.leases
    <3>1. Taken(s.idx, n).idx.jobs = s.idx.jobs /\ Taken(s.idx, n).idx.leases = s.idx.leases
          /\ Taken(s.idx, n).idx \in Indexes
      BY <1>3, <2>1, TakenFacts DEF Takings, SameJobs
    <3> DEFINE mid == Taken(s.idx, n).idx
    <3>2. t.idx = [mid EXCEPT !.scheduled =
                      @ \cup {ScheduledEntry(id, mid.jobs[id]) : id \in ToSet(ids)}]
      BY <2>3 DEF Restore
    <3> HIDE DEF t, mid
    <3>3. mid \in Indexes => t.idx.jobs = mid.jobs /\ t.idx.leases = mid.leases
      BY <3>2 DEF Indexes
    <3> QED
      BY <3>1, <3>3 DEF mid
  <2>5. GivesBack(s.idx, t.idx)
    BY <1>4, <2>1, <2>3 DEF GivesBack
  <2>6. proc' = [proc EXCEPT ![p] = Attached(t)]
    BY <1>4
  <2> HIDE DEF t
  <2>7. Prepares(s, t)
    BY <2>2, <2>4 DEF Prepares
  <2> QED
    BY <1>2, <1>4, <2>5, <2>6, <2>7 DEF Ends, s
<1>5. CASE Interrupted(p, Popped(p), batch)
  BY <1>1, <1>2, <1>5, ReturnsEnds, EndsOperates
<1>6. CASE \E n \in 0..count : ends(s, Taken(s.idx, n))
  <2>1. PICK n \in 0..count : ends(s, Taken(s.idx, n))
    BY <1>6
  <2>2. Ends(p, batch)
    BY <1>4, <2>1
  <2> QED
    BY <1>1, <2>2, EndsOperates
<1> QED
  BY <1>2, <1>5, <1>6 DEF s

LEMMA CompactOperates == ASSUME IInv, NEW p \in Proc, Compact(p) PROVE Operates(p)
<1> DEFINE kept(s, live) == [up |-> TRUE, gen |-> s.log.gen + 1, pos |-> Len(live),
                             idx |-> Retain(s.idx, live)]
<1>1. proc[p].up
  BY DEF Compact, Transaction
<1>2. PICK batch \in ReapBatches(CaughtUp(p).idx) :
        \/ /\ issued' = issued /\ now' = now
           /\ \E s \in {Begun(p, batch)} :
              \E live \in LiveJobs(s.idx) :
                \/ /\ Flip(s, live)
                   /\ proc' = [proc EXCEPT ![p] = kept(s, live)]
                \/ /\ Flip(s, live) \/ (log' = s.log /\ UNCHANGED past)
                   /\ Breaks(p, s)
        \/ Interrupted(p, Popped(p), batch) /\ UNCHANGED <<issued, past, now>>
  BY DEF Compact, Transaction, Popped, Begun
<1>3. CASE Interrupted(p, Popped(p), batch) /\ UNCHANGED <<issued, past, now>>
  BY <1>1, <1>3, ReturnsEnds, EndsOperates
<1>4. CASE ~(Interrupted(p, Popped(p), batch) /\ UNCHANGED <<issued, past, now>>)
  <2> DEFINE s == Begun(p, batch)
  <2>1. PICK live \in LiveJobs(s.idx) :
          \/ Flip(s, live) /\ proc' = [proc EXCEPT ![p] = kept(s, live)]
          \/ Flip(s, live) /\ Breaks(p, s)
          \/ log' = s.log /\ UNCHANGED past /\ Breaks(p, s)
    BY <1>2, <1>4
  <2>0. issued' = issued /\ now' = now
    BY <1>2, <1>4
  <2> HIDE DEF s
  <2>2. CASE Flip(s, live) /\ proc' = [proc EXCEPT ![p] = kept(s, live)]
    <3>1. kept(s, live).idx = Retain(s.idx, live)
      OBVIOUS
    <3> HIDE DEF kept
    <3> QED
      BY <1>1, <2>0, <2>1, <2>2, <3>1, EndsOperates DEF Ends, s
  <2>3. CASE Flip(s, live) /\ Breaks(p, s)
    BY <1>1, <2>0, <2>1, <2>3, EndsOperates DEF Ends, s
  <2>4. CASE log' = s.log /\ UNCHANGED past /\ Breaks(p, s)
    BY <1>1, <2>0, <2>4, EndsOperates DEF Ends, s
  <2> QED
    BY <2>1, <2>2, <2>3, <2>4
<1> QED
  BY <1>3, <1>4

-----------------------------------------------------------------------------
(***************************************************************************)
(* Leased jobs time out.  Applying a record never takes the lease heap's   *)
(* entry from a job, and gives one to the job the record names if that is  *)
(* leased; a reap takes the entries that have lapsed, and writes a record  *)
(* about each job that lost its entry.                                     *)
(***************************************************************************)
\* The leased jobs no entry of the lease heap stands for.
Untimed(idx) == {id \in LeasedIds(idx) : LeaseEntry(id, idx.jobs[id]) \notin idx.leases}

LEMMA CoveredIs == LeaseCovered <=> \A p \in Proc : Untimed(proc[p].idx) = {}
<1>1. ASSUME NEW idx
      PROVE  Untimed(idx) = {} <=>
               \A id \in DOMAIN idx.jobs : idx.jobs[id].state = "LEASED" =>
                 \E e \in idx.leases : e = LeaseEntry(id, idx.jobs[id])
  BY DEF Untimed, LeasedIds
<1> QED
  BY <1>1 DEF LeaseCovered

LEMMA ApplyTimes ==
  ASSUME NEW idx \in Indexes, NEW rec \in Record
  PROVE  LET out == Apply(idx, rec) IN
         /\ Untimed(out) \subseteq Untimed(idx)
         /\ rec.type # "PURGE" => rec.id \notin Untimed(out)
<1> DEFINE out == Apply(idx, rec)
<1>1. CASE rec.type = "ENQUEUE"
  <2> DEFINE job == FromDict(rec)
  <2>1. job \in Job
    BY <1>1, RecordFacts
  <2>2. /\ out.jobs = Put(idx.jobs, rec.id, job)
        /\ out.leases = idx.leases \cup IF TimesOut(job) THEN {LeaseEntry(rec.id, job)} ELSE {}
    BY <1>1, ApplyEnqueueIs
  <2> HIDE DEF out, job
  <2>3. job.state = "LEASED" => TimesOut(job)
    BY <2>1 DEF Job, HeldWhenLeased, TimesOut
  <2>4. rec.id \notin Untimed(out)
    BY <2>2, <2>3 DEF Untimed, LeasedIds, Put
  <2>5. ASSUME NEW id \in Untimed(out), id # rec.id PROVE id \in Untimed(idx)
    BY <2>2, <2>5 DEF Untimed, LeasedIds, Put
  <2> QED
    BY <2>4, <2>5 DEF out
<1>2. CASE rec.type = "PURGE"
  <2>1. DOMAIN out.jobs = {}
    BY <1>2, ApplyPurgeIs
  <2> HIDE DEF out
  <2> QED
    BY <1>2, <2>1 DEF Untimed, LeasedIds, out
<1>3. CASE NamesJob(rec) /\ rec.id \in DOMAIN idx.jobs
  <2> DEFINE job == Changed(idx.jobs[rec.id], rec)
  <2>1. idx.jobs[rec.id] \in Job
    BY <1>3, JobsType
  <2>2. /\ out.jobs = Put(idx.jobs, rec.id, job)
        /\ out.leases = idx.leases \cup PushedLease(rec.id, job, rec)
    BY <1>3, ApplyNamed
  <2>3. rec.type \in RecordTypes \ {"ENQUEUE", "PURGE"}
    BY <1>3, RecordFacts DEF NamesJob
  <2>4. job.state = "LEASED" => rec.type \in {"LEASE", "EXTEND"}
    BY <1>3, <2>1, <2>3, ChangedFields DEF Has, RecordTypes
  <2> HIDE DEF out, job
  <2>5. job.state = "LEASED" => LeaseEntry(rec.id, job) \in out.leases
    BY <2>2, <2>4 DEF PushedLease
  <2>6. rec.id \notin Untimed(out)
    BY <2>2, <2>5 DEF Untimed, LeasedIds, Put
  <2>7. ASSUME NEW id \in Untimed(out), id # rec.id PROVE id \in Untimed(idx)
    BY <2>2, <2>7 DEF Untimed, LeasedIds, Put
  <2> QED
    BY <2>6, <2>7 DEF out
<1>4. CASE NamesJob(rec) /\ rec.id \notin DOMAIN idx.jobs
  <2>1. out.jobs = idx.jobs /\ out.leases = idx.leases
    BY <1>4, ApplyOrphan DEF Indexes
  <2> HIDE DEF out
  <2> QED
    BY <1>4, <2>1 DEF Untimed, LeasedIds, out
<1> QED
  BY <1>1, <1>2, <1>3, <1>4 DEF NamesJob

LEMMA ReplayTimes ==
  ASSUME NEW idx \in Indexes, NEW recs \in Seq(Record)
  PROVE  LET out == Replay(idx, recs) IN
         /\ Untimed(out) \subseteq Untimed(idx)
         /\ \A k \in 1..Len(recs) : recs[k].type # "PURGE" => recs[k].id \notin Untimed(out)
<1> DEFINE at(n) == Replay(idx, SubSeq(recs, 1, n))
           T == {n \in 0..Len(recs) :
                   /\ Untimed(at(n)) \subseteq Untimed(idx)
                   /\ \A k \in 1..n : recs[k].type # "PURGE" => recs[k].id \notin Untimed(at(n))}
<1>1. Len(recs) \in Nat /\ at(0) = idx /\ at(Len(recs)) = Replay(idx, recs)
  BY PrefixFacts, ReplayNothing
<1>2. \A n \in 0..(Len(recs) - 1) : at(n + 1) = Apply(at(n), recs[n + 1])
  BY ReplayNext
<1>3. \A n \in 0..Len(recs) : at(n) \in Indexes
  BY ReplayType
<1>4. \A n \in 1..Len(recs) : recs[n] \in Record
  BY PrefixFacts
<1> HIDE DEF at
<1>5. 0 \in T
  BY <1>1
<1>6. ASSUME NEW n \in 0..(Len(recs) - 1), n \in T PROVE n + 1 \in T
  <2>1. n \in 0..Len(recs) /\ n + 1 \in 1..Len(recs) /\ n + 1 \in 0..Len(recs) /\ n \in Nat
    BY <1>1
  <2> DEFINE m == n + 1
  <2>2. /\ m \in 1..Len(recs) /\ m \in 0..Len(recs) /\ \A k \in 1..m : k = m \/ k \in 1..n
    BY <2>1
  <2>3. at(m) = Apply(at(n), recs[m])
    BY <1>2
  <2> HIDE DEF m
  <2>4. /\ Untimed(at(m)) \subseteq Untimed(at(n))
        /\ recs[m].type # "PURGE" => recs[m].id \notin Untimed(at(m))
    BY <1>3, <1>4, <2>1, <2>2, <2>3, ApplyTimes
  <2>5. m \in T
    BY <1>6, <2>2, <2>4
  <2> QED
    BY <2>5 DEF m
<1>7. 0..Len(recs) \subseteq T
  <2> HIDE DEF T
  <2> QED
    BY <1>1, <1>5, <1>6, UpToInduction
<1>8. Len(recs) \in T
  BY <1>1, <1>7
<1> QED
  BY <1>1, <1>8

LEMMA EmptyTimes == Untimed(EmptyIndex) = {}
  BY EmptyFacts DEF Untimed, LeasedIds

LEMMA RetainTimes ==
  ASSUME NEW idx \in Indexes, NEW live \in LiveJobs(idx)
  PROVE  Untimed(Retain(idx, live)) = {}
<1> DEFINE out == Retain(idx, live)
<1>1. live \in Seq(DOMAIN idx.jobs)
  BY LiveFacts
<1>2. out \in Indexes /\ out.leases =
        {LeaseEntry(id, out.jobs[id]) : id \in {i \in DOMAIN out.jobs : TimesOut(out.jobs[i])}}
  <2> DEFINE jobs == [id \in ToSet(live) |-> idx.jobs[id]]
  <2>1. /\ out \in Indexes /\ out.jobs = jobs
        /\ out.leases = {LeaseEntry(id, jobs[id]) : id \in {i \in DOMAIN jobs : TimesOut(jobs[i])}}
    BY <1>1, RetainFacts
  <2> HIDE DEF out, jobs
  <2> QED
    BY <2>1
<1> HIDE DEF out
<1>3. \A id \in DOMAIN out.jobs : out.jobs[id].state = "LEASED" => TimesOut(out.jobs[id])
  BY <1>2, JobsType DEF Job, HeldWhenLeased, TimesOut
<1>4. Untimed(out) = {}
  BY <1>2, <1>3 DEF Untimed, LeasedIds
<1> QED
  BY <1>4 DEF out

\* Who loses its entry to a reap is among those the reap finds.
LEMMA LapsedTimes ==
  ASSUME NEW idx \in Indexes, Untimed(idx) = {}, NEW time, NEW ids \in ExpiredLeases(idx, time)
  PROVE  Untimed(WithoutLapsed(idx, time)) \subseteq ToSet(ids)
<1> DEFINE out == WithoutLapsed(idx, time)
<1>1. out.jobs = idx.jobs /\ out.leases = idx.leases \ Lapsed(idx, time)
  BY WithoutLapsedFacts DEF SameJobs
<1> HIDE DEF out
<1>2. ASSUME NEW id \in Untimed(out) PROVE id \in ToSet(ids)
  <2> DEFINE e == LeaseEntry(id, idx.jobs[id])
  <2>1. /\ id \in DOMAIN idx.jobs /\ idx.jobs[id].state = "LEASED"
        /\ e \in idx.leases /\ e \in Lapsed(idx, time)
    BY <1>1, <1>2 DEF Untimed, LeasedIds
  <2>2. e.id = id /\ e.version = idx.jobs[id].version
    BY DEF LeaseEntry
  <2> HIDE DEF e
  <2>3. Current(idx, e, "LEASED")
    BY <2>1, <2>2 DEF Current
  <2> QED
    BY <2>1, <2>2, <2>3, ExpiredFacts
<1> QED
  BY <1>2 DEF out

LEMMA BegunTimes ==
  ASSUME IInv, LeaseCovered, NEW p \in Proc, proc[p].up,
         NEW batch \in ReapBatches(CaughtUp(p).idx)
  PROVE  Untimed(Begun(p, batch).idx) = {}
<1> DEFINE idx == CaughtUp(p).idx  popped == WithoutLapsed(idx, now)
<1>1. Untimed(idx) = {}
  <2> DEFINE q == proc[p]  recs == log.recs  rest == SubSeq(recs, q.pos + 1, Len(recs))
  <2>1. recs \in Seq(Record) /\ Agrees(q, log)
    BY Parts DEF Logs
  <2>2. CASE q.gen # log.gen
    <3>1. idx = Replay(EmptyIndex, recs)
      BY <2>2 DEF CaughtUp
    <3> HIDE DEF idx
    <3> QED
      BY <2>1, <3>1, EmptyFacts, EmptyTimes, ReplayTimes
  <2>3. CASE q.gen = log.gen
    <3>1. /\ q.pos \in Nat /\ q.pos <= Len(recs) /\ q.idx \in Indexes
      BY <2>1, <2>3 DEF Agrees, Process
    <3>2. rest \in Seq(Record)
      BY <2>1, <3>1, SplitAt
    <3>3. idx = Replay(q.idx, rest)
      BY <2>3 DEF CaughtUp
    <3>4. Untimed(q.idx) = {}
      BY CoveredIs
    <3> HIDE DEF idx, rest, q
    <3> QED
      BY <3>1, <3>2, <3>3, <3>4, ReplayTimes
  <2> QED
    BY <2>2, <2>3
<1>2. idx \in Indexes
  BY CaughtUpFacts DEF Session
<1>3. PICK ids \in ExpiredLeases(idx, now) :
        \E delay : batch = [i \in DOMAIN ids |-> ReapRecord(idx, ids[i], delay[i])]
  BY DEF ReapBatches
<1>4. batch \in Seq(Record) /\ Begun(p, batch).idx = Replay(popped, batch)
  <2>1. CaughtUp(p) = [log |-> CaughtUp(p).log, idx |-> CaughtUp(p).idx]
    BY DEF CaughtUp
  <2> DEFINE c == CaughtUp(p)
  <2>2. Popped(p).idx = popped
    <3>1. Popped(p) = [c EXCEPT !.idx = popped]
      BY DEF Popped
    <3>2. c = [log |-> c.log, idx |-> c.idx]
      BY <2>1
    <3> HIDE DEF c, popped
    <3> QED
      BY <3>1, <3>2
  <2> QED
    BY <2>2, ReapFacts DEF Begun, Committed
<1> HIDE DEF idx
<1>5. popped \in Indexes /\ Untimed(popped) \subseteq ToSet(ids)
  BY <1>1, <1>2, <1>3, WithoutLapsedFacts, LapsedTimes
<1> HIDE DEF popped
<1>6. ASSUME NEW id \in ToSet(ids)
      PROVE  \E k \in 1..Len(batch) : batch[k].type # "PURGE" /\ batch[k].id = id
  <2>1. PICK delay : batch = [i \in DOMAIN ids |-> ReapRecord(idx, ids[i], delay[i])]
    BY <1>3
  <2>2. PICK k \in DOMAIN ids : ids[k] = id
    BY <1>6 DEF ToSet
  <2>3. batch[k].type # "PURGE" /\ batch[k].id = id
    BY <2>1, <2>2 DEF ReapRecord
  <2>4. DOMAIN batch = DOMAIN ids /\ DOMAIN batch = 1..Len(batch)
    BY <1>4, <2>1, LenProperties
  <2> QED
    BY <2>2, <2>3, <2>4
<1> QED
  BY <1>4, <1>5, <1>6, ReplayTimes

LEMMA PutTimes ==
  ASSUME LeaseCovered, DOMAIN proc = Proc, NEW p \in Proc, NEW q, Untimed(q.idx) = {},
         proc' = [proc EXCEPT ![p] = q]
  PROVE  LeaseCovered'
<1>1. \A r \in Proc : Untimed(proc'[r].idx) = {}
  BY CoveredIs
<1>2. LeaseCovered' <=> \A r \in Proc : Untimed(proc'[r].idx) = {}
  <2>1. ASSUME NEW idx
        PROVE  Untimed(idx) = {} <=>
                 \A id \in DOMAIN idx.jobs : idx.jobs[id].state = "LEASED" =>
                   \E e \in idx.leases : e = LeaseEntry(id, idx.jobs[id])
    BY DEF Untimed, LeasedIds
  <2> QED
    BY <2>1 DEF LeaseCovered
<1> QED
  BY <1>1, <1>2

\* Without an exception, who breaks off an operation is down.
LEMMA BreaksTimes ==
  ASSUME LeaseCovered, "raise" \notin Faults, DOMAIN proc = Proc, NEW p \in Proc, NEW s,
         Breaks(p, s)
  PROVE  LeaseCovered'
<1>1. proc' = [proc EXCEPT ![p] = Down] /\ Untimed(Down.idx) = {}
  BY EmptyTimes DEF Breaks, Down
<1> QED
  BY <1>1, PutTimes

LEMMA OperatesTimes ==
  ASSUME IInv, LeaseCovered, "raise" \notin Faults, NEW p \in Proc, Operates(p)
  PROVE  LeaseCovered'
<1>1. DOMAIN proc = Proc /\ proc[p].up
  BY Parts DEF Operates
<1>2. PICK batch \in ReapBatches(CaughtUp(p).idx) : Ends(p, batch)
  BY DEF Operates
<1> DEFINE s == Begun(p, batch)
<1>3. Session(s) /\ s.idx \in Indexes /\ Untimed(s.idx) = {}
  BY <1>1, BegunFacts, BegunTimes
<1>4. \/ Interrupted(p, Popped(p), batch)
      \/ \E replies : Returns(p, s, replies)
      \/ \E t, recs, replies : Proper(s, t, recs) /\ Commit(p, t, recs, replies)
      \/ \E t : Prepares(s, t) /\ proc' = [proc EXCEPT ![p] = Attached(t)]
      \/ Breaks(p, s)
      \/ \E live \in LiveJobs(s.idx) :
           \E q : q.idx = Retain(s.idx, live) /\ proc' = [proc EXCEPT ![p] = q]
  BY <1>2 DEF Ends
<1> HIDE DEF s
<1>5. ASSUME NEW t, Prepares(s, t) PROVE Untimed(t.idx) = {} /\ t.idx \in Indexes
  BY <1>3, <1>5 DEF Prepares, Untimed, LeasedIds, Session
<1>6. ASSUME NEW t PROVE Attached(t).idx = t.idx
  BY DEF Attached
<1>7. CASE Interrupted(p, Popped(p), batch)
  BY <1>1, <1>7, BreaksTimes DEF Interrupted
<1>8. CASE \E replies : Returns(p, s, replies)
  <2>1. proc' = [proc EXCEPT ![p] = Attached(s)]
    BY <1>8 DEF Returns
  <2> QED
    BY <1>1, <1>3, <1>6, <2>1, PutTimes
<1>9. CASE \E t, recs, replies : Proper(s, t, recs) /\ Commit(p, t, recs, replies)
  <2>1. PICK t, recs, replies : Proper(s, t, recs) /\ Commit(p, t, recs, replies)
    BY <1>9
  <2>2. recs \in Seq(Record) /\ Untimed(t.idx) = {} /\ t.idx \in Indexes
    BY <1>5, <2>1 DEF Proper
  <2> DEFINE q == Attached(Committed(t, recs))
  <2>3. Untimed(q.idx) = {}
    BY <1>6, <2>2, ReplayTimes DEF Committed
  <2>4. CASE proc' = [proc EXCEPT ![p] = q]
    BY <1>1, <2>3, <2>4, PutTimes
  <2>5. CASE Breaks(p, t)
    BY <1>1, <2>5, BreaksTimes
  <2> QED
    BY <2>1, <2>4, <2>5 DEF Commit, Returns, Interrupted
<1>10. CASE \E t : Prepares(s, t) /\ proc' = [proc EXCEPT ![p] = Attached(t)]
  BY <1>1, <1>5, <1>6, <1>10, PutTimes
<1>11. CASE Breaks(p, s)
  BY <1>1, <1>11, BreaksTimes
<1>12. CASE \E live \in LiveJobs(s.idx) :
              \E q : q.idx = Retain(s.idx, live) /\ proc' = [proc EXCEPT ![p] = q]
  BY <1>1, <1>3, <1>12, RetainTimes, PutTimes
<1> QED
  BY <1>4, <1>7, <1>8, <1>9, <1>10, <1>11, <1>12

-----------------------------------------------------------------------------
(***************************************************************************)
(* Every step is an operation or one of a few steps of the environment.    *)
(***************************************************************************)
LEMMA StepIs ==
  ASSUME IInv, [Next]_vars
  PROVE  \/ \E p \in Proc : Operates(p) \/ Open(p) \/ Stop(p)
         \/ PowerLoss
         \/ UNCHANGED <<log, proc, past>> /\ (Tick \/ ClockBack \/ UNCHANGED vars)
<1>1. ASSUME NEW p \in Proc,
             \/ RequeueAll(p) \/ Purge(p) \/ Read(p) \/ Compact(p)
      PROVE  Operates(p)
  BY <1>1, RequeueAllOperates, PurgeOperates, ReadOperates, CompactOperates
<1>2. ASSUME NEW p \in Proc, NEW batch \in Batches, Enqueue(p, batch) PROVE Operates(p)
  BY <1>2, EnqueueOperates
<1>3. ASSUME NEW p \in Proc, NEW count \in Counts, NEW timeout \in Timeouts,
             Lease(p, count, timeout)
      PROVE  Operates(p)
  BY <1>3, LeaseOperates
<1>4. ASSUME NEW p \in Proc, NEW count \in Counts, AbortedLease(p, count) PROVE Operates(p)
  BY <1>4, AbortedLeaseOperates
<1>5. ASSUME NEW p \in Proc, NEW id \in JobId, RequeueOne(p, id) PROVE Operates(p)
  BY <1>5, RequeueOneOperates
<1>6. ASSUME NEW p \in Proc, NEW id \in JobId, NEW token, Ack(p, id, token) PROVE Operates(p)
  BY <1>6, AckOperates
<1>7. ASSUME NEW p \in Proc, NEW id \in JobId, NEW token, Nack(p, id, token) PROVE Operates(p)
  BY <1>7, NackOperates
<1>8. ASSUME NEW p \in Proc, NEW id \in JobId, NEW seconds \in Extensions, NEW token,
             Extend(p, id, token, seconds)
      PROVE  Operates(p)
  BY <1>8, ExtendOperates
<1>9. CASE Tick \/ ClockBack \/ UNCHANGED vars
  BY <1>9 DEF Tick, ClockBack, vars
<1>10. Next \/ UNCHANGED vars
  OBVIOUS
<1> QED
  BY <1>1, <1>2, <1>3, <1>4, <1>5, <1>6, <1>7, <1>8, <1>9, <1>10 DEF Next

LEMMA InitTimes == Init => LeaseCovered
<1> SUFFICES ASSUME Init PROVE LeaseCovered
  OBVIOUS
<1>1. \A p \in Proc : proc[p].idx = EmptyIndex
  BY DEF Init, Down
<1> QED
  BY <1>1, EmptyTimes, CoveredIs

LEMMA StepTimes ==
  ASSUME "raise" \notin Faults, IInv, LeaseCovered, [Next]_vars
  PROVE  LeaseCovered'
<1>1. DOMAIN proc = Proc /\ log.recs \in Seq(Record)
  BY Parts DEF Logs
<1>2. CASE \E p \in Proc : Operates(p)
  BY <1>2, OperatesTimes
<1>3. CASE \E p \in Proc : Open(p)
  <2>1. PICK p \in Proc : Open(p)
    BY <1>3
  <2> DEFINE q == Attached([log |-> Repaired(log), idx |-> Replay(EmptyIndex, log.recs)])
  <2>2. proc' = [proc EXCEPT ![p] = q]
    BY <2>1 DEF Open
  <2>3. Untimed(q.idx) = {}
    BY <1>1, EmptyFacts, EmptyTimes, ReplayTimes DEF Attached
  <2> HIDE DEF q
  <2> QED
    BY <1>1, <2>2, <2>3, PutTimes
<1>4. CASE \E p \in Proc : Stop(p)
  <2>1. PICK p \in Proc : proc' = [proc EXCEPT ![p] = Down]
    BY <1>4 DEF Stop
  <2>2. Untimed(Down.idx) = {}
    BY EmptyTimes DEF Down
  <2> QED
    BY <1>1, <2>1, <2>2, PutTimes
<1>5. CASE PowerLoss
  <2>1. \A p \in Proc : proc'[p].idx = EmptyIndex
    BY <1>5 DEF PowerLoss, Down
  <2>2. DOMAIN EmptyIndex.jobs = {}
    BY EmptyFacts
  <2> QED
    BY <2>1, <2>2 DEF LeaseCovered
<1>6. CASE UNCHANGED <<log, proc, past>>
  BY <1>6 DEF LeaseCovered
<1> QED
  BY <1>2, <1>3, <1>4, <1>5, <1>6, StepIs

\* Every leased job of every process can time out at its present deadline, after any
\* operation, crash, compaction, renewal and aborted lease: as long as no write fails
\* under a process that goes on.
THEOREM LeasesTimeOut == ASSUME "raise" \notin Faults PROVE Spec => []LeaseCovered
<1>1. Init => IInv /\ LeaseCovered
  BY InitInv, InitTimes
<1>2. IInv /\ LeaseCovered /\ [Next]_vars => (IInv /\ LeaseCovered)'
  BY StepInv, StepTimes
<1> QED
  BY <1>1, <1>2, PTL DEF Spec

-----------------------------------------------------------------------------
(***************************************************************************)
(* Waiting jobs.  A heap may hold entries of versions that are gone; an    *)
(* entry of the present one says what the job says, and the two heaps do   *)
(* not both have one.                                                      *)
(***************************************************************************)
ReadyEntry(id, job) ==
  [priority |-> job.priority, at |-> job.available_at, seq |-> job.seq,
   version |-> job.version, id |-> id]

\* The job is known, and no older than this.
Dated(idx, e) == e.id \in DOMAIN idx.jobs /\ e.version <= idx.jobs[e.id].version

OnReady(idx) == {id \in WaitingIds(idx) : ReadyEntry(id, idx.jobs[id]) \in idx.ready}
OnScheduled(idx) == {id \in WaitingIds(idx) : ScheduledEntry(id, idx.jobs[id]) \in idx.scheduled}

Tidy(idx) ==
  /\ \A e \in idx.ready :
       Dated(idx, e) /\ (Current(idx, e, "READY") => e = ReadyEntry(e.id, idx.jobs[e.id]))
  /\ \A e \in idx.scheduled :
       Dated(idx, e) /\ (Current(idx, e, "READY") => e = ScheduledEntry(e.id, idx.jobs[e.id]))
  /\ OnReady(idx) \cap OnScheduled(idx) = {}

\* The READY jobs a lease cannot find.
Unseen(idx) == WaitingIds(idx) \ (OnReady(idx) \cup OnScheduled(idx))

LEMMA EntryFields ==
  ASSUME NEW id, NEW job
  PROVE  /\ ReadyEntry(id, job).id = id /\ ReadyEntry(id, job).version = job.version
         /\ ScheduledEntry(id, job).id = id /\ ScheduledEntry(id, job).version = job.version
         /\ ScheduledEntry(id, job).at = job.available_at
  BY DEF ReadyEntry, ScheduledEntry

\* A present entry of a waiting job is the entry of that job.
LEMMA CurrentIs ==
  ASSUME NEW idx, Tidy(idx)
  PROVE  /\ \A e \in idx.ready : Current(idx, e, "READY") <=>
              e.id \in OnReady(idx) /\ e = ReadyEntry(e.id, idx.jobs[e.id])
         /\ \A e \in idx.scheduled : Current(idx, e, "READY") <=>
              e.id \in OnScheduled(idx) /\ e = ScheduledEntry(e.id, idx.jobs[e.id])
  BY EntryFields DEF Tidy, Current, OnReady, OnScheduled, WaitingIds

\* A tidy index in which every waiting job is seen has one entry for each.
LEMMA SeenOnce ==
  ASSUME NEW idx, Tidy(idx), Unseen(idx) = {}, NEW id \in WaitingIds(idx)
  PROVE  Cardinality({e \in idx.ready : e.id = id /\ Current(idx, e, "READY")}) +
         Cardinality({e \in idx.scheduled : e.id = id /\ Current(idx, e, "READY")}) = 1
<1> DEFINE ready == {e \in idx.ready : e.id = id /\ Current(idx, e, "READY")}
           sched == {e \in idx.scheduled : e.id = id /\ Current(idx, e, "READY")}
           r == ReadyEntry(id, idx.jobs[id])  s == ScheduledEntry(id, idx.jobs[id])
<1>1. r.id = id /\ s.id = id
  BY EntryFields
<1>2. CASE id \in OnReady(idx)
  <2>1. id \notin OnScheduled(idx) /\ r \in idx.ready
    BY <1>2 DEF Tidy, OnReady
  <2>2. ready = {r} /\ sched = {}
    <3> HIDE DEF r, s
    <3>1. r.id \in OnReady(idx) /\ r = ReadyEntry(r.id, idx.jobs[r.id])
      BY <1>1, <1>2 DEF r
    <3>2. \A e \in ready : e = r
      BY CurrentIs DEF r
    <3>3. Current(idx, r, "READY") /\ r \in ready
      BY <1>1, <2>1, <3>1, CurrentIs
    <3>4. \A e \in idx.scheduled : ~(e.id = id /\ Current(idx, e, "READY"))
      BY <2>1, CurrentIs
    <3> QED
      BY <3>2, <3>3, <3>4
  <2> HIDE DEF ready, sched, r, s
  <2>3. Cardinality(ready) = 1 /\ Cardinality(sched) = 0
    BY <2>2, FS_EmptySet, FS_Singleton
  <2> QED
    BY <2>3 DEF ready, sched
<1>3. CASE id \notin OnReady(idx)
  <2>1. id \in OnScheduled(idx) /\ s \in idx.scheduled
    BY <1>3 DEF Unseen, OnScheduled
  <2>2. sched = {s} /\ ready = {}
    <3> HIDE DEF r, s
    <3>1. s.id \in OnScheduled(idx) /\ s = ScheduledEntry(s.id, idx.jobs[s.id])
      BY <1>1, <2>1 DEF s
    <3>2. \A e \in sched : e = s
      BY CurrentIs DEF s
    <3>3. Current(idx, s, "READY") /\ s \in sched
      BY <1>1, <2>1, <3>1, CurrentIs
    <3>4. \A e \in idx.ready : ~(e.id = id /\ Current(idx, e, "READY"))
      BY <1>3, CurrentIs
    <3> QED
      BY <3>2, <3>3, <3>4
  <2> HIDE DEF ready, sched, r, s
  <2>3. Cardinality(ready) = 0 /\ Cardinality(sched) = 1
    BY <2>2, FS_EmptySet, FS_Singleton
  <2> QED
    BY <2>3 DEF ready, sched
<1> QED
  BY <1>2, <1>3

LEMMA CoveredWhenSeen ==
  ASSUME \A p \in Proc : Tidy(proc[p].idx) /\ Unseen(proc[p].idx) = {}
  PROVE  ReadyCovered
  BY SeenOnce DEF ReadyCovered, WaitingIds

\* Only jobs and waiting heaps matter.
LEMMA SameTidy ==
  ASSUME NEW a, NEW b, a.jobs = b.jobs, SameHeaps(a, b)
  PROVE  (Tidy(a) <=> Tidy(b)) /\ Unseen(a) = Unseen(b)
  BY DEF Tidy, Unseen, SameHeaps, Dated, Current, OnReady, OnScheduled, WaitingIds

LEMMA EmptyTidy == Tidy(EmptyIndex) /\ Unseen(EmptyIndex) = {}
<1>1. EmptyIndex.ready = {} /\ EmptyIndex.scheduled = {}
  BY DEF EmptyIndex
<1> QED
  BY <1>1, EmptyFacts DEF Tidy, Unseen, OnReady, OnScheduled, WaitingIds
-----------------------------------------------------------------------------
(***************************************************************************)
(* Applying a record: the job it names has a new version, which nothing in *)
(* a heap has, and is pushed if it waits.                                  *)
(***************************************************************************)
LEMMA BumpTidy ==
  ASSUME NEW idx \in Indexes, Tidy(idx), NEW out, NEW id, NEW job, job.version \in Nat,
         out.jobs = Put(idx.jobs, id, job), out.ready = idx.ready,
         \/ out.scheduled = idx.scheduled
         \/ out.scheduled = idx.scheduled \cup {ScheduledEntry(id, job)},
         id \in DOMAIN idx.jobs => job.version > idx.jobs[id].version
  PROVE  Tidy(out)
<1>1. /\ DOMAIN out.jobs = DOMAIN idx.jobs \cup {id} /\ out.jobs[id] = job
      /\ \A j \in DOMAIN idx.jobs : j # id => out.jobs[j] = idx.jobs[j]
  BY DEF Put
<1>2. /\ \A e \in idx.ready : e.version \in Nat
      /\ \A e \in idx.scheduled : e.version \in Nat
      /\ \A j \in DOMAIN idx.jobs : idx.jobs[j].version \in Nat
  BY JobsType DEF Indexes, Finite, ReadyEntries, ScheduledEntries, Job
<1>3. ASSUME NEW e, e.version \in Nat, Dated(idx, e)
      PROVE  /\ Dated(out, e)
             /\ e.id = id => e.version < job.version /\ ~Current(out, e, "READY")
             /\ e.id # id => out.jobs[e.id] = idx.jobs[e.id]
             /\ e.id # id => (Current(out, e, "READY") <=> Current(idx, e, "READY"))
  BY <1>1, <1>2, <1>3 DEF Dated, Current
<1>4. ASSUME NEW e \in out.ready
      PROVE  Dated(out, e) /\ (Current(out, e, "READY") => e = ReadyEntry(e.id, out.jobs[e.id]))
  BY <1>2, <1>3 DEF Tidy
<1>5. ASSUME NEW e \in out.scheduled
      PROVE  Dated(out, e) /\ (Current(out, e, "READY") => e = ScheduledEntry(e.id, out.jobs[e.id]))
  <2>1. CASE e \in idx.scheduled
    BY <1>2, <1>3, <2>1 DEF Tidy
  <2>2. CASE e = ScheduledEntry(id, job)
    BY <1>1, <2>2, EntryFields DEF Dated
  <2> QED
    BY <2>1, <2>2
<1>6. ASSUME NEW j \in OnReady(out), j \in OnScheduled(out) PROVE FALSE
  <2> DEFINE r == ReadyEntry(j, out.jobs[j])  s == ScheduledEntry(j, out.jobs[j])
  <2>1. r \in idx.ready /\ s \in out.scheduled /\ j \in DOMAIN out.jobs
    BY <1>6 DEF OnReady, OnScheduled, WaitingIds
  <2>2. r.id = j /\ r.version = out.jobs[j].version /\ s.id = j
    BY EntryFields
  <2>3. j # id /\ out.jobs[j] = idx.jobs[j] /\ j \in DOMAIN idx.jobs
    <3> HIDE DEF r, s
    <3>1. r.version \in Nat /\ Dated(idx, r)
      BY <1>2, <2>1 DEF Tidy
    <3> QED
      BY <1>1, <1>3, <2>1, <2>2, <3>1
  <2>4. s \in idx.scheduled
    BY <2>1, <2>2, <2>3, EntryFields
  <2>5. j \in OnReady(idx) /\ j \in OnScheduled(idx)
    BY <1>6, <2>1, <2>3, <2>4 DEF OnReady, OnScheduled, WaitingIds
  <2> QED
    BY <2>5 DEF Tidy
<1> QED
  BY <1>4, <1>5, <1>6 DEF Tidy

LEMMA ApplyTidy ==
  ASSUME NEW idx \in Indexes, Tidy(idx), NEW rec \in Record,
         rec.type = "ENQUEUE" => rec.id \notin DOMAIN idx.jobs
  PROVE  Tidy(Apply(idx, rec))
<1> DEFINE out == Apply(idx, rec)
<1>1. CASE rec.type = "ENQUEUE"
  <2> DEFINE job == FromDict(rec)
  <2>1. job \in Job /\ job.version \in Nat
    BY <1>1, RecordFacts DEF Job
  <2>2. /\ out.jobs = Put(idx.jobs, rec.id, job) /\ out.ready = idx.ready
        /\ \/ out.scheduled = idx.scheduled
           \/ out.scheduled = idx.scheduled \cup {ScheduledEntry(rec.id, job)}
    <3>1. /\ out.jobs = Put(idx.jobs, rec.id, job) /\ out.ready = idx.ready
          /\ out.scheduled =
               idx.scheduled \cup IF Waits(job) THEN {ScheduledEntry(rec.id, job)} ELSE {}
      BY <1>1, ApplyEnqueueIs
    <3> HIDE DEF out, job
    <3> QED
      BY <3>1
  <2> HIDE DEF out, job
  <2>3. Tidy(out)
    BY <1>1, <2>1, <2>2, BumpTidy
  <2> QED
    BY <2>3 DEF out
<1>2. CASE rec.type = "PURGE"
  <2>1. out.ready = {} /\ out.scheduled = {}
    BY <1>2, ApplyPurgeIs
  <2> HIDE DEF out
  <2>2. Tidy(out)
    BY <2>1 DEF Tidy, OnReady
  <2> QED
    BY <2>2 DEF out
<1>3. CASE NamesJob(rec) /\ rec.id \in DOMAIN idx.jobs
  <2> DEFINE job == Changed(idx.jobs[rec.id], rec)
  <2>1. idx.jobs[rec.id] \in Job /\ job \in Job /\ job.version \in Nat
    BY <1>3, JobsType, ChangedType DEF Job
  <2>2. /\ out.jobs = Put(idx.jobs, rec.id, job) /\ out.ready = idx.ready
        /\ out.scheduled = idx.scheduled \cup PushedWaiting(rec.id, job, rec)
    BY <1>3, ApplyNamed
  <2>3. CASE rec.type = "EXTEND" /\ idx.jobs[rec.id].state # "LEASED"
    <3>1. job = idx.jobs[rec.id] /\ PushedWaiting(rec.id, job, rec) = {}
      BY <1>3, <2>1, <2>3, ChangedFields DEF PushedWaiting
    <3>2. idx.jobs = Put(idx.jobs, rec.id, job)
      <4>1. idx.jobs \in [DOMAIN idx.jobs -> Job]
        BY JobsType
      <4> QED
        BY <1>3, <3>1, <4>1 DEF Put
    <3>3. out.jobs = idx.jobs /\ SameHeaps(out, idx)
      BY <2>2, <3>1, <3>2 DEF SameHeaps
    <3> HIDE DEF out
    <3>4. Tidy(out)
      BY <3>3, SameTidy
    <3> QED
      BY <3>4 DEF out
  <2>4. CASE ~(rec.type = "EXTEND" /\ idx.jobs[rec.id].state # "LEASED")
    <3>1. job.version = idx.jobs[rec.id].version + 1 /\ idx.jobs[rec.id].version \in Nat
      BY <1>3, <2>1, <2>4, ChangedFields DEF Job
    <3>2. \/ out.scheduled = idx.scheduled
          \/ out.scheduled = idx.scheduled \cup {ScheduledEntry(rec.id, job)}
      BY <2>2 DEF PushedWaiting
    <3>3. job.version > idx.jobs[rec.id].version
      BY <3>1
    <3> HIDE DEF out, job
    <3>4. Tidy(out)
      BY <2>1, <2>2, <3>2, <3>3, BumpTidy
    <3> QED
      BY <3>4 DEF out
  <2> QED
    BY <2>3, <2>4
<1>4. CASE NamesJob(rec) /\ rec.id \notin DOMAIN idx.jobs
  <2>1. out.jobs = idx.jobs /\ SameHeaps(out, idx)
    BY <1>4, ApplyOrphan DEF Indexes, SameHeaps
  <2> HIDE DEF out
  <2>2. Tidy(out)
    BY <2>1, SameTidy
  <2> QED
    BY <2>2 DEF out
<1> QED
  BY <1>1, <1>2, <1>3, <1>4 DEF NamesJob

LEMMA ApplyShows ==
  ASSUME NEW idx \in Indexes, NEW rec \in Record
  PROVE  LET out == Apply(idx, rec) IN
         /\ Unseen(out) \subseteq Unseen(idx)
         /\ rec.type = "LEASE" => rec.id \notin Unseen(out)
<1> DEFINE out == Apply(idx, rec)
<1>1. CASE rec.type = "ENQUEUE"
  <2> DEFINE job == FromDict(rec)
  <2>1. /\ out.jobs = Put(idx.jobs, rec.id, job) /\ out.ready = idx.ready
        /\ out.scheduled = idx.scheduled \cup IF Waits(job) THEN {ScheduledEntry(rec.id, job)} ELSE {}
    BY <1>1, ApplyEnqueueIs
  <2> HIDE DEF out, job
  <2>2. rec.id \notin Unseen(out)
    BY <2>1 DEF Unseen, OnScheduled, WaitingIds, Put, Waits
  <2>3. ASSUME NEW id \in Unseen(out), id # rec.id PROVE id \in Unseen(idx)
    BY <2>1, <2>3 DEF Unseen, OnReady, OnScheduled, WaitingIds, Put
  <2> QED
    BY <1>1, <2>2, <2>3 DEF out
<1>2. CASE rec.type = "PURGE"
  <2>1. DOMAIN out.jobs = {}
    BY <1>2, ApplyPurgeIs
  <2> HIDE DEF out
  <2> QED
    BY <1>2, <2>1 DEF Unseen, WaitingIds, out
<1>3. CASE NamesJob(rec) /\ rec.id \in DOMAIN idx.jobs
  <2> DEFINE job == Changed(idx.jobs[rec.id], rec)
  <2>1. idx.jobs[rec.id] \in Job /\ rec.type \in RecordTypes \ {"ENQUEUE", "PURGE"}
    BY <1>3, JobsType, RecordFacts DEF NamesJob
  <2>2. /\ out.jobs = Put(idx.jobs, rec.id, job) /\ out.ready = idx.ready
        /\ out.scheduled = idx.scheduled \cup PushedWaiting(rec.id, job, rec)
    BY <1>3, ApplyNamed
  <2>3. \/ job.state # "READY" \/ job = idx.jobs[rec.id]
        \/ rec.type \in {"NACK", "RECLAIM", "REQUEUE"}
    BY <1>3, <2>1, ChangedFields DEF Has, RecordTypes
  <2>4. rec.type = "LEASE" => job.state # "READY"
    BY <1>3, <2>1, ChangedFields DEF Has
  <2> HIDE DEF out, job
  <2>5. ASSUME NEW id \in Unseen(out) PROVE id \in Unseen(idx)
    <3>1. CASE id = rec.id
      <4>1. job.state = "READY" /\ ScheduledEntry(id, job) \notin out.scheduled
        BY <1>3, <2>2, <2>5, <3>1 DEF Unseen, OnScheduled, WaitingIds, Put
      <4>2. job = idx.jobs[rec.id]
        BY <2>2, <2>3, <3>1, <4>1 DEF PushedWaiting
      <4> QED
        BY <1>3, <2>2, <2>5, <3>1, <4>2 DEF Unseen, OnReady, OnScheduled, WaitingIds, Put
    <3>2. CASE id # rec.id
      BY <2>2, <2>5, <3>2 DEF Unseen, OnReady, OnScheduled, WaitingIds, Put
    <3> QED
      BY <3>1, <3>2
  <2>6. rec.type = "LEASE" => rec.id \notin Unseen(out)
    BY <1>3, <2>2, <2>4 DEF Unseen, WaitingIds, Put
  <2> QED
    BY <2>5, <2>6 DEF out
<1>4. CASE NamesJob(rec) /\ rec.id \notin DOMAIN idx.jobs
  <2>1. out.jobs = idx.jobs /\ SameHeaps(out, idx)
    BY <1>4, ApplyOrphan DEF Indexes, SameHeaps
  <2> HIDE DEF out
  <2>2. Unseen(out) = Unseen(idx)
    BY <2>1, SameTidy
  <2> QED
    BY <1>4, <2>1, <2>2 DEF Unseen, WaitingIds, out
<1> QED
  BY <1>1, <1>2, <1>3, <1>4 DEF NamesJob
-----------------------------------------------------------------------------
(***************************************************************************)
(* Leasing takes jobs off the heaps and loses sight of no other; giving    *)
(* them back and rebuilding make them seen.                                *)
(***************************************************************************)
LEMMA RetainTidy ==
  ASSUME NEW idx \in Indexes, NEW live \in LiveJobs(idx)
  PROVE  Tidy(Retain(idx, live)) /\ Unseen(Retain(idx, live)) = {}
<1> DEFINE out == Retain(idx, live)
<1>1. live \in Seq(DOMAIN idx.jobs)
  BY LiveFacts
<1>2. out.ready = {} /\ out.scheduled =
        {ScheduledEntry(id, out.jobs[id]) : id \in {i \in DOMAIN out.jobs : Waits(out.jobs[i])}}
  <2> DEFINE jobs == [id \in ToSet(live) |-> idx.jobs[id]]
  <2>1. /\ out.ready = {} /\ out.jobs = jobs
        /\ out.scheduled = {ScheduledEntry(id, jobs[id]) : id \in {i \in DOMAIN jobs : Waits(jobs[i])}}
    BY <1>1, RetainFacts
  <2> HIDE DEF out, jobs
  <2> QED
    BY <2>1
<1>3. out \in Indexes
  BY <1>1, RetainFacts
<1>4. \A id \in DOMAIN out.jobs : out.jobs[id].version \in Nat
  BY <1>3, JobsType DEF Job
<1> HIDE DEF out
<1>5. \A e \in out.scheduled : Dated(out, e) /\ e = ScheduledEntry(e.id, out.jobs[e.id])
  BY <1>2, <1>4, EntryFields DEF Dated
<1>6. Tidy(out) /\ Unseen(out) = {}
  BY <1>2, <1>5 DEF Tidy, Unseen, OnReady, OnScheduled, WaitingIds, Waits
<1> QED
  BY <1>6 DEF out

LEMMA RestoreTidy ==
  ASSUME NEW idx \in Indexes, Tidy(idx), NEW ids \in SUBSET Unseen(idx)
  PROVE  /\ Tidy(Restore(idx, ids)) /\ Unseen(Restore(idx, ids)) \subseteq Unseen(idx) \ ids
<1> DEFINE out == Restore(idx, ids)
<1>1. ids \in SUBSET DOMAIN idx.jobs
  BY DEF Unseen, WaitingIds
<1>2. /\ out.jobs = idx.jobs /\ out.ready = idx.ready
      /\ out.scheduled = idx.scheduled \cup {ScheduledEntry(id, idx.jobs[id]) : id \in ids}
  BY <1>1, RestoreFacts DEF SameJobs
<1>3. \A id \in DOMAIN idx.jobs : idx.jobs[id].version \in Nat
  BY JobsType DEF Job
<1> HIDE DEF out
<1>4. /\ \A e : Dated(out, e) <=> Dated(idx, e)
      /\ \A e : Current(out, e, "READY") <=> Current(idx, e, "READY")
      /\ OnReady(out) = OnReady(idx) /\ WaitingIds(out) = WaitingIds(idx)
  BY <1>2 DEF Dated, Current, OnReady, WaitingIds
<1>5. \A e \in out.scheduled :
        Dated(idx, e) /\ (Current(idx, e, "READY") => e = ScheduledEntry(e.id, idx.jobs[e.id]))
  BY <1>1, <1>2, <1>3, EntryFields DEF Tidy, Dated
<1>6. OnScheduled(out) = OnScheduled(idx) \cup ids
  <2>1. ASSUME NEW id \in OnScheduled(out), id \notin ids PROVE id \in OnScheduled(idx)
    <3> DEFINE s == ScheduledEntry(id, idx.jobs[id])
    <3>1. s \in out.scheduled /\ s.id = id /\ id \in WaitingIds(idx)
      BY <1>2, <1>4, <2>1, EntryFields DEF OnScheduled
    <3>2. s \in idx.scheduled
      BY <1>2, <2>1, <3>1, EntryFields
    <3> QED
      BY <3>1, <3>2 DEF OnScheduled
  <2>2. ASSUME NEW id \in OnScheduled(idx) \cup ids PROVE id \in OnScheduled(out)
    BY <1>2, <2>2 DEF OnScheduled, Unseen, WaitingIds
  <2> QED
    BY <2>1, <2>2
<1>7. Tidy(out)
  <2>1. OnReady(out) \cap OnScheduled(out) = {}
    BY <1>4, <1>6 DEF Tidy, Unseen
  <2> QED
    BY <1>2, <1>4, <1>5, <2>1 DEF Tidy
<1>8. Unseen(out) \subseteq Unseen(idx) \ ids
  BY <1>4, <1>6 DEF Unseen
<1> QED
  BY <1>7, <1>8 DEF out

LEMMA PromoteTidy ==
  ASSUME NEW idx \in Indexes, Tidy(idx), NEW time
  PROVE  Tidy(Promote(idx, time)) /\ Unseen(Promote(idx, time)) = Unseen(idx)
<1> DEFINE out == Promote(idx, time)
           due(d) == d \in idx.scheduled /\ d.at <= time /\ Current(idx, d, "READY")
           entry(d) == [priority |-> idx.jobs[d.id].priority, at |-> d.at, seq |-> d.seq,
                        version |-> d.version, id |-> d.id]
<1>1. out.jobs = idx.jobs /\ out.scheduled = {e \in idx.scheduled : ~(e.at <= time)}
  BY PromoteFacts DEF SameJobs
<1>2. out.ready = idx.ready \cup {entry(d) : d \in {e \in idx.scheduled : due(e)}}
  <2> DEFINE s == idx.scheduled \ {e \in idx.scheduled : e.at <= time}
             r == idx.ready \cup {entry(d) : d \in {e \in idx.scheduled : due(e)}}
  <2>1. out = [idx EXCEPT !.scheduled = s, !.ready = r]
    <3>1. {e \in idx.scheduled : due(e)} =
            {d \in {e \in idx.scheduled : e.at <= time} : Current(idx, d, "READY")}
      OBVIOUS
    <3> QED
      BY <3>1 DEF Promote
  <2>2. DOMAIN idx = {"jobs", "seq", "orphans", "ready", "scheduled", "leases"}
    BY DEF Indexes
  <2> HIDE DEF s, r, out
  <2>3. out.ready = r
    BY <2>1, <2>2
  <2> QED
    BY <2>3 DEF r
<1> HIDE DEF out
<1>3. ASSUME NEW d, due(d)
      PROVE  /\ d.id \in OnScheduled(idx) /\ d = ScheduledEntry(d.id, idx.jobs[d.id])
             /\ entry(d) = ReadyEntry(d.id, idx.jobs[d.id])
  <2>1. d.id \in OnScheduled(idx) /\ d = ScheduledEntry(d.id, idx.jobs[d.id])
    BY <1>3, CurrentIs
  <2> DEFINE job == idx.jobs[d.id]
  <2>2. d.at = job.available_at /\ d.seq = job.seq /\ d.version = job.version
    <3>1. d = [at |-> job.available_at, seq |-> job.seq, version |-> job.version, id |-> d.id]
      BY <2>1 DEF ScheduledEntry
    <3> HIDE DEF job
    <3> QED
      BY <3>1
  <2> QED
    BY <2>1, <2>2 DEF ReadyEntry
<1>4. /\ \A e : Dated(out, e) <=> Dated(idx, e)
      /\ \A e : Current(out, e, "READY") <=> Current(idx, e, "READY")
      /\ WaitingIds(out) = WaitingIds(idx)
  BY <1>1 DEF Dated, Current, WaitingIds
<1>5. ASSUME NEW e \in out.ready
      PROVE  Dated(idx, e) /\ (Current(idx, e, "READY") => e = ReadyEntry(e.id, idx.jobs[e.id]))
  <2>1. CASE e \in idx.ready
    BY <2>1 DEF Tidy
  <2>2. CASE e \notin idx.ready
    <3>1. PICK d \in idx.scheduled : due(d) /\ e = entry(d)
      BY <1>2, <2>2
    <3>2. e = ReadyEntry(d.id, idx.jobs[d.id]) /\ d.id \in DOMAIN idx.jobs
      BY <1>3, <3>1 DEF Current
    <3>3. idx.jobs[d.id].version \in Nat
      BY <3>2, JobsType DEF Job
    <3> QED
      BY <3>2, <3>3, EntryFields DEF Dated
  <2> QED
    BY <2>1, <2>2
<1>6. ASSUME NEW id \in WaitingIds(idx)
      PROVE  /\ id \in OnReady(out) <=> \/ id \in OnReady(idx)
                                        \/ /\ id \in OnScheduled(idx)
                                           /\ idx.jobs[id].available_at <= time
             /\ id \in OnScheduled(out) <=> /\ id \in OnScheduled(idx)
                                            /\ ~(idx.jobs[id].available_at <= time)
  <2> DEFINE r == ReadyEntry(id, idx.jobs[id])  s == ScheduledEntry(id, idx.jobs[id])
  <2>1. r.id = id /\ s.id = id /\ s.at = idx.jobs[id].available_at /\ s.version = idx.jobs[id].version
    BY EntryFields
  <2>2. /\ id \in OnReady(out) <=> r \in out.ready
        /\ id \in OnScheduled(out) <=> s \in out.scheduled
        /\ id \in OnReady(idx) <=> r \in idx.ready
        /\ id \in OnScheduled(idx) <=> s \in idx.scheduled
    BY <1>1, <1>4 DEF OnReady, OnScheduled
  <2>3. ASSUME NEW d \in idx.scheduled, due(d), r = entry(d) PROVE d = s
    <3>1. entry(d).id = d.id
      OBVIOUS
    <3> QED
      BY <1>3, <2>1, <2>3, <3>1
  <2>4. s \in idx.scheduled /\ s.at <= time => due(s) /\ entry(s) = r
    <3>1. ASSUME s \in idx.scheduled, s.at <= time PROVE due(s)
      BY <2>1, <3>1 DEF Current, WaitingIds
    <3> QED
      BY <1>3, <2>1, <3>1
  <2> HIDE DEF r, s, entry
  <2>5. r \in out.ready <=> r \in idx.ready \/ (s \in idx.scheduled /\ s.at <= time)
    BY <1>2, <2>3, <2>4
  <2>6. s \in out.scheduled <=> s \in idx.scheduled /\ ~(s.at <= time)
    BY <1>1
  <2> QED
    BY <2>1, <2>2, <2>5, <2>6
<1>7. OnReady(out) \cap OnScheduled(out) = {} /\ Unseen(out) = Unseen(idx)
  <2>1. OnReady(out) \subseteq WaitingIds(idx) /\ OnScheduled(out) \subseteq WaitingIds(idx)
    BY <1>4 DEF OnReady, OnScheduled
  <2> QED
    BY <1>4, <1>6, <2>1 DEF Tidy, Unseen
<1>8. Tidy(out)
  BY <1>1, <1>4, <1>5, <1>7 DEF Tidy
<1> QED
  BY <1>7, <1>8 DEF out

\* The jobs shown by these entries of the ready heap, and the entries by which they go
\* back to the scheduled heap.
Showing(idx, S) == {id \in OnReady(idx) : ReadyEntry(id, idx.jobs[id]) \in S}
SentBack(idx, S) == {ScheduledEntry(e.id, idx.jobs[e.id]) : e \in S}

\* The entries P leave the ready heap; the present ones among them that are in L go back
\* to the scheduled heap.
Pops(idx, P, L, out) ==
  /\ \A e \in L : e \in idx.ready /\ Current(idx, e, "READY")
  /\ out.jobs = idx.jobs /\ out.ready = idx.ready \ P
  /\ out.scheduled = idx.scheduled \cup SentBack(idx, P \cap L)

LEMMA PopTidy ==
  ASSUME NEW idx \in Indexes, Tidy(idx), NEW P, NEW L, NEW out, Pops(idx, P, L, out)
  PROVE  Tidy(out) /\ Unseen(out) = Unseen(idx) \cup Showing(idx, P \ L)
<1>0. /\ \A e \in L : e \in idx.ready /\ Current(idx, e, "READY")
      /\ out.jobs = idx.jobs /\ out.ready = idx.ready \ P
      /\ out.scheduled = idx.scheduled \cup SentBack(idx, P \cap L)
  BY DEF Pops
<1>1. /\ \A e : Dated(out, e) <=> Dated(idx, e)
      /\ \A e : Current(out, e, "READY") <=> Current(idx, e, "READY")
      /\ WaitingIds(out) = WaitingIds(idx)
  BY <1>0 DEF Dated, Current, WaitingIds
<1>2. \A e \in L : /\ e.id \in OnReady(idx) /\ e = ReadyEntry(e.id, idx.jobs[e.id])
                   /\ e.id \in DOMAIN idx.jobs /\ idx.jobs[e.id].version \in Nat
  BY <1>0, CurrentIs, JobsType DEF OnReady, WaitingIds, Job
<1>3. \A e \in out.scheduled :
        Dated(idx, e) /\ (Current(idx, e, "READY") => e = ScheduledEntry(e.id, idx.jobs[e.id]))
  BY <1>0, <1>2, EntryFields DEF Tidy, Dated, SentBack
<1>4. ASSUME NEW id \in WaitingIds(idx)
      PROVE  LET r == ReadyEntry(id, idx.jobs[id]) IN
             /\ id \in OnReady(out) <=> id \in OnReady(idx) /\ r \notin P
             /\ id \in OnScheduled(out) <=> id \in OnScheduled(idx) \/ r \in P \cap L
  <2> DEFINE r == ReadyEntry(id, idx.jobs[id])  s == ScheduledEntry(id, idx.jobs[id])
  <2>1. r.id = id /\ s.id = id
    BY EntryFields
  <2>2. /\ id \in OnReady(out) <=> r \in out.ready
        /\ id \in OnScheduled(out) <=> s \in out.scheduled
        /\ id \in OnReady(idx) <=> r \in idx.ready
        /\ id \in OnScheduled(idx) <=> s \in idx.scheduled
    BY <1>0, <1>1 DEF OnReady, OnScheduled
  <2>3. ASSUME NEW e \in P \cap L, s = ScheduledEntry(e.id, idx.jobs[e.id]) PROVE e = r
    <3>1. e.id = id
      BY <2>1, <2>3, EntryFields
    <3> QED
      BY <1>2, <3>1
  <2> HIDE DEF s
  <2>4. r \in P \cap L => \E e \in P \cap L : s = ScheduledEntry(e.id, idx.jobs[e.id])
    BY <2>1 DEF s
  <2> HIDE DEF r
  <2>5. s \in out.scheduled <=> s \in idx.scheduled \/ r \in P \cap L
    BY <1>0, <2>3, <2>4 DEF SentBack
  <2> QED
    BY <1>0, <2>2, <2>5 DEF r
<1>5. OnReady(out) \subseteq WaitingIds(idx) /\ OnScheduled(out) \subseteq WaitingIds(idx)
      /\ OnReady(idx) \subseteq WaitingIds(idx) /\ OnScheduled(idx) \subseteq WaitingIds(idx)
  BY <1>1 DEF OnReady, OnScheduled
<1>6. \A id \in WaitingIds(idx) : ReadyEntry(id, idx.jobs[id]) \in L => id \in OnReady(idx)
  BY <1>2, EntryFields
<1>7. OnReady(out) \cap OnScheduled(out) = {}
  BY <1>4, <1>5 DEF Tidy
<1>8. Tidy(out)
  BY <1>0, <1>1, <1>3, <1>7 DEF Tidy
<1>9. OnReady(idx) \cap OnScheduled(idx) = {}
  BY DEF Tidy
<1>10. Unseen(out) = Unseen(idx) \cup Showing(idx, P \ L)
  <2>1. ASSUME NEW id
        PROVE  id \in Unseen(out) <=> id \in Unseen(idx) \/ id \in Showing(idx, P \ L)
    BY <1>1, <1>4, <1>5, <1>6, <1>9 DEF Unseen, Showing
  <2> QED
    BY <2>1
<1> QED
  BY <1>8, <1>10

\* next_ready pops one job it could see, or none.
LEMMA NextReadyTidy ==
  ASSUME NEW idx \in Indexes, Tidy(idx), NEW time
  PROVE  LET next == NextReady(idx, time) IN
         /\ Tidy(next.idx)
         /\ \/ next.ids = <<>> /\ Unseen(next.idx) = Unseen(idx)
            \/ \E id \in DOMAIN idx.jobs \ Unseen(idx) :
                 next.ids = <<id>> /\ Unseen(next.idx) = Unseen(idx) \cup {id}
<1> DEFINE next     == NextReady(idx, time)
           mid      == Promote(idx, time)
           valid    == {e \in mid.ready : Current(mid, e, "READY")}
           eligible == {e \in valid : mid.jobs[e.id].available_at <= time}
           later    == valid \ eligible
           sentBack(popped) == SentBack(mid, popped \cap later)
           best == CHOOSE e \in eligible : \A f \in eligible : ~Precedes(f, e)
           popped1 == {e \in mid.ready : e = best \/ Precedes(e, best)}
<1>1. mid \in Indexes /\ SameJobs(mid, idx) /\ Tidy(mid) /\ Unseen(mid) = Unseen(idx)
  BY PromoteFacts, PromoteTidy
<1>2. DOMAIN mid = {"jobs", "seq", "orphans", "ready", "scheduled", "leases"}
  BY <1>1 DEF Indexes
<1> HIDE DEF mid
<1>3. \A e \in later : e \in mid.ready /\ Current(mid, e, "READY")
  OBVIOUS
<1>4. ASSUME NEW e \in valid
      PROVE e.id \in OnReady(mid) /\ e = ReadyEntry(e.id, mid.jobs[e.id])
  BY <1>1, CurrentIs
<1>5. ASSUME NEW id \in OnReady(mid)
      PROVE  /\ ReadyEntry(id, mid.jobs[id]) \in valid /\ ReadyEntry(id, mid.jobs[id]).id = id
             /\ id \in DOMAIN mid.jobs
  BY EntryFields DEF OnReady, WaitingIds, Current
<1>6. CASE eligible = {}
  <2> DEFINE r == mid.ready \ mid.ready  s == mid.scheduled \cup sentBack(mid.ready)
  <2>1. next = [ids |-> <<>>, idx |-> [mid EXCEPT !.ready = r, !.scheduled = s]]
    <3>1. next = [ids |-> <<>>, idx |-> [mid EXCEPT !.ready = {}, !.scheduled = @ \cup sentBack(later)]]
      BY <1>6 DEF NextReady, mid, SentBack
    <3>2. sentBack(later) = sentBack(mid.ready) /\ r = {}
      OBVIOUS
    <3> HIDE DEF sentBack, later, next
    <3> QED
      BY <3>1, <3>2
  <2>2. \A id \in OnReady(mid) : ReadyEntry(id, mid.jobs[id]) \notin mid.ready \ later
    BY <1>5, <1>6
  <2> DEFINE out == next.idx
  <2>3. /\ out.jobs = mid.jobs /\ out.ready = r /\ out.scheduled = s /\ next.ids = <<>>
    <3> HIDE DEF r, s, next
    <3> QED
      BY <1>2, <2>1
  <2> DEFINE P == mid.ready
  <2>4. out.ready = mid.ready \ P
        /\ out.scheduled = mid.scheduled \cup SentBack(mid, P \cap later)
        /\ \A id \in OnReady(mid) : ReadyEntry(id, mid.jobs[id]) \notin P \ later
    BY <2>2, <2>3
  <2> DEFINE lost == Showing(mid, P \ later)
  <2>6. lost = {}
    BY <2>4 DEF Showing
  <2> HIDE DEF out, P, later, lost
  <2>5. Tidy(out) /\ Unseen(out) = Unseen(mid) \cup lost
    <3>1. Pops(mid, P, later, out)
      BY <1>3, <2>3, <2>4 DEF Pops
    <3>2. mid \in Indexes /\ Tidy(mid)
      BY <1>1
    <3>3. Tidy(out) /\ Unseen(out) = Unseen(mid) \cup Showing(mid, P \ later)
      BY <3>1, <3>2, PopTidy
    <3> QED
      BY <3>3 DEF lost
  <2> QED
    BY <1>1, <2>3, <2>5, <2>6 DEF out
<1>7. CASE eligible # {}
  <2> DEFINE r == mid.ready \ popped1  s == mid.scheduled \cup sentBack(popped1)
             out == next.idx
  <2>1. next = [ids |-> <<best.id>>, idx |-> [mid EXCEPT !.ready = r, !.scheduled = s]]
    BY <1>7 DEF NextReady, mid, SentBack
  <2>2. best \in eligible /\ \A f \in eligible : ~Precedes(f, best)
    <3>1. eligible \in Finite(ReadyEntries)
      <4>1. eligible \in SUBSET mid.ready /\ mid.ready \in Finite(ReadyEntries)
        BY <1>1 DEF Indexes
      <4> HIDE DEF eligible
      <4> QED
        BY <4>1, FinitePushes
    <3> HIDE DEF eligible
    <3> QED
      BY <1>7, <3>1, BestExists
  <2> HIDE DEF best
  <2>3. popped1 \cap eligible = {best} /\ best \in valid
    BY <2>2
  <2>4. /\ out.jobs = mid.jobs /\ out.ready = r /\ out.scheduled = s /\ next.ids = <<best.id>>
    <3> HIDE DEF r, s, next
    <3> QED
      BY <1>2, <2>1
  <2>5. best.id \in OnReady(mid) /\ best = ReadyEntry(best.id, mid.jobs[best.id])
    BY <1>4, <2>3
  <2>6. \A e \in valid : e \in popped1 \ later <=> e = best
    BY <2>3
  <2>7. \A id \in OnReady(mid) : ReadyEntry(id, mid.jobs[id]) \in popped1 \ later <=> id = best.id
    <3> HIDE DEF popped1, later, valid
    <3> QED
      BY <1>5, <2>5, <2>6
  <2>8. /\ out.ready = mid.ready \ popped1
        /\ out.scheduled = mid.scheduled \cup SentBack(mid, popped1 \cap later)
    BY <2>4
  <2> HIDE DEF out, popped1, later, next
  <2> DEFINE lost == Showing(mid, popped1 \ later)
  <2>9. Tidy(out) /\ Unseen(out) = Unseen(mid) \cup lost
    <3> HIDE DEF lost, valid, eligible, sentBack, r, s
    <3>1. Pops(mid, popped1, later, out)
      BY <1>3, <2>4, <2>8 DEF Pops
    <3>2. mid \in Indexes /\ Tidy(mid)
      BY <1>1
    <3>3. Tidy(out) /\ Unseen(out) = Unseen(mid) \cup Showing(mid, popped1 \ later)
      BY <3>1, <3>2, PopTidy
    <3> QED
      BY <3>3 DEF lost
  <2>10. lost = {best.id}
    BY <2>5, <2>7 DEF Showing
  <2>11. best.id \in DOMAIN idx.jobs /\ best.id \notin Unseen(idx)
    BY <1>1, <2>5 DEF Unseen, OnReady, WaitingIds, SameJobs
  <2> QED
    BY <1>1, <2>4, <2>9, <2>10, <2>11 DEF out, next
<1> QED
  BY <1>6, <1>7

\* What lease has in hand: jobs that wait, no two the same, out of sight until they are
\* leased or given back.
InHand(idx, so) ==
  /\ so \in Takings(idx) /\ Tidy(so.idx)
  /\ \A i, j \in 1..Len(so.ids) : i # j => so.ids[i] # so.ids[j]
  /\ Unseen(so.idx) = Unseen(idx) \cup {so.ids[i] : i \in 1..Len(so.ids)}

LEMMA TakeOneTidy ==
  ASSUME NEW idx \in Indexes, NEW so, InHand(idx, so)
  PROVE  InHand(idx, TakeOne(so))
<1> DEFINE next == NextReady(so.idx, now)  out == TakeOne(so)  S == WaitingIds(idx)
<1>1. out = [ids |-> so.ids \o next.ids, idx |-> next.idx]
  <2>1. {[ids |-> so.ids \o n.ids, idx |-> n.idx] : n \in {next}} =
          {[ids |-> so.ids \o next.ids, idx |-> next.idx]}
    OBVIOUS
  <2> QED
    BY <2>1, TheSingleton DEF TakeOne
<1>2. so.idx \in Indexes /\ so.ids \in Seq(S)
  BY DEF InHand, Takings
<1>3. /\ Tidy(next.idx)
      /\ \/ next.ids = <<>> /\ Unseen(next.idx) = Unseen(so.idx)
         \/ \E id : /\ id \notin Unseen(so.idx)
                    /\ next.ids = <<id>> /\ Unseen(next.idx) = Unseen(so.idx) \cup {id}
  <2> HIDE DEF next
  <2>1. Tidy(so.idx)
    BY DEF InHand
  <2> QED
    BY <1>2, <2>1, NextReadyTidy DEF next
<1>4. out \in Takings(idx)
  BY TakeOneFacts DEF InHand
<1> HIDE DEF next, out
<1>5. out.ids = so.ids \o next.ids /\ out.idx = next.idx
  BY <1>1
<1>6. CASE next.ids = <<>> /\ Unseen(next.idx) = Unseen(so.idx)
  <2>1. out.ids = so.ids
    BY <1>2, <1>5, <1>6
  <2> QED
    BY <1>3, <1>4, <1>5, <1>6, <2>1 DEF InHand, out
<1>7. CASE \E id : /\ id \notin Unseen(so.idx)
                   /\ next.ids = <<id>> /\ Unseen(next.idx) = Unseen(so.idx) \cup {id}
  <2>1. PICK id : /\ id \notin Unseen(so.idx)
                  /\ next.ids = <<id>> /\ Unseen(next.idx) = Unseen(so.idx) \cup {id}
    BY <1>7
  <2> DEFINE ids == so.ids  n == Len(ids)  m == n + 1
  <2>2. /\ n \in Nat /\ Len(out.ids) = m /\ out.ids[m] = id
        /\ \A i \in 1..n : out.ids[i] = ids[i]
    BY <1>2, <1>5, <2>1
  <2>3. \A i \in 1..m : i \in 1..n \/ i = m
    BY <2>2
  <2>4. 1..n \subseteq 1..m /\ m \in 1..m
    BY <2>2
  <2>5. Unseen(so.idx) = Unseen(idx) \cup {ids[i] : i \in 1..n}
        /\ \A i, j \in 1..n : i # j => ids[i] # ids[j]
    BY DEF InHand
  <2> HIDE DEF m, n, ids
  <2>6. \A i, j \in 1..m : i # j => out.ids[i] # out.ids[j]
    BY <2>1, <2>2, <2>3, <2>5
  <2>7. {out.ids[i] : i \in 1..m} = {ids[i] : i \in 1..n} \cup {id}
    BY <2>2, <2>3, <2>4
  <2>8. Unseen(out.idx) = Unseen(idx) \cup {out.ids[i] : i \in 1..m}
    BY <1>5, <2>1, <2>5, <2>7
  <2> QED
    BY <1>3, <1>4, <1>5, <2>2, <2>6, <2>8 DEF InHand, out
<1> QED
  BY <1>3, <1>6, <1>7

LEMMA TakenTidy ==
  ASSUME NEW idx \in Indexes, Tidy(idx), NEW count \in Nat
  PROVE  InHand(idx, Taken(idx, count))
<1>1. PICK f : IsTaking(f, idx, count) /\ Taken(idx, count) = f[count]
  BY TakenIs
<1> DEFINE T == {n \in Nat : InHand(idx, f[n])}
<1>2. 0 \in T
  <2>1. f[0] = [ids |-> <<>>, idx |-> idx]
    BY <1>1 DEF IsTaking
  <2>2. <<>> \in Seq(WaitingIds(idx)) /\ Len(<<>>) = 0 /\ 1..0 = {}
    OBVIOUS
  <2>3. f[0].idx = idx /\ f[0].ids = <<>> /\ f[0] \in [ids : Seq(WaitingIds(idx)), idx : Indexes]
    BY <2>1, <2>2
  <2> QED
    BY <2>2, <2>3 DEF InHand, Takings, SameJobs
<1>3. ASSUME NEW n \in 0..(count - 1), n \in T PROVE n + 1 \in T
  <2>1. n + 1 \in 0..count /\ n + 1 # 0 /\ (n + 1) - 1 = n /\ n + 1 \in Nat
    OBVIOUS
  <2>2. f[n + 1] = TakeOne(f[(n + 1) - 1])
    BY <1>1, <2>1 DEF IsTaking
  <2>3. f[n + 1] = TakeOne(f[n])
    BY <2>1, <2>2
  <2> QED
    BY <1>3, <2>1, <2>3, TakeOneTidy
<1> HIDE DEF T
<1>4. 0..count \subseteq T
  BY <1>2, <1>3, UpToInduction
<1>5. count \in T
  BY <1>4
<1> QED
  BY <1>1, <1>5 DEF T

-----------------------------------------------------------------------------
(***************************************************************************)
(* Logs in which each new job is new.                                      *)
(***************************************************************************)
Anew(idx, rec) == rec.type = "ENQUEUE" => rec.id \notin DOMAIN idx.jobs

News(idx, recs) == \A n \in 0..Len(recs) - 1 : Anew(After(idx, recs, n), recs[n + 1])

LEMMA ReplayTidy ==
  ASSUME NEW idx \in Indexes, Tidy(idx), NEW recs \in Seq(Record), News(idx, recs)
  PROVE  Tidy(Replay(idx, recs))
<1> DEFINE T == {n \in 0..Len(recs) : Tidy(After(idx, recs, n))}
<1>0. Len(recs) \in Nat
  BY AfterFacts
<1>1. 0 \in T
  BY <1>0, AfterFacts
<1>2. ASSUME NEW n \in 0..Len(recs) - 1, n \in T PROVE n + 1 \in T
  <2>1. /\ After(idx, recs, n + 1) = Apply(After(idx, recs, n), recs[n + 1])
        /\ After(idx, recs, n) \in Indexes /\ recs[n + 1] \in Record
        /\ Anew(After(idx, recs, n), recs[n + 1])
    BY AfterFacts DEF News
  <2>2. Tidy(After(idx, recs, n + 1))
    BY <1>2, <2>1, ApplyTidy DEF Anew
  <2> QED
    BY <1>0, <2>2
<1> HIDE DEF T
<1>3. 0..Len(recs) \subseteq T
  BY <1>0, <1>1, <1>2, UpToInduction
<1>4. Len(recs) \in T
  BY <1>0, <1>3
<1> QED
  BY <1>4, AfterFacts DEF T

\* Reading on, more jobs are seen; those that are leased are out of the question.
LEMMA ReplayShows ==
  ASSUME NEW idx \in Indexes, NEW recs \in Seq(Record)
  PROVE  LET out == Replay(idx, recs) IN
         /\ Unseen(out) \subseteq Unseen(idx)
         /\ \A k \in 1..Len(recs) : recs[k].type = "LEASE" => recs[k].id \notin Unseen(out)
<1> DEFINE T == {n \in 0..Len(recs) :
                   /\ Unseen(After(idx, recs, n)) \subseteq Unseen(idx)
                   /\ \A k \in 1..n : recs[k].type = "LEASE" =>
                        recs[k].id \notin Unseen(After(idx, recs, n))}
<1>0. Len(recs) \in Nat
  BY AfterFacts
<1>1. 0 \in T
  BY <1>0, AfterFacts
<1>2. ASSUME NEW n \in 0..Len(recs) - 1, n \in T PROVE n + 1 \in T
  <2> DEFINE m == n + 1
  <2>1. /\ After(idx, recs, m) = Apply(After(idx, recs, n), recs[m])
        /\ After(idx, recs, n) \in Indexes /\ recs[m] \in Record
    BY AfterFacts
  <2>2. m \in 0..Len(recs) /\ \A k \in 1..m : k = m \/ k \in 1..n
    BY <1>0
  <2> HIDE DEF m
  <2>3. /\ Unseen(After(idx, recs, m)) \subseteq Unseen(After(idx, recs, n))
        /\ recs[m].type = "LEASE" => recs[m].id \notin Unseen(After(idx, recs, m))
    BY <2>1, ApplyShows
  <2>4. m \in T
    BY <1>2, <2>2, <2>3
  <2> QED
    BY <2>4 DEF m
<1> HIDE DEF T
<1>3. 0..Len(recs) \subseteq T
  BY <1>0, <1>1, <1>2, UpToInduction
<1>4. Len(recs) \in T
  BY <1>0, <1>3
<1> QED
  BY <1>4, AfterFacts DEF T

LEMMA NewsNone ==
  ASSUME NEW idx, NEW recs \in Seq(Record), \A k \in 1..Len(recs) : recs[k].type # "ENQUEUE"
  PROVE  News(idx, recs)
<1>1. Len(recs) \in Nat /\ \A n \in 0..Len(recs) - 1 : n + 1 \in 1..Len(recs)
  BY LenProperties
<1> QED
  BY <1>1 DEF News, Anew

LEMMA NewsMirrors ==
  ASSUME NEW idx \in Indexes, NEW read \in Indexes, Mirrors(idx, read),
         idx.orphans = read.orphans, NEW recs \in Seq(Record)
  PROVE  News(idx, recs) <=> News(read, recs)
<1>1. ASSUME NEW n \in 0..Len(recs) - 1
      PROVE  DOMAIN After(idx, recs, n).jobs = DOMAIN After(read, recs, n).jobs
  <2>1. n \in 0..Len(recs)
    BY LenProperties
  <2>2. SubSeq(recs, 1, n) \in Seq(Record)
    BY <2>1, PrefixFacts
  <2>3. Mirrors(After(idx, recs, n), After(read, recs, n))
    BY <2>2, ReplayMirrors DEF After
  <2> QED
    BY <2>3 DEF Mirrors
<1> QED
  BY <1>1 DEF News, Anew

LEMMA NewsPart ==
  ASSUME NEW idx, NEW recs \in Seq(Record), NEW k \in 0..Len(recs), News(idx, recs)
  PROVE  News(idx, SubSeq(recs, 1, k))
<1> DEFINE part == SubSeq(recs, 1, k)
<1>1. /\ part \in Seq(Record) /\ Len(part) = k /\ \A i \in 1..k : part[i] = recs[i]
      /\ Len(recs) \in Nat
  BY PrefixFacts
<1>2. ASSUME NEW n \in 0..k - 1 PROVE Anew(After(idx, part, n), part[n + 1])
  <2>1. n \in 0..k /\ n + 1 \in 1..k /\ n \in 0..Len(recs) - 1
    BY <1>1
  <2>2. SubSeq(part, 1, n) = SubSeq(recs, 1, n)
    BY <2>1, PrefixOfPrefix
  <2> HIDE DEF part
  <2>3. After(idx, part, n) = After(idx, recs, n) /\ part[n + 1] = recs[n + 1]
    BY <1>1, <2>1, <2>2 DEF After
  <2> QED
    BY <2>1, <2>3 DEF News
<1> HIDE DEF part
<1> QED
  BY <1>1, <1>2 DEF News, part

LEMMA NewsConcat ==
  ASSUME NEW idx, NEW s \in Seq(Record), NEW t \in Seq(Record)
  PROVE  News(idx, s \o t) <=> News(idx, s) /\ News(Replay(idx, s), t)
<1> DEFINE u == s \o t  a == Len(s)  b == Len(t)
<1>1. /\ u \in Seq(Record) /\ Len(u) = a + b
      /\ \A i \in 1..a + b : u[i] = IF i <= a THEN s[i] ELSE t[i - a]
      /\ a \in Nat /\ b \in Nat
  BY ConcatProperties, LenProperties
<1>2. ASSUME NEW n \in 0..a - 1
      PROVE  Anew(After(idx, u, n), u[n + 1]) <=> Anew(After(idx, s, n), s[n + 1])
  <2>1. n \in 0..a /\ n + 1 \in 1..a + b /\ n + 1 <= a
    BY <1>1
  <2>2. SubSeq(u, 1, n) = SubSeq(s, 1, n)
    BY <2>1, ConcatPrefix
  <2> HIDE DEF u, a, b
  <2> QED
    BY <1>1, <2>1, <2>2 DEF After
<1>3. ASSUME NEW n \in 0..b - 1
      PROVE  Anew(After(idx, u, a + n), u[a + n + 1]) <=> Anew(After(Replay(idx, s), t, n), t[n + 1])
  <2>1. n \in 0..b /\ a + n + 1 \in 1..a + b /\ ~(a + n + 1 <= a) /\ a + n + 1 - a = n + 1
    BY <1>1
  <2>2. SubSeq(u, 1, a + n) = s \o SubSeq(t, 1, n)
    BY <2>1, ConcatPrefix
  <2>3. SubSeq(t, 1, n) \in Seq(Record)
    BY <2>1, PrefixFacts
  <2>4. Replay(idx, s \o SubSeq(t, 1, n)) = Replay(Replay(idx, s), SubSeq(t, 1, n))
    <3> DEFINE v == SubSeq(t, 1, n)
    <3> HIDE DEF v
    <3>1. v \in Seq(Record)
      BY <2>3 DEF v
    <3>2. Replay(idx, s \o v) = Replay(Replay(idx, s), v)
      BY <3>1, ReplayConcat
    <3> QED
      BY <3>2 DEF v
  <2>5. After(idx, u, a + n) = After(Replay(idx, s), t, n)
    BY <2>2, <2>4 DEF After
  <2> HIDE DEF u, a, b
  <2>6. u[a + n + 1] = t[n + 1]
    BY <1>1, <2>1
  <2> QED
    BY <2>5, <2>6
<1> HIDE DEF u
<1>4. News(idx, u) <=> \A n \in 0..a + b - 1 : Anew(After(idx, u, n), u[n + 1])
  BY <1>1 DEF News
<1>5. News(idx, s) <=> \A n \in 0..a - 1 : Anew(After(idx, s, n), s[n + 1])
  BY DEF News
<1>6. News(Replay(idx, s), t) <=> \A n \in 0..b - 1 : Anew(After(Replay(idx, s), t, n), t[n + 1])
  BY DEF News
<1> HIDE DEF a, b
<1>7. \A n \in 0..a + b - 1 : n \in 0..a - 1 \/ \E m \in 0..b - 1 : n = a + m
  <2> TAKE n \in 0..a + b - 1
  <2>1. CASE n < a
    BY <1>1, <2>1
  <2>2. CASE ~(n < a)
    <3>1. n - a \in 0..b - 1 /\ n = a + (n - a)
      BY <1>1, <2>2
    <3> QED
      BY <3>1
  <2> QED
    BY <2>1, <2>2
<1>8. /\ \A n \in 0..a - 1 : n \in 0..a + b - 1
      /\ \A m \in 0..b - 1 : a + m \in 0..a + b - 1
  BY <1>1
<1> QED
  BY <1>2, <1>3, <1>4, <1>5, <1>6, <1>7, <1>8 DEF u

\* A batch of new jobs under distinct keys that nobody has.
LEMMA NewsFresh ==
  ASSUME NEW idx \in Indexes, NEW recs \in Seq(Record),
         \A k \in 1..Len(recs) : recs[k].type = "ENQUEUE" /\ recs[k].id \notin DOMAIN idx.jobs,
         \A j, k \in 1..Len(recs) : j # k => recs[j].id # recs[k].id
  PROVE  News(idx, recs)
<1> DEFINE T == {n \in 0..Len(recs) :
                   \A k \in 1..Len(recs) : k > n => recs[k].id \notin DOMAIN After(idx, recs, n).jobs}
<1>0. Len(recs) \in Nat
  BY AfterFacts
<1>1. 0 \in T
  BY <1>0, AfterFacts
<1>2. ASSUME NEW n \in 0..Len(recs) - 1, n \in T PROVE n + 1 \in T
  <2> DEFINE m == n + 1  read == After(idx, recs, n)  out == After(idx, recs, m)
  <2>1. /\ out = Apply(read, recs[m])
        /\ read \in Indexes /\ recs[m] \in Record
    BY AfterFacts
  <2>2. m \in 0..Len(recs) /\ m \in 1..Len(recs) /\ \A k \in 1..Len(recs) : k > m => k > n /\ k # m
    BY <1>0
  <2>3. \A k \in 1..Len(recs) : k > n => recs[k].id \notin DOMAIN read.jobs
    BY <1>2
  <2> HIDE DEF m, read, out
  <2> DEFINE rec == recs[m]  jobs == read.jobs  job == FromDict(rec)
  <2> HIDE DEF rec
  <2>7. rec.type = "ENQUEUE" /\ rec \in Record /\ out = Apply(read, rec) /\ read \in Indexes
    BY <2>1, <2>2 DEF rec
  <2>8. out.jobs = Put(jobs, rec.id, job)
    BY <2>7, ApplyJobs
  <2> HIDE DEF jobs, job
  <2>9. DOMAIN out.jobs = DOMAIN jobs \cup {rec.id}
    BY <2>8 DEF Put
  <2>4. DOMAIN out.jobs = DOMAIN read.jobs \cup {recs[m].id}
    BY <2>9 DEF rec, jobs
  <2>5. \A k \in 1..Len(recs) : k > m => recs[k].id \notin DOMAIN out.jobs
    BY <2>2, <2>3, <2>4
  <2>6. m \in T
    BY <2>2, <2>5 DEF out
  <2> QED
    BY <2>6 DEF m
<1>3. 0..Len(recs) \subseteq T
  <2> HIDE DEF T
  <2> QED
    BY <1>0, <1>1, <1>2, UpToInduction
<1>4. ASSUME NEW n \in 0..Len(recs) - 1 PROVE Anew(After(idx, recs, n), recs[n + 1])
  <2>1. n \in T /\ n + 1 \in 1..Len(recs) /\ n + 1 > n
    BY <1>0, <1>3
  <2> QED
    BY <2>1 DEF Anew
<1> QED
  BY <1>4 DEF News

-----------------------------------------------------------------------------
(***************************************************************************)
(* The heaps of all processes, through every operation.                    *)
(***************************************************************************)
\* No exception is raised by a write, nor between a pop and what follows it.
Gentle == "raise" \notin Faults /\ "interrupt" \notin Faults

InOrder(idx) == Tidy(idx) /\ (Gentle => Unseen(idx) = {})

HeapsInOrder == News(EmptyIndex, log.recs) /\ \A p \in Proc : InOrder(proc[p].idx)

LEMMA ReplayInOrder ==
  ASSUME NEW idx \in Indexes, InOrder(idx), NEW recs \in Seq(Record), News(idx, recs)
  PROVE  InOrder(Replay(idx, recs))
<1>1. Tidy(Replay(idx, recs)) /\ Unseen(Replay(idx, recs)) \subseteq Unseen(idx)
  BY ReplayTidy, ReplayShows DEF InOrder
<1> QED
  BY <1>1 DEF InOrder

\* Whatever a session may write goes on with its log.
LEMMA LogNews ==
  ASSUME NEW s, Session(s), News(EmptyIndex, s.log.recs), NEW recs \in Seq(Record),
         News(s.idx, recs)
  PROVE  /\ News(EmptyIndex, s.log.recs \o recs)
         /\ \A k \in 0..Len(recs) : News(EmptyIndex, s.log.recs \o SubSeq(recs, 1, k))
<1>1. /\ s.idx \in Indexes /\ s.idx.orphans = 0 /\ Mirrors(s.idx, Whole(s.log))
      /\ Whole(s.log) \in Indexes /\ Whole(s.log).orphans = 0
      /\ Whole(s.log) = Replay(EmptyIndex, s.log.recs) /\ s.log.recs \in Seq(Record)
  BY WholeFacts DEF Session, Whole
<1>2. ASSUME NEW t \in Seq(Record), News(s.idx, t) PROVE News(EmptyIndex, s.log.recs \o t)
  <2>1. News(Whole(s.log), t)
    BY <1>1, <1>2, NewsMirrors
  <2> QED
    BY <1>1, <2>1, NewsConcat
<1>3. ASSUME NEW k \in 0..Len(recs)
      PROVE  SubSeq(recs, 1, k) \in Seq(Record) /\ News(s.idx, SubSeq(recs, 1, k))
  BY PrefixFacts, NewsPart
<1> QED
  BY <1>2, <1>3

LEMMA CaughtUpInOrder ==
  ASSUME IInv, HeapsInOrder, NEW p \in Proc, proc[p].up
  PROVE  InOrder(CaughtUp(p).idx)
<1> DEFINE q == proc[p]  recs == log.recs  head == SubSeq(recs, 1, q.pos)
           rest == SubSeq(recs, q.pos + 1, Len(recs))  idx == CaughtUp(p).idx
<1>1. recs \in Seq(Record) /\ Agrees(q, log) /\ SoundUpTo(recs) /\ q.up /\ EmptyIndex \in Indexes
  BY Parts, EmptyFacts DEF Logs
<1>2. News(EmptyIndex, recs) /\ InOrder(q.idx)
  BY DEF HeapsInOrder
<1>3. CASE q.gen # log.gen
  <2>1. idx = Replay(EmptyIndex, recs)
    BY <1>3 DEF CaughtUp
  <2>2. InOrder(EmptyIndex)
    BY EmptyTidy DEF InOrder
  <2> HIDE DEF idx, recs
  <2>3. InOrder(idx)
    BY <1>1, <1>2, <2>1, <2>2, ReplayInOrder
  <2> QED
    BY <2>3 DEF idx
<1>4. CASE q.gen = log.gen
  <2>1. idx = Replay(q.idx, rest)
    BY <1>4 DEF CaughtUp
  <2>2. /\ q.pos \in Nat /\ q.pos <= Len(recs) /\ q.idx \in Indexes /\ q.idx.orphans = 0
        /\ Mirrors(q.idx, ReadingOf(recs, q.pos)) /\ Len(recs) \in Nat
    BY <1>1, <1>4, LenProperties DEF Agrees, Process
  <2>3. rest \in Seq(Record) /\ head \in Seq(Record) /\ recs = head \o rest
    BY <1>1, <2>2, SplitAt
  <2>4. ReadingOf(recs, q.pos) = Replay(EmptyIndex, head)
    BY DEF ReadingOf
  <2>5. q.pos \in 0..Len(recs)
    BY <2>2
  <2>6. ReadingOf(recs, q.pos).orphans = 0
    BY <1>1, <2>5 DEF SoundUpTo, Sound
  <2> HIDE DEF idx, recs, head, rest, q
  <2>7. Replay(EmptyIndex, head) \in Indexes
    BY <1>1, <2>3, ReplayType
  <2>8. News(Replay(EmptyIndex, head), rest)
    <3>1. News(EmptyIndex, head \o rest)
      BY <1>2, <2>3
    <3> QED
      BY <2>3, <3>1, NewsConcat
  <2>9. News(q.idx, rest)
    <3> DEFINE read == Replay(EmptyIndex, head)
    <3>1. Mirrors(q.idx, read) /\ q.idx.orphans = read.orphans /\ read \in Indexes
          /\ News(read, rest)
      BY <2>2, <2>4, <2>6, <2>7, <2>8
    <3> HIDE DEF read
    <3> QED
      BY <2>2, <2>3, <3>1, NewsMirrors
  <2>10. InOrder(idx)
    BY <1>2, <2>1, <2>2, <2>3, <2>9, ReplayInOrder
  <2> QED
    BY <2>10 DEF idx
<1> QED
  BY <1>3, <1>4

\* The records a reap writes are about jobs it found.
LEMMA ReapTypes ==
  ASSUME NEW idx, NEW batch \in ReapBatches(idx), batch \in Seq(Record)
  PROVE  \A k \in 1..Len(batch) : batch[k].type \in {"DEAD", "RECLAIM"}
<1>1. PICK ids \in ExpiredLeases(idx, now) :
        \E delay : batch = [i \in DOMAIN ids |-> ReapRecord(idx, ids[i], delay[i])]
  BY DEF ReapBatches
<1>2. PICK delay : batch = [i \in DOMAIN ids |-> ReapRecord(idx, ids[i], delay[i])]
  BY <1>1
<1>3. DOMAIN batch = 1..Len(batch) /\ DOMAIN batch = DOMAIN ids
  BY <1>2, LenProperties
<1>4. \A k \in DOMAIN ids : batch[k] = ReapRecord(idx, ids[k], delay[k])
  BY <1>2
<1>5. \A id, d : ReapRecord(idx, id, d).type \in {"DEAD", "RECLAIM"}
  BY DEF ReapRecord
<1> QED
  BY <1>3, <1>4, <1>5

LEMMA BegunInOrder ==
  ASSUME IInv, HeapsInOrder, NEW p \in Proc, proc[p].up,
         NEW batch \in ReapBatches(CaughtUp(p).idx)
  PROVE  /\ InOrder(Popped(p).idx) /\ InOrder(Begun(p, batch).idx)
         /\ News(EmptyIndex, Begun(p, batch).log.recs)
         /\ \A k \in 0..Len(batch) : News(EmptyIndex, Popped(p).log.recs \o SubSeq(batch, 1, k))
<1> DEFINE c == CaughtUp(p)  idx == WithoutLapsed(c.idx, now)  t == Popped(p)
<1>1. /\ Session(c) /\ InOrder(c.idx) /\ c.idx \in Indexes
      /\ Session(t) /\ t.log = c.log /\ t.idx \in Indexes
  BY CaughtUpFacts, CaughtUpInOrder, PoppedFacts DEF Session
<1>2. c.log.recs = log.recs
  BY RepairedFacts DEF CaughtUp
<1>3. t.idx = idx
  <2>1. c = [log |-> c.log, idx |-> c.idx]
    BY DEF CaughtUp
  <2>2. t = [c EXCEPT !.idx = idx]
    BY DEF Popped
  <2> HIDE DEF c, t, idx
  <2> QED
    BY <2>1, <2>2
<1>4. batch \in Seq(Record)
  BY ReapFacts
<1>5. \A k \in 1..Len(batch) : batch[k].type # "ENQUEUE"
  BY <1>4, ReapTypes
<1>6. /\ Begun(p, batch).idx = Replay(t.idx, batch)
      /\ Begun(p, batch).log.recs = t.log.recs \o batch
  <2>1. t.log \in Logs({log.gen}) /\ t.log.synced <= Len(t.log.recs)
    BY <1>1 DEF Session, Follows
  <2>2. Appended(t.log, batch).recs = t.log.recs \o batch
    BY <1>4, <2>1, AppendedFacts
  <2> QED
    BY <2>2 DEF Begun, Committed
<1> HIDE DEF c, t
<1>7. InOrder(t.idx)
  <2>1. idx.jobs = c.idx.jobs /\ SameHeaps(idx, c.idx)
    BY <1>1, WithoutLapsedFacts DEF SameJobs, SameHeaps
  <2> HIDE DEF idx
  <2> QED
    BY <1>1, <1>3, <2>1, SameTidy DEF InOrder
<1>8. News(t.idx, batch)
  BY <1>4, <1>5, NewsNone
<1>9. News(EmptyIndex, t.log.recs)
  BY <1>1, <1>2 DEF HeapsInOrder
<1>10. /\ News(EmptyIndex, t.log.recs \o batch)
       /\ \A k \in 0..Len(batch) : News(EmptyIndex, t.log.recs \o SubSeq(batch, 1, k))
  BY <1>1, <1>4, <1>8, <1>9, LogNews
<1>11. InOrder(Replay(t.idx, batch))
  BY <1>1, <1>4, <1>7, <1>8, ReplayInOrder
<1> QED
  BY <1>6, <1>7, <1>10, <1>11 DEF t

\* Whatever an operation does to the heaps before it writes, and then writes.
LEMMA HandsInOrder ==
  ASSUME NEW s, Session(s), InOrder(s.idx), NEW t, NEW recs \in Seq(Record), Hands(s, t, recs)
  PROVE  /\ Tidy(t.idx) /\ News(t.idx, recs)
         /\ t.idx \in Indexes => InOrder(Replay(t.idx, recs))
<1>1. s.idx \in Indexes /\ Tidy(s.idx) /\ (Gentle => Unseen(s.idx) = {})
  BY DEF Session, InOrder
<1>2. PICK n \in Nat, timeout \in Nat :
        /\ t.idx = Taken(s.idx, n).idx
        /\ recs = LeaseRecords(s, Taken(s.idx, n).ids, timeout)
  BY InputAssumption DEF Hands
<1> DEFINE so == Taken(s.idx, n)  ids == so.ids
<1>3. InHand(s.idx, so)
  BY <1>1, TakenTidy
<1>4. /\ Tidy(t.idx) /\ ids \in Seq(WaitingIds(s.idx))
      /\ Unseen(t.idx) = Unseen(s.idx) \cup {ids[i] : i \in 1..Len(ids)}
  BY <1>2, <1>3 DEF InHand, Takings
<1>5. recs = [i \in DOMAIN ids |->
                [type |-> "LEASE", id |-> ids[i], at |-> now, deadline |-> now + timeout,
                 attempts |-> s.idx.jobs[ids[i]].attempts + 1, token |-> issued + i]]
  BY <1>2 DEF LeaseRecords
<1> HIDE DEF so, ids
<1>6. DOMAIN recs = DOMAIN ids /\ DOMAIN recs = 1..Len(recs) /\ DOMAIN ids = 1..Len(ids)
  BY <1>4, <1>5, LenProperties
<1>7. \A i \in 1..Len(ids) : i \in 1..Len(recs) /\ recs[i].type = "LEASE" /\ recs[i].id = ids[i]
  BY <1>5, <1>6
<1>8. \A k \in 1..Len(recs) : recs[k].type # "ENQUEUE"
  BY <1>6, <1>7
<1>9. News(t.idx, recs)
  BY <1>8, NewsNone
<1>10. ASSUME t.idx \in Indexes PROVE InOrder(Replay(t.idx, recs))
  <2> DEFINE out == Replay(t.idx, recs)
  <2>1. Tidy(out)
    BY <1>4, <1>9, <1>10, ReplayTidy
  <2>2. /\ Unseen(out) \subseteq Unseen(t.idx)
        /\ \A k \in 1..Len(recs) : recs[k].type = "LEASE" => recs[k].id \notin Unseen(out)
    BY <1>10, ReplayShows
  <2> HIDE DEF out
  <2>3. Gentle => Unseen(out) = {}
    BY <1>1, <1>4, <1>7, <2>2
  <2> QED
    BY <2>1, <2>3 DEF InOrder, out
<1> QED
  BY <1>4, <1>9, <1>10

LEMMA ProperInOrder ==
  ASSUME DistinctKeys, NEW s, Session(s), InOrder(s.idx), NEW t, NEW recs, Proper(s, t, recs)
  PROVE  /\ Tidy(t.idx) /\ News(t.idx, recs) /\ InOrder(Replay(t.idx, recs))
<1>1. /\ t.idx \in Indexes /\ recs \in Seq(Record) /\ t.idx.jobs = s.idx.jobs
  BY DEF Proper, Prepares, Session
<1>2. CASE Hands(s, t, recs)
  BY <1>1, <1>2, HandsInOrder
<1>3. CASE SameHeaps(t.idx, s.idx) /\ Creates(s.idx, recs)
  <2>1. InOrder(t.idx)
    BY <1>1, <1>3, SameTidy DEF InOrder
  <2>2. \A k \in 1..Len(recs) : recs[k].type = "ENQUEUE" /\ recs[k].id \notin DOMAIN t.idx.jobs
    BY <1>1, <1>3 DEF Creates
  <2>3. \A j, k \in 1..Len(recs) : j # k => recs[j].id # recs[k].id
    BY <1>3 DEF Creates
  <2>4. News(t.idx, recs)
    BY <1>1, <2>2, <2>3, NewsFresh
  <2> QED
    BY <1>1, <2>1, <2>4, ReplayInOrder DEF InOrder
<1>4. CASE t = s /\ \A k \in 1..Len(recs) : Marks(s.idx, recs[k])
  <2>1. \A k \in 1..Len(recs) : recs[k].type # "ENQUEUE"
    BY <1>4, MarkFacts
  <2>2. News(t.idx, recs)
    BY <1>1, <2>1, NewsNone
  <2> QED
    BY <1>1, <1>4, <2>2, ReplayInOrder DEF InOrder
<1> QED
  BY <1>2, <1>3, <1>4 DEF Proper

\* A lease cut short gives back what it holds; only an interrupt makes it forget one.
LEMMA GivesBackInOrder ==
  ASSUME NEW idx \in Indexes, InOrder(idx), NEW out, GivesBack(idx, out)
  PROVE  InOrder(out)
<1>1. PICK n \in Nat :
        \/ out = Restore(Taken(idx, n).idx, ToSet(Taken(idx, n).ids))
        \/ /\ "interrupt" \in Faults /\ Taken(idx, n).ids # <<>>
           /\ out = Restore(Taken(idx, n).idx, ToSet(Front(Taken(idx, n).ids)))
  BY DEF GivesBack
<1> DEFINE so == Taken(idx, n)  ids == so.ids  mid == so.idx
<1>2. InHand(idx, so)
  BY TakenTidy DEF InOrder
<1>3. /\ Tidy(mid) /\ ids \in Seq(WaitingIds(idx)) /\ mid \in Indexes
      /\ Unseen(mid) = Unseen(idx) \cup {ids[i] : i \in 1..Len(ids)}
  BY <1>2 DEF InHand, Takings
<1>4. ToSet(ids) = {ids[i] : i \in 1..Len(ids)}
  BY <1>3 DEF ToSet
<1>5. CASE out = Restore(mid, ToSet(ids))
  <2> HIDE DEF mid, ids
  <2>1. ToSet(ids) \in SUBSET Unseen(mid)
    BY <1>3, <1>4
  <2>2. Tidy(out) /\ Unseen(out) \subseteq Unseen(mid) \ ToSet(ids)
    BY <1>3, <1>5, <2>1, RestoreTidy
  <2> QED
    BY <1>3, <1>4, <2>2 DEF InOrder
<1>6. CASE "interrupt" \in Faults /\ ids # <<>> /\ out = Restore(mid, ToSet(Front(ids)))
  <2> HIDE DEF mid, ids
  <2>1. \A id \in ToSet(Front(ids)) : id \in ToSet(ids)
    BY <1>3, <1>6 DEF Front, ToSet
  <2>2. ToSet(Front(ids)) \in SUBSET Unseen(mid)
    BY <1>3, <1>4, <2>1
  <2>3. Tidy(out)
    BY <1>3, <1>6, <2>2, RestoreTidy
  <2> QED
    BY <1>6, <2>3 DEF InOrder, Gentle
<1> QED
  BY <1>1, <1>5, <1>6

\* A compacted log names every job once.
LEMMA CompactedNews ==
  ASSUME NEW s, Session(s), NEW live \in LiveJobs(s.idx)
  PROVE  News(EmptyIndex, Compacted(s.log, s.idx, live).recs)
<1> DEFINE recs == Compacted(s.log, s.idx, live).recs
<1>1. recs = [i \in DOMAIN live |-> ToDict(live[i], s.idx.jobs[live[i]])]
  BY DEF Compacted
<1>2. /\ s.idx \in Indexes /\ DistinctSeqs(s.idx.jobs) /\ EmptyIndex \in Indexes
      /\ \A id \in DOMAIN s.idx.jobs : s.idx.jobs[id].seq <= s.idx.seq
  BY SessionSeqs, EmptyFacts DEF Session
<1>3. live \in Seq(DOMAIN s.idx.jobs) /\ \A i, j \in 1..Len(live) : i # j => live[i] # live[j]
  <2> DEFINE ids == {id \in DOMAIN s.idx.jobs : s.idx.jobs[id].state # "DONE"}
  <2>1. IsFiniteSet(ids)
    BY <1>2, JobsType, FS_Subset DEF Finite
  <2>2. live \in BySeq(s.idx, ids)
    BY DEF LiveJobs
  <2> HIDE DEF ids
  <2>3. \A i, j \in 1..Len(live) : i # j => live[i] # live[j]
    BY <2>1, <2>2, BySeqFacts
  <2> QED
    BY <1>2, <2>3, LiveFacts
<1>4. recs \in Seq(Record) /\ Len(recs) = Len(live)
  <2>1. recs = Snapshot(s.idx, live)
    BY <1>1 DEF Snapshot
  <2> HIDE DEF recs
  <2> QED
    BY <1>2, <1>3, <2>1, SnapshotFacts
<1> HIDE DEF recs
<1>5. \A i \in 1..Len(live) : recs[i] = ToDict(live[i], s.idx.jobs[live[i]])
  BY <1>1, <1>3
<1>6. \A id, job : ToDict(id, job).type = "ENQUEUE" /\ ToDict(id, job).id = id
  BY DEF ToDict
<1>7. \A k \in 1..Len(recs) : recs[k].type = "ENQUEUE" /\ recs[k].id \notin DOMAIN EmptyIndex.jobs
  BY <1>4, <1>5, <1>6, EmptyFacts
<1>8. \A j, k \in 1..Len(recs) : j # k => recs[j].id # recs[k].id
  BY <1>3, <1>4, <1>5, <1>6
<1> QED
  BY <1>2, <1>4, <1>7, <1>8, NewsFresh DEF recs

LEMMA PutOrder ==
  ASSUME HeapsInOrder, DOMAIN proc = Proc, NEW p \in Proc, NEW q, InOrder(q.idx),
         proc' = [proc EXCEPT ![p] = q], News(EmptyIndex, log'.recs)
  PROVE  HeapsInOrder'
<1>1. \A r \in Proc : InOrder(proc'[r].idx)
  BY DEF HeapsInOrder
<1> QED
  BY <1>1 DEF HeapsInOrder

\* Without an exception, who breaks off an operation is down.
LEMMA BreaksOrder ==
  ASSUME HeapsInOrder, DOMAIN proc = Proc, NEW p \in Proc, NEW s, Tidy(s.idx), Breaks(p, s),
         News(EmptyIndex, log'.recs)
  PROVE  HeapsInOrder'
<1>1. InOrder(Down.idx)
  BY EmptyTidy DEF Down, InOrder
<1>2. CASE proc' = [proc EXCEPT ![p] = Down]
  BY <1>1, <1>2, PutOrder
<1>3. CASE "raise" \in Faults /\ proc' = [proc EXCEPT ![p] = Attached(s)]
  <2>1. InOrder(Attached(s).idx)
    BY <1>3 DEF Attached, InOrder, Gentle
  <2> QED
    BY <1>3, <2>1, PutOrder
<1> QED
  BY <1>2, <1>3 DEF Breaks

\* The records of the log after a write that went wrong, and after one that did not.
LEMMA WrittenLog ==
  ASSUME NEW s, Session(s), NEW recs \in Seq(Record)
  PROVE  /\ Committed(s, recs).log.recs = s.log.recs \o recs
         /\ \A p : Interrupted(p, s, recs) =>
              \E k \in 0..Len(recs) : log'.recs = s.log.recs \o SubSeq(recs, 1, k)
<1>1. s.log \in Logs({log.gen}) /\ s.log.synced <= Len(s.log.recs)
  BY DEF Session, Follows
<1>2. Committed(s, recs).log.recs = s.log.recs \o recs
  BY <1>1, AppendedFacts DEF Committed
<1>3. ASSUME NEW p, Interrupted(p, s, recs)
      PROVE  \E k \in 0..Len(recs) : log'.recs = s.log.recs \o SubSeq(recs, 1, k)
  <2>1. PICK k \in 0..Len(recs), torn \in BOOLEAN :
          log' = [s.log EXCEPT !.recs = @ \o SubSeq(recs, 1, k), !.torn = torn]
    BY <1>3 DEF Interrupted
  <2>2. log'.recs = s.log.recs \o SubSeq(recs, 1, k)
    BY <1>1, <2>1 DEF Logs
  <2> QED
    BY <2>2
<1> QED
  BY <1>2, <1>3

LEMMA CommitOrder ==
  ASSUME HeapsInOrder, DOMAIN proc = Proc, NEW p \in Proc, NEW s, Session(s), Tidy(s.idx),
         News(EmptyIndex, s.log.recs), NEW recs \in Seq(Record), News(s.idx, recs),
         InOrder(Replay(s.idx, recs)), NEW replies, Commit(p, s, recs, replies)
  PROVE  HeapsInOrder'
<1>1. /\ News(EmptyIndex, s.log.recs \o recs)
      /\ \A k \in 0..Len(recs) : News(EmptyIndex, s.log.recs \o SubSeq(recs, 1, k))
  BY LogNews
<1>2. CASE Returns(p, Committed(s, recs), replies)
  <2> DEFINE t == Committed(s, recs)  q == Attached(t)
  <2>1. proc' = [proc EXCEPT ![p] = q] /\ log' = t.log
    BY <1>2 DEF Returns
  <2>2. InOrder(q.idx)
    BY DEF Attached, Committed
  <2>3. News(EmptyIndex, log'.recs)
    BY <1>1, <2>1, WrittenLog
  <2> HIDE DEF q
  <2> QED
    BY <2>1, <2>2, <2>3, PutOrder
<1>3. CASE Interrupted(p, s, recs)
  <2>1. News(EmptyIndex, log'.recs)
    BY <1>1, <1>3, WrittenLog
  <2>2. Breaks(p, s)
    BY <1>3 DEF Interrupted
  <2> QED
    BY <2>1, <2>2, BreaksOrder
<1> QED
  BY <1>2, <1>3 DEF Commit

LEMMA OperatesOrder ==
  ASSUME DistinctKeys, IInv, HeapsInOrder, NEW p \in Proc, Operates(p)
  PROVE  HeapsInOrder'
<1>1. DOMAIN proc = Proc /\ proc[p].up
  BY Parts DEF Operates
<1>2. PICK batch \in ReapBatches(CaughtUp(p).idx) : Ends(p, batch)
  BY DEF Operates
<1> DEFINE s == Begun(p, batch)  t == Popped(p)
<1>3. Session(s) /\ s.idx \in Indexes /\ InOrder(s.idx) /\ News(EmptyIndex, s.log.recs)
  BY <1>1, BegunFacts, BegunInOrder
<1>4. /\ Session(t) /\ batch \in Seq(Record) /\ InOrder(t.idx)
      /\ \A k \in 0..Len(batch) : News(EmptyIndex, t.log.recs \o SubSeq(batch, 1, k))
  BY <1>1, PoppedFacts, ReapFacts, BegunInOrder
<1>5. ASSUME NEW u PROVE Attached(u).idx = u.idx
  BY DEF Attached
<1>6. \/ Interrupted(p, t, batch)
      \/ \E replies : Returns(p, s, replies)
      \/ \E u, recs, replies : Proper(s, u, recs) /\ Commit(p, u, recs, replies)
      \/ \E u : /\ GivesBack(s.idx, u.idx)
                /\ proc' = [proc EXCEPT ![p] = Attached(u)] /\ log' = s.log
      \/ Breaks(p, s) /\ log' = s.log
      \/ \E live \in LiveJobs(s.idx) :
           /\ Flip(s, live)
           /\ \/ Breaks(p, s)
              \/ \E q : q.idx = Retain(s.idx, live) /\ proc' = [proc EXCEPT ![p] = q]
  BY <1>2 DEF Ends
<1> HIDE DEF s, t
<1>7. CASE Interrupted(p, t, batch)
  <2>1. Breaks(p, t) /\ Tidy(t.idx)
    BY <1>4, <1>7 DEF Interrupted, InOrder
  <2>2. News(EmptyIndex, log'.recs)
    BY <1>4, <1>7, WrittenLog
  <2> QED
    BY <1>1, <2>1, <2>2, BreaksOrder
<1>8. CASE \E replies : Returns(p, s, replies)
  <2>1. proc' = [proc EXCEPT ![p] = Attached(s)] /\ log' = s.log
    BY <1>8 DEF Returns
  <2> QED
    BY <1>1, <1>3, <1>5, <2>1, PutOrder
<1>9. CASE \E u, recs, replies : Proper(s, u, recs) /\ Commit(p, u, recs, replies)
  <2>1. PICK u, recs, replies : Proper(s, u, recs) /\ Commit(p, u, recs, replies)
    BY <1>9
  <2>2. Tidy(u.idx) /\ News(u.idx, recs) /\ InOrder(Replay(u.idx, recs))
    BY <1>3, <2>1, ProperInOrder
  <2>3. recs \in Seq(Record) /\ Session(u) /\ News(EmptyIndex, u.log.recs)
    BY <1>3, <2>1 DEF Proper, Prepares
  <2> QED
    BY <1>1, <2>1, <2>2, <2>3, CommitOrder
<1>10. CASE \E u : /\ GivesBack(s.idx, u.idx)
                   /\ proc' = [proc EXCEPT ![p] = Attached(u)] /\ log' = s.log
  <2>1. PICK u : /\ GivesBack(s.idx, u.idx)
                 /\ proc' = [proc EXCEPT ![p] = Attached(u)] /\ log' = s.log
    BY <1>10
  <2>2. InOrder(Attached(u).idx)
    BY <1>3, <1>5, <2>1, GivesBackInOrder
  <2> QED
    BY <1>1, <1>3, <2>1, <2>2, PutOrder
<1>11. CASE Breaks(p, s) /\ log' = s.log
  BY <1>1, <1>3, <1>11, BreaksOrder DEF InOrder
<1>12. CASE \E live \in LiveJobs(s.idx) :
              /\ Flip(s, live)
              /\ \/ Breaks(p, s)
                 \/ \E q : q.idx = Retain(s.idx, live) /\ proc' = [proc EXCEPT ![p] = q]
  <2>1. PICK live \in LiveJobs(s.idx) :
          /\ Flip(s, live)
          /\ \/ Breaks(p, s)
             \/ \E q : q.idx = Retain(s.idx, live) /\ proc' = [proc EXCEPT ![p] = q]
    BY <1>12
  <2>2. News(EmptyIndex, log'.recs)
    BY <1>3, <2>1, CompactedNews DEF Flip
  <2>3. InOrder(Retain(s.idx, live))
    BY <1>3, RetainTidy DEF InOrder
  <2>4. CASE Breaks(p, s)
    BY <1>1, <1>3, <2>2, <2>4, BreaksOrder DEF InOrder
  <2>5. CASE \E q : q.idx = Retain(s.idx, live) /\ proc' = [proc EXCEPT ![p] = q]
    BY <1>1, <2>2, <2>3, <2>5, PutOrder
  <2> QED
    BY <2>1, <2>4, <2>5
<1> QED
  BY <1>6, <1>7, <1>8, <1>9, <1>10, <1>11, <1>12

LEMMA InitOrder == Init => HeapsInOrder
<1> SUFFICES ASSUME Init PROVE HeapsInOrder
  OBVIOUS
<1>1. log.recs = <<>> /\ \A p \in Proc : proc[p].idx = EmptyIndex
  BY DEF Init, Down
<1> DEFINE none == <<>>
<1>2. none \in Seq(Record) /\ Len(none) = 0
  OBVIOUS
<1> HIDE DEF none
<1>3. \A k \in 1..Len(none) : none[k].type # "ENQUEUE"
  BY <1>2
<1>4. News(EmptyIndex, none)
  BY <1>2, <1>3, NewsNone
<1> QED
  BY <1>1, <1>4, EmptyTidy DEF HeapsInOrder, InOrder, none

LEMMA StepOrder ==
  ASSUME DistinctKeys, IInv, HeapsInOrder, [Next]_vars
  PROVE  HeapsInOrder'
<1>1. /\ DOMAIN proc = Proc /\ log.recs \in Seq(Record) /\ log \in Logs(0..MaxGen)
      /\ News(EmptyIndex, log.recs) /\ InOrder(EmptyIndex) /\ EmptyIndex \in Indexes
  BY Parts, EmptyTidy, EmptyFacts DEF Logs, HeapsInOrder, InOrder
<1>2. CASE \E p \in Proc : Operates(p)
  BY <1>2, OperatesOrder
<1>3. CASE \E p \in Proc : Open(p)
  <2>1. PICK p \in Proc : Open(p)
    BY <1>3
  <2> DEFINE q == Attached([log |-> Repaired(log), idx |-> Replay(EmptyIndex, log.recs)])
  <2>2. proc' = [proc EXCEPT ![p] = q] /\ log' = Repaired(log)
    BY <2>1 DEF Open
  <2>3. InOrder(q.idx)
    BY <1>1, ReplayInOrder DEF Attached
  <2>4. News(EmptyIndex, log'.recs)
    BY <1>1, <2>2, RepairedFacts
  <2> HIDE DEF q
  <2> QED
    BY <1>1, <2>2, <2>3, <2>4, PutOrder
<1>4. CASE \E p \in Proc : Stop(p)
  <2>1. PICK p \in Proc : proc' = [proc EXCEPT ![p] = Down] /\ log' = log
    BY <1>4 DEF Stop
  <2>2. InOrder(Down.idx)
    BY <1>1 DEF Down
  <2> QED
    BY <1>1, <2>1, <2>2, PutOrder
<1>5. CASE PowerLoss
  <2>1. PICK n \in log.synced..Len(log.recs), torn \in BOOLEAN :
          log' = [log EXCEPT !.recs = SubSeq(@, 1, n), !.torn = torn]
    BY <1>5 DEF PowerLoss
  <2>2. n \in 0..Len(log.recs)
    BY <1>1, LenProperties DEF Logs
  <2>3. log'.recs = SubSeq(log.recs, 1, n)
    BY <1>1, <2>1 DEF Logs
  <2>4. News(EmptyIndex, log'.recs)
    BY <1>1, <2>2, <2>3, NewsPart
  <2>5. \A p \in Proc : proc'[p].idx = EmptyIndex
    BY <1>5 DEF PowerLoss, Down
  <2> QED
    BY <1>1, <2>4, <2>5 DEF HeapsInOrder
<1>6. CASE UNCHANGED <<log, proc, past>>
  BY <1>6 DEF HeapsInOrder
<1> QED
  BY <1>2, <1>3, <1>4, <1>5, <1>6, StepIs

\* Whatever happens, writes that fail included, the heaps of a process never mislead: a
\* present entry says what its job says, no job has one on both heaps, and the log never
\* names a job twice as new.
THEOREM HeapsStayInOrder == ASSUME DistinctKeys PROVE Spec => []HeapsInOrder
<1>1. Init => IInv /\ HeapsInOrder
  BY InitInv, InitOrder
<1>2. IInv /\ HeapsInOrder /\ [Next]_vars => (IInv /\ HeapsInOrder)'
  BY StepInv, StepOrder
<1> QED
  BY <1>1, <1>2, PTL DEF Spec

\* Every READY job a process knows is on exactly one of its two waiting heaps, under its
\* present version: no operation, crash, abort, compaction or promotion hides one from lease
\* or shows one twice, if no write raises an exception under a process that goes on.
THEOREM WaitingJobsFound == ASSUME DistinctKeys, Gentle PROVE Spec => []ReadyCovered
<1>1. HeapsInOrder => ReadyCovered
  BY CoveredWhenSeen DEF HeapsInOrder, InOrder
<1> QED
  BY <1>1, HeapsStayInOrder, PTL

-----------------------------------------------------------------------------
(***************************************************************************)
(* How often a job is leased.  A job starts, or starts again, at a record  *)
(* that creates, revives or purges it; since then it was leased at most as *)
(* often as its attempts say, and those stay within its limit.             *)
(***************************************************************************)
Starts(h, id) == At(h, {"ENQUEUE", "REQUEUE", "PURGE"}, id)

Since(h, i, id) == {k \in At(h, {"LEASE"}, id) : i < k /\ ~Between(i, k, Starts(h, id))}

Latest(S, i) == i \in S /\ \A j \in S : j <= i

\* DeliveriesBounded, of any history.
WithinLimit(h, id) ==
  \A i \in Starts(h, id), c \in At(h, {"ENQUEUE"}, id) :
    c <= i /\ ~Between(c, i + 1, At(h, {"ENQUEUE"}, id)) =>
      Cardinality(Since(h, i, id)) <= h[c].max_attempts

Limited(h, id, job) ==
  /\ job.attempts <= job.max_attempts /\ job.max_attempts > 0
  /\ job.state = "READY" => job.attempts < job.max_attempts
  /\ \E c, i \in DOMAIN h :
       /\ Latest(At(h, {"ENQUEUE"}, id), c) /\ h[c].max_attempts = job.max_attempts
       /\ Latest(Starts(h, id), i) /\ Cardinality(Since(h, i, id)) <= job.attempts

Sparing(h, jobs) ==
  \A id : WithinLimit(h, id) /\ (id \in DOMAIN jobs => Limited(h, id, jobs[id]))

\* A record that may follow: what it does to the attempts is what they allow.
Lawful(jobs, rec) ==
  \/ rec.type = "PURGE"
  \/ rec.type = "ENQUEUE" /\ rec.state = "READY" /\ rec.attempts = 0 /\ rec.max_attempts > 0
  \/ /\ NamesJob(rec) /\ rec.id \in DOMAIN jobs
     /\ LET job == jobs[rec.id] IN
        /\ rec.type = "LEASE" => job.state = "READY" /\ rec.attempts = job.attempts + 1
        /\ rec.type = "NACK" => rec.attempts = job.attempts
        /\ rec.type \in {"NACK", "RECLAIM"} => job.attempts < job.max_attempts

LEMMA AboutThree ==
  ASSUME NEW rec, NEW id, NEW t, NEW u, NEW v
  PROVE  About(rec, {t, u, v}, id) <=> Is(rec, t, id) \/ Is(rec, u, id) \/ Is(rec, v, id)
  BY DEF About

\* What one more record adds to the leases since a start.
LEMMA SinceMore ==
  ASSUME NEW h, NEW g, NEW rec, Extends(g, h, rec), NEW id
  PROVE  /\ Since(g, Len(h) + 1, id) = {}
         /\ \A i \in 1..Len(h) :
              /\ IsFiniteSet(Since(h, i, id)) /\ Cardinality(Since(h, i, id)) \in Nat
              /\ ~Is(rec, "LEASE", id) => Since(g, i, id) = Since(h, i, id)
              /\ (\E j \in Starts(h, id) : i < j) => Since(g, i, id) = Since(h, i, id)
              /\ Cardinality(Since(g, i, id)) \in Nat
              /\ Cardinality(Since(g, i, id)) <= Cardinality(Since(h, i, id)) + 1
<1> DEFINE m == Len(h) + 1  L(f) == At(f, {"LEASE"}, id)  S(f) == Starts(f, id)
<1>1. /\ Len(h) \in Nat /\ m \in Nat /\ L(h) \subseteq 1..Len(h) /\ S(h) \subseteq 1..Len(h)
      /\ L(h) \subseteq L(g) /\ S(h) \subseteq S(g)
      /\ L(g) \subseteq 1..m /\ S(g) \subseteq 1..m
      /\ \A k \in L(g) : k = m \/ k \in L(h)
      /\ \A k \in S(g) : k = m \/ k \in S(h)
  BY AtMore DEF Starts
<1>2. m \in L(g) => Is(rec, "LEASE", id)
  BY AtMore, AboutOne
<1>3. \A i : Since(g, i, id) = {k \in L(g) : i < k /\ ~Between(i, k, S(g))}
      /\ Since(h, i, id) = {k \in L(h) : i < k /\ ~Between(i, k, S(h))}
  BY DEF Since
<1>0. m = Len(h) + 1
  OBVIOUS
<1> HIDE DEF m, L, S
<1>4. \A i, k : k <= Len(h) /\ k \in Nat => (Between(i, k, S(g)) <=> Between(i, k, S(h)))
  BY <1>0, <1>1 DEF Between
<1>5. Since(g, m, id) = {}
  BY <1>0, <1>1, <1>3
<1>6. ASSUME NEW i \in 1..Len(h)
      PROVE  /\ IsFiniteSet(Since(h, i, id)) /\ Cardinality(Since(h, i, id)) \in Nat
             /\ ~Is(rec, "LEASE", id) => Since(g, i, id) = Since(h, i, id)
             /\ (\E j \in Starts(h, id) : i < j) => Since(g, i, id) = Since(h, i, id)
             /\ Cardinality(Since(g, i, id)) \in Nat
             /\ Cardinality(Since(g, i, id)) <= Cardinality(Since(h, i, id)) + 1
  <2> DEFINE A == Since(h, i, id)  B == Since(g, i, id)
  <2>1. IsFiniteSet(A) /\ Cardinality(A) \in Nat
    <3>1. A \subseteq 1..Len(h)
      BY <1>1, <1>3
    <3>2. IsFiniteSet(1..Len(h))
      BY <1>1, FS_Interval
    <3> HIDE DEF A
    <3>3. IsFiniteSet(A)
      BY <3>1, <3>2, FS_Subset
    <3> QED
      BY <3>3, FS_CardinalityType
  <2>2. \A k : k # m => (k \in A <=> k \in B)
    BY <1>0, <1>1, <1>3, <1>4
  <2>3. m \notin A
    BY <1>0, <1>1, <1>3
  <2>4. m \in B => Is(rec, "LEASE", id) /\ ~\E j \in Starts(h, id) : i < j
    <3> SUFFICES ASSUME m \in B PROVE Is(rec, "LEASE", id) /\ ~\E j \in Starts(h, id) : i < j
      OBVIOUS
    <3>1. m \in L(g) /\ ~Between(i, m, S(g))
      BY <1>3
    <3> QED
      BY <1>0, <1>1, <1>2, <3>1 DEF Between, S
  <2>5. B = A \/ B = A \cup {m}
    BY <2>2, <2>3
  <2>6. m \notin B => B = A
    BY <2>2, <2>3
  <2> HIDE DEF A, B
  <2>7. Cardinality(B) \in Nat /\ Cardinality(B) <= Cardinality(A) + 1
    <3>1. Cardinality(A \cup {m}) = Cardinality(A) + 1
      BY <2>1, <2>3, FS_AddElement
    <3>2. CASE B = A
      BY <2>1, <3>2
    <3>3. CASE B = A \cup {m}
      BY <2>1, <3>1, <3>3
    <3> QED
      BY <2>5, <3>2, <3>3
  <2>8. (~Is(rec, "LEASE", id) => B = A) /\ ((\E j \in Starts(h, id) : i < j) => B = A)
    BY <2>4, <2>6
  <2> QED
    BY <2>1, <2>7, <2>8 DEF A, B
<1> QED
  BY <1>5, <1>6 DEF m


\* What a lawful record makes of a job.
LEMMA LawfulJob ==
  ASSUME NEW read \in Indexes, NEW rec \in Record, Lawful(read.jobs, rec), NEW id,
         NEW old, old = read.jobs, NEW new, new = Apply(read, rec).jobs, id \in DOMAIN new
  PROVE  /\ rec.type # "PURGE"
         /\ rec.id # id => id \in DOMAIN old /\ new[id] = old[id]
         /\ rec.id = id /\ rec.type = "ENQUEUE" =>
              /\ new[id].state = "READY" /\ new[id].attempts = 0
              /\ new[id].max_attempts = rec.max_attempts /\ rec.max_attempts > 0
         /\ rec.id = id /\ rec.type # "ENQUEUE" =>
              /\ id \in DOMAIN old /\ new[id].max_attempts = old[id].max_attempts
              /\ rec.type = "REQUEUE" => new[id].attempts = 0
              /\ rec.type = "LEASE" => /\ new[id].state = "LEASED" /\ old[id].state = "READY"
                                       /\ new[id].attempts = old[id].attempts + 1
              /\ rec.type \notin {"REQUEUE", "LEASE"} =>
                   /\ new[id].attempts = old[id].attempts
                   /\ \/ new[id].state # "READY"
                      \/ old[id].state = "READY"
                      \/ old[id].attempts < old[id].max_attempts
<1>1. CASE rec.type = "PURGE"
  <2>1. DOMAIN new = {}
    BY <1>1, ApplyJobs
  <2> QED
    BY <2>1
<1>2. CASE rec.type = "ENQUEUE"
  <2> DEFINE job == FromDict(rec)
  <2>1. new = Put(old, rec.id, job) /\ rec.state = "READY" /\ rec.attempts = 0 /\ rec.max_attempts > 0
    BY <1>2, ApplyJobs DEF Lawful, NamesJob
  <2>2. /\ job.state = rec.state /\ job.attempts = rec.attempts
        /\ job.max_attempts = rec.max_attempts
    BY DEF FromDict
  <2> HIDE DEF job
  <2>3. /\ DOMAIN new = DOMAIN old \cup {rec.id} /\ new[rec.id] = job
        /\ \A y \in DOMAIN old : y # rec.id => new[y] = old[y]
    BY <2>1 DEF Put
  <2> QED
    BY <1>2, <2>1, <2>2, <2>3
<1>3. CASE NamesJob(rec)
  <2>1. rec.id \in DOMAIN old /\ rec.type # "PURGE" /\ rec.type # "ENQUEUE"
    BY <1>3 DEF Lawful, NamesJob
  <2> DEFINE before == old[rec.id]  job == Changed(before, rec)
  <2>2. new = Put(old, rec.id, job) /\ before \in Job /\ before.attempts \in Nat
    BY <1>3, <2>1, ApplyJobs, JobsType DEF Job
  <2>3. /\ rec.type = "LEASE" => before.state = "READY" /\ rec.attempts = before.attempts + 1
        /\ rec.type = "NACK" => rec.attempts = before.attempts
        /\ rec.type \in {"NACK", "RECLAIM"} => before.attempts < before.max_attempts
    BY <2>1 DEF Lawful
  <2> HIDE DEF before
  <2>4. /\ job.max_attempts = before.max_attempts
        /\ rec.type = "LEASE" => job.state = "LEASED" /\ job.attempts = rec.attempts
        /\ rec.type = "NACK" => job.attempts = rec.attempts
        /\ rec.type = "RECLAIM" => job.attempts = before.attempts
        /\ rec.type = "ACK" => job.state = "DONE" /\ job.attempts = before.attempts
        /\ rec.type = "DEAD" => job.state = "DEAD" /\ job.attempts = before.attempts
        /\ rec.type = "REQUEUE" => job.attempts = 0
        /\ rec.type = "EXTEND" => job = before \/ (job.state = "LEASED" /\ job.attempts = before.attempts)
    BY <1>3, <2>2, ChangedFields DEF Has
  <2>5. rec.type \in RecordTypes
    BY RecordFacts
  <2> HIDE DEF job
  <2>6. /\ DOMAIN new = DOMAIN old \cup {rec.id} /\ new[rec.id] = job
        /\ \A y \in DOMAIN old : y # rec.id => new[y] = old[y]
    BY <2>2 DEF Put
  <2>7. rec.id # id => id \in DOMAIN old /\ new[id] = old[id]
    BY <2>6
  <2>8. rec.type \notin {"REQUEUE", "LEASE"} =>
          /\ job.attempts = before.attempts
          /\ \/ job.state # "READY"
             \/ before.state = "READY"
             \/ before.attempts < before.max_attempts
    BY <2>1, <2>3, <2>4, <2>5 DEF RecordTypes
  <2> QED
    BY <2>1, <2>3, <2>4, <2>6, <2>7, <2>8 DEF before
<1> QED
  BY <1>1, <1>2, <1>3 DEF NamesJob

LEMMA WithinLimitMore ==
  ASSUME NEW read \in Indexes, NEW rec \in Record, Lawful(read.jobs, rec),
         NEW h, NEW g, Extends(g, h, rec), NEW id, WithinLimit(h, id),
         id \in DOMAIN read.jobs => Limited(h, id, read.jobs[id]),
         \A k \in At(g, {"ENQUEUE"}, id) : g[k].max_attempts \in Nat
  PROVE  WithinLimit(g, id)
<1> DEFINE m == Len(h) + 1  E(f) == At(f, {"ENQUEUE"}, id)  S(f) == Starts(f, id)
<1>1. /\ Len(h) \in Nat /\ m = Len(h) + 1 /\ E(h) \subseteq 1..Len(h) /\ S(h) \subseteq 1..Len(h)
      /\ E(h) \subseteq E(g) /\ E(g) \subseteq 1..m /\ S(g) \subseteq 1..m
      /\ \A k \in E(g) : k = m \/ k \in E(h)
      /\ \A k \in S(g) : k = m \/ k \in S(h)
  BY AtMore DEF Starts
<1>2. E(h) \subseteq S(h)
  BY DEF At, Starts
<1> SUFFICES ASSUME NEW i \in S(g), NEW c \in E(g), c <= i, ~Between(c, i + 1, E(g))
             PROVE  Cardinality(Since(g, i, id)) <= g[c].max_attempts
  BY DEF WithinLimit
<1> HIDE DEF m
<1>3. CASE i = m
  <2>1. Since(g, i, id) = {}
    BY <1>3, SinceMore DEF m
  <2>2. Cardinality(Since(g, i, id)) = 0
    BY <2>1, FS_EmptySet
  <2>3. g[c].max_attempts \in Nat
    OBVIOUS
  <2> QED
    BY <2>2, <2>3
<1>4. CASE i # m
  <2>1. i \in S(h) /\ c \in E(h) /\ i \in 1..Len(h) /\ c \in 1..Len(h)
    BY <1>1, <1>4
  <2>2. g[c] = h[c] /\ ~Between(c, i + 1, E(h)) /\ h[c].max_attempts \in Nat
    <3>1. g[c] = h[c]
      BY <2>1 DEF Extends
    <3> QED
      BY <1>1, <3>1 DEF Between
  <2>3. Cardinality(Since(h, i, id)) <= h[c].max_attempts
    BY <2>1, <2>2 DEF WithinLimit
  <2> DEFINE a == Cardinality(Since(h, i, id))  b == Cardinality(Since(g, i, id))
  <2>4. a \in Nat /\ b \in Nat /\ b <= a + 1
    BY <2>1, SinceMore
  <2>5. ~Is(rec, "LEASE", id) \/ (\E j \in S(h) : i < j) => b = a
    BY <2>1, SinceMore
  <2>6. b = a \/ a < h[c].max_attempts
    <3>1. CASE ~Is(rec, "LEASE", id) \/ \E j \in S(h) : i < j
      BY <2>5, <3>1
    <3>2. CASE Is(rec, "LEASE", id) /\ ~\E j \in S(h) : i < j
      <4>1. rec.type = "LEASE" /\ rec.id = id
        BY <3>2 DEF Is
      <4> DEFINE job == read.jobs[id]
      <4>2. id \in DOMAIN read.jobs /\ job.state = "READY" /\ job \in Job
        BY <4>1, JobsType DEF Lawful
      <4>3. Limited(h, id, job) /\ job.attempts \in Nat /\ job.max_attempts \in Nat
        BY <4>2 DEF Job
      <4> HIDE DEF job
      <4>4. PICK d, k \in DOMAIN h :
              /\ Latest(E(h), d) /\ h[d].max_attempts = job.max_attempts
              /\ Latest(S(h), k) /\ Cardinality(Since(h, k, id)) <= job.attempts
        BY <4>3 DEF Limited
      <4>5. job.attempts < job.max_attempts
        BY <4>2, <4>3 DEF Limited
      <4>6. k = i
        BY <1>1, <2>1, <3>2, <4>4 DEF Latest
      <4>7. d = c
        <5>1. d \in E(h) /\ c <= d /\ d <= i
          BY <1>2, <2>1, <4>4, <4>6 DEF Latest
        <5>2. d \in 1..Len(h)
          BY <1>1, <5>1
        <5> HIDE DEF E
        <5>3. ~(c < d)
          BY <1>1, <2>1, <2>2, <5>1, <5>2 DEF Between
        <5> QED
          BY <1>1, <2>1, <5>1, <5>2, <5>3
      <4>8. a <= job.attempts
        BY <4>4, <4>6
      <4> HIDE DEF a
      <4> QED
        BY <2>4, <4>3, <4>4, <4>5, <4>7, <4>8
    <3> QED
      BY <3>1, <3>2
  <2>7. a <= h[c].max_attempts
    BY <2>3
  <2> HIDE DEF a, b
  <2>8. b <= g[c].max_attempts
    BY <2>2, <2>7, <2>4, <2>6
  <2> QED
    BY <2>8 DEF b
<1> QED
  BY <1>3, <1>4

LEMMA LimitedMore ==
  ASSUME NEW read \in Indexes, NEW rec \in Record, Lawful(read.jobs, rec),
         NEW h, NEW g, Extends(g, h, rec), NEW id,
         id \in DOMAIN read.jobs => Limited(h, id, read.jobs[id]),
         id \in DOMAIN Apply(read, rec).jobs
  PROVE  Limited(g, id, Apply(read, rec).jobs[id])
<1> DEFINE m == Len(h) + 1  E(f) == At(f, {"ENQUEUE"}, id)  S(f) == Starts(f, id)
           old == read.jobs  new == Apply(read, rec).jobs
<1>1. /\ Len(h) \in Nat /\ m = Len(h) + 1 /\ E(h) \subseteq 1..Len(h) /\ S(h) \subseteq 1..Len(h)
      /\ E(h) \subseteq E(g) /\ S(h) \subseteq S(g) /\ E(g) \subseteq 1..m /\ S(g) \subseteq 1..m
      /\ \A k \in E(g) : k = m \/ k \in E(h)
      /\ \A k \in S(g) : k = m \/ k \in S(h)
  BY AtMore DEF Starts
<1>2. /\ m \in E(g) <=> Is(rec, "ENQUEUE", id)
      /\ m \in S(g) <=> Is(rec, "ENQUEUE", id) \/ Is(rec, "REQUEUE", id) \/ Is(rec, "PURGE", id)
  <2>1. m \in E(g) <=> Is(rec, "ENQUEUE", id)
    BY AtMore, AboutOne
  <2>2. m \in S(g) <=> About(rec, {"ENQUEUE", "REQUEUE", "PURGE"}, id)
    BY AtMore DEF Starts
  <2> QED
    BY <2>1, <2>2, AboutThree
<1>3. DOMAIN h = 1..Len(h) /\ DOMAIN g = 1..m /\ g[m] = rec /\ \A k \in 1..Len(h) : g[k] = h[k]
  BY DEF Extends
<1>4. new \in Tables /\ id \in DOMAIN new /\ Apply(read, rec) \in Indexes
  BY ApplyType DEF Indexes
<1>5. new[id] \in Job
  BY <1>4, JobsType
<1>6. Since(g, m, id) = {}
  BY SinceMore
<1>7. Cardinality(Since(g, m, id)) = 0
  BY <1>6, FS_EmptySet
<1>8. new[id].attempts \in Nat /\ new[id].max_attempts \in Nat
  BY <1>5 DEF Job
<1>9. /\ rec.type # "PURGE"
      /\ rec.id # id => id \in DOMAIN old /\ new[id] = old[id]
      /\ rec.id = id /\ rec.type = "ENQUEUE" =>
           /\ new[id].state = "READY" /\ new[id].attempts = 0
           /\ new[id].max_attempts = rec.max_attempts /\ rec.max_attempts > 0
      /\ rec.id = id /\ rec.type # "ENQUEUE" =>
           /\ id \in DOMAIN old /\ new[id].max_attempts = old[id].max_attempts
           /\ rec.type = "REQUEUE" => new[id].attempts = 0
           /\ rec.type = "LEASE" => /\ new[id].state = "LEASED" /\ old[id].state = "READY"
                                    /\ new[id].attempts = old[id].attempts + 1
           /\ rec.type \notin {"REQUEUE", "LEASE"} =>
                /\ new[id].attempts = old[id].attempts
                /\ \/ new[id].state # "READY"
                   \/ old[id].state = "READY"
                   \/ old[id].attempts < old[id].max_attempts
  BY LawfulJob
<1>0. \A j \in 1..Len(h) :
         /\ IsFiniteSet(Since(h, j, id)) /\ Cardinality(Since(h, j, id)) \in Nat
         /\ ~Is(rec, "LEASE", id) => Since(g, j, id) = Since(h, j, id)
         /\ (\E k \in Starts(h, id) : j < k) => Since(g, j, id) = Since(h, j, id)
         /\ Cardinality(Since(g, j, id)) \in Nat
         /\ Cardinality(Since(g, j, id)) <= Cardinality(Since(h, j, id)) + 1
  BY SinceMore
<1> HIDE DEF m, old, new
<1>10. CASE rec.id = id /\ rec.type = "ENQUEUE"
  <2>1. Latest(E(g), m) /\ Latest(S(g), m) /\ m \in DOMAIN g
    BY <1>1, <1>2, <1>3, <1>10 DEF Latest, Is
  <2>2. g[m].max_attempts = new[id].max_attempts /\ Cardinality(Since(g, m, id)) <= new[id].attempts
    BY <1>3, <1>7, <1>9, <1>10
  <2>3. /\ new[id].attempts <= new[id].max_attempts /\ new[id].max_attempts > 0
        /\ new[id].attempts < new[id].max_attempts
    BY <1>8, <1>9, <1>10
  <2> QED
    BY <2>1, <2>2, <2>3 DEF Limited, new
<1>11. CASE ~(rec.id = id /\ rec.type = "ENQUEUE")
  <2> DEFINE a == old[id]  b == new[id]
  <2>1. id \in DOMAIN old
    BY <1>9, <1>11
  <2>2. a \in Job /\ Limited(h, id, a)
    BY <2>1, JobsType DEF old
  <2>3. a.attempts \in Nat /\ a.max_attempts \in Nat /\ a.attempts <= a.max_attempts /\ a.max_attempts > 0
        /\ (a.state = "READY" => a.attempts < a.max_attempts)
    BY <2>2 DEF Job, Limited
  <2>4. PICK c, i \in DOMAIN h :
          /\ Latest(E(h), c) /\ h[c].max_attempts = a.max_attempts
          /\ Latest(S(h), i) /\ Cardinality(Since(h, i, id)) <= a.attempts
    BY <2>2 DEF Limited
  <2>5. Latest(E(g), c) /\ g[c].max_attempts = a.max_attempts /\ c \in DOMAIN g /\ c \in 1..Len(h)
        /\ i \in 1..Len(h) /\ i \in DOMAIN g
    BY <1>1, <1>2, <1>3, <1>11, <2>4 DEF Latest, Is
  <2>6. Cardinality(Since(h, i, id)) \in Nat /\ Cardinality(Since(g, i, id)) \in Nat
        /\ Cardinality(Since(g, i, id)) <= Cardinality(Since(h, i, id)) + 1
        /\ (~Is(rec, "LEASE", id) => Since(g, i, id) = Since(h, i, id))
    BY <1>0, <2>5
  <2>7. b.max_attempts = a.max_attempts
    BY <1>9, <1>11
  <2>8. b.attempts \in Nat /\ b.max_attempts \in Nat
    BY <1>8
  <2>9. /\ rec.id # id => b = a
        /\ rec.id = id => /\ rec.type = "REQUEUE" => b.attempts = 0
                          /\ rec.type = "LEASE" => /\ b.state = "LEASED" /\ a.state = "READY"
                                                   /\ b.attempts = a.attempts + 1
                          /\ rec.type \notin {"REQUEUE", "LEASE"} =>
                                /\ b.attempts = a.attempts
                                /\ \/ b.state # "READY"
                                   \/ a.state = "READY"
                                   \/ a.attempts < a.max_attempts
    BY <1>9, <1>11
  <2> HIDE DEF a, b
  <2>10. /\ b.attempts <= b.max_attempts /\ b.max_attempts > 0
         /\ (b.state = "READY" => b.attempts < b.max_attempts)
    <3>1. CASE rec.id # id
      BY <2>3, <2>9, <3>1
    <3>2. CASE rec.id = id /\ rec.type = "REQUEUE"
      BY <2>3, <2>7, <2>8, <2>9, <3>2
    <3>3. CASE rec.id = id /\ rec.type = "LEASE"
      BY <2>3, <2>7, <2>8, <2>9, <3>3
    <3>4. CASE rec.id = id /\ rec.type \notin {"REQUEUE", "LEASE"}
      BY <2>3, <2>7, <2>8, <2>9, <3>4
    <3> QED
      BY <3>1, <3>2, <3>3, <3>4
  <2>11. \E j \in DOMAIN g : Latest(S(g), j) /\ Cardinality(Since(g, j, id)) <= b.attempts
    <3>1. CASE rec.id = id /\ rec.type = "REQUEUE"
      <4>1. Latest(S(g), m) /\ m \in DOMAIN g
        BY <1>1, <1>2, <1>3, <3>1 DEF Latest, Is
      <4>2. Cardinality(Since(g, m, id)) <= b.attempts
        BY <1>7, <2>9, <3>1
      <4> QED
        BY <4>1, <4>2
    <3>2. CASE ~(rec.id = id /\ rec.type = "REQUEUE")
      <4>1. m \notin S(g)
        BY <1>2, <1>9, <1>11, <3>2 DEF Is
      <4>2. Latest(S(g), i)
        BY <1>1, <2>4, <4>1 DEF Latest
      <4> DEFINE x == Cardinality(Since(h, i, id))  y == Cardinality(Since(g, i, id))
      <4>3. x \in Nat /\ y \in Nat /\ y <= x + 1 /\ x <= a.attempts
            /\ (~Is(rec, "LEASE", id) => y = x)
        BY <2>4, <2>6
      <4> HIDE DEF x, y
      <4>4. y <= b.attempts
        <5>1. CASE Is(rec, "LEASE", id)
          <6>1. b.attempts = a.attempts + 1
            BY <2>9, <5>1 DEF Is
          <6> QED
            BY <2>3, <4>3, <6>1
        <5>2. CASE ~Is(rec, "LEASE", id)
          <6>1. b.attempts = a.attempts
            BY <2>9, <3>2, <5>2 DEF Is
          <6> QED
            BY <4>3, <5>2, <6>1
        <5> QED
          BY <5>1, <5>2
      <4> QED
        BY <2>5, <4>2, <4>4 DEF y
    <3> QED
      BY <3>1, <3>2
  <2>12. Limited(g, id, b)
    BY <2>5, <2>7, <2>10, <2>11 DEF Limited
  <2> QED
    BY <2>12 DEF b, new
<1> QED
  BY <1>10, <1>11

LEMMA SparingMore ==
  ASSUME NEW read \in Indexes, NEW rec \in Record, Lawful(read.jobs, rec),
         NEW h \in Seq(Record), NEW g \in Seq(Record), Extends(g, h, rec), Sparing(h, read.jobs)
  PROVE  Sparing(g, Apply(read, rec).jobs)
<1> SUFFICES ASSUME NEW id
             PROVE  /\ WithinLimit(g, id)
                    /\ id \in DOMAIN Apply(read, rec).jobs => Limited(g, id, Apply(read, rec).jobs[id])
  BY DEF Sparing
<1>1. WithinLimit(h, id) /\ (id \in DOMAIN read.jobs => Limited(h, id, read.jobs[id]))
  BY DEF Sparing
<1>2. \A k \in At(g, {"ENQUEUE"}, id) : g[k].max_attempts \in Nat
  <2>1. \A k \in At(g, {"ENQUEUE"}, id) : g[k] \in Record /\ g[k].type = "ENQUEUE"
    BY DEF At, Is
  <2>2. \A r \in Record : r.type = "ENQUEUE" => r.max_attempts \in Nat
    BY DEF Record
  <2> QED
    BY <2>1, <2>2
<1> QED
  BY <1>1, <1>2, WithinLimitMore, LimitedMore

-----------------------------------------------------------------------------
(***************************************************************************)
(* A batch that keeps to the limits, given the jobs known before it.       *)
(***************************************************************************)
Lawfully(jobs, recs) ==
  /\ \A k \in 1..Len(recs) : Lawful(jobs, recs[k])
  /\ \/ Len(recs) <= 1
     \/ \A k \in 1..Len(recs) : recs[k].type = "ENQUEUE"
     \/ \A k \in 1..Len(recs) : recs[k].type \in {"RECLAIM", "DEAD", "REQUEUE"}
     \/ /\ \A k \in 1..Len(recs) : recs[k].type = "LEASE"
        /\ \A j, k \in 1..Len(recs) : j # k => recs[j].id # recs[k].id

LEMMA LawfullyPart ==
  ASSUME NEW jobs, NEW recs \in Seq(Record), Lawfully(jobs, recs), NEW k \in 0..Len(recs)
  PROVE  Lawfully(jobs, SubSeq(recs, 1, k))
<1> DEFINE part == SubSeq(recs, 1, k)
<1>1. Len(part) = k /\ Len(recs) \in Nat /\ \A i \in 1..k : part[i] = recs[i]
  BY PrefixFacts
<1>2. \A i \in 1..k : i \in 1..Len(recs)
  BY <1>1
<1>3. Len(recs) <= 1 => k <= 1
  BY <1>1
<1> HIDE DEF part
<1> QED
  BY <1>1, <1>2, <1>3 DEF Lawfully, part

\* What the other records of such a batch leave of a job.
Spared(old, new) ==
  \A id \in DOMAIN old : /\ id \in DOMAIN new /\ new[id].max_attempts = old[id].max_attempts
                         /\ new[id].attempts <= old[id].attempts

LEMMA SparedMore ==
  ASSUME NEW read \in Indexes, NEW rec \in Record, rec.type \in {"RECLAIM", "DEAD", "REQUEUE"},
         Lawful(read.jobs, rec), NEW jobs, Spared(jobs, read.jobs),
         \A id \in DOMAIN jobs : jobs[id].attempts \in Nat
  PROVE  Spared(jobs, Apply(read, rec).jobs)
<1> DEFINE old == read.jobs  new == Apply(read, rec).jobs
<1>1. NamesJob(rec) /\ rec.id \in DOMAIN old
  BY DEF Lawful, NamesJob
<1>2. DOMAIN new = DOMAIN old
  <2> DEFINE job == Changed(old[rec.id], rec)
  <2>1. new = Put(old, rec.id, job)
    BY <1>1, ApplyJobs
  <2> HIDE DEF job, new, old
  <2> QED
    BY <1>1, <2>1 DEF Put
<1>3. \A id \in DOMAIN old : old[id].attempts \in Nat
  BY JobsType DEF Job
<1>4. \A id \in DOMAIN new : new[id].max_attempts = old[id].max_attempts
                             /\ new[id].attempts <= old[id].attempts
  <2> SUFFICES ASSUME NEW id \in DOMAIN new
               PROVE  new[id].max_attempts = old[id].max_attempts /\ new[id].attempts <= old[id].attempts
    OBVIOUS
  <2>1. old[id].attempts \in Nat
    BY <1>2, <1>3
  <2>2. /\ rec.id # id => new[id] = old[id]
        /\ rec.id = id => /\ new[id].max_attempts = old[id].max_attempts
                          /\ rec.type = "REQUEUE" => new[id].attempts = 0
                          /\ rec.type # "REQUEUE" => new[id].attempts = old[id].attempts
    BY LawfulJob
  <2> HIDE DEF new, old
  <2> QED
    BY <2>1, <2>2
<1> HIDE DEF new, old
<1>5. Spared(jobs, new)
  <2> SUFFICES ASSUME NEW id \in DOMAIN jobs
               PROVE  /\ id \in DOMAIN new /\ new[id].max_attempts = jobs[id].max_attempts
                      /\ new[id].attempts <= jobs[id].attempts
    BY DEF Spared
  <2>1. /\ id \in DOMAIN old /\ old[id].max_attempts = jobs[id].max_attempts
        /\ old[id].attempts <= jobs[id].attempts
    BY DEF Spared, old
  <2>2. /\ id \in DOMAIN new /\ new[id].max_attempts = old[id].max_attempts
        /\ new[id].attempts <= old[id].attempts /\ old[id].attempts \in Nat
    BY <1>2, <1>3, <1>4, <2>1
  <2>3. new[id].attempts \in Nat
    <3>1. Apply(read, rec) \in Indexes
      BY ApplyType
    <3> QED
      BY <2>2, <3>1, JobsType DEF Job, new
  <2> QED
    BY <2>1, <2>2, <2>3
<1> QED
  BY <1>5 DEF new


\* Each record of such a batch is lawful after the ones before it.
LEMMA BatchLawful ==
  ASSUME NEW read \in Indexes, NEW recs \in Seq(Record), Lawfully(read.jobs, recs)
  PROVE  \A n \in 0..Len(recs) - 1 : Lawful(After(read, recs, n).jobs, recs[n + 1])
<1> DEFINE jobs == read.jobs
<1>0. /\ Len(recs) \in Nat /\ After(read, recs, 0) = read
      /\ \A n \in 0..Len(recs) - 1 : n + 1 \in 1..Len(recs) /\ n \in 0..Len(recs)
  BY AfterFacts
<1>1. \A k \in 1..Len(recs) : Lawful(jobs, recs[k])
  BY DEF Lawfully
<1>2. \A id \in DOMAIN jobs : jobs[id].attempts \in Nat /\ jobs[id].max_attempts \in Nat
  BY JobsType DEF Job
<1>3. CASE Len(recs) <= 1
  <2>1. \A n \in 0..Len(recs) - 1 : n = 0 /\ n + 1 \in 1..Len(recs) /\ After(read, recs, n) = read
    BY <1>0, <1>3
  <2> QED
    BY <1>1, <2>1
<1>4. CASE \A k \in 1..Len(recs) : recs[k].type = "ENQUEUE"
  BY <1>0, <1>1, <1>4 DEF Lawful, NamesJob
<1>5. CASE \A k \in 1..Len(recs) : recs[k].type \in {"RECLAIM", "DEAD", "REQUEUE"}
  <2> DEFINE T == {n \in 0..Len(recs) : Spared(jobs, After(read, recs, n).jobs)}
  <2>1. 0 \in T
    <3>1. Spared(jobs, jobs)
      BY <1>2 DEF Spared
    <3> QED
      BY <1>0, <3>1
  <2>2. ASSUME NEW n \in 0..Len(recs) - 1, n \in T
        PROVE  n + 1 \in T /\ Lawful(After(read, recs, n).jobs, recs[n + 1])
    <3> DEFINE idx == After(read, recs, n)  rec == recs[n + 1]
    <3>1. /\ idx \in Indexes /\ rec \in Record /\ n + 1 \in 1..Len(recs) /\ n + 1 \in 0..Len(recs)
          /\ After(read, recs, n + 1) = Apply(idx, rec)
      BY AfterFacts
    <3>2. Spared(jobs, idx.jobs) /\ rec.type \in {"RECLAIM", "DEAD", "REQUEUE"} /\ Lawful(jobs, rec)
      BY <1>1, <1>5, <2>2, <3>1
    <3> HIDE DEF idx, rec, jobs
    <3>3. rec.id \in DOMAIN jobs /\ NamesJob(rec)
          /\ (rec.type = "RECLAIM" => jobs[rec.id].attempts < jobs[rec.id].max_attempts)
      BY <3>2 DEF Lawful, NamesJob
    <3>4. /\ rec.id \in DOMAIN idx.jobs
          /\ idx.jobs[rec.id].max_attempts = jobs[rec.id].max_attempts
          /\ idx.jobs[rec.id].attempts <= jobs[rec.id].attempts
          /\ idx.jobs[rec.id].attempts \in Nat
      BY <3>1, <3>2, <3>3, JobsType DEF Spared, Job
    <3>5. rec.type = "RECLAIM" => idx.jobs[rec.id].attempts < idx.jobs[rec.id].max_attempts
      BY <1>2, <3>3, <3>4
    <3>6. Lawful(idx.jobs, rec)
      BY <3>2, <3>3, <3>4, <3>5 DEF Lawful
    <3>7. Spared(jobs, Apply(idx, rec).jobs)
      BY <1>2, <3>1, <3>2, <3>6, SparedMore
    <3> QED
      BY <3>1, <3>6, <3>7 DEF idx, rec
  <2> HIDE DEF T
  <2>3. 0..Len(recs) \subseteq T
    BY <1>0, <2>1, <2>2, UpToInduction
  <2> QED
    BY <1>0, <2>2, <2>3
<1>6. CASE /\ \A k \in 1..Len(recs) : recs[k].type = "LEASE"
           /\ \A j, k \in 1..Len(recs) : j # k => recs[j].id # recs[k].id
  <2> DEFINE ahead(n, out) ==
               \A k \in 1..Len(recs) :
                 k > n => recs[k].id \in DOMAIN out /\ out[recs[k].id] = jobs[recs[k].id]
             T == {n \in 0..Len(recs) : ahead(n, After(read, recs, n).jobs)}
  <2>0. \A k \in 1..Len(recs) : NamesJob(recs[k]) /\ recs[k].id \in DOMAIN jobs
    BY <1>1, <1>6 DEF Lawful, NamesJob
  <2>1. 0 \in T
    BY <1>0, <2>0
  <2>2. ASSUME NEW n \in 0..Len(recs) - 1, n \in T
        PROVE  n + 1 \in T /\ Lawful(After(read, recs, n).jobs, recs[n + 1])
    <3> DEFINE idx == After(read, recs, n)  m == n + 1  rec == recs[m]
               job == Changed(idx.jobs[rec.id], rec)  out == Apply(idx, rec).jobs
    <3>1. /\ idx \in Indexes /\ rec \in Record /\ m \in 1..Len(recs) /\ m \in 0..Len(recs)
          /\ After(read, recs, m) = Apply(idx, rec) /\ m = n + 1
      BY AfterFacts
    <3>2. ahead(n, idx.jobs)
      BY <2>2
    <3>3. rec.id \in DOMAIN idx.jobs /\ idx.jobs[rec.id] = jobs[rec.id]
      <4> HIDE DEF idx, jobs
      <4>1. m > n
        BY <3>1
      <4> QED
        BY <3>1, <3>2, <4>1
    <3>4. Lawful(idx.jobs, rec)
      <4>1. Lawful(jobs, rec) /\ rec.type = "LEASE"
        BY <1>1, <1>6, <3>1
      <4> HIDE DEF idx, rec, jobs
      <4> QED
        BY <3>3, <4>1 DEF Lawful
    <3>5. out = Put(idx.jobs, rec.id, job)
      BY <2>0, <3>1, <3>3, ApplyJobs
    <3> HIDE DEF idx, m, jobs, job, out
    <3>6. ahead(m, out)
      <4> SUFFICES ASSUME NEW k \in 1..Len(recs), k > m
                   PROVE  recs[k].id \in DOMAIN out /\ out[recs[k].id] = jobs[recs[k].id]
        OBVIOUS
      <4>1. k > n /\ k # m
        BY <3>1
      <4>2. recs[k].id # rec.id
        BY <1>6, <3>1, <4>1
      <4>3. recs[k].id \in DOMAIN idx.jobs /\ idx.jobs[recs[k].id] = jobs[recs[k].id]
        BY <3>2, <4>1
      <4> HIDE DEF rec
      <4> QED
        BY <3>5, <4>2, <4>3 DEF Put
    <3>7. m \in T
      BY <3>1, <3>6 DEF out
    <3> QED
      BY <3>4, <3>7 DEF idx, m
  <2> HIDE DEF T
  <2>3. 0..Len(recs) \subseteq T
    BY <1>0, <2>1, <2>2, UpToInduction
  <2> QED
    BY <1>0, <2>2, <2>3
<1> QED
  BY <1>3, <1>4, <1>5, <1>6 DEF Lawfully

\* A batch keeps to the limits wherever it is cut.
LEMMA BatchSparing ==
  ASSUME NEW read \in Indexes, NEW recs \in Seq(Record), Lawfully(read.jobs, recs),
         NEW h \in Seq(Record), Sparing(h, read.jobs)
  PROVE  \A n \in 0..Len(recs) : Sparing(h \o SubSeq(recs, 1, n), After(read, recs, n).jobs)
<1> DEFINE T == {n \in 0..Len(recs) : Sparing(h \o SubSeq(recs, 1, n), After(read, recs, n).jobs)}
<1>0. Len(recs) \in Nat
  BY AfterFacts
<1>1. 0 \in T
  <2>1. SubSeq(recs, 1, 0) = <<>> /\ h \o <<>> = h /\ After(read, recs, 0) = read
    BY PrefixFacts, AfterFacts, ConcatEmptySeq
  <2>2. Sparing(h \o SubSeq(recs, 1, 0), After(read, recs, 0).jobs)
    BY <2>1
  <2> QED
    BY <1>0, <2>2
<1>2. ASSUME NEW n \in 0..Len(recs) - 1, n \in T PROVE n + 1 \in T
  <2> DEFINE f == h \o SubSeq(recs, 1, n)  g == h \o SubSeq(recs, 1, n + 1)
             idx == After(read, recs, n)  rec == recs[n + 1]
  <2>1. Extends(g, f, rec)
    BY ConcatExtends
  <2>2. idx \in Indexes /\ rec \in Record /\ After(read, recs, n + 1) = Apply(idx, rec)
    BY AfterFacts
  <2>3. Lawful(idx.jobs, rec)
    BY BatchLawful
  <2>4. Sparing(f, idx.jobs)
    BY <1>2
  <2>5. f \in Seq(Record)
    BY ConcatExtends
  <2>6. n + 1 \in 0..Len(recs)
    BY <1>0
  <2>7. g \in Seq(Record)
    <3> DEFINE part == SubSeq(recs, 1, n + 1)
    <3>1. part \in Seq(Record)
      BY <2>6, PrefixFacts
    <3> HIDE DEF part
    <3> QED
      BY <3>1, ConcatProperties DEF part
  <2> HIDE DEF f, g, idx, rec
  <2>8. Sparing(g, Apply(idx, rec).jobs)
    BY <2>1, <2>2, <2>3, <2>4, <2>5, <2>7, SparingMore
  <2> QED
    BY <2>2, <2>6, <2>8 DEF g, f, idx, rec
<1> HIDE DEF T
<1>3. 0..Len(recs) \subseteq T
  BY <1>0, <1>1, <1>2, UpToInduction
<1> QED
  BY <1>3 DEF T


-----------------------------------------------------------------------------
(***************************************************************************)
(* The limits, wherever a log may be cut.                                  *)
(***************************************************************************)
LimitsKept == \A n \in past.kept..Len(log.recs) : Sparing(HistoryTo(n), Reading(n).jobs)

LimitsIn(l) == \A n \in past.kept..Len(l.recs) : Sparing(HistoryOf(l, n), ReadingOf(l.recs, n).jobs)

LEMMA LimitsNext ==
  ASSUME NEW l, LimitsIn(l), log' = l, past' = past
  PROVE  LimitsKept'
<1>1. ASSUME NEW n \in past.kept..Len(l.recs)
      PROVE  Sparing(HistoryTo(n)', (Reading(n)').jobs)
  <2>1. HistoryTo(n)' = HistoryOf(l, n) /\ Reading(n)' = ReadingOf(l.recs, n)
    BY DEF HistoryTo, HistoryOf, Reading, ReadingOf
  <2> QED
    BY <2>1 DEF LimitsIn
<1> QED
  BY <1>1 DEF LimitsKept

LEMMA RepairedLimits ==
  ASSUME IInv, LimitsKept, NEW l, l.recs = log.recs
  PROVE  LimitsIn(l)
<1> SUFFICES ASSUME NEW n \in past.kept..Len(l.recs)
             PROVE  Sparing(HistoryOf(l, n), ReadingOf(l.recs, n).jobs)
  BY DEF LimitsIn
<1>1. HistoryOf(l, n) = HistoryTo(n) /\ ReadingOf(l.recs, n) = Reading(n)
  BY DEF HistoryTo, HistoryOf, Reading, ReadingOf
<1> QED
  BY <1>1 DEF LimitsKept

LEMMA AppendLimits ==
  ASSUME IInv, NEW l, Follows(l), LimitsIn(l), NEW recs \in Seq(Record),
         Lawfully(Whole(l).jobs, recs), NEW m, m.recs = l.recs \o recs
  PROVE  LimitsIn(m)
<1> DEFINE N == Len(l.recs)  h == HistoryOf(l, N)  read == Whole(l)
<1>1. N \in Nat /\ past.kept \in 0..N /\ h \in Seq(Record)
  BY WholeCut
<1>2. read \in Indexes /\ read = ReadingOf(l.recs, N)
  BY WholeFacts
<1>3. /\ Len(m.recs) = N + Len(recs) /\ Len(recs) \in Nat
      /\ \A n \in past.kept..N : /\ HistoryOf(m, n) = HistoryOf(l, n)
                                 /\ ReadingOf(m.recs, n) = ReadingOf(l.recs, n)
      /\ \A j \in 0..Len(recs) : /\ HistoryOf(m, N + j) = h \o SubSeq(recs, 1, j)
                                 /\ ReadingOf(m.recs, N + j) = After(read, recs, j)
  BY GrownLog, LenProperties
<1>4. Sparing(h, read.jobs)
  <2>1. N \in past.kept..N
    BY <1>1
  <2> QED
    BY <1>2, <2>1 DEF LimitsIn
<1> SUFFICES ASSUME NEW n \in past.kept..Len(m.recs)
             PROVE  Sparing(HistoryOf(m, n), ReadingOf(m.recs, n).jobs)
  BY DEF LimitsIn
<1>5. CASE n <= N
  <2>1. n \in past.kept..N
    BY <1>1, <1>3, <1>5
  <2>2. Sparing(HistoryOf(l, n), ReadingOf(l.recs, n).jobs)
    BY <2>1 DEF LimitsIn
  <2> QED
    BY <1>3, <2>1, <2>2
<1>6. CASE ~(n <= N)
  <2> DEFINE j == n - N
  <2>1. j \in 0..Len(recs) /\ n = N + j
    BY <1>1, <1>3, <1>6
  <2> HIDE DEF h, read, j
  <2>2. Sparing(h \o SubSeq(recs, 1, j), After(read, recs, j).jobs)
    BY <1>1, <1>2, <1>4, <2>1, BatchSparing DEF read
  <2>3. HistoryOf(m, N + j) = h \o SubSeq(recs, 1, j) /\ ReadingOf(m.recs, N + j) = After(read, recs, j)
    BY <1>3, <2>1
  <2> QED
    BY <2>1, <2>2, <2>3
<1> QED
  BY <1>5, <1>6

LEMMA RetainedSparing ==
  ASSUME NEW h, NEW old, NEW new, Sparing(h, old),
         \A id \in DOMAIN new : /\ id \in DOMAIN old /\ new[id].state = old[id].state
                                /\ new[id].attempts = old[id].attempts
                                /\ new[id].max_attempts = old[id].max_attempts
  PROVE  Sparing(h, new)
<1> SUFFICES ASSUME NEW id
             PROVE  WithinLimit(h, id) /\ (id \in DOMAIN new => Limited(h, id, new[id]))
  BY DEF Sparing
<1>1. WithinLimit(h, id)
  BY DEF Sparing
<1>2. ASSUME id \in DOMAIN new PROVE Limited(h, id, new[id])
  <2> DEFINE a == old[id]  b == new[id]
  <2>1. Limited(h, id, a) /\ b.state = a.state /\ b.attempts = a.attempts /\ b.max_attempts = a.max_attempts
    BY <1>2 DEF Sparing
  <2> HIDE DEF a, b
  <2>2. Limited(h, id, b)
    BY <2>1 DEF Limited
  <2> QED
    BY <2>2 DEF b
<1> QED
  BY <1>1, <1>2

LEMMA FlipLimits ==
  ASSUME IInv, NEW s, Session(s), s.idx \in Indexes, LimitsIn(s.log),
         NEW live \in LiveJobs(s.idx), Flip(s, live)
  PROVE  LimitsKept'
<1> DEFINE l == Compacted(s.log, s.idx, live)  N == Len(s.log.recs)  n == Len(live)
           h == HistoryOf(s.log, N)  jobs == ReadingOf(l.recs, n).jobs
           before == Whole(s.log).jobs
<1>1. N \in Nat /\ past.kept \in 0..N
  BY WholeCut DEF Session
<1>2. Whole(s.log) = ReadingOf(s.log.recs, N)
  BY WholeFacts DEF Session
<1>3. Sparing(h, before)
  <2>1. N \in past.kept..N
    BY <1>1
  <2> QED
    BY <1>2, <2>1 DEF LimitsIn
<1>4. \A id \in DOMAIN jobs : /\ id \in DOMAIN before /\ jobs[id].state = before[id].state
                              /\ jobs[id].attempts = before[id].attempts
                              /\ jobs[id].max_attempts = before[id].max_attempts
  BY CompactedJobs
<1>5. /\ n \in Nat /\ Len(l.recs) = n /\ log' = l /\ past'.kept = n
      /\ HistoryTo(n)' = h /\ Reading(n)' = ReadingOf(l.recs, n)
  BY FlippedLog
<1>6. Sparing(h, jobs)
  <2> HIDE DEF h, jobs, before
  <2> QED
    BY <1>3, <1>4, RetainedSparing
<1>7. Sparing(HistoryTo(n)', (Reading(n)').jobs)
  BY <1>5, <1>6
<1> HIDE DEF l, h, n, jobs, before
<1>8. \A k \in (past.kept..Len(log.recs))' : k = n
  BY <1>5
<1> QED
  BY <1>7, <1>8 DEF LimitsKept

LEMMA PowerLossLimits ==
  ASSUME IInv, LimitsKept, PowerLoss
  PROVE  LimitsKept'
<1>1. past.kept \in Nat /\ past.kept <= log.synced /\ log.synced \in Nat /\ Len(log.recs) \in Nat
  BY Parts, LenProperties DEF Logs, Scalars
<1>2. /\ past' = past /\ Len(log'.recs) \in log.synced..Len(log.recs)
      /\ \A k \in past.kept..Len(log'.recs) : HistoryTo(k)' = HistoryTo(k) /\ Reading(k)' = Reading(k)
  BY LostLog
<1>3. \A k \in (past.kept..Len(log.recs))' :
        k \in past.kept..Len(log.recs) /\ k \in past.kept..Len(log'.recs)
  BY <1>1, <1>2
<1> QED
  BY <1>2, <1>3 DEF LimitsKept


-----------------------------------------------------------------------------
(***************************************************************************)
(* What operations write keeps to the limits.                              *)
(***************************************************************************)
\* Every call allows its jobs one attempt at least.
LimitsPositive == \A call \in Batches : call.limit > 0

\* A session judges a batch as the log does.
LEMMA SessionLawful ==
  ASSUME NEW s, Session(s), NEW recs \in Seq(Record), Lawfully(s.idx.jobs, recs)
  PROVE  Lawfully(Whole(s.log).jobs, recs)
<1> DEFINE old == s.idx.jobs  jobs == Whole(s.log).jobs
<1>1. /\ DOMAIN jobs = DOMAIN old
      /\ \A id \in DOMAIN old : /\ jobs[id].state = old[id].state
                                /\ jobs[id].attempts = old[id].attempts
                                /\ jobs[id].max_attempts = old[id].max_attempts
  BY SessionJobs
<1> HIDE DEF old, jobs
<1>2. ASSUME NEW rec, Lawful(old, rec) PROVE Lawful(jobs, rec)
  BY <1>1, <1>2 DEF Lawful
<1>3. Lawfully(jobs, recs)
  BY <1>2 DEF Lawfully, old
<1> QED
  BY <1>3 DEF jobs

LEMMA HandsLawful ==
  ASSUME NEW s, Session(s), Tidy(s.idx), NEW t, NEW recs \in Seq(Record), Hands(s, t, recs)
  PROVE  Lawfully(s.idx.jobs, recs)
<1>1. PICK n \in Nat, timeout \in Nat : recs = LeaseRecords(s, Taken(s.idx, n).ids, timeout)
  BY InputAssumption DEF Hands
<1> DEFINE so == Taken(s.idx, n)  ids == so.ids  jobs == s.idx.jobs
<1>2. InHand(s.idx, so)
  BY TakenTidy DEF Session
<1>3. ids \in Seq(WaitingIds(s.idx)) /\ \A i, j \in 1..Len(ids) : i # j => ids[i] # ids[j]
  BY <1>2 DEF InHand, Takings
<1>4. recs = [i \in DOMAIN ids |->
                [type |-> "LEASE", id |-> ids[i], at |-> now, deadline |-> now + timeout,
                 attempts |-> jobs[ids[i]].attempts + 1, token |-> issued + i]]
  BY <1>1 DEF LeaseRecords
<1> HIDE DEF so, ids
<1>5. DOMAIN recs = DOMAIN ids /\ DOMAIN recs = 1..Len(recs) /\ DOMAIN ids = 1..Len(ids)
      /\ Len(recs) \in Nat /\ Len(ids) \in Nat
  BY <1>3, <1>4, LenProperties
<1>6. \A i \in 1..Len(recs) :
        /\ i \in 1..Len(ids) /\ recs[i].type = "LEASE" /\ recs[i].id = ids[i]
        /\ recs[i].attempts = jobs[ids[i]].attempts + 1
  BY <1>4, <1>5
<1>7. \A i \in 1..Len(ids) : ids[i] \in DOMAIN jobs /\ jobs[ids[i]].state = "READY"
  BY <1>3 DEF WaitingIds
<1> HIDE DEF jobs
<1>8. \A k \in 1..Len(recs) : Lawful(jobs, recs[k])
  BY <1>6, <1>7 DEF Lawful, NamesJob
<1>9. \A j, k \in 1..Len(recs) : j # k => recs[j].id # recs[k].id
  BY <1>3, <1>6
<1>10. Lawfully(jobs, recs)
  BY <1>6, <1>8, <1>9 DEF Lawfully
<1> QED
  BY <1>10 DEF jobs

LEMMA ProperLawful ==
  ASSUME LimitsPositive, NEW s, Session(s), Tidy(s.idx), NEW t, NEW recs, Proper(s, t, recs)
  PROVE  Lawfully(Whole(t.log).jobs, recs)
<1> DEFINE jobs == s.idx.jobs
<1>1. recs \in Seq(Record) /\ t.log = s.log
  BY DEF Proper, Prepares
<1>2. CASE Hands(s, t, recs)
  BY <1>1, <1>2, HandsLawful, SessionLawful
<1>3. CASE Creates(s.idx, recs)
  <2>1. \A k \in 1..Len(recs) :
          /\ recs[k].type = "ENQUEUE" /\ recs[k].state = "READY" /\ recs[k].attempts = 0
          /\ recs[k].max_attempts > 0
    BY <1>3 DEF Creates, LimitsPositive
  <2>2. Lawfully(jobs, recs)
    BY <2>1 DEF Lawfully, Lawful
  <2> QED
    BY <1>1, <2>2, SessionLawful
<1>4. CASE /\ \A k \in 1..Len(recs) : Marks(s.idx, recs[k])
           /\ Len(recs) <= 1 \/ \A k \in 1..Len(recs) : recs[k].type = "REQUEUE"
  <2>1. \A k \in 1..Len(recs) : Marks(s.idx, recs[k]) => Lawful(jobs, recs[k])
    BY MarkFacts DEF Lawful
  <2>2. Lawfully(jobs, recs)
    BY <1>4, <2>1 DEF Lawfully
  <2> QED
    BY <1>1, <2>2, SessionLawful
<1> QED
  BY <1>2, <1>3, <1>4 DEF Proper

\* A reap sends no job back that has no attempt left.
LEMMA ReapLawful ==
  ASSUME IInv, NEW p \in Proc, proc[p].up, NEW batch \in ReapBatches(CaughtUp(p).idx)
  PROVE  Lawfully(Whole(Popped(p).log).jobs, batch)
<1> DEFINE idx == CaughtUp(p).idx
<1>1. PICK ids \in ExpiredLeases(idx, now) :
        \E delay : batch = [i \in DOMAIN ids |-> ReapRecord(idx, ids[i], delay[i])]
  BY DEF ReapBatches
<1>2. PICK delay : batch = [i \in DOMAIN ids |-> ReapRecord(idx, ids[i], delay[i])]
  BY <1>1
<1>3. idx \in Indexes /\ CaughtUp(p) \in [log : Logs({log.gen}), idx : Indexes]
  BY CaughtUpFacts DEF Session
<1>4. Session(Popped(p)) /\ batch \in Seq(Record)
  BY ReapFacts
<1>5. Popped(p).idx.jobs = idx.jobs
  <2>1. Popped(p).idx = WithoutLapsed(idx, now)
    BY <1>3 DEF Popped
  <2> QED
    BY <1>3, <2>1, WithoutLapsedFacts DEF SameJobs
<1> HIDE DEF idx
<1>6. ids \in Seq(LeasedIds(idx))
  BY <1>1, <1>3, ExpiredFacts
<1>7. DOMAIN batch = DOMAIN ids /\ DOMAIN batch = 1..Len(batch)
  BY <1>2, <1>4, LenProperties
<1>8. \A i \in 1..Len(batch) : batch[i] = ReapRecord(idx, ids[i], delay[i]) /\ ids[i] \in LeasedIds(idx)
  <2>1. \A i \in DOMAIN ids : batch[i] = ReapRecord(idx, ids[i], delay[i])
    BY <1>2
  <2>2. \A i \in DOMAIN ids : ids[i] \in LeasedIds(idx)
    BY <1>6
  <2> QED
    BY <1>7, <2>1, <2>2
<1>9. ASSUME NEW id \in LeasedIds(idx), NEW wait
      PROVE  LET rec == ReapRecord(idx, id, wait) IN
             rec.type \in {"RECLAIM", "DEAD"} /\ Lawful(idx.jobs, rec)
  <2> DEFINE job == idx.jobs[id]  rec == ReapRecord(idx, id, wait)
  <2>1. id \in DOMAIN idx.jobs /\ job.attempts \in Nat /\ job.max_attempts \in Nat
    BY <1>3, <1>9, JobsType DEF LeasedIds, Job
  <2>2. /\ rec.id = id
        /\ rec.type = "DEAD" \/ (rec.type = "RECLAIM" /\ ~(job.attempts >= job.max_attempts))
    BY DEF ReapRecord
  <2> HIDE DEF rec
  <2>3. rec.type = "RECLAIM" => job.attempts < job.max_attempts
    <3> HIDE DEF job
    <3> QED
      BY <2>1, <2>2
  <2>4. rec.type \in {"RECLAIM", "DEAD"} /\ NamesJob(rec)
    BY <2>2 DEF NamesJob
  <2>5. Lawful(idx.jobs, rec)
    BY <2>1, <2>2, <2>3, <2>4 DEF Lawful
  <2> QED
    BY <2>4, <2>5 DEF rec
<1>10. \A i \in 1..Len(batch) : batch[i].type \in {"RECLAIM", "DEAD"} /\ Lawful(idx.jobs, batch[i])
  BY <1>8, <1>9
<1>11. Lawfully(idx.jobs, batch)
  BY <1>10 DEF Lawfully
<1> QED
  BY <1>4, <1>5, <1>11, SessionLawful

\* A write, and one that goes wrong.
LEMMA CommittedLimits ==
  ASSUME IInv, NEW s, Session(s), LimitsIn(s.log), NEW recs \in Seq(Record),
         Lawfully(Whole(s.log).jobs, recs)
  PROVE  LimitsIn(Committed(s, recs).log)
<1>1. Committed(s, recs).log.recs = s.log.recs \o recs
  BY WrittenLog
<1>2. Follows(s.log)
  BY DEF Session
<1> DEFINE m == Committed(s, recs).log  l == s.log
<1> HIDE DEF m, l
<1>3. LimitsIn(m)
  BY <1>1, <1>2, AppendLimits DEF m, l
<1> QED
  BY <1>3 DEF m

LEMMA InterruptedLimits ==
  ASSUME IInv, NEW p, NEW s, Session(s), LimitsIn(s.log), NEW recs \in Seq(Record),
         Lawfully(Whole(s.log).jobs, recs), Interrupted(p, s, recs), past' = past
  PROVE  LimitsKept'
<1>1. PICK k \in 0..Len(recs), torn \in BOOLEAN :
        log' = [s.log EXCEPT !.recs = @ \o SubSeq(recs, 1, k), !.torn = torn]
  BY DEF Interrupted
<1> DEFINE l == s.log  part == SubSeq(recs, 1, k)  all == l.recs \o part
           m == [[l EXCEPT !.recs = all] EXCEPT !.torn = torn]
<1>2. log' = m
  BY <1>1
<1>3. l \in Logs({log.gen}) /\ Follows(l) /\ LimitsIn(l)
  BY DEF Session
<1>4. part \in Seq(Record) /\ Lawfully(Whole(l).jobs, part)
  BY PrefixFacts, LawfullyPart
<1> HIDE DEF part, l
<1>5. m.recs = all
  BY <1>3 DEF Logs
<1> HIDE DEF m
<1>6. LimitsIn(m)
  BY <1>3, <1>4, <1>5, AppendLimits
<1> QED
  BY <1>2, <1>6, LimitsNext

LEMMA CommitLimits ==
  ASSUME IInv, NEW p, NEW s, Session(s), LimitsIn(s.log), NEW recs \in Seq(Record),
         Lawfully(Whole(s.log).jobs, recs), NEW replies, Commit(p, s, recs, replies), past' = past
  PROVE  LimitsKept'
<1>1. CASE Interrupted(p, s, recs)
  BY <1>1, InterruptedLimits
<1>2. CASE Returns(p, Committed(s, recs), replies)
  <2> DEFINE l == Committed(s, recs).log
  <2>1. log' = l /\ LimitsIn(l)
    BY <1>2, CommittedLimits DEF Returns
  <2> HIDE DEF l
  <2> QED
    BY <2>1, LimitsNext
<1> QED
  BY <1>1, <1>2 DEF Commit

LEMMA OperatesLimits ==
  ASSUME DistinctKeys, LimitsPositive, IInv, HeapsInOrder, LimitsKept,
         NEW p \in Proc, Operates(p)
  PROVE  LimitsKept'
<1>1. proc[p].up
  BY DEF Operates
<1>2. PICK batch \in ReapBatches(CaughtUp(p).idx) : Ends(p, batch)
  BY DEF Operates
<1> DEFINE s == Begun(p, batch)  t == Popped(p)
<1>3. Session(t) /\ batch \in Seq(Record) /\ Lawfully(Whole(t.log).jobs, batch) /\ LimitsIn(t.log)
  <2>1. t.log.recs = log.recs
    <3>1. t.log = CaughtUp(p).log
      BY <1>1, PoppedFacts
    <3> QED
      BY <3>1, RepairedFacts DEF CaughtUp
  <2> QED
    BY <1>1, <2>1, ReapFacts, ReapLawful, RepairedLimits
<1>4. Session(s) /\ s.idx \in Indexes /\ Tidy(s.idx)
  BY <1>1, BegunFacts, BegunInOrder DEF InOrder
<1>5. LimitsIn(s.log)
  BY <1>3, CommittedLimits DEF Begun
<1>6. \/ /\ past' = past
         /\ \/ Interrupted(p, t, batch)
            \/ log' = s.log
            \/ \E u, recs, replies : Proper(s, u, recs) /\ Commit(p, u, recs, replies)
      \/ \E live \in LiveJobs(s.idx) : Flip(s, live)
  BY <1>2 DEF Ends, Returns
<1> HIDE DEF s, t
<1>7. CASE past' = past /\ Interrupted(p, t, batch)
  BY <1>3, <1>7, InterruptedLimits
<1>8. CASE past' = past /\ log' = s.log
  BY <1>5, <1>8, LimitsNext
<1>9. CASE past' = past /\ \E u, recs, replies : Proper(s, u, recs) /\ Commit(p, u, recs, replies)
  <2>1. PICK u, recs, replies : Proper(s, u, recs) /\ Commit(p, u, recs, replies)
    BY <1>9
  <2>2. recs \in Seq(Record) /\ Session(u) /\ LimitsIn(u.log)
    BY <1>5, <2>1 DEF Proper, Prepares
  <2>3. Lawfully(Whole(u.log).jobs, recs)
    BY <1>4, <2>1, ProperLawful
  <2> QED
    BY <1>9, <2>1, <2>2, <2>3, CommitLimits
<1>10. CASE \E live \in LiveJobs(s.idx) : Flip(s, live)
  BY <1>4, <1>5, <1>10, FlipLimits
<1> QED
  BY <1>6, <1>7, <1>8, <1>9, <1>10


LEMMA InitLimits == Init => LimitsKept
<1> SUFFICES ASSUME Init PROVE LimitsKept
  OBVIOUS
<1>1. log.recs = <<>> /\ past = [events |-> <<>>, kept |-> 0]
  BY DEF Init
<1> DEFINE none == <<>>
<1>2. none \in Seq(Record) /\ Len(none) = 0
  OBVIOUS
<1>3. log.recs = none /\ past.events = none /\ past.kept = 0
  BY <1>1
<1> HIDE DEF none
<1>4. SubSeq(none, 1, 0) = none
  BY <1>2, PrefixFacts DEF none
<1>5. none \o none = none
  BY <1>2, ConcatEmptySeq DEF none
<1>6. HistoryTo(0) = none /\ Reading(0) = EmptyIndex
  <2>1. HistoryTo(0) = none \o SubSeq(none, 1, 0)
    BY <1>3 DEF HistoryTo
  <2>2. Reading(0) = Replay(EmptyIndex, none)
    BY <1>3, <1>4 DEF Reading
  <2>3. Replay(EmptyIndex, none) = EmptyIndex
    BY ReplayNothing DEF none
  <2> QED
    BY <1>4, <1>5, <2>1, <2>2, <2>3
<1>7. DOMAIN EmptyIndex.jobs = {}
  BY EmptyFacts
<1>8. \A id, types : At(none, types, id) = {}
  BY <1>2 DEF At
<1>9. Sparing(none, EmptyIndex.jobs)
  BY <1>7, <1>8 DEF Sparing, WithinLimit, Starts
<1>10. \A n \in past.kept..Len(log.recs) : n = 0
  BY <1>2, <1>3
<1> QED
  BY <1>6, <1>9, <1>10 DEF LimitsKept

LEMMA StepLimits ==
  ASSUME DistinctKeys, LimitsPositive, IInv, HeapsInOrder, LimitsKept, [Next]_vars
  PROVE  LimitsKept'
<1>1. LimitsIn(log) /\ LimitsIn(Repaired(log))
  BY RepairedFacts, RepairedLimits
<1>2. CASE \E p \in Proc : Operates(p)
  BY <1>2, OperatesLimits
<1>3. CASE \E p \in Proc : Open(p)
  <2>1. log' = Repaired(log) /\ past' = past
    BY <1>3 DEF Open
  <2> QED
    BY <1>1, <2>1, LimitsNext
<1>4. CASE \E p \in Proc : Stop(p)
  <2>1. log' = log /\ past' = past
    BY <1>4 DEF Stop
  <2> QED
    BY <1>1, <2>1, LimitsNext
<1>5. CASE PowerLoss
  BY <1>5, PowerLossLimits
<1>6. CASE UNCHANGED <<log, proc, past>>
  BY <1>1, <1>6, LimitsNext
<1> QED
  BY <1>2, <1>3, <1>4, <1>5, <1>6, StepIs

\* No job is leased more often than its limit allows from the record that created or
\* revived it, whatever crashes, failed writes, power losses and compactions come between:
\* a lease that lapsed or was given back counts, and only requeue_dead, a purge or a new
\* enqueue of the key starts the count again.
THEOREM DeliveriesStayBounded == ASSUME DistinctKeys, LimitsPositive PROVE Spec => []DeliveriesBounded
<1>1. Init => IInv /\ HeapsInOrder /\ LimitsKept
  BY InitInv, InitOrder, InitLimits
<1>2. IInv /\ HeapsInOrder /\ LimitsKept /\ [Next]_vars => (IInv /\ HeapsInOrder /\ LimitsKept)'
  BY StepInv, StepOrder, StepLimits
<1>3. IInv /\ LimitsKept => DeliveriesBounded
  <2> SUFFICES ASSUME IInv, LimitsKept PROVE DeliveriesBounded
    OBVIOUS
  <2> DEFINE n == Len(log.recs)
  <2>1. n \in past.kept..n
    <3>1. past.kept \in Nat /\ past.kept <= log.synced /\ log.synced <= n
          /\ log.synced \in Nat /\ n \in Nat
      BY FollowsItself, Parts, LenProperties DEF Logs, Scalars, Follows
    <3> HIDE DEF n
    <3> QED
      BY <3>1
  <2>2. History = HistoryTo(n)
    BY DEF History, HistoryTo
  <2> DEFINE h == History
  <2>3. \A id : WithinLimit(h, id)
    BY <2>1, <2>2 DEF LimitsKept, Sparing
  <2> HIDE DEF h
  <2>4. \A id \in JobId :
          LET starts  == At(h, {"ENQUEUE", "REQUEUE", "PURGE"}, id)
              created == At(h, {"ENQUEUE"}, id)
          IN \A i \in starts, c \in created : c <= i /\ ~Between(c, i + 1, created) =>
               Cardinality({k \in At(h, {"LEASE"}, id) : i < k /\ ~Between(i, k, starts)})
                 <= h[c].max_attempts
    BY <2>3 DEF WithinLimit, Starts, Since
  <2> QED
    BY <2>4 DEF DeliveriesBounded, h
<1> QED
  BY <1>1, <1>2, <1>3, PTL DEF Spec


-----------------------------------------------------------------------------
(***************************************************************************)
(* The order of leases.  A history replayed from its beginning tells more  *)
(* than the live log: it still knows the completed jobs that compactions   *)
(* left out, and nothing else.                                             *)
(***************************************************************************)
Tally(all, jobs) ==
  /\ DOMAIN jobs \subseteq DOMAIN all
  /\ \A id \in DOMAIN jobs : Unversioned(all[id]) = Unversioned(jobs[id])
  /\ \A id \in DOMAIN all : id \in DOMAIN jobs \/ all[id].state = "DONE"

\* The job of this record goes before every other that can be leased when it is written.
Foremost(jobs, rec) ==
  \A id \in DOMAIN jobs :
    jobs[id].state = "READY" /\ jobs[id].available_at <= rec.at => GoesBefore(jobs[rec.id], jobs[id])

Ordered(h) ==
  \A i \in 1..Len(h) : h[i].type = "LEASE" => Foremost(After(EmptyIndex, h, i).jobs, h[i])

Orderly(h, jobs) == Ordered(h) /\ Tally(Replay(EmptyIndex, h).jobs, jobs)

LEMMA ApplyTally ==
  ASSUME NEW all \in Indexes, NEW read \in Indexes, Tally(all.jobs, read.jobs),
         NEW rec \in Record, NamesJob(rec) => rec.id \in DOMAIN read.jobs
  PROVE  Tally(Apply(all, rec).jobs, Apply(read, rec).jobs)
<1> DEFINE a == Apply(all, rec)  r == Apply(read, rec)
<1>0. /\ DOMAIN read.jobs \subseteq DOMAIN all.jobs
      /\ \A id \in DOMAIN read.jobs : Unversioned(all.jobs[id]) = Unversioned(read.jobs[id])
      /\ \A id \in DOMAIN all.jobs : id \in DOMAIN read.jobs \/ all.jobs[id].state = "DONE"
  BY DEF Tally
<1>1. CASE rec.type = "ENQUEUE"
  <2> DEFINE job == FromDict(rec)
  <2>1. a.jobs = Put(all.jobs, rec.id, job) /\ r.jobs = Put(read.jobs, rec.id, job)
    BY <1>1, ApplyJobs
  <2> HIDE DEF job, a, r
  <2> QED
    BY <1>0, <2>1 DEF Put, Tally, a, r
<1>2. CASE rec.type = "PURGE"
  <2>1. DOMAIN a.jobs = {} /\ DOMAIN r.jobs = {}
    BY <1>2, ApplyJobs
  <2> QED
    BY <2>1 DEF Tally
<1>3. CASE NamesJob(rec)
  <2> DEFINE b == Changed(all.jobs[rec.id], rec)  c == Changed(read.jobs[rec.id], rec)
  <2>1. rec.id \in DOMAIN read.jobs /\ rec.id \in DOMAIN all.jobs
    BY <1>0, <1>3
  <2>2. a.jobs = Put(all.jobs, rec.id, b) /\ r.jobs = Put(read.jobs, rec.id, c)
    BY <1>3, <2>1, ApplyJobs
  <2>3. Unversioned(b) = Unversioned(c)
    BY <1>0, <1>3, <2>1, ChangedAlike, JobsType
  <2> HIDE DEF a, b, c, r
  <2> QED
    BY <1>0, <2>1, <2>2, <2>3 DEF Put, Tally, a, r
<1> QED
  BY <1>1, <1>2, <1>3 DEF NamesJob

LEMMA ForemostTally ==
  ASSUME NEW all \in Indexes, NEW read \in Indexes, Tally(all.jobs, read.jobs),
         NEW rec, rec.id \in DOMAIN read.jobs, Foremost(read.jobs, rec)
  PROVE  Foremost(all.jobs, rec)
<1>1. \A id \in DOMAIN read.jobs : id \in DOMAIN all.jobs /\ SameJob(all.jobs[id], read.jobs[id])
  <2> TAKE id \in DOMAIN read.jobs
  <2>1. id \in DOMAIN all.jobs /\ Unversioned(all.jobs[id]) = Unversioned(read.jobs[id])
    BY DEF Tally
  <2>2. all.jobs[id] \in JobFields /\ read.jobs[id] \in JobFields
    BY <2>1, JobsType DEF Job, JobFields
  <2> QED
    BY <2>1, <2>2, UnversionedIs
<1> SUFFICES ASSUME NEW id \in DOMAIN all.jobs, all.jobs[id].state = "READY",
                    all.jobs[id].available_at <= rec.at
             PROVE  GoesBefore(all.jobs[rec.id], all.jobs[id])
  BY DEF Foremost
<1>2. id \in DOMAIN read.jobs
  BY DEF Tally
<1>3. GoesBefore(read.jobs[rec.id], read.jobs[id])
  BY <1>1, <1>2 DEF Foremost, SameJob
<1>4. SameJob(all.jobs[id], read.jobs[id]) /\ SameJob(all.jobs[rec.id], read.jobs[rec.id])
  BY <1>1, <1>2
<1> QED
  BY <1>3, <1>4 DEF GoesBefore, SameJob

\* A record that finds its job, and comes first if it is a lease, keeps the order.
LEMMA OrderlyMore ==
  ASSUME NEW read \in Indexes, NEW rec \in Record, read.orphans = 0,
         NEW out, out = Apply(read, rec), out.orphans = 0,
         rec.type = "LEASE" => Foremost(out.jobs, rec),
         NEW h \in Seq(Record), NEW g \in Seq(Record), Extends(g, h, rec), Orderly(h, read.jobs)
  PROVE  Orderly(g, out.jobs)
<1> DEFINE all == Replay(EmptyIndex, h)  n == Len(h)
<1>1. /\ n \in Nat /\ n + 1 = Len(g) /\ g[n + 1] = rec
      /\ \A i \in 1..n : g[i] = h[i]
  <2>1. DOMAIN g = 1..Len(g) /\ Len(g) \in Nat
    BY LenProperties
  <2> QED
    BY <2>1 DEF Extends
<1>2. ASSUME NEW i \in 0..n PROVE SubSeq(g, 1, i) = SubSeq(h, 1, i)
  <2>1. SubSeq(g, 0 + 1, i) = SubSeq(h, 0 + 1, i)
    <3>1. 0 \in 0..i /\ i \in 0..Len(h) /\ i <= Len(g) /\ \A k \in 1..i : g[k] = h[k]
      BY <1>1
    <3> QED
      BY <3>1, MiddleSame
  <2> QED
    BY <2>1
<1>3. EmptyIndex \in Indexes /\ all \in Indexes
  BY EmptyFacts, ReplayType
<1>4. Replay(EmptyIndex, g) = Apply(all, rec)
  <2>1. Replay(EmptyIndex, SubSeq(g, 1, n + 1)) = Apply(Replay(EmptyIndex, SubSeq(g, 1, n)), g[n + 1])
    BY <1>1, ReplayNext
  <2>2. SubSeq(g, 1, n + 1) = g
    BY <1>1, PrefixFacts
  <2>3. SubSeq(g, 1, n) = h
    <3>1. SubSeq(g, 1, n) = SubSeq(h, 1, n)
      BY <1>1, <1>2
    <3> QED
      BY <3>1, PrefixFacts
  <2> QED
    BY <1>1, <2>1, <2>2, <2>3
<1>5. NamesJob(rec) => rec.id \in DOMAIN read.jobs
  <2> SUFFICES ASSUME NamesJob(rec), rec.id \notin DOMAIN read.jobs PROVE FALSE
    OBVIOUS
  <2>1. out.orphans = read.orphans + 1
    BY ApplyJobs
  <2> QED
    BY <2>1
<1>6. Tally(Replay(EmptyIndex, g).jobs, out.jobs)
  BY <1>3, <1>4, <1>5, ApplyTally DEF Orderly
<1>7. Ordered(g)
  <2> SUFFICES ASSUME NEW i \in 1..Len(g), g[i].type = "LEASE"
               PROVE  Foremost(After(EmptyIndex, g, i).jobs, g[i])
    BY DEF Ordered
  <2>1. CASE i \in 1..n
    <3>1. SubSeq(g, 1, i) = SubSeq(h, 1, i) /\ g[i] = h[i]
      BY <1>1, <1>2, <2>1
    <3>2. After(EmptyIndex, g, i) = After(EmptyIndex, h, i)
      BY <3>1 DEF After
    <3> QED
      BY <2>1, <3>1, <3>2 DEF Ordered, Orderly
  <2>2. CASE i = n + 1
    <3>1. After(EmptyIndex, g, i) = Replay(EmptyIndex, g) /\ g[i] = rec
      BY <1>1, <1>3, <2>2, AfterFacts
    <3>2. Replay(EmptyIndex, g) \in Indexes /\ out \in Indexes
      BY <1>3, <1>4, ApplyType
    <3>3. rec.id \in DOMAIN out.jobs /\ rec.type = "LEASE"
      <4>1. rec.type = "LEASE" /\ NamesJob(rec)
        BY <3>1 DEF NamesJob
      <4>2. out.jobs = Put(read.jobs, rec.id, Changed(read.jobs[rec.id], rec))
        BY <1>5, <4>1, ApplyJobs
      <4> QED
        BY <4>1, <4>2 DEF Put
    <3> HIDE DEF all
    <3>4. Foremost(Replay(EmptyIndex, g).jobs, rec)
      BY <1>6, <3>2, <3>3, ForemostTally
    <3> QED
      BY <3>1, <3>4
  <2> QED
    BY <1>1, <2>1, <2>2
<1> QED
  BY <1>6, <1>7 DEF Orderly


-----------------------------------------------------------------------------
(***************************************************************************)
(* What lease takes, it takes in order.                                    *)
(***************************************************************************)
LEMMA PromoteShows ==
  ASSUME NEW idx \in Indexes, Tidy(idx), NEW time, NEW id \in WaitingIds(idx),
         id \notin Unseen(idx), idx.jobs[id].available_at <= time
  PROVE  LET mid == Promote(idx, time) IN
         /\ ReadyEntry(id, idx.jobs[id]) \in mid.ready
         /\ Current(mid, ReadyEntry(id, idx.jobs[id]), "READY")
<1> DEFINE mid == Promote(idx, time)  job == idx.jobs[id]  e == ReadyEntry(id, job)
           d == ScheduledEntry(id, job)
<1>1. /\ mid \in Indexes /\ mid.jobs = idx.jobs /\ Tidy(mid)
      /\ \A f \in idx.ready : f \in mid.ready
      /\ \A f \in idx.scheduled : f.at <= time /\ Current(idx, f, "READY") =>
           \E g \in mid.ready : g.id = f.id /\ g.version = f.version
  BY PromoteFacts, PromoteTidy DEF SameJobs
<1>2. id \in DOMAIN idx.jobs /\ job.state = "READY"
  BY DEF WaitingIds
<1> HIDE DEF mid
<1>3. Current(mid, e, "READY")
  BY <1>1, <1>2, EntryFields DEF Current
<1>4. e \in idx.ready \/ d \in idx.scheduled
  BY DEF Unseen, OnReady, OnScheduled
<1>5. ASSUME d \in idx.scheduled PROVE e \in mid.ready
  <2>1. d.at <= time /\ Current(idx, d, "READY") /\ d.id = id /\ d.version = job.version
    BY <1>2, EntryFields DEF Current
  <2>2. PICK g \in mid.ready : g.id = id /\ g.version = job.version
    BY <1>1, <1>5, <2>1
  <2>3. Current(mid, g, "READY")
    BY <1>1, <1>2, <2>2 DEF Current
  <2>4. g = ReadyEntry(g.id, mid.jobs[g.id])
    BY <1>1, <2>2, <2>3 DEF Tidy
  <2> QED
    BY <1>1, <2>2, <2>4
<1> QED
  BY <1>1, <1>3, <1>4, <1>5 DEF mid

\* next_ready pops the best of the jobs it can see and that are due.
LEMMA NextReadyBest ==
  ASSUME NEW idx \in Indexes, Tidy(idx), DistinctSeqs(idx.jobs), NEW time,
         NEW id, NextReady(idx, time).ids = <<id>>,
         NEW other \in WaitingIds(idx), other \notin Unseen(idx), other # id,
         idx.jobs[other].available_at <= time
  PROVE  GoesBefore(idx.jobs[id], idx.jobs[other])
<1> DEFINE next     == NextReady(idx, time)
           mid      == Promote(idx, time)
           valid    == {e \in mid.ready : Current(mid, e, "READY")}
           eligible == {e \in valid : mid.jobs[e.id].available_at <= time}
           best     == CHOOSE e \in eligible : \A f \in eligible : ~Precedes(f, e)
           left     == ReadyEntry(other, idx.jobs[other])
<1>1. mid \in Indexes /\ mid.jobs = idx.jobs /\ Tidy(mid)
  BY PromoteFacts, PromoteTidy DEF SameJobs
<1>2. left \in eligible
  BY <1>1, PromoteShows, EntryFields
<1>3. next.ids = <<best.id>>
  <2> HIDE DEF left
  <2>1. eligible # {}
    BY <1>2
  <2> QED
    BY <2>1 DEF NextReady
<1>4. best.id = id
  <2> HIDE DEF best
  <2> QED
    BY <1>3
<1>5. best \in eligible /\ \A f \in eligible : ~Precedes(f, best)
  <2>1. eligible \in SUBSET mid.ready /\ mid.ready \in Finite(ReadyEntries)
    BY <1>1 DEF Indexes
  <2> HIDE DEF eligible, mid
  <2>2. eligible \in Finite(ReadyEntries) /\ eligible # {}
    BY <1>2, <2>1, FinitePushes
  <2> QED
    BY <2>2, BestExists
<1> HIDE DEF best
<1>6. best = ReadyEntry(id, idx.jobs[id]) /\ id \in WaitingIds(idx)
  <2>1. best \in mid.ready /\ Current(mid, best, "READY")
    BY <1>5
  <2> HIDE DEF mid
  <2> QED
    BY <1>1, <1>4, <2>1, CurrentIs DEF OnReady, WaitingIds
<1> DEFINE a == idx.jobs[id]  b == idx.jobs[other]
<1>7. /\ a.priority \in Int /\ b.priority \in Int /\ a.available_at \in Nat /\ b.available_at \in Nat
      /\ a.seq \in Nat /\ b.seq \in Nat /\ a.seq # b.seq
  BY <1>6, JobsType DEF WaitingIds, Job, DistinctSeqs
<1>8. ~Precedes(left, best)
  BY <1>2, <1>5
<1> HIDE DEF eligible, left, a, b
<1>9. /\ left.priority = b.priority /\ left.at = b.available_at /\ left.seq = b.seq
      /\ best.priority = a.priority /\ best.at = a.available_at /\ best.seq = a.seq
  BY <1>6 DEF left, a, b, ReadyEntry
<1>10. GoesBefore(a, b)
  BY <1>7, <1>8, <1>9 DEF Precedes, GoesBefore
<1> QED
  BY <1>10 DEF a, b

\* What lease has in hand goes before all that it has not.
InTurn(idx, ids) ==
  \A i \in 1..Len(ids) : \A id \in WaitingIds(idx) :
    idx.jobs[id].available_at <= now /\ (\A k \in 1..i : ids[k] # id) =>
      GoesBefore(idx.jobs[ids[i]], idx.jobs[id])

LEMMA TakeOneInTurn ==
  ASSUME NEW idx \in Indexes, Unseen(idx) = {}, DistinctSeqs(idx.jobs),
         NEW so, InHand(idx, so), InTurn(idx, so.ids)
  PROVE  InTurn(idx, TakeOne(so).ids)
<1> DEFINE next == NextReady(so.idx, now)  out == TakeOne(so)  S == WaitingIds(idx)
<1>1. out = [ids |-> so.ids \o next.ids, idx |-> next.idx]
  <2>1. {[ids |-> so.ids \o n.ids, idx |-> n.idx] : n \in {next}} =
          {[ids |-> so.ids \o next.ids, idx |-> next.idx]}
    OBVIOUS
  <2> QED
    BY <2>1, TheSingleton DEF TakeOne
<1>2. /\ so.idx \in Indexes /\ so.ids \in Seq(S) /\ Tidy(so.idx) /\ so.idx.jobs = idx.jobs
      /\ Unseen(so.idx) = {so.ids[i] : i \in 1..Len(so.ids)}
  BY DEF InHand, Takings, SameJobs
<1>3. next.ids = <<>> \/ \E id : next.ids = <<id>>
  BY <1>2, NextReadyFacts
<1> HIDE DEF out
<1>4. out.ids = so.ids \o next.ids
  BY <1>1
<1>5. CASE next.ids = <<>>
  <2> HIDE DEF next
  <2>1. out.ids = so.ids
    BY <1>2, <1>4, <1>5
  <2> QED
    BY <2>1 DEF out
<1>6. CASE \E id : next.ids = <<id>>
  <2>1. PICK id : next.ids = <<id>>
    BY <1>6
  <2>2. ASSUME NEW other \in WaitingIds(idx), other # id, idx.jobs[other].available_at <= now,
               \A k \in 1..Len(so.ids) : so.ids[k] # other
        PROVE  GoesBefore(idx.jobs[id], idx.jobs[other])
    <3>1. other \in WaitingIds(so.idx) /\ other \notin Unseen(so.idx)
      BY <1>2, <2>2 DEF WaitingIds
    <3> HIDE DEF S
    <3>2. GoesBefore(so.idx.jobs[id], so.idx.jobs[other])
      BY <1>2, <2>1, <2>2, <3>1, NextReadyBest
    <3> QED
      BY <1>2, <3>2
  <2> HIDE DEF next, S
  <2> DEFINE ids == so.ids  n == Len(ids)  all == out.ids
  <2>3. /\ n \in Nat /\ Len(all) = n + 1 /\ all[n + 1] = id
        /\ \A i \in 1..n : all[i] = ids[i]
    BY <1>2, <1>4, <2>1
  <2> SUFFICES ASSUME NEW i \in 1..Len(all), NEW other \in WaitingIds(idx),
                      idx.jobs[other].available_at <= now, \A k \in 1..i : all[k] # other
               PROVE  GoesBefore(idx.jobs[all[i]], idx.jobs[other])
    BY DEF InTurn, out
  <2>4. CASE i \in 1..n
    <3>1. \A k \in 1..i : k \in 1..n /\ ids[k] # other
      BY <2>3, <2>4
    <3>2. all[i] = ids[i]
      BY <2>3, <2>4
    <3> QED
      BY <2>4, <3>1, <3>2 DEF InTurn
  <2>5. CASE i = n + 1
    <3>1. \A k \in 1..n : k \in 1..i /\ ids[k] # other
      <4>1. \A k \in 1..n : k \in 1..i
        BY <2>3, <2>5
      <4> QED
        BY <2>3, <4>1
    <3>2. other # id /\ all[i] = id
      <4>1. i \in 1..i
        BY <2>3, <2>5
      <4> QED
        BY <2>3, <2>5, <4>1
    <3> QED
      BY <2>2, <3>1, <3>2
  <2> QED
    BY <2>3, <2>4, <2>5
<1> QED
  BY <1>3, <1>5, <1>6

LEMMA TakenInTurn ==
  ASSUME NEW idx \in Indexes, Tidy(idx), Unseen(idx) = {}, DistinctSeqs(idx.jobs), NEW count \in Nat
  PROVE  InTurn(idx, Taken(idx, count).ids)
<1>1. PICK f : IsTaking(f, idx, count) /\ Taken(idx, count) = f[count]
  BY TakenIs
<1> DEFINE T == {n \in Nat : InHand(idx, f[n]) /\ InTurn(idx, f[n].ids)}
<1>2. 0 \in T
  <2>1. f[0] = [ids |-> <<>>, idx |-> idx]
    BY <1>1 DEF IsTaking
  <2>2. <<>> \in Seq(WaitingIds(idx)) /\ Len(<<>>) = 0 /\ 1..0 = {}
    OBVIOUS
  <2>3. f[0].idx = idx /\ f[0].ids = <<>> /\ f[0] \in [ids : Seq(WaitingIds(idx)), idx : Indexes]
    BY <2>1, <2>2
  <2>4. InHand(idx, f[0])
    BY <2>2, <2>3 DEF InHand, Takings, SameJobs
  <2>5. InTurn(idx, f[0].ids)
    BY <2>2, <2>3 DEF InTurn
  <2> QED
    BY <2>4, <2>5
<1>3. ASSUME NEW n \in 0..(count - 1), n \in T PROVE n + 1 \in T
  <2>1. n + 1 \in 0..count /\ n + 1 # 0 /\ (n + 1) - 1 = n /\ n + 1 \in Nat
    OBVIOUS
  <2>2. f[n + 1] = TakeOne(f[(n + 1) - 1])
    BY <1>1, <2>1 DEF IsTaking
  <2>3. f[n + 1] = TakeOne(f[n])
    BY <2>1, <2>2
  <2>4. InHand(idx, TakeOne(f[n])) /\ InTurn(idx, TakeOne(f[n]).ids)
    BY <1>3, TakeOneTidy, TakeOneInTurn
  <2> QED
    BY <2>1, <2>3, <2>4
<1> HIDE DEF T
<1>4. 0..count \subseteq T
  BY <1>2, <1>3, UpToInduction
<1>5. count \in T
  BY <1>4
<1> QED
  BY <1>1, <1>5 DEF T


-----------------------------------------------------------------------------
(***************************************************************************)
(* A batch of leases, taken in order, leaves behind each of them only jobs *)
(* that come later.                                                        *)
(***************************************************************************)
InFront(read, recs) ==
  \A n \in 1..Len(recs) : recs[n].type = "LEASE" => Foremost(After(read, recs, n).jobs, recs[n])

\* The jobs as they were, but for the leases of the first n of these records.
LeasedUpTo(old, new, recs, n) ==
  /\ DOMAIN new = DOMAIN old
  /\ \A id \in DOMAIN old :
       /\ new[id].priority = old[id].priority /\ new[id].available_at = old[id].available_at
       /\ new[id].seq = old[id].seq
       /\ new[id].state = "READY" => /\ old[id].state = "READY"
                                     /\ \A k \in 1..n : recs[k].id # id

LEMMA LeasedMore ==
  ASSUME NEW old, NEW read \in Indexes, NEW recs, NEW n \in Nat,
         LeasedUpTo(old, read.jobs, recs, n), recs[n + 1] \in Record, recs[n + 1].type = "LEASE",
         recs[n + 1].id \in DOMAIN old
  PROVE  LeasedUpTo(old, Apply(read, recs[n + 1]).jobs, recs, n + 1)
<1> DEFINE rec == recs[n + 1]  job == read.jobs[rec.id]  held == Changed(job, rec)
           new == Apply(read, rec).jobs
<1>1. rec \in Record /\ rec.type = "LEASE" /\ NamesJob(rec) /\ rec.id \in DOMAIN read.jobs
  BY DEF NamesJob, LeasedUpTo
<1> HIDE DEF rec
<1>2. new = Put(read.jobs, rec.id, held)
  BY <1>1, ApplyJobs
<1>3. /\ held.priority = job.priority /\ held.available_at = job.available_at
      /\ held.seq = job.seq /\ held.state = "LEASED"
  BY <1>1, JobsType, ChangedFields DEF Has
<1> HIDE DEF new, held
<1>4. DOMAIN new = DOMAIN old
  BY <1>1, <1>2 DEF LeasedUpTo, Put
<1>5. ASSUME NEW id \in DOMAIN old
      PROVE  /\ new[id].priority = old[id].priority /\ new[id].available_at = old[id].available_at
             /\ new[id].seq = old[id].seq
             /\ new[id].state = "READY" => /\ old[id].state = "READY"
                                           /\ \A k \in 1..n + 1 : recs[k].id # id
  <2>1. CASE id = rec.id
    <3>1. new[id] = held
      BY <1>1, <1>2, <2>1 DEF Put
    <3> QED
      BY <1>3, <2>1, <3>1 DEF LeasedUpTo
  <2>2. CASE id # rec.id
    <3>1. new[id] = read.jobs[id]
      BY <1>2, <2>2 DEF Put, LeasedUpTo
    <3>2. \A k \in 1..n + 1 : k \in 1..n \/ recs[k] = rec
      BY DEF rec
    <3> QED
      BY <2>2, <3>1, <3>2 DEF LeasedUpTo
  <2> QED
    BY <2>1, <2>2
<1>6. LeasedUpTo(old, new, recs, n + 1)
  BY <1>4, <1>5 DEF LeasedUpTo
<1> QED
  BY <1>6 DEF new, rec

LEMMA BatchLeased ==
  ASSUME NEW read \in Indexes, NEW recs \in Seq(Record),
         \A k \in 1..Len(recs) : recs[k].type = "LEASE" /\ recs[k].id \in DOMAIN read.jobs
  PROVE  \A n \in 0..Len(recs) : LeasedUpTo(read.jobs, After(read, recs, n).jobs, recs, n)
<1> DEFINE T == {n \in 0..Len(recs) : LeasedUpTo(read.jobs, After(read, recs, n).jobs, recs, n)}
<1>0. Len(recs) \in Nat
  BY AfterFacts
<1>1. 0 \in T
  <2>1. After(read, recs, 0) = read
    BY AfterFacts
  <2>2. LeasedUpTo(read.jobs, read.jobs, recs, 0)
    BY DEF LeasedUpTo
  <2> QED
    BY <1>0, <2>1, <2>2
<1>2. ASSUME NEW n \in 0..Len(recs) - 1, n \in T PROVE n + 1 \in T
  <2> DEFINE idx == After(read, recs, n)
  <2>1. /\ idx \in Indexes /\ recs[n + 1] \in Record /\ After(read, recs, n + 1) = Apply(idx, recs[n + 1])
        /\ n + 1 \in 1..Len(recs)
    BY AfterFacts
  <2>2. LeasedUpTo(read.jobs, idx.jobs, recs, n) /\ n \in Nat /\ n + 1 \in 0..Len(recs)
    BY <1>0, <1>2
  <2> HIDE DEF idx
  <2>3. LeasedUpTo(read.jobs, Apply(idx, recs[n + 1]).jobs, recs, n + 1)
    BY <2>1, <2>2, LeasedMore
  <2> QED
    BY <2>1, <2>2, <2>3
<1> HIDE DEF T
<1>3. 0..Len(recs) \subseteq T
  BY <1>0, <1>1, <1>2, UpToInduction
<1> QED
  BY <1>3 DEF T

LEMMA SessionSame ==
  ASSUME NEW s, Session(s)
  PROVE  LET read == Whole(s.log) IN
         /\ DOMAIN read.jobs = DOMAIN s.idx.jobs /\ read \in Indexes
         /\ \A id \in DOMAIN s.idx.jobs : SameJob(s.idx.jobs[id], read.jobs[id])
<1> DEFINE read == Whole(s.log)
<1>1. read \in Indexes /\ s.idx \in Indexes /\ Mirrors(s.idx, read)
  BY WholeFacts DEF Session
<1> HIDE DEF read
<1>2. DOMAIN read.jobs = DOMAIN s.idx.jobs
  BY <1>1 DEF Mirrors
<1>3. ASSUME NEW id \in DOMAIN s.idx.jobs PROVE SameJob(s.idx.jobs[id], read.jobs[id])
  <2>1. Unversioned(s.idx.jobs[id]) = Unversioned(read.jobs[id])
    BY <1>1, <1>2 DEF Mirrors
  <2>2. s.idx.jobs[id] \in JobFields /\ read.jobs[id] \in JobFields
    BY <1>1, <1>2, JobsType DEF Job, JobFields
  <2> QED
    BY <2>1, <2>2, UnversionedIs
<1> QED
  BY <1>1, <1>2, <1>3 DEF read

LEMMA HandsInFront ==
  ASSUME NEW s, Session(s), Tidy(s.idx), Unseen(s.idx) = {},
         NEW t, NEW recs \in Seq(Record), Hands(s, t, recs)
  PROVE  InFront(Whole(s.log), recs)
<1>1. PICK count \in Nat, timeout \in Nat : recs = LeaseRecords(s, Taken(s.idx, count).ids, timeout)
  BY InputAssumption DEF Hands
<1> DEFINE so == Taken(s.idx, count)  ids == so.ids  idx == s.idx  read == Whole(s.log)
<1>2. idx \in Indexes /\ DistinctSeqs(idx.jobs)
  BY SessionSeqs DEF Session
<1>3. /\ read \in Indexes /\ DOMAIN read.jobs = DOMAIN idx.jobs
      /\ \A id \in DOMAIN idx.jobs : SameJob(idx.jobs[id], read.jobs[id])
  BY SessionSame
<1>4. InHand(idx, so) /\ InTurn(idx, ids)
  BY <1>2, TakenTidy, TakenInTurn
<1>5. ids \in Seq(WaitingIds(idx))
  BY <1>4 DEF InHand, Takings
<1>6. recs = [i \in DOMAIN ids |->
                [type |-> "LEASE", id |-> ids[i], at |-> now, deadline |-> now + timeout,
                 attempts |-> idx.jobs[ids[i]].attempts + 1, token |-> issued + i]]
  BY <1>1 DEF LeaseRecords
<1> HIDE DEF so, ids, idx, read
<1>7. DOMAIN recs = DOMAIN ids /\ DOMAIN recs = 1..Len(recs) /\ DOMAIN ids = 1..Len(ids)
      /\ Len(recs) \in Nat /\ Len(ids) \in Nat
  BY <1>5, <1>6, LenProperties
<1>8. \A i \in 1..Len(recs) : /\ i \in 1..Len(ids) /\ recs[i].type = "LEASE" /\ recs[i].id = ids[i]
                              /\ recs[i].at = now
  BY <1>6, <1>7
<1>9. \A i \in 1..Len(ids) : ids[i] \in DOMAIN idx.jobs
  BY <1>5 DEF WaitingIds
<1>10. \A n \in 0..Len(recs) : LeasedUpTo(read.jobs, After(read, recs, n).jobs, recs, n)
  BY <1>3, <1>8, <1>9, BatchLeased
<1>11. ASSUME NEW n \in 1..Len(recs) PROVE Foremost(After(read, recs, n).jobs, recs[n])
  <2> DEFINE jobs == After(read, recs, n).jobs
  <2>1. LeasedUpTo(read.jobs, jobs, recs, n)
    BY <1>7, <1>10
  <2> HIDE DEF jobs
  <2> SUFFICES ASSUME NEW id \in DOMAIN jobs, jobs[id].state = "READY",
                      jobs[id].available_at <= recs[n].at
               PROVE  GoesBefore(jobs[recs[n].id], jobs[id])
    BY DEF Foremost, jobs
  <2>2. /\ id \in DOMAIN idx.jobs /\ read.jobs[id].state = "READY"
        /\ read.jobs[id].available_at <= now /\ \A k \in 1..n : recs[k].id # id
    BY <1>3, <1>8, <2>1 DEF LeasedUpTo
  <2>3. id \in WaitingIds(idx) /\ idx.jobs[id].available_at <= now
    BY <1>3, <2>2 DEF SameJob, WaitingIds
  <2>4. \A k \in 1..n : ids[k] # id
    BY <1>7, <1>8, <2>2
  <2>5. GoesBefore(idx.jobs[ids[n]], idx.jobs[id])
    BY <1>4, <1>8, <2>3, <2>4 DEF InTurn
  <2>6. ids[n] = recs[n].id /\ ids[n] \in DOMAIN idx.jobs
    BY <1>8, <1>9
  <2> DEFINE x == ids[n]
  <2>7. /\ SameJob(idx.jobs[x], read.jobs[x]) /\ SameJob(idx.jobs[id], read.jobs[id])
        /\ x \in DOMAIN read.jobs /\ id \in DOMAIN read.jobs
    BY <1>3, <2>2, <2>6
  <2>8. /\ jobs[x].priority = read.jobs[x].priority /\ jobs[x].seq = read.jobs[x].seq
        /\ jobs[x].available_at = read.jobs[x].available_at
        /\ jobs[id].priority = read.jobs[id].priority /\ jobs[id].seq = read.jobs[id].seq
        /\ jobs[id].available_at = read.jobs[id].available_at
    BY <2>1, <2>7 DEF LeasedUpTo
  <2> HIDE DEF x
  <2>9. GoesBefore(jobs[x], jobs[id])
    BY <2>5, <2>7, <2>8 DEF GoesBefore, SameJob, x
  <2> QED
    BY <2>6, <2>9 DEF x
<1>12. InFront(read, recs)
  BY <1>11 DEF InFront
<1> QED
  BY <1>12 DEF read


-----------------------------------------------------------------------------
(***************************************************************************)
(* The order, wherever a log may be cut.                                   *)
(***************************************************************************)
BestKept == \A n \in past.kept..Len(log.recs) : Orderly(HistoryTo(n), Reading(n).jobs)

BestIn(l) == \A n \in past.kept..Len(l.recs) : Orderly(HistoryOf(l, n), ReadingOf(l.recs, n).jobs)

LEMMA BestNext ==
  ASSUME NEW l, BestIn(l), log' = l, past' = past
  PROVE  BestKept'
<1>1. ASSUME NEW n \in past.kept..Len(l.recs)
      PROVE  Orderly(HistoryTo(n)', (Reading(n)').jobs)
  <2>1. HistoryTo(n)' = HistoryOf(l, n) /\ Reading(n)' = ReadingOf(l.recs, n)
    BY DEF HistoryTo, HistoryOf, Reading, ReadingOf
  <2> QED
    BY <2>1 DEF BestIn
<1> QED
  BY <1>1 DEF BestKept

LEMMA RepairedBest ==
  ASSUME BestKept, NEW l, l.recs = log.recs
  PROVE  BestIn(l)
<1> SUFFICES ASSUME NEW n \in past.kept..Len(l.recs)
             PROVE  Orderly(HistoryOf(l, n), ReadingOf(l.recs, n).jobs)
  BY DEF BestIn
<1>1. HistoryOf(l, n) = HistoryTo(n) /\ ReadingOf(l.recs, n) = Reading(n)
  BY DEF HistoryTo, HistoryOf, Reading, ReadingOf
<1> QED
  BY <1>1 DEF BestKept

LEMMA BatchOrderly ==
  ASSUME NEW read \in Indexes, NEW recs \in Seq(Record), InFront(read, recs),
         \A n \in 0..Len(recs) : After(read, recs, n).orphans = 0,
         NEW h \in Seq(Record), Orderly(h, read.jobs)
  PROVE  \A n \in 0..Len(recs) : Orderly(h \o SubSeq(recs, 1, n), After(read, recs, n).jobs)
<1> DEFINE T == {n \in 0..Len(recs) : Orderly(h \o SubSeq(recs, 1, n), After(read, recs, n).jobs)}
<1>0. Len(recs) \in Nat
  BY AfterFacts
<1>1. 0 \in T
  <2>1. SubSeq(recs, 1, 0) = <<>> /\ h \o <<>> = h /\ After(read, recs, 0) = read
    BY PrefixFacts, AfterFacts, ConcatEmptySeq
  <2>2. Orderly(h \o SubSeq(recs, 1, 0), After(read, recs, 0).jobs)
    BY <2>1
  <2> QED
    BY <1>0, <2>2
<1>2. ASSUME NEW n \in 0..Len(recs) - 1, n \in T PROVE n + 1 \in T
  <2> DEFINE f == h \o SubSeq(recs, 1, n)  g == h \o SubSeq(recs, 1, n + 1)
             idx == After(read, recs, n)  rec == recs[n + 1]  out == After(read, recs, n + 1)
  <2>1. Extends(g, f, rec)
    BY ConcatExtends
  <2>2. /\ idx \in Indexes /\ rec \in Record /\ out = Apply(idx, rec)
        /\ n \in 0..Len(recs) /\ n + 1 \in 0..Len(recs) /\ n + 1 \in 1..Len(recs)
    BY <1>0, AfterFacts
  <2>3. idx.orphans = 0 /\ out.orphans = 0
    BY <2>2
  <2>4. Orderly(f, idx.jobs) /\ (rec.type = "LEASE" => Foremost(out.jobs, rec))
    BY <1>2, <2>2 DEF InFront
  <2>5. f \in Seq(Record)
    BY ConcatExtends
  <2>6. g \in Seq(Record)
    <3> DEFINE part == SubSeq(recs, 1, n + 1)
    <3>1. part \in Seq(Record)
      BY <2>2, PrefixFacts
    <3> HIDE DEF part
    <3> QED
      BY <3>1, ConcatProperties DEF part
  <2> HIDE DEF f, g, idx, rec, out
  <2>7. Orderly(g, out.jobs)
    BY <2>1, <2>2, <2>3, <2>4, <2>5, <2>6, OrderlyMore
  <2> QED
    BY <2>2, <2>7 DEF g, out
<1> HIDE DEF T
<1>3. 0..Len(recs) \subseteq T
  BY <1>0, <1>1, <1>2, UpToInduction
<1> QED
  BY <1>3 DEF T

\* A log that stays sound as these records follow it.
Receives(l, recs) ==
  /\ recs \in Seq(Record) /\ InFront(Whole(l), recs)
  /\ \A n \in 0..Len(recs) : After(Whole(l), recs, n).orphans = 0

LEMMA AppendBest ==
  ASSUME IInv, NEW l, Follows(l), BestIn(l), NEW recs, Receives(l, recs),
         NEW m, m.recs = l.recs \o recs
  PROVE  BestIn(m)
<1> DEFINE N == Len(l.recs)  h == HistoryOf(l, N)  read == Whole(l)
<1>0. recs \in Seq(Record) /\ Len(recs) \in Nat
  BY LenProperties DEF Receives
<1>1. N \in Nat /\ past.kept \in 0..N /\ h \in Seq(Record)
  BY WholeCut
<1>2. read \in Indexes /\ read = ReadingOf(l.recs, N)
  BY WholeFacts
<1>3. /\ Len(m.recs) = N + Len(recs)
      /\ \A n \in past.kept..N : /\ HistoryOf(m, n) = HistoryOf(l, n)
                                 /\ ReadingOf(m.recs, n) = ReadingOf(l.recs, n)
      /\ \A j \in 0..Len(recs) : /\ HistoryOf(m, N + j) = h \o SubSeq(recs, 1, j)
                                 /\ ReadingOf(m.recs, N + j) = After(read, recs, j)
  BY <1>0, GrownLog, ZenonT(40)
<1>4. Orderly(h, read.jobs)
  <2>1. N \in past.kept..N
    BY <1>1
  <2> QED
    BY <1>2, <2>1 DEF BestIn
<1> SUFFICES ASSUME NEW n \in past.kept..Len(m.recs)
             PROVE  Orderly(HistoryOf(m, n), ReadingOf(m.recs, n).jobs)
  BY DEF BestIn
<1>5. CASE n <= N
  <2>1. n \in past.kept..N
    BY <1>1, <1>3, <1>5
  <2>2. Orderly(HistoryOf(l, n), ReadingOf(l.recs, n).jobs)
    BY <2>1 DEF BestIn
  <2> QED
    BY <1>3, <2>1, <2>2
<1>6. CASE ~(n <= N)
  <2> DEFINE j == n - N
  <2>1. j \in 0..Len(recs) /\ n = N + j
    BY <1>1, <1>3, <1>6
  <2> HIDE DEF h, read, j
  <2>2. InFront(read, recs) /\ \A i \in 0..Len(recs) : After(read, recs, i).orphans = 0
    BY DEF Receives, read
  <2>3. Orderly(h \o SubSeq(recs, 1, j), After(read, recs, j).jobs)
    BY <1>0, <1>1, <1>2, <1>4, <2>1, <2>2, BatchOrderly
  <2>4. HistoryOf(m, N + j) = h \o SubSeq(recs, 1, j) /\ ReadingOf(m.recs, N + j) = After(read, recs, j)
    BY <1>3, <2>1
  <2> QED
    BY <2>1, <2>3, <2>4
<1> QED
  BY <1>5, <1>6

\* A sound log met no orphans on the way, wherever its last write was cut.
LEMMA SoundReceives ==
  ASSUME IInv, NEW l, Follows(l), NEW recs \in Seq(Record), InFront(Whole(l), recs),
         NEW k \in 0..Len(recs), NEW m, m.recs = l.recs \o SubSeq(recs, 1, k), SoundUpTo(m.recs)
  PROVE  Receives(l, SubSeq(recs, 1, k))
<1> DEFINE part == SubSeq(recs, 1, k)  read == Whole(l)  N == Len(l.recs)
<1>1. /\ part \in Seq(Record) /\ Len(part) = k /\ k \in Nat /\ Len(recs) \in Nat
      /\ \A i \in 1..k : part[i] = recs[i]
  BY PrefixFacts
<1>2. ASSUME NEW n \in 0..k PROVE After(read, part, n) = After(read, recs, n)
  BY PrefixOfPrefix DEF After
<1> HIDE DEF part, read
<1>3. InFront(read, part)
  <2> SUFFICES ASSUME NEW n \in 1..k, part[n].type = "LEASE"
               PROVE  Foremost(After(read, part, n).jobs, part[n])
    BY <1>1 DEF InFront
  <2>1. n \in 0..k /\ n \in 1..Len(recs) /\ part[n] = recs[n]
    BY <1>1
  <2> QED
    BY <1>2, <2>1 DEF InFront, read
<1>4. ASSUME NEW n \in 0..k PROVE After(read, part, n).orphans = 0
  <2>1. /\ Len(m.recs) = N + k /\ N \in Nat
        /\ ReadingOf(m.recs, N + n) = After(read, part, n)
    <3>1. m.recs = l.recs \o part
      BY DEF part
    <3>2. part \in Seq(Record) /\ Len(part) = k
      BY <1>1
    <3> HIDE DEF part
    <3>3. Len(m.recs) = N + Len(part) /\ N \in Nat
      BY <3>1, <3>2, GrownLog, WholeCut
    <3>4. \A j \in 0..Len(part) : ReadingOf(m.recs, N + j) = After(Whole(l), part, j)
      BY <3>1, <3>2, GrownLog, ZenonT(40)
    <3>5. n \in 0..Len(part)
      BY <3>2
    <3> QED
      BY <3>2, <3>3, <3>4, <3>5 DEF read
  <2> DEFINE size == Len(m.recs)
  <2>2. size = N + k /\ N \in Nat /\ k \in Nat
    BY <1>1, <2>1
  <2> HIDE DEF N, size
  <2>3. N + n \in 0..size
    BY <2>2
  <2> QED
    BY <2>1, <2>3 DEF SoundUpTo, Sound, size
<1>5. Receives(l, part)
  BY <1>1, <1>3, <1>4 DEF Receives, read
<1> QED
  BY <1>5 DEF part

LEMMA NoLeaseInFront ==
  ASSUME NEW read, NEW recs, \A k \in 1..Len(recs) : recs[k].type # "LEASE"
  PROVE  InFront(read, recs)
  BY DEF InFront



-----------------------------------------------------------------------------
(***************************************************************************)
(* Writes, cut or whole, and compactions keep it.                          *)
(***************************************************************************)
LEMMA SoundLater == ASSUME IInv' PROVE SoundUpTo(log'.recs)
  BY DEF IInv, SoundLog, SoundUpTo, ReadingOf, Reading

LEMMA WrittenBest ==
  ASSUME IInv, NEW s, Session(s), BestIn(s.log), NEW recs \in Seq(Record),
         InFront(Whole(s.log), recs), NEW k \in 0..Len(recs),
         NEW m, m.recs = s.log.recs \o SubSeq(recs, 1, k), SoundUpTo(m.recs)
  PROVE  BestIn(m)
<1> DEFINE l == s.log  part == SubSeq(recs, 1, k)
<1>1. Follows(l) /\ BestIn(l) /\ m.recs = l.recs \o part
  BY DEF Session
<1>2. Receives(l, part)
  <2> HIDE DEF l
  <2> QED
    BY <1>1, SoundReceives DEF l
<1> HIDE DEF l, part
<1> QED
  BY <1>1, <1>2, AppendBest

\* A write that returns, and one whose error or crash cuts it short.
LEMMA CommitBest ==
  ASSUME IInv, IInv', NEW p, NEW s, Session(s), BestIn(s.log), NEW recs \in Seq(Record),
         InFront(Whole(s.log), recs), past' = past,
         Interrupted(p, s, recs) \/ log' = Committed(s, recs).log
  PROVE  BestKept'
<1>1. PICK k \in 0..Len(recs) : log'.recs = s.log.recs \o SubSeq(recs, 1, k)
  <2>1. Len(recs) \in 0..Len(recs) /\ SubSeq(recs, 1, Len(recs)) = recs
    BY PrefixFacts, LenProperties
  <2>2. Committed(s, recs).log.recs = s.log.recs \o recs
    BY WrittenLog
  <2>3. CASE log' = Committed(s, recs).log
    BY <2>1, <2>2, <2>3
  <2>4. CASE Interrupted(p, s, recs)
    BY <2>4, WrittenLog
  <2> QED
    BY <2>3, <2>4
<1>2. SoundUpTo(log'.recs)
  BY SoundLater
<1> DEFINE m == log'
<1>3. m.recs = s.log.recs \o SubSeq(recs, 1, k) /\ SoundUpTo(m.recs) /\ log' = m
  BY <1>1, <1>2
<1> HIDE DEF m
<1>4. BestIn(m)
  BY <1>3, WrittenBest
<1> QED
  BY <1>3, <1>4, BestNext

\* A compaction leaves out the completed jobs and changes no other.
LEMMA CompactedTally ==
  ASSUME IInv, NEW s, Session(s), s.idx \in Indexes, NEW live \in LiveJobs(s.idx),
         NEW all \in Indexes, Tally(all.jobs, Whole(s.log).jobs)
  PROVE  Tally(all.jobs, ReadingOf(Compacted(s.log, s.idx, live).recs, Len(live)).jobs)
<1> DEFINE idx == s.idx  old == Whole(s.log).jobs  kept == Retain(idx, live)
           read == ReadingOf(Compacted(s.log, idx, live).recs, Len(live))  new == read.jobs
<1>1. /\ \A id \in DOMAIN new : id \in DOMAIN old
      /\ \A id \in DOMAIN old : old[id].state # "DONE" => id \in DOMAIN new
  BY CompactedJobs
<1>2. Mirrors(kept, read)
  BY CompactedFacts
<1>3. live \in Seq(DOMAIN idx.jobs)
  BY LiveFacts
<1>4. kept.jobs = [id \in ToSet(live) |-> idx.jobs[id]]
  BY <1>3, RetainFacts
<1>5. Mirrors(idx, Whole(s.log)) /\ Whole(s.log) \in Indexes
  BY WholeFacts DEF Session
<1> HIDE DEF read, kept, idx
<1>6. \A id \in DOMAIN new : Unversioned(new[id]) = Unversioned(old[id])
  <2> SUFFICES ASSUME NEW id \in DOMAIN new PROVE Unversioned(new[id]) = Unversioned(old[id])
    OBVIOUS
  <2>1. Unversioned(kept.jobs[id]) = Unversioned(new[id]) /\ id \in DOMAIN kept.jobs
    BY <1>2 DEF Mirrors
  <2>2. kept.jobs[id] = idx.jobs[id]
    BY <1>4, <2>1
  <2>3. Unversioned(idx.jobs[id]) = Unversioned(old[id])
    BY <1>1, <1>5 DEF Mirrors
  <2> QED
    BY <2>1, <2>2, <2>3
<1>7. /\ DOMAIN old \subseteq DOMAIN all.jobs
      /\ \A id \in DOMAIN old : Unversioned(all.jobs[id]) = Unversioned(old[id])
      /\ \A id \in DOMAIN all.jobs : id \in DOMAIN old \/ all.jobs[id].state = "DONE"
  BY DEF Tally
<1>8. \A id \in DOMAIN old : old[id].state = all.jobs[id].state
  <2> SUFFICES ASSUME NEW id \in DOMAIN old PROVE old[id].state = all.jobs[id].state
    OBVIOUS
  <2>1. Unversioned(all.jobs[id]) = Unversioned(old[id]) /\ id \in DOMAIN all.jobs
    BY <1>7
  <2>2. all.jobs[id] \in JobFields /\ old[id] \in JobFields
    BY <1>5, <2>1, JobsType DEF Job, JobFields
  <2>3. SameJob(all.jobs[id], old[id])
    BY <2>1, <2>2, UnversionedIs
  <2> QED
    BY <2>3 DEF SameJob
<1> HIDE DEF new, old
<1>9. Tally(all.jobs, new)
  BY <1>1, <1>6, <1>7, <1>8 DEF Tally
<1> QED
  BY <1>9 DEF new, read, idx

LEMMA FlipBest ==
  ASSUME IInv, NEW s, Session(s), s.idx \in Indexes, BestIn(s.log),
         NEW live \in LiveJobs(s.idx), Flip(s, live)
  PROVE  BestKept'
<1> DEFINE l == Compacted(s.log, s.idx, live)  N == Len(s.log.recs)  n == Len(live)
           h == HistoryOf(s.log, N)  jobs == ReadingOf(l.recs, n).jobs  all == Replay(EmptyIndex, h)
<1>1. N \in Nat /\ past.kept \in 0..N /\ h \in Seq(Record)
  BY WholeCut DEF Session
<1>2. Whole(s.log) = ReadingOf(s.log.recs, N)
  BY WholeFacts DEF Session
<1>3. Orderly(h, Whole(s.log).jobs)
  <2>1. N \in past.kept..N
    BY <1>1
  <2> QED
    BY <1>2, <2>1 DEF BestIn
<1>4. all \in Indexes
  <2> HIDE DEF h
  <2> QED
    BY <1>1, EmptyFacts, ReplayType
<1>5. Orderly(h, jobs)
  <2>1. Tally(all.jobs, Whole(s.log).jobs)
    BY <1>3 DEF Orderly
  <2> HIDE DEF all
  <2>2. Tally(all.jobs, jobs)
    BY <1>4, <2>1, CompactedTally
  <2> QED
    BY <1>3, <2>2 DEF Orderly, all
<1>6. /\ n \in Nat /\ Len(l.recs) = n /\ log' = l /\ past'.kept = n
      /\ HistoryTo(n)' = h /\ Reading(n)' = ReadingOf(l.recs, n)
  BY FlippedLog
<1>7. Orderly(HistoryTo(n)', (Reading(n)').jobs)
  BY <1>5, <1>6
<1> HIDE DEF l, h, n, jobs, all
<1>8. \A k \in (past.kept..Len(log.recs))' : k = n
  BY <1>6
<1> QED
  BY <1>7, <1>8 DEF BestKept

LEMMA PowerLossBest ==
  ASSUME IInv, BestKept, PowerLoss
  PROVE  BestKept'
<1>1. past.kept \in Nat /\ past.kept <= log.synced /\ log.synced \in Nat /\ Len(log.recs) \in Nat
  BY Parts, LenProperties DEF Logs, Scalars
<1>2. /\ past' = past /\ Len(log'.recs) \in log.synced..Len(log.recs)
      /\ \A k \in past.kept..Len(log'.recs) : HistoryTo(k)' = HistoryTo(k) /\ Reading(k)' = Reading(k)
  BY LostLog
<1>3. \A k \in (past.kept..Len(log.recs))' :
        k \in past.kept..Len(log.recs) /\ k \in past.kept..Len(log'.recs)
  BY <1>1, <1>2
<1> QED
  BY <1>2, <1>3 DEF BestKept

LEMMA ProperInFront ==
  ASSUME NEW s, Session(s), Tidy(s.idx), Unseen(s.idx) = {}, NEW t, NEW recs, Proper(s, t, recs)
  PROVE  InFront(Whole(t.log), recs)
<1>1. recs \in Seq(Record) /\ t.log = s.log
  BY DEF Proper, Prepares
<1>2. CASE Hands(s, t, recs)
  BY <1>1, <1>2, HandsInFront
<1>3. CASE Creates(s.idx, recs)
  <2>1. \A k \in 1..Len(recs) : recs[k].type # "LEASE"
    BY <1>3 DEF Creates
  <2> QED
    BY <2>1, NoLeaseInFront
<1>4. CASE \A k \in 1..Len(recs) : Marks(s.idx, recs[k])
  <2>1. \A k \in 1..Len(recs) : recs[k].type # "LEASE"
    BY <1>4, MarkFacts
  <2> QED
    BY <2>1, NoLeaseInFront
<1> QED
  BY <1>2, <1>3, <1>4 DEF Proper

LEMMA OperatesBest ==
  ASSUME DistinctKeys, Gentle, IInv, IInv', HeapsInOrder, BestKept, NEW p \in Proc, Operates(p)
  PROVE  BestKept'
<1>1. proc[p].up
  BY DEF Operates
<1>2. PICK batch \in ReapBatches(CaughtUp(p).idx) : Ends(p, batch)
  BY DEF Operates
<1> DEFINE s == Begun(p, batch)  t == Popped(p)
<1>3. /\ Session(t) /\ batch \in Seq(Record) /\ BestIn(t.log)
      /\ InFront(Whole(t.log), batch)
  <2>1. t.log.recs = log.recs
    <3>1. t.log = CaughtUp(p).log
      BY <1>1, PoppedFacts
    <3> QED
      BY <3>1, RepairedFacts DEF CaughtUp
  <2>2. Session(t) /\ batch \in Seq(Record)
    BY <1>1, ReapFacts
  <2>3. InFront(Whole(t.log), batch)
    <3>1. \A k \in 1..Len(batch) : batch[k].type # "LEASE"
      BY <2>2, ReapTypes
    <3> QED
      BY <3>1, NoLeaseInFront
  <2>4. BestIn(t.log)
    <3> DEFINE l == t.log
    <3> HIDE DEF l
    <3>1. BestIn(l)
      BY <2>1, RepairedBest DEF l
    <3> QED
      BY <3>1 DEF l
  <2> QED
    BY <2>2, <2>3, <2>4
<1>4. Session(s) /\ s.idx \in Indexes /\ Tidy(s.idx) /\ Unseen(s.idx) = {}
  BY <1>1, BegunFacts, BegunInOrder DEF InOrder
<1>5. BestIn(s.log)
  <2> DEFINE l == s.log
  <2>1. /\ l.recs = t.log.recs \o SubSeq(batch, 1, Len(batch)) /\ Len(batch) \in 0..Len(batch)
    <3>1. l.recs = t.log.recs \o batch
      BY <1>3, WrittenLog DEF Begun
    <3>2. Len(batch) \in 0..Len(batch) /\ SubSeq(batch, 1, Len(batch)) = batch
      BY <1>3, PrefixFacts, LenProperties
    <3> HIDE DEF l, t
    <3> QED
      BY <3>1, <3>2
  <2>2. SoundUpTo(l.recs)
    BY <1>4 DEF Session, Follows
  <2> HIDE DEF l, t
  <2>3. BestIn(l)
    BY <1>3, <2>1, <2>2, WrittenBest
  <2> QED
    BY <2>3 DEF l
<1>6. \/ /\ past' = past
         /\ \/ Interrupted(p, t, batch)
            \/ log' = s.log
            \/ \E u, recs, replies : Proper(s, u, recs) /\ Commit(p, u, recs, replies)
      \/ \E live \in LiveJobs(s.idx) : Flip(s, live)
  BY <1>2 DEF Ends, Returns
<1> HIDE DEF s, t
<1>7. CASE past' = past /\ Interrupted(p, t, batch)
  BY <1>3, <1>7, CommitBest
<1>8. CASE past' = past /\ log' = s.log
  BY <1>5, <1>8, BestNext
<1>9. CASE past' = past /\ \E u, recs, replies : Proper(s, u, recs) /\ Commit(p, u, recs, replies)
  <2>1. PICK u, recs, replies : Proper(s, u, recs) /\ Commit(p, u, recs, replies)
    BY <1>9
  <2>2. recs \in Seq(Record) /\ Session(u) /\ BestIn(u.log)
    BY <1>5, <2>1 DEF Proper, Prepares
  <2>3. InFront(Whole(u.log), recs)
    BY <1>4, <2>1, ProperInFront
  <2>4. Interrupted(p, u, recs) \/ log' = Committed(u, recs).log
    BY <2>1 DEF Commit, Returns
  <2> QED
    BY <1>9, <2>2, <2>3, <2>4, CommitBest
<1>10. CASE \E live \in LiveJobs(s.idx) : Flip(s, live)
  BY <1>4, <1>5, <1>10, FlipBest
<1> QED
  BY <1>6, <1>7, <1>8, <1>9, <1>10

LEMMA InitBest == Init => BestKept
<1> SUFFICES ASSUME Init PROVE BestKept
  OBVIOUS
<1>1. log.recs = <<>> /\ past = [events |-> <<>>, kept |-> 0]
  BY DEF Init
<1> DEFINE none == <<>>
<1>2. none \in Seq(Record) /\ Len(none) = 0
  OBVIOUS
<1>3. log.recs = none /\ past.events = none /\ past.kept = 0
  BY <1>1
<1> HIDE DEF none
<1>4. SubSeq(none, 1, 0) = none /\ none \o none = none
  BY <1>2, PrefixFacts, ConcatEmptySeq DEF none
<1>5. Replay(EmptyIndex, none) = EmptyIndex
  BY ReplayNothing DEF none
<1>6. HistoryTo(0) = none /\ Reading(0) = EmptyIndex
  <2>1. HistoryTo(0) = none \o SubSeq(none, 1, 0)
    BY <1>3 DEF HistoryTo
  <2>2. Reading(0) = Replay(EmptyIndex, SubSeq(none, 1, 0))
    BY <1>3 DEF Reading
  <2> QED
    BY <1>4, <1>5, <2>1, <2>2
<1>7. Orderly(none, EmptyIndex.jobs)
  <2>1. DOMAIN EmptyIndex.jobs = {}
    BY EmptyFacts
  <2>2. Tally(EmptyIndex.jobs, EmptyIndex.jobs)
    BY <2>1 DEF Tally
  <2>3. Ordered(none)
    BY <1>2 DEF Ordered
  <2> QED
    BY <1>5, <2>2, <2>3 DEF Orderly
<1>8. \A n \in past.kept..Len(log.recs) : n = 0
  BY <1>2, <1>3
<1> QED
  BY <1>6, <1>7, <1>8 DEF BestKept

LEMMA StepBest ==
  ASSUME DistinctKeys, Gentle, IInv, IInv', HeapsInOrder, BestKept, [Next]_vars
  PROVE  BestKept'
<1>1. BestIn(log) /\ BestIn(Repaired(log))
  BY RepairedFacts, RepairedBest
<1>2. CASE \E p \in Proc : Operates(p)
  BY <1>2, OperatesBest
<1>3. CASE \E p \in Proc : Open(p)
  <2>1. log' = Repaired(log) /\ past' = past
    BY <1>3 DEF Open
  <2> QED
    BY <1>1, <2>1, BestNext
<1>4. CASE \E p \in Proc : Stop(p)
  <2>1. log' = log /\ past' = past
    BY <1>4 DEF Stop
  <2> QED
    BY <1>1, <2>1, BestNext
<1>5. CASE PowerLoss
  BY <1>5, PowerLossBest
<1>6. CASE UNCHANGED <<log, proc, past>>
  BY <1>1, <1>6, BestNext
<1> QED
  BY <1>2, <1>3, <1>4, <1>5, <1>6, StepIs

LEMMA BestIsFirst == ASSUME IInv, BestKept PROVE LeasesBestFirst
<1> DEFINE n == Len(log.recs)  h == History
<1>1. n \in past.kept..n
  <2>1. past.kept \in Nat /\ past.kept <= log.synced /\ log.synced <= n
        /\ log.synced \in Nat /\ n \in Nat
    BY FollowsItself, Parts, LenProperties DEF Logs, Scalars, Follows
  <2> HIDE DEF n
  <2> QED
    BY <2>1
<1>2. h = HistoryTo(n)
  BY DEF History, HistoryTo
<1>3. Ordered(h)
  BY <1>1, <1>2 DEF BestKept, Orderly
<1>4. DOMAIN h = 1..Len(h)
  <2>1. h \in Seq(Record)
    <3>1. h = HistoryOf(log, n)
      BY DEF History, HistoryOf
    <3> HIDE DEF h
    <3> QED
      BY <3>1, FollowsItself, WholeCut
  <2> HIDE DEF h
  <2> QED
    BY <2>1, LenProperties
<1> HIDE DEF h
<1>5. \A i \in {k \in DOMAIN h : h[k].type = "LEASE"} :
        LET jobs == Replay(EmptyIndex, SubSeq(h, 1, i)).jobs IN
        \A id \in DOMAIN jobs :
          jobs[id].state = "READY" /\ jobs[id].available_at <= h[i].at =>
            GoesBefore(jobs[h[i].id], jobs[id])
  <2> SUFFICES ASSUME NEW i \in DOMAIN h, h[i].type = "LEASE"
               PROVE  Foremost(Replay(EmptyIndex, SubSeq(h, 1, i)).jobs, h[i])
    BY DEF Foremost
  <2>1. Foremost(After(EmptyIndex, h, i).jobs, h[i])
    BY <1>3, <1>4 DEF Ordered
  <2> QED
    BY <2>1 DEF After
<1> QED
  BY <1>5 DEF LeasesBestFirst, h

\* Every lease took the job that goes first among all that could be leased then: the highest
\* priority, then the earliest time it became available, then the order of enqueueing, by
\* whichever process and after whatever restarts, kills, failed fsyncs, power losses, reaps
\* and compactions.  A key enqueued twice in one call (DistinctKeys) and an exception that a
\* process survives between popping a heap and writing (Gentle) are outside the theorem.
THEOREM BestLeasedFirst == ASSUME DistinctKeys, Gentle PROVE Spec => []LeasesBestFirst
<1>1. Init => IInv /\ HeapsInOrder /\ BestKept
  BY InitInv, InitOrder, InitBest
<1>2. IInv /\ HeapsInOrder /\ BestKept /\ [Next]_vars => (IInv /\ HeapsInOrder /\ BestKept)'
  <2> SUFFICES ASSUME IInv, HeapsInOrder, BestKept, [Next]_vars
               PROVE  (IInv /\ HeapsInOrder /\ BestKept)'
    OBVIOUS
  <2>1. IInv' /\ HeapsInOrder'
    BY StepInv, StepOrder
  <2> QED
    BY <2>1, StepBest
<1>3. IInv /\ BestKept => LeasesBestFirst
  BY BestIsFirst
<1> QED
  BY <1>1, <1>2, <1>3, PTL DEF Spec

=============================================================================
