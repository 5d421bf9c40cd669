----------------------------- MODULE QueueProofs ------------------------------
(***************************************************************************)
(* First what the operators of Index do, for any jobs and records: what a  *)
(* replay is, that it keeps the types, and that it takes two indexes that  *)
(* mirror each other to two that do.  Then a process and the log it        *)
(* shares: whatever is written, interrupted or cut, each index mirrors     *)
(* what was read and each prefix of the log is sound.  Last the history of *)
(* the records, and that it bears out every reply a queue gave.            *)
(***************************************************************************)
EXTENDS QueueProperties, Induction, SequenceTheorems

-----------------------------------------------------------------------------
(***************************************************************************)
(* Replay, one record at a time.                                           *)
(***************************************************************************)
\* f[k] is the index after the first k of these records.
IsReading(f, idx, recs, n) ==
  f = [k \in 0..n |-> IF k = 0 THEN idx ELSE Apply(f[k - 1], recs[k])]

LEMMA TheSingleton == ASSUME NEW x PROVE The({x}) = x
  BY DEF The

LEMMA ReadingExists ==
  ASSUME NEW idx, NEW recs, NEW N \in Nat
  PROVE  \E f : IsReading(f, idx, recs, N)
<1> DEFINE T == {n \in Nat : \E f : IsReading(f, idx, recs, n)}
<1>1. 0 \in T
  <2>1. IsReading([k \in 0..0 |-> idx], idx, recs, 0)
    BY DEF IsReading
  <2> QED
    BY <2>1
<1>2. ASSUME NEW n \in Nat, n \in T PROVE n + 1 \in T
  <2>1. PICK f : IsReading(f, idx, recs, n)
    BY <1>2
  <2> DEFINE g == [k \in 0..(n + 1) |-> IF k = n + 1 THEN Apply(f[n], recs[n + 1]) ELSE f[k]]
             h == [k \in 0..(n + 1) |-> IF k = 0 THEN idx ELSE Apply(g[k - 1], recs[k])]
  <2>2. ASSUME NEW k \in 0..(n + 1) PROVE g[k] = h[k]
    <3>1. CASE k = n + 1
      BY <3>1
    <3>2. CASE k # n + 1
      <4>1. k \in 0..n /\ g[k] = f[k]
        BY <3>2
      <4>2. f[k] = IF k = 0 THEN idx ELSE Apply(f[k - 1], recs[k])
        BY <2>1, <4>1 DEF IsReading
      <4> QED
        BY <3>2, <4>1, <4>2
    <3> QED
      BY <3>1, <3>2
  <2>3. g = h
    BY <2>2
  <2>4. IsReading(g, idx, recs, n + 1)
    BY <2>3 DEF IsReading
  <2> QED
    BY <2>4
<1> HIDE DEF T
<1>3. Nat \subseteq T
  BY <1>1, <1>2, NatSetInduction
<1> QED
  BY <1>3 DEF T

\* Two readings agree as far as both go.
LEMMA ReadingsAgree ==
  ASSUME NEW idx, NEW r, NEW s, NEW f, NEW g, NEW m \in Nat, NEW n \in Nat, n <= m,
         \A k \in 1..n : r[k] = s[k],
         IsReading(f, idx, r, m), IsReading(g, idx, s, n)
  PROVE  \A k \in 0..n : f[k] = g[k]
<1> DEFINE T == {k \in Nat : f[k] = g[k]}
<1>1. 0 \in T
  BY DEF IsReading
<1>2. ASSUME NEW k \in 0..(n - 1), k \in T PROVE k + 1 \in T
  <2>1. f[k + 1] = Apply(f[k], r[k + 1])
    BY <1>2 DEF IsReading
  <2>2. g[k + 1] = Apply(g[k], s[k + 1])
    BY <1>2 DEF IsReading
  <2> QED
    BY <1>2, <2>1, <2>2
<1> HIDE DEF T
<1>3. 0..n \subseteq T
  BY <1>1, <1>2, UpToInduction
<1> QED
  BY <1>3 DEF T

LEMMA ReplayIs ==
  ASSUME NEW idx, NEW recs, Len(recs) \in Nat
  PROVE  \E f : IsReading(f, idx, recs, Len(recs)) /\ Replay(idx, recs) = f[Len(recs)]
<1> DEFINE A(f) == [n \in 0..Len(recs) |->
                      IF n = 0 THEN idx
                      ELSE The({Apply(before, recs[n]) : before \in {f[n - 1]}})]
           B(f) == [n \in 0..Len(recs) |-> IF n = 0 THEN idx ELSE Apply(f[n - 1], recs[n])]
<1>1. ASSUME NEW f PROVE A(f) = B(f)
  <2>1. ASSUME NEW n \in 0..Len(recs) PROVE A(f)[n] = B(f)[n]
    <3>1. {Apply(before, recs[n]) : before \in {f[n - 1]}} = {Apply(f[n - 1], recs[n])}
      OBVIOUS
    <3> QED
      BY <3>1, TheSingleton
  <2> QED
    BY <2>1
<1>2. PICK g : IsReading(g, idx, recs, Len(recs))
  BY ReadingExists
<1>3. g = A(g)
  <2>1. g = B(g)
    BY <1>2 DEF IsReading
  <2> QED
    BY <1>1, <2>1
<1> DEFINE after == CHOOSE f : f = A(f)
<1>4. after = A(after) /\ Replay(idx, recs) = after[Len(recs)]
  BY <1>3 DEF Replay
<1>5. after = B(after)
  BY <1>1, <1>4
<1> QED
  BY <1>4, <1>5 DEF IsReading

LEMMA ReplayNothing == ASSUME NEW idx PROVE Replay(idx, <<>>) = idx
<1>1. Len(<<>>) = 0
  OBVIOUS
<1>2. PICK f : IsReading(f, idx, <<>>, 0) /\ Replay(idx, <<>>) = f[0]
  BY <1>1, ReplayIs
<1> QED
  BY <1>2 DEF IsReading

\* Replaying a prefix, and one record more.
LEMMA ReplayNext ==
  ASSUME NEW R, NEW idx, NEW recs \in Seq(R), NEW n \in 0..(Len(recs) - 1)
  PROVE  Replay(idx, SubSeq(recs, 1, n + 1)) = Apply(Replay(idx, SubSeq(recs, 1, n)), recs[n + 1])
<1> DEFINE a == SubSeq(recs, 1, n + 1)  b == SubSeq(recs, 1, n)
<1>1. /\ Len(recs) \in Nat /\ n \in Nat /\ Len(a) = n + 1 /\ Len(b) = n
      /\ \A k \in 1..(n + 1) : a[k] = recs[k]
      /\ \A k \in 1..n : b[k] = recs[k]
  BY SubSeqProperties, LenProperties
<1> HIDE DEF a, b
<1>2. PICK f : IsReading(f, idx, a, n + 1) /\ Replay(idx, a) = f[n + 1]
  BY <1>1, ReplayIs
<1>3. PICK g : IsReading(g, idx, b, n) /\ Replay(idx, b) = g[n]
  BY <1>1, ReplayIs
<1>4. f[n] = g[n]
  <2>1. n + 1 \in Nat /\ n <= n + 1 /\ n \in 0..n /\ \A k \in 1..n : a[k] = b[k]
    BY <1>1
  <2>2. \A k \in 0..n : f[k] = g[k]
    BY <1>1, <1>2, <1>3, <2>1, ReadingsAgree
  <2> QED
    BY <2>1, <2>2
<1>5. f[n + 1] = Apply(f[n], a[n + 1])
  <2>1. n + 1 \in 0..(n + 1) /\ n + 1 # 0 /\ (n + 1) - 1 = n
    BY <1>1
  <2>2. f[n + 1] = Apply(f[(n + 1) - 1], a[n + 1])
    BY <1>2, <2>1 DEF IsReading
  <2> QED
    BY <2>1, <2>2
<1> QED
  BY <1>1, <1>2, <1>3, <1>4, <1>5 DEF a, b

\* The prefixes of a sequence, from the empty one to the whole.
LEMMA PrefixFacts ==
  ASSUME NEW R, NEW recs \in Seq(R)
  PROVE  /\ Len(recs) \in Nat
         /\ SubSeq(recs, 1, 0) = <<>>
         /\ SubSeq(recs, 1, Len(recs)) = recs
         /\ \A n \in 0..Len(recs) : /\ SubSeq(recs, 1, n) \in Seq(R)
                                    /\ Len(SubSeq(recs, 1, n)) = n
                                    /\ \A i \in 1..n : SubSeq(recs, 1, n)[i] = recs[i]
         /\ \A n \in 1..Len(recs) : recs[n] \in R
<1>1. Len(recs) \in Nat /\ \A n \in 1..Len(recs) : recs[n] \in R
  BY LenProperties, ElementOfSeq
<1>2. SubSeq(recs, 1, 0) = <<>>
  BY SubSeqEmpty
<1>3. SubSeq(recs, 1, Len(recs)) = recs
  BY SubSeqFull
<1>4. ASSUME NEW n \in 0..Len(recs)
      PROVE  /\ SubSeq(recs, 1, n) \in Seq(R)
             /\ Len(SubSeq(recs, 1, n)) = n
             /\ \A i \in 1..n : SubSeq(recs, 1, n)[i] = recs[i]
  BY <1>1, SubSeqProperties
<1> QED
  BY <1>1, <1>2, <1>3, <1>4

\* What each record preserves, a replay preserves.
LEMMA ReplayPreserves ==
  ASSUME NEW R, NEW S, NEW idx \in S, NEW recs \in Seq(R),
         \A i \in S, r \in R : Apply(i, r) \in S
  PROVE  /\ \A n \in 0..Len(recs) : Replay(idx, SubSeq(recs, 1, n)) \in S
         /\ Replay(idx, recs) \in S
<1> DEFINE T == {n \in Nat : Replay(idx, SubSeq(recs, 1, n)) \in S}
<1>1. 0 \in T
  BY PrefixFacts, ReplayNothing
<1>2. ASSUME NEW n \in 0..(Len(recs) - 1), n \in T PROVE n + 1 \in T
  <2>1. Replay(idx, SubSeq(recs, 1, n)) \in S
    BY <1>2
  <2>2. n + 1 \in 1..Len(recs) /\ (n + 1) - 1 = n /\ recs[n + 1] \in R
    BY PrefixFacts
  <2>3. Replay(idx, SubSeq(recs, 1, n + 1)) = Apply(Replay(idx, SubSeq(recs, 1, n)), recs[n + 1])
    BY ReplayNext
  <2>4. Apply(Replay(idx, SubSeq(recs, 1, n)), recs[n + 1]) \in S
    BY <2>1, <2>2
  <2> QED
    BY <2>3, <2>4
<1> HIDE DEF T
<1>3. 0..Len(recs) \subseteq T
  BY <1>1, <1>2, UpToInduction, PrefixFacts
<1>4. \A n \in 0..Len(recs) : Replay(idx, SubSeq(recs, 1, n)) \in S
  BY <1>3 DEF T
<1>5. SubSeq(recs, 1, Len(recs)) = recs /\ Len(recs) \in 0..Len(recs)
  BY PrefixFacts
<1> QED
  BY <1>4, <1>5

\* The same for a relation between two indexes.
LEMMA ReplayRelates ==
  ASSUME NEW R, NEW M, NEW a, NEW b, <<a, b>> \in M, NEW recs \in Seq(R),
         \A i, j : \A r \in R : <<i, j>> \in M => <<Apply(i, r), Apply(j, r)>> \in M
  PROVE  <<Replay(a, recs), Replay(b, recs)>> \in M
<1> DEFINE T == {n \in Nat : <<Replay(a, SubSeq(recs, 1, n)), Replay(b, SubSeq(recs, 1, n))>> \in M}
<1>1. 0 \in T
  BY PrefixFacts, ReplayNothing
<1>2. ASSUME NEW n \in 0..(Len(recs) - 1), n \in T PROVE n + 1 \in T
  <2>1. <<Replay(a, SubSeq(recs, 1, n)), Replay(b, SubSeq(recs, 1, n))>> \in M
    BY <1>2
  <2>2. n + 1 \in 1..Len(recs) /\ (n + 1) - 1 = n /\ recs[n + 1] \in R
    BY PrefixFacts
  <2>3. /\ Replay(a, SubSeq(recs, 1, n + 1)) = Apply(Replay(a, SubSeq(recs, 1, n)), recs[n + 1])
        /\ Replay(b, SubSeq(recs, 1, n + 1)) = Apply(Replay(b, SubSeq(recs, 1, n)), recs[n + 1])
    BY ReplayNext
  <2> QED
    BY <2>1, <2>2, <2>3
<1> HIDE DEF T
<1>3. 0..Len(recs) \subseteq T
  BY <1>1, <1>2, UpToInduction, PrefixFacts
<1>4. SubSeq(recs, 1, Len(recs)) = recs /\ Len(recs) \in 0..Len(recs)
  BY PrefixFacts
<1>5. Len(recs) \in T
  BY <1>3, <1>4
<1> QED
  BY <1>4, <1>5 DEF T

\* A reader that stops and goes on sees what one sees that reads without a stop.
LEMMA ReplayConcat ==
  ASSUME NEW R, NEW idx, NEW s \in Seq(R), NEW t \in Seq(R)
  PROVE  Replay(idx, s \o t) = Replay(Replay(idx, s), t)
<1> DEFINE u == s \o t
           N == Len(t)
           T == {n \in Nat : Replay(idx, SubSeq(u, 1, Len(s) + n)) =
                             Replay(Replay(idx, s), SubSeq(t, 1, n))}
<1>1. /\ u \in Seq(R) /\ Len(u) = Len(s) + Len(t)
      /\ \A i \in 1..Len(s) + Len(t) : u[i] = IF i <= Len(s) THEN s[i] ELSE t[i - Len(s)]
      /\ Len(s) \in Nat /\ Len(t) \in Nat
  BY ConcatProperties, LenProperties
<1> HIDE DEF u
<1>2. 0 \in T
  <2>1. /\ SubSeq(u, 1, Len(s)) \in Seq(R) /\ Len(SubSeq(u, 1, Len(s))) = Len(s)
        /\ \A i \in 1..Len(s) : SubSeq(u, 1, Len(s))[i] = u[i]
    BY <1>1, PrefixFacts
  <2> DEFINE v == SubSeq(u, 1, Len(s))
  <2>2. v = s
    <3>1. v \in Seq(R) /\ Len(v) = Len(s) /\ \A i \in 1..Len(v) : v[i] = s[i]
      BY <1>1, <2>1
    <3> HIDE DEF v
    <3> QED
      BY <3>1, SeqEqual
  <2>3. Len(s) + 0 = Len(s) /\ SubSeq(t, 1, 0) = <<>>
    BY <1>1, PrefixFacts
  <2> QED
    BY <2>2, <2>3, ReplayNothing
<1>3. ASSUME NEW n \in 0..(Len(t) - 1), n \in T PROVE n + 1 \in T
  <2> DEFINE m == Len(s) + n
  <2>1. /\ m \in 0..(Len(u) - 1) /\ m + 1 = Len(s) + (n + 1)
        /\ u[m + 1] = t[n + 1]
    BY <1>1
  <2> HIDE DEF m
  <2>2. Replay(idx, SubSeq(u, 1, m + 1)) = Apply(Replay(idx, SubSeq(u, 1, m)), u[m + 1])
    BY <1>1, <2>1, ReplayNext
  <2>3. Replay(Replay(idx, s), SubSeq(t, 1, n + 1)) =
          Apply(Replay(Replay(idx, s), SubSeq(t, 1, n)), t[n + 1])
    BY ReplayNext
  <2>4. Replay(idx, SubSeq(u, 1, m)) = Replay(Replay(idx, s), SubSeq(t, 1, n))
    BY <1>3 DEF m
  <2>5. Replay(idx, SubSeq(u, 1, m + 1)) = Replay(Replay(idx, s), SubSeq(t, 1, n + 1))
    BY <2>1, <2>2, <2>3, <2>4
  <2> QED
    BY <2>1, <2>5
<1> HIDE DEF T
<1>4. 0..Len(t) \subseteq T
  BY <1>1, <1>2, <1>3, UpToInduction
<1>5. Len(t) \in T
  BY <1>1, <1>4
<1> QED
  BY <1>1, <1>5, PrefixFacts DEF T, u

-----------------------------------------------------------------------------
(***************************************************************************)
(* Types.  Indexes is IsIndex as a set.                                    *)
(***************************************************************************)
Tables == UNION {[ids -> Job] : ids \in Finite(JobId)}

ReadyEntries == [priority : Int, at : Nat, seq : Nat, version : Nat, id : JobId]
ScheduledEntries == [at : Nat, seq : Nat, version : Nat, id : JobId]
LeaseEntries == [deadline : Nat, version : Nat, id : JobId]

Indexes ==
  [jobs : Tables, seq : Nat, orphans : Nat, ready : Finite(ReadyEntries),
   scheduled : Finite(ScheduledEntries), leases : Finite(LeaseEntries)]

LEMMA TableFacts ==
  ASSUME NEW jobs
  PROVE  jobs \in Tables <=> DOMAIN jobs \in Finite(JobId) /\ jobs \in [DOMAIN jobs -> Job]
  BY DEF Tables

LEMMA IndexType == ASSUME NEW idx PROVE IsIndex(idx) <=> idx \in Indexes
<1>1. ASSUME IsIndex(idx) PROVE idx \in Indexes
  <2>1. idx.jobs \in Tables
    BY <1>1, TableFacts DEF IsIndex
  <2> QED
    BY <1>1, <2>1 DEF IsIndex, Indexes, ReadyEntries, ScheduledEntries, LeaseEntries
<1>2. ASSUME idx \in Indexes PROVE IsIndex(idx)
  <2>1. idx.jobs \in Tables
    BY <1>2 DEF Indexes
  <2> QED
    BY <1>2, <2>1, TableFacts DEF IsIndex, Indexes, ReadyEntries, ScheduledEntries, LeaseEntries
<1> QED
  BY <1>1, <1>2

LEMMA PutFacts ==
  ASSUME NEW f, NEW x, NEW v
  PROVE  /\ DOMAIN Put(f, x, v) = DOMAIN f \cup {x}
         /\ Put(f, x, v)[x] = v
         /\ \A y \in DOMAIN f : y # x => Put(f, x, v)[y] = f[y]
  BY DEF Put

LEMMA FinitePushes ==
  ASSUME NEW S, NEW T \in Finite(S)
  PROVE  /\ {} \in Finite(S)
         /\ \A e \in S : T \cup {e} \in Finite(S)
         /\ \A U \in Finite(S) : T \cup U \in Finite(S)
         /\ \A U \in SUBSET T : U \in Finite(S)
<1>1. {} \in Finite(S)
  BY FS_EmptySet DEF Finite
<1>2. \A e \in S : T \cup {e} \in Finite(S)
  BY FS_AddElement DEF Finite
<1>3. \A U \in Finite(S) : T \cup U \in Finite(S)
  BY FS_Union DEF Finite
<1>4. \A U \in SUBSET T : U \in Finite(S)
  BY FS_Subset DEF Finite
<1> QED
  BY <1>1, <1>2, <1>3, <1>4

LEMMA PutType ==
  ASSUME NEW jobs \in Tables, NEW id \in JobId, NEW job \in Job
  PROVE  Put(jobs, id, job) \in Tables
<1>1. DOMAIN jobs \in Finite(JobId) /\ jobs \in [DOMAIN jobs -> Job]
  BY TableFacts
<1>2. DOMAIN Put(jobs, id, job) \in Finite(JobId)
  BY <1>1, PutFacts, FinitePushes
<1>3. Put(jobs, id, job) \in [DOMAIN Put(jobs, id, job) -> Job]
  <2>1. \A y \in DOMAIN jobs \cup {id} : (IF y = id THEN job ELSE jobs[y]) \in Job
    BY <1>1
  <2>2. Put(jobs, id, job) \in [DOMAIN jobs \cup {id} -> Job]
    BY <2>1 DEF Put
  <2> QED
    BY <2>2, PutFacts
<1> QED
  BY <1>2, <1>3, TableFacts

-----------------------------------------------------------------------------
(***************************************************************************)
(* A record that names a known job changes that job and may push an entry. *)
(***************************************************************************)
NamesJob(rec) == rec.type \notin {"ENQUEUE", "PURGE"}

Changed(job, rec) ==
  CASE rec.type = "LEASE" ->
         Bumped([job EXCEPT !.state = "LEASED", !.attempts = rec.attempts,
                            !.lease_deadline = rec.deadline, !.lease_token = rec.token])
    [] rec.type = "EXTEND" ->
         IF job.state # "LEASED" THEN job
         ELSE Bumped([job EXCEPT !.lease_deadline = rec.deadline])
    [] rec.type = "ACK" -> Unleased(job, "DONE")
    [] rec.type = "NACK" ->
         Unleased([job EXCEPT !.attempts = rec.attempts, !.available_at = rec.available_at], "READY")
    [] rec.type = "RECLAIM" ->
         Unleased([job EXCEPT !.available_at = rec.available_at], "READY")
    [] rec.type = "DEAD" -> Unleased(job, "DEAD")
    [] rec.type = "REQUEUE" ->
         Unleased([job EXCEPT !.attempts = 0, !.available_at = rec.available_at], "READY")

\* What it pushes, given the job it leaves.
PushedWaiting(id, job, rec) ==
  IF rec.type \in {"NACK", "RECLAIM", "REQUEUE"} THEN {ScheduledEntry(id, job)} ELSE {}

PushedLease(id, job, rec) ==
  IF rec.type \in {"LEASE", "EXTEND"} /\ job.state = "LEASED" THEN {LeaseEntry(id, job)} ELSE {}

LEMMA RecordFacts ==
  ASSUME NEW rec \in Record
  PROVE  /\ rec.type \in RecordTypes
         /\ rec.type # "PURGE" => rec.id \in JobId
         /\ rec.type = "ENQUEUE" => FromDict(rec) \in Job
         /\ rec.type = "LEASE" => rec.attempts \in Nat /\ rec.deadline \in Nat /\ rec.token \in Nat
         /\ rec.type = "EXTEND" => rec.deadline \in Nat
         /\ rec.type = "NACK" => rec.attempts \in Nat
         /\ rec.type \in {"NACK", "RECLAIM", "REQUEUE"} => rec.available_at \in Nat
<1> USE DEF RecordTypes
<1>1. CASE rec \in [type : {"ENQUEUE"}, id : JobId, priority : Int, state : States,
                    attempts : Nat, max_attempts : Nat, available_at : Nat,
                    lease_deadline : Nat \cup {None}, lease_token : Nat \cup {None},
                    seq : Nat \ {0}] /\ HeldWhenLeased(rec)
  BY <1>1 DEF FromDict, Job, HeldWhenLeased
<1>2. CASE rec \in [type : {"LEASE"}, id : JobId, at : Nat, deadline : Nat, attempts : Nat,
                    token : Nat]
  BY <1>2
<1>3. CASE rec \in [type : {"EXTEND"}, id : JobId, at : Nat, deadline : Nat]
  BY <1>3
<1>4. CASE rec \in [type : {"ACK"}, id : JobId, at : Nat]
  BY <1>4
<1>5. CASE rec \in [type : {"NACK"}, id : JobId, at : Nat, attempts : Nat, available_at : Nat]
  BY <1>5
<1>6. CASE rec \in [type : {"RECLAIM", "REQUEUE"}, id : JobId, at : Nat, available_at : Nat]
  BY <1>6
<1>7. CASE rec \in [type : {"DEAD"}, id : JobId, at : Nat, error : {"expired", "reported"}]
  BY <1>7
<1>8. CASE rec \in [type : {"PURGE"}, at : Nat]
  BY <1>8
<1> QED
  BY <1>1, <1>2, <1>3, <1>4, <1>5, <1>6, <1>7, <1>8 DEF Record

LEMMA StoreIs ==
  ASSUME NEW idx \in Indexes, NEW id, NEW job
  PROVE  Store(idx, id, job) =
           [jobs |-> Put(idx.jobs, id, job), seq |-> idx.seq, orphans |-> idx.orphans,
            ready |-> idx.ready, scheduled |-> idx.scheduled, leases |-> idx.leases]
  BY DEF Store, Indexes

LEMMA ScheduleIs ==
  ASSUME NEW j, NEW n, NEW o, NEW r, NEW s, NEW l, NEW id
  PROVE  Schedule([jobs |-> j, seq |-> n, orphans |-> o, ready |-> r, scheduled |-> s,
                   leases |-> l], id) =
           [jobs |-> j, seq |-> n, orphans |-> o, ready |-> r,
            scheduled |-> s \cup {ScheduledEntry(id, j[id])}, leases |-> l]
  BY DEF Schedule

LEMMA HoldIs ==
  ASSUME NEW j, NEW n, NEW o, NEW r, NEW s, NEW l, NEW id
  PROVE  Hold([jobs |-> j, seq |-> n, orphans |-> o, ready |-> r, scheduled |-> s,
               leases |-> l], id) =
           [jobs |-> j, seq |-> n, orphans |-> o, ready |-> r,
            scheduled |-> s, leases |-> l \cup {LeaseEntry(id, j[id])}]
  BY DEF Hold

LEMMA ApplyNamed ==
  ASSUME NEW idx \in Indexes, NEW rec \in Record, NamesJob(rec), rec.id \in DOMAIN idx.jobs
  PROVE  LET job == Changed(idx.jobs[rec.id], rec) IN
         Apply(idx, rec) =
           [jobs |-> Put(idx.jobs, rec.id, job), seq |-> idx.seq, orphans |-> idx.orphans,
            ready |-> idx.ready,
            scheduled |-> idx.scheduled \cup PushedWaiting(rec.id, job, rec),
            leases |-> idx.leases \cup PushedLease(rec.id, job, rec)]
<1> DEFINE id == rec.id  old == idx.jobs[id]  job == Changed(old, rec)
           jobs == Put(idx.jobs, id, job)
           Outcome(s, l) == [jobs |-> jobs, seq |-> idx.seq, orphans |-> idx.orphans,
                             ready |-> idx.ready, scheduled |-> idx.scheduled \cup s,
                             leases |-> idx.leases \cup l]
           Goal == Outcome(PushedWaiting(id, job, rec), PushedLease(id, job, rec))
<1> SUFFICES Apply(idx, rec) = Goal
  OBVIOUS
<1>t. rec.type \in {"LEASE", "EXTEND", "ACK", "NACK", "RECLAIM", "DEAD", "REQUEUE"}
  BY RecordFacts DEF NamesJob, RecordTypes
<1>1. old \in Job /\ id \in JobId /\ idx.jobs \in [DOMAIN idx.jobs -> Job]
  <2>1. idx.jobs \in Tables
    BY DEF Indexes
  <2>2. DOMAIN idx.jobs \in Finite(JobId) /\ idx.jobs \in [DOMAIN idx.jobs -> Job]
    BY <2>1, TableFacts
  <2> QED
    BY <2>2 DEF Finite
<1>n. rec.type \notin {"ENQUEUE", "PURGE"} /\ ~(rec.id \notin DOMAIN idx.jobs)
  BY DEF NamesJob
<1>2. jobs[id] = job
  BY DEF Put
<1>3. Store(idx, id, job) = Outcome({}, {})
  BY StoreIs
<1>4. Hold(Store(idx, id, job), id) = Outcome({}, {LeaseEntry(id, job)})
  <2> HIDE DEF job, jobs, id
  <2> QED
    BY <1>2, <1>3, HoldIs
<1>5. Schedule(Store(idx, id, job), id) = Outcome({ScheduledEntry(id, job)}, {})
  <2> HIDE DEF job, jobs, id
  <2> QED
    BY <1>2, <1>3, ScheduleIs
<1>6. CASE rec.type = "LEASE"
  <2>1. job.state = "LEASED"
    BY <1>1, <1>6 DEF Changed, Bumped, Job
  <2>2. Apply(idx, rec) = ApplyLease(idx, rec)
    BY <1>6, <1>n DEF Apply
  <2>3. ApplyLease(idx, rec) = Hold(Store(idx, id, job), id)
    BY <1>6 DEF ApplyLease, Changed
  <2>4. PushedWaiting(id, job, rec) = {} /\ PushedLease(id, job, rec) = {LeaseEntry(id, job)}
    BY <1>6, <2>1 DEF PushedWaiting, PushedLease
  <2> QED
    BY <2>2, <2>3, <2>4, <1>4
<1>7. CASE rec.type = "EXTEND"
  <2>2. Apply(idx, rec) = ApplyExtend(idx, rec)
    BY <1>7, <1>n DEF Apply
  <2>3. CASE old.state = "LEASED"
    <3>1. job.state = "LEASED"
      BY <1>1, <1>7, <2>3 DEF Changed, Bumped, Job
    <3>2. ApplyExtend(idx, rec) = Hold(Store(idx, id, job), id)
      BY <1>7, <2>3 DEF ApplyExtend, Changed
    <3>3. PushedWaiting(id, job, rec) = {} /\ PushedLease(id, job, rec) = {LeaseEntry(id, job)}
      BY <1>7, <3>1 DEF PushedWaiting, PushedLease
    <3> QED
      BY <2>2, <3>2, <3>3, <1>4
  <2>4. CASE old.state # "LEASED"
    <3>1. job = old
      BY <1>7, <2>4 DEF Changed
    <3>2. ApplyExtend(idx, rec) = idx
      BY <2>4 DEF ApplyExtend
    <3>3. PushedWaiting(id, job, rec) = {} /\ PushedLease(id, job, rec) = {}
      BY <1>7, <2>4, <3>1 DEF PushedWaiting, PushedLease
    <3>4. jobs = idx.jobs
      <4>1. idx.jobs = [i \in DOMAIN idx.jobs |-> idx.jobs[i]]
        BY <1>1
      <4> QED
        BY <3>1, <4>1 DEF Put
    <3>5. idx = Outcome({}, {})
      BY <3>4 DEF Indexes
    <3> QED
      BY <2>2, <3>2, <3>3, <3>5
  <2> QED
    BY <2>3, <2>4
<1>8. CASE rec.type = "ACK"
  <2>1. Apply(idx, rec) = Store(idx, id, job)
    BY <1>8, <1>n DEF Apply, ApplyAck, Changed
  <2>2. PushedWaiting(id, job, rec) = {} /\ PushedLease(id, job, rec) = {}
    BY <1>8 DEF PushedWaiting, PushedLease
  <2> QED
    BY <2>1, <2>2, <1>3
<1>9. CASE rec.type = "DEAD"
  <2>1. Apply(idx, rec) = Store(idx, id, job)
    BY <1>9, <1>n DEF Apply, ApplyDead, Changed
  <2>2. PushedWaiting(id, job, rec) = {} /\ PushedLease(id, job, rec) = {}
    BY <1>9 DEF PushedWaiting, PushedLease
  <2> QED
    BY <2>1, <2>2, <1>3
<1>10. CASE rec.type \in {"NACK", "RECLAIM", "REQUEUE"}
  <2>1. Apply(idx, rec) = Schedule(Store(idx, id, job), id)
    <3>1. CASE rec.type = "NACK"
      BY <3>1, <1>n DEF Apply, ApplyNack, Changed
    <3>2. CASE rec.type = "RECLAIM"
      BY <3>2, <1>n DEF Apply, ApplyReclaim, Changed
    <3>3. CASE rec.type = "REQUEUE"
      BY <3>3, <1>n DEF Apply, ApplyRequeue, Changed
    <3> QED
      BY <1>10, <3>1, <3>2, <3>3
  <2>2. PushedWaiting(id, job, rec) = {ScheduledEntry(id, job)} /\ PushedLease(id, job, rec) = {}
    BY <1>10 DEF PushedWaiting, PushedLease
  <2> QED
    BY <2>1, <2>2, <1>5
<1> QED
  BY <1>t, <1>6, <1>7, <1>8, <1>9, <1>10

JobFields ==
  [priority : Int, state : States, attempts : Nat, max_attempts : Nat,
   available_at : Nat, lease_deadline : Nat \cup {None}, lease_token : Nat \cup {None},
   seq : Nat \ {0}, version : Nat]

\* State, attempts, availability, deadline and token of a job.
Has(job, state, attempts, available_at, deadline, token) ==
  /\ job.state = state /\ job.attempts = attempts /\ job.available_at = available_at
  /\ job.lease_deadline = deadline /\ job.lease_token = token

LEMMA SetField ==
  ASSUME NEW job \in JobFields
  PROVE  /\ \A s \in States : [job EXCEPT !.state = s] \in JobFields
         /\ \A n \in Nat : [job EXCEPT !.attempts = n] \in JobFields
         /\ \A n \in Nat : [job EXCEPT !.available_at = n] \in JobFields
         /\ \A n \in Nat \cup {None} : [job EXCEPT !.lease_deadline = n] \in JobFields
         /\ \A n \in Nat \cup {None} : [job EXCEPT !.lease_token = n] \in JobFields
         /\ Bumped(job) \in JobFields
<1> USE DEF JobFields
<1>1. \A s \in States : [job EXCEPT !.state = s] \in JobFields
  OBVIOUS
<1>2. \A n \in Nat : [job EXCEPT !.attempts = n] \in JobFields
  OBVIOUS
<1>3. \A n \in Nat : [job EXCEPT !.available_at = n] \in JobFields
  OBVIOUS
<1>4. \A n \in Nat \cup {None} : [job EXCEPT !.lease_deadline = n] \in JobFields
  OBVIOUS
<1>5. \A n \in Nat \cup {None} : [job EXCEPT !.lease_token = n] \in JobFields
  OBVIOUS
<1>6. Bumped(job) \in JobFields
  BY DEF Bumped
<1> QED
  BY <1>1, <1>2, <1>3, <1>4, <1>5, <1>6

LEMMA UnleasedFields ==
  ASSUME NEW job \in JobFields, NEW state \in States
  PROVE  LET new == Unleased(job, state) IN
         /\ new \in JobFields
         /\ Has(new, state, job.attempts, job.available_at, None, None)
         /\ new.priority = job.priority /\ new.max_attempts = job.max_attempts
         /\ new.seq = job.seq /\ new.version = job.version + 1
<1> DEFINE j == [[[job EXCEPT !.state = state] EXCEPT !.lease_deadline = None]
                   EXCEPT !.lease_token = None]
<1>1. Unleased(job, state) = Bumped(j)
  BY DEF Unleased
<1>2. j \in JobFields
  BY SetField
<1>3. Unleased(job, state) \in JobFields
  BY <1>1, <1>2, SetField
<1> QED
  BY <1>3 DEF Unleased, Bumped, Has, JobFields

LEMMA ChangedFields ==
  ASSUME NEW job \in Job, NEW rec \in Record, NamesJob(rec)
  PROVE  LET new == Changed(job, rec)
             same == job.available_at
         IN
         /\ new \in JobFields
         /\ new.priority = job.priority /\ new.max_attempts = job.max_attempts
         /\ new.seq = job.seq
         /\ rec.type = "LEASE" => Has(new, "LEASED", rec.attempts, same, rec.deadline, rec.token)
         /\ rec.type = "EXTEND" /\ job.state = "LEASED" =>
              Has(new, "LEASED", job.attempts, same, rec.deadline, job.lease_token)
         /\ rec.type = "ACK" => Has(new, "DONE", job.attempts, same, None, None)
         /\ rec.type = "NACK" => Has(new, "READY", rec.attempts, rec.available_at, None, None)
         /\ rec.type = "RECLAIM" => Has(new, "READY", job.attempts, rec.available_at, None, None)
         /\ rec.type = "DEAD" => Has(new, "DEAD", job.attempts, same, None, None)
         /\ rec.type = "REQUEUE" => Has(new, "READY", 0, rec.available_at, None, None)
         /\ rec.type = "EXTEND" /\ job.state # "LEASED" => new = job
         /\ ~(rec.type = "EXTEND" /\ job.state # "LEASED") => new.version = job.version + 1
<1> DEFINE new == Changed(job, rec)
           same == job.available_at
           Kept == /\ new \in JobFields
                   /\ new.priority = job.priority /\ new.max_attempts = job.max_attempts
                   /\ new.seq = job.seq
<1>t. rec.type \in {"LEASE", "EXTEND", "ACK", "NACK", "RECLAIM", "DEAD", "REQUEUE"}
  BY RecordFacts DEF NamesJob, RecordTypes
<1>j. job \in JobFields
  BY DEF Job, JobFields
<1>s. "LEASED" \in States /\ "READY" \in States /\ "DONE" \in States /\ "DEAD" \in States
  BY DEF States
<1>1. CASE rec.type = "LEASE"
  <2> DEFINE j == [[[[job EXCEPT !.state = "LEASED"] EXCEPT !.attempts = rec.attempts]
                    EXCEPT !.lease_deadline = rec.deadline] EXCEPT !.lease_token = rec.token]
  <2>1. new = Bumped(j)
    BY <1>1 DEF Changed
  <2>2. j \in JobFields
    BY <1>1, <1>j, <1>s, SetField, RecordFacts
  <2>3. new \in JobFields
    BY <2>1, <2>2, SetField
  <2>4. Has(new, "LEASED", rec.attempts, same, rec.deadline, rec.token)
    BY <1>j, <2>1 DEF Bumped, Has, JobFields
  <2>5. /\ new.priority = job.priority /\ new.max_attempts = job.max_attempts
        /\ new.seq = job.seq /\ new.version = job.version + 1
    BY <1>j, <2>1 DEF Bumped, JobFields
  <2> QED
    BY <1>1, <2>3, <2>4, <2>5
<1>2. CASE rec.type = "EXTEND" /\ job.state = "LEASED"
  <2> DEFINE j == [job EXCEPT !.lease_deadline = rec.deadline]
  <2>1. new = Bumped(j)
    BY <1>2 DEF Changed
  <2>2. j \in JobFields
    BY <1>2, <1>j, <1>s, SetField, RecordFacts
  <2>3. new \in JobFields
    BY <2>1, <2>2, SetField
  <2>4. Has(new, "LEASED", job.attempts, same, rec.deadline, job.lease_token)
    BY <1>j, <1>2, <2>1 DEF Bumped, Has, JobFields
  <2>5. /\ new.priority = job.priority /\ new.max_attempts = job.max_attempts
        /\ new.seq = job.seq /\ new.version = job.version + 1
    BY <1>j, <2>1 DEF Bumped, JobFields
  <2> QED
    BY <1>2, <2>3, <2>4, <2>5
<1>3. CASE rec.type = "EXTEND" /\ job.state # "LEASED"
  <2>1. new = job
    BY <1>3 DEF Changed
  <2> QED
    BY <1>3, <1>j, <2>1
<1>4. CASE rec.type = "ACK"
  <2>1. new = Unleased(job, "DONE")
    BY <1>4 DEF Changed
  <2>2. /\ new \in JobFields /\ Has(new, "DONE", job.attempts, same, None, None)
        /\ new.priority = job.priority /\ new.max_attempts = job.max_attempts
        /\ new.seq = job.seq /\ new.version = job.version + 1
    <3> HIDE DEF new
    <3> QED
      BY <1>j, <1>s, <2>1, UnleasedFields
  <2> HIDE DEF new
  <2> QED
    BY <1>4, <2>2 DEF new
<1>5. CASE rec.type = "DEAD"
  <2>1. new = Unleased(job, "DEAD")
    BY <1>5 DEF Changed
  <2>2. /\ new \in JobFields /\ Has(new, "DEAD", job.attempts, same, None, None)
        /\ new.priority = job.priority /\ new.max_attempts = job.max_attempts
        /\ new.seq = job.seq /\ new.version = job.version + 1
    <3> HIDE DEF new
    <3> QED
      BY <1>j, <1>s, <2>1, UnleasedFields
  <2> HIDE DEF new
  <2> QED
    BY <1>5, <2>2 DEF new
<1>6. CASE rec.type = "NACK"
  <2> DEFINE j == [[job EXCEPT !.attempts = rec.attempts] EXCEPT !.available_at = rec.available_at]
  <2>1. new = Unleased(j, "READY")
    BY <1>6 DEF Changed
  <2>2. /\ j \in JobFields
        /\ j.attempts = rec.attempts /\ j.available_at = rec.available_at
        /\ j.priority = job.priority /\ j.max_attempts = job.max_attempts
        /\ j.seq = job.seq /\ j.version = job.version
    <3>1. j \in JobFields
      BY <1>6, <1>j, SetField, RecordFacts
    <3> QED
      BY <1>j, <3>1 DEF JobFields
  <2>3. /\ new \in JobFields /\ Has(new, "READY", j.attempts, j.available_at, None, None)
        /\ new.priority = j.priority /\ new.max_attempts = j.max_attempts
        /\ new.seq = j.seq /\ new.version = j.version + 1
    <3> HIDE DEF new, j
    <3> QED
      BY <1>s, <2>1, <2>2, UnleasedFields
  <2> HIDE DEF new, j
  <2>4. Has(new, "READY", rec.attempts, rec.available_at, None, None)
    BY <2>2, <2>3
  <2> QED
    BY <1>6, <2>2, <2>3, <2>4 DEF new
<1>7. CASE rec.type = "RECLAIM"
  <2> DEFINE j == [job EXCEPT !.available_at = rec.available_at]
  <2>1. new = Unleased(j, "READY")
    BY <1>7 DEF Changed
  <2>2. /\ j \in JobFields
        /\ j.attempts = job.attempts /\ j.available_at = rec.available_at
        /\ j.priority = job.priority /\ j.max_attempts = job.max_attempts
        /\ j.seq = job.seq /\ j.version = job.version
    <3>1. j \in JobFields
      BY <1>7, <1>j, SetField, RecordFacts
    <3> QED
      BY <1>j, <3>1 DEF JobFields
  <2>3. /\ new \in JobFields /\ Has(new, "READY", j.attempts, j.available_at, None, None)
        /\ new.priority = j.priority /\ new.max_attempts = j.max_attempts
        /\ new.seq = j.seq /\ new.version = j.version + 1
    <3> HIDE DEF new, j
    <3> QED
      BY <1>s, <2>1, <2>2, UnleasedFields
  <2> HIDE DEF new, j
  <2>4. Has(new, "READY", job.attempts, rec.available_at, None, None)
    BY <2>2, <2>3
  <2> QED
    BY <1>7, <2>2, <2>3, <2>4 DEF new
<1>8. CASE rec.type = "REQUEUE"
  <2> DEFINE j == [[job EXCEPT !.attempts = 0] EXCEPT !.available_at = rec.available_at]
  <2>1. new = Unleased(j, "READY")
    BY <1>8 DEF Changed
  <2>2. /\ j \in JobFields
        /\ j.attempts = 0 /\ j.available_at = rec.available_at
        /\ j.priority = job.priority /\ j.max_attempts = job.max_attempts
        /\ j.seq = job.seq /\ j.version = job.version
    <3>1. j \in JobFields
      BY <1>8, <1>j, SetField, RecordFacts
    <3> QED
      BY <1>j, <3>1 DEF JobFields
  <2>3. /\ new \in JobFields /\ Has(new, "READY", j.attempts, j.available_at, None, None)
        /\ new.priority = j.priority /\ new.max_attempts = j.max_attempts
        /\ new.seq = j.seq /\ new.version = j.version + 1
    <3> HIDE DEF new, j
    <3> QED
      BY <1>s, <2>1, <2>2, UnleasedFields
  <2> HIDE DEF new, j
  <2>4. Has(new, "READY", 0, rec.available_at, None, None)
    BY <2>2, <2>3
  <2> QED
    BY <1>8, <2>2, <2>3, <2>4 DEF new
<1> QED
  BY <1>t, <1>1, <1>2, <1>3, <1>4, <1>5, <1>6, <1>7, <1>8

LEMMA ChangedType ==
  ASSUME NEW job \in Job, NEW rec \in Record, NamesJob(rec)
  PROVE  Changed(job, rec) \in Job
<1> DEFINE new == Changed(job, rec)
<1>t. rec.type \in {"LEASE", "EXTEND", "ACK", "NACK", "RECLAIM", "DEAD", "REQUEUE"}
  BY RecordFacts DEF NamesJob, RecordTypes
<1>1. new \in JobFields
  BY ChangedFields
<1>2. HeldWhenLeased(new)
  <2>1. CASE rec.type \in {"ACK", "DEAD", "NACK", "RECLAIM", "REQUEUE"}
    <3>1. new.state # "LEASED" /\ new.lease_deadline = None /\ new.lease_token = None
      BY <2>1, ChangedFields DEF Has
    <3> QED
      BY <3>1 DEF HeldWhenLeased
  <2>2. CASE rec.type = "LEASE"
    <3>1. new.state = "LEASED" /\ new.lease_deadline \in Nat /\ new.lease_token \in Nat
      BY <2>2, ChangedFields, RecordFacts DEF Has
    <3> QED
      BY <3>1, NoneAssumption DEF HeldWhenLeased
  <2>3. CASE rec.type = "EXTEND" /\ job.state # "LEASED"
    BY <2>3, ChangedFields DEF Job
  <2>4. CASE rec.type = "EXTEND" /\ job.state = "LEASED"
    <3>1. new.state = "LEASED" /\ new.lease_deadline \in Nat /\ new.lease_token = job.lease_token
      BY <2>4, ChangedFields, RecordFacts DEF Has
    <3>2. job.lease_token # None
      BY <2>4 DEF Job, HeldWhenLeased
    <3> QED
      BY <3>1, <3>2, NoneAssumption DEF HeldWhenLeased
  <2> QED
    BY <1>t, <2>1, <2>2, <2>3, <2>4
<1> QED
  BY <1>1, <1>2 DEF Job, JobFields

LEMMA JobsType ==
  ASSUME NEW idx \in Indexes
  PROVE  /\ DOMAIN idx.jobs \in Finite(JobId)
         /\ idx.jobs \in [DOMAIN idx.jobs -> Job]
         /\ \A id \in DOMAIN idx.jobs : id \in JobId /\ idx.jobs[id] \in Job
<1>1. idx.jobs \in Tables
  BY DEF Indexes
<1>2. DOMAIN idx.jobs \in Finite(JobId) /\ idx.jobs \in [DOMAIN idx.jobs -> Job]
  BY <1>1, TableFacts
<1> QED
  BY <1>2 DEF Finite

LEMMA EmptyFacts ==
  /\ EmptyIndex \in Indexes /\ DOMAIN EmptyIndex.jobs = {}
  /\ EmptyIndex.seq = 0 /\ EmptyIndex.orphans = 0
<1>1. DOMAIN EmptyIndex.jobs = {} /\ EmptyIndex.seq = 0 /\ EmptyIndex.orphans = 0
  BY DEF EmptyIndex
<1>2. \A S : {} \in Finite(S)
  BY FS_EmptySet DEF Finite
<1>3. EmptyIndex.jobs \in Tables
  <2>1. EmptyIndex.jobs = [x \in {} |-> x]
    BY DEF EmptyIndex
  <2>2. EmptyIndex.jobs \in [{} -> Job] /\ {} \in Finite(JobId)
    BY <1>2, <2>1
  <2> QED
    BY <2>2 DEF Tables
<1> QED
  BY <1>1, <1>2, <1>3 DEF EmptyIndex, Indexes

\* The types of the entries pushed.
LEMMA EntryTypes ==
  ASSUME NEW id \in JobId, NEW job \in JobFields
  PROVE  /\ ScheduledEntry(id, job) \in ScheduledEntries
         /\ job.lease_deadline # None => LeaseEntry(id, job) \in LeaseEntries
<1>1. ScheduledEntry(id, job) \in ScheduledEntries
  BY DEF JobFields, ScheduledEntry, ScheduledEntries
<1>2. ASSUME job.lease_deadline # None PROVE LeaseEntry(id, job) \in LeaseEntries
  BY <1>2 DEF JobFields, LeaseEntry, LeaseEntries
<1> QED
  BY <1>1, <1>2

\* What an ENQUEUE makes of an index.
LEMMA ApplyEnqueueIs ==
  ASSUME NEW idx \in Indexes, NEW rec \in Record, rec.type = "ENQUEUE"
  PROVE  LET job == FromDict(rec) IN
         Apply(idx, rec) =
           [jobs |-> Put(idx.jobs, rec.id, job),
            seq |-> IF rec.seq > idx.seq THEN rec.seq ELSE idx.seq,
            orphans |-> idx.orphans, ready |-> idx.ready,
            scheduled |-> idx.scheduled \cup IF Waits(job) THEN {ScheduledEntry(rec.id, job)} ELSE {},
            leases |-> idx.leases \cup IF TimesOut(job) THEN {LeaseEntry(rec.id, job)} ELSE {}]
<1> DEFINE id == rec.id  job == FromDict(rec)  jobs == Put(idx.jobs, id, job)
           n == IF rec.seq > idx.seq THEN rec.seq ELSE idx.seq
           stored == [jobs |-> jobs, seq |-> n, orphans |-> idx.orphans, ready |-> idx.ready,
                      scheduled |-> idx.scheduled, leases |-> idx.leases]
<1>1. Apply(idx, rec) = Admit(stored, id)
  <2>1. [Store(idx, id, job) EXCEPT !.seq = IF rec.seq > @ THEN rec.seq ELSE @] = stored
    <3> HIDE DEF job
    <3> QED
      BY StoreIs
  <2>2. Apply(idx, rec) = ApplyEnqueue(idx, rec)
    BY DEF Apply
  <2> QED
    BY <2>1, <2>2 DEF ApplyEnqueue
<1>2. jobs[id] = job
  BY DEF Put
<1>3. stored.jobs[id] = job
  BY <1>2
<1> HIDE DEF jobs, n, job, id, stored
<1>4. CASE Waits(job)
  <2>1. ~TimesOut(job)
    BY <1>4 DEF Waits, TimesOut
  <2>2. Admit(stored, id) = Schedule(stored, id)
    BY <1>3, <1>4, <2>1 DEF Admit
  <2>3. Schedule(stored, id) =
          [jobs |-> jobs, seq |-> n, orphans |-> idx.orphans, ready |-> idx.ready,
           scheduled |-> idx.scheduled \cup {ScheduledEntry(id, job)}, leases |-> idx.leases]
    BY <1>2, ScheduleIs DEF stored
  <2>4. idx.leases \cup {} = idx.leases
    OBVIOUS
  <2> QED
    BY <1>1, <1>4, <2>1, <2>2, <2>3, <2>4 DEF jobs, n, job, id
<1>5. CASE ~Waits(job) /\ TimesOut(job)
  <2>1. Admit(stored, id) = Hold(stored, id)
    BY <1>3, <1>5 DEF Admit
  <2> QED
    BY <1>1, <1>2, <1>5, <2>1, HoldIs DEF jobs, n, job, id, stored
<1>6. CASE ~Waits(job) /\ ~TimesOut(job)
  <2>1. Admit(stored, id) = stored
    BY <1>3, <1>6 DEF Admit
  <2> QED
    BY <1>1, <1>6, <2>1 DEF jobs, n, job, id, stored
<1> QED
  BY <1>4, <1>5, <1>6

LEMMA ApplyPurgeIs ==
  ASSUME NEW idx \in Indexes, NEW rec, rec.type = "PURGE"
  PROVE  Apply(idx, rec) = [jobs |-> <<>>, seq |-> idx.seq, orphans |-> idx.orphans,
                            ready |-> {}, scheduled |-> {}, leases |-> {}]
<1>1. Apply(idx, rec) = ApplyPurge(idx)
  BY DEF Apply
<1>2. ApplyPurge(idx) = [[[[idx EXCEPT !.jobs = <<>>] EXCEPT !.ready = {}]
                            EXCEPT !.scheduled = {}] EXCEPT !.leases = {}]
  BY DEF ApplyPurge
<1>3. \A a, b, c, d : idx = [jobs |-> idx.jobs, seq |-> idx.seq, orphans |-> idx.orphans,
            ready |-> idx.ready, scheduled |-> idx.scheduled, leases |-> idx.leases]
  BY DEF Indexes
<1> QED
  BY <1>1, <1>2, <1>3

LEMMA ApplyOrphan ==
  ASSUME NEW idx \in Indexes, NEW rec, NamesJob(rec), rec.id \notin DOMAIN idx.jobs
  PROVE  Apply(idx, rec) = [idx EXCEPT !.orphans = @ + 1]
  BY DEF Apply, NamesJob

\* What a record makes of the jobs, of the sequence number and of the orphans.
LEMMA ApplyJobs ==
  ASSUME NEW idx \in Indexes, NEW rec \in Record
  PROVE  LET out == Apply(idx, rec) IN
         /\ rec.type = "ENQUEUE" =>
              /\ out.jobs = Put(idx.jobs, rec.id, FromDict(rec)) /\ out.orphans = idx.orphans
              /\ out.seq = IF rec.seq > idx.seq THEN rec.seq ELSE idx.seq
         /\ rec.type # "ENQUEUE" => out.seq = idx.seq
         /\ rec.type = "PURGE" => DOMAIN out.jobs = {} /\ out.orphans = idx.orphans
         /\ NamesJob(rec) /\ rec.id \in DOMAIN idx.jobs =>
              /\ out.jobs = Put(idx.jobs, rec.id, Changed(idx.jobs[rec.id], rec))
              /\ out.orphans = idx.orphans
         /\ NamesJob(rec) /\ rec.id \notin DOMAIN idx.jobs =>
              out.jobs = idx.jobs /\ out.orphans = idx.orphans + 1
<1> DEFINE out == Apply(idx, rec)
<1>1. CASE rec.type = "ENQUEUE"
  <2>1. /\ out.jobs = Put(idx.jobs, rec.id, FromDict(rec)) /\ out.orphans = idx.orphans
        /\ out.seq = IF rec.seq > idx.seq THEN rec.seq ELSE idx.seq
    BY <1>1, ApplyEnqueueIs
  <2> QED
    BY <1>1, <2>1 DEF NamesJob
<1>2. CASE rec.type = "PURGE"
  <2>1. DOMAIN out.jobs = {} /\ out.orphans = idx.orphans /\ out.seq = idx.seq
    BY <1>2, ApplyPurgeIs
  <2> QED
    BY <1>2, <2>1 DEF NamesJob
<1>3. CASE NamesJob(rec) /\ rec.id \in DOMAIN idx.jobs
  <2>1. /\ out.jobs = Put(idx.jobs, rec.id, Changed(idx.jobs[rec.id], rec))
        /\ out.orphans = idx.orphans /\ out.seq = idx.seq
    BY <1>3, ApplyNamed
  <2> QED
    BY <1>3, <2>1 DEF NamesJob
<1>4. CASE NamesJob(rec) /\ rec.id \notin DOMAIN idx.jobs
  <2>1. out.jobs = idx.jobs /\ out.orphans = idx.orphans + 1 /\ out.seq = idx.seq
    BY <1>4, ApplyOrphan DEF Indexes
  <2> QED
    BY <1>4, <2>1 DEF NamesJob
<1> QED
  BY <1>1, <1>2, <1>3, <1>4 DEF NamesJob

LEMMA ApplyType ==
  ASSUME NEW idx \in Indexes, NEW rec \in Record
  PROVE  Apply(idx, rec) \in Indexes
<1> DEFINE out == Apply(idx, rec)
<1>0. /\ idx.jobs \in Tables /\ idx.seq \in Nat /\ idx.orphans \in Nat
      /\ idx.ready \in Finite(ReadyEntries) /\ idx.scheduled \in Finite(ScheduledEntries)
      /\ idx.leases \in Finite(LeaseEntries)
  BY DEF Indexes
<1>1. CASE rec.type = "ENQUEUE"
  <2> DEFINE job == FromDict(rec)
  <2>1. job \in Job /\ job \in JobFields /\ rec.id \in JobId /\ HeldWhenLeased(job)
    BY <1>1, RecordFacts DEF Job, JobFields
  <2>2. job.seq = rec.seq
    BY DEF FromDict
  <2>3. rec.seq \in Nat
    BY <2>1, <2>2 DEF JobFields
  <2> HIDE DEF job
  <2>4. Put(idx.jobs, rec.id, job) \in Tables
    BY <1>0, <2>1, PutType
  <2>5. idx.scheduled \cup (IF Waits(job) THEN {ScheduledEntry(rec.id, job)} ELSE {})
          \in Finite(ScheduledEntries)
    BY <1>0, <2>1, EntryTypes, FinitePushes
  <2>6. idx.leases \cup (IF TimesOut(job) THEN {LeaseEntry(rec.id, job)} ELSE {})
          \in Finite(LeaseEntries)
    BY <1>0, <2>1, EntryTypes, FinitePushes DEF TimesOut
  <2> QED
    BY <1>0, <1>1, <2>3, <2>4, <2>5, <2>6, ApplyEnqueueIs DEF Indexes, job
<1>2. CASE rec.type = "PURGE"
  <2>1. EmptyIndex.jobs = <<>> /\ EmptyIndex \in Indexes
    BY EmptyFacts DEF EmptyIndex
  <2>2. <<>> \in Tables
    BY <2>1 DEF Indexes
  <2>3. {} \in Finite(ReadyEntries) /\ {} \in Finite(ScheduledEntries) /\ {} \in Finite(LeaseEntries)
    BY <1>0, FinitePushes
  <2>4. out = [jobs |-> <<>>, seq |-> idx.seq, orphans |-> idx.orphans,
               ready |-> {}, scheduled |-> {}, leases |-> {}]
    BY <1>2, ApplyPurgeIs
  <2> HIDE DEF out
  <2>5. out \in Indexes
    BY <1>0, <2>2, <2>3, <2>4 DEF Indexes
  <2> QED
    BY <2>5 DEF out
<1>3. CASE NamesJob(rec) /\ rec.id \in DOMAIN idx.jobs
  <2> DEFINE job == Changed(idx.jobs[rec.id], rec)
  <2>1. idx.jobs[rec.id] \in Job /\ rec.id \in JobId
    BY <1>3, JobsType
  <2>2. job \in Job
    BY <1>3, <2>1, ChangedType
  <2>3. job \in JobFields /\ HeldWhenLeased(job)
    BY <2>2 DEF Job, JobFields
  <2> HIDE DEF job
  <2>4. Put(idx.jobs, rec.id, job) \in Tables
    BY <1>0, <2>1, <2>2, PutType
  <2>5. idx.scheduled \cup PushedWaiting(rec.id, job, rec) \in Finite(ScheduledEntries)
    BY <1>0, <2>1, <2>3, EntryTypes, FinitePushes DEF PushedWaiting
  <2>6. idx.leases \cup PushedLease(rec.id, job, rec) \in Finite(LeaseEntries)
    BY <1>0, <2>1, <2>3, EntryTypes, FinitePushes DEF PushedLease, HeldWhenLeased
  <2> QED
    BY <1>0, <1>3, <2>4, <2>5, <2>6, ApplyNamed DEF Indexes, job
<1>4. CASE NamesJob(rec) /\ rec.id \notin DOMAIN idx.jobs
  BY <1>4, ApplyOrphan DEF Indexes
<1> QED
  BY <1>1, <1>2, <1>3, <1>4 DEF NamesJob

LEMMA ReplayType ==
  ASSUME NEW idx \in Indexes, NEW recs \in Seq(Record)
  PROVE  /\ Replay(idx, recs) \in Indexes
         /\ \A n \in 0..Len(recs) : Replay(idx, SubSeq(recs, 1, n)) \in Indexes
  BY ApplyType, ReplayPreserves

-----------------------------------------------------------------------------
(***************************************************************************)
(* Two indexes that mirror each other go on doing so.                      *)
(***************************************************************************)
\* The same job, but for its version.
SameJob(a, b) ==
  /\ a.priority = b.priority /\ a.state = b.state /\ a.attempts = b.attempts
  /\ a.max_attempts = b.max_attempts /\ a.available_at = b.available_at
  /\ a.lease_deadline = b.lease_deadline /\ a.lease_token = b.lease_token /\ a.seq = b.seq

LEMMA UnversionedIs ==
  ASSUME NEW a \in JobFields, NEW b \in JobFields
  PROVE  Unversioned(a) = Unversioned(b) <=> SameJob(a, b)
<1>1. ASSUME NEW j \in JobFields
      PROVE  Unversioned(j) = [priority |-> j.priority, state |-> j.state, attempts |-> j.attempts,
               max_attempts |-> j.max_attempts, available_at |-> j.available_at,
               lease_deadline |-> j.lease_deadline, lease_token |-> j.lease_token, seq |-> j.seq,
               version |-> 0]
  BY DEF JobFields, Unversioned
<1>2. ASSUME SameJob(a, b) PROVE Unversioned(a) = Unversioned(b)
  BY <1>1, <1>2 DEF SameJob
<1>3. ASSUME Unversioned(a) = Unversioned(b) PROVE SameJob(a, b)
  BY <1>1, <1>3 DEF SameJob
<1> QED
  BY <1>2, <1>3

LEMMA ChangedAlike ==
  ASSUME NEW a \in Job, NEW b \in Job, Unversioned(a) = Unversioned(b),
         NEW rec \in Record, NamesJob(rec)
  PROVE  Unversioned(Changed(a, rec)) = Unversioned(Changed(b, rec))
<1> DEFINE c == Changed(a, rec)  d == Changed(b, rec)
<1>t. rec.type \in {"LEASE", "EXTEND", "ACK", "NACK", "RECLAIM", "DEAD", "REQUEUE"}
  BY RecordFacts DEF NamesJob, RecordTypes
<1>1. a \in JobFields /\ b \in JobFields /\ c \in JobFields /\ d \in JobFields
  BY ChangedFields DEF Job, JobFields
<1>2. SameJob(a, b)
  BY <1>1, UnversionedIs
<1>3. /\ c.priority = a.priority /\ c.max_attempts = a.max_attempts /\ c.seq = a.seq
      /\ d.priority = b.priority /\ d.max_attempts = b.max_attempts /\ d.seq = b.seq
  BY ChangedFields
<1>4. SameJob(c, d)
  <2>1. CASE rec.type = "LEASE"
    <3>1. /\ Has(c, "LEASED", rec.attempts, a.available_at, rec.deadline, rec.token)
          /\ Has(d, "LEASED", rec.attempts, b.available_at, rec.deadline, rec.token)
      BY <2>1, ChangedFields
    <3> QED
      BY <1>2, <1>3, <3>1 DEF Has, SameJob
  <2>2. CASE rec.type = "EXTEND" /\ a.state = "LEASED"
    <3>1. b.state = "LEASED"
      BY <1>2, <2>2 DEF SameJob
    <3>2. /\ Has(c, "LEASED", a.attempts, a.available_at, rec.deadline, a.lease_token)
          /\ Has(d, "LEASED", b.attempts, b.available_at, rec.deadline, b.lease_token)
      BY <2>2, <3>1, ChangedFields
    <3> QED
      BY <1>2, <1>3, <3>2 DEF Has, SameJob
  <2>3. CASE rec.type = "EXTEND" /\ a.state # "LEASED"
    <3>1. b.state # "LEASED"
      BY <1>2, <2>3 DEF SameJob
    <3>2. c = a /\ d = b
      BY <2>3, <3>1, ChangedFields
    <3> QED
      BY <1>2, <3>2
  <2>4. CASE rec.type \in {"ACK", "DEAD"}
    <3>1. \E s : Has(c, s, a.attempts, a.available_at, None, None)
                 /\ Has(d, s, b.attempts, b.available_at, None, None)
      BY <2>4, ChangedFields
    <3> QED
      BY <1>2, <1>3, <3>1 DEF Has, SameJob
  <2>5. CASE rec.type = "NACK"
    <3>1. /\ Has(c, "READY", rec.attempts, rec.available_at, None, None)
          /\ Has(d, "READY", rec.attempts, rec.available_at, None, None)
      BY <2>5, ChangedFields
    <3> QED
      BY <1>2, <1>3, <3>1 DEF Has, SameJob
  <2>6. CASE rec.type = "RECLAIM"
    <3>1. /\ Has(c, "READY", a.attempts, rec.available_at, None, None)
          /\ Has(d, "READY", b.attempts, rec.available_at, None, None)
      BY <2>6, ChangedFields
    <3> QED
      BY <1>2, <1>3, <3>1 DEF Has, SameJob
  <2>7. CASE rec.type = "REQUEUE"
    <3>1. /\ Has(c, "READY", 0, rec.available_at, None, None)
          /\ Has(d, "READY", 0, rec.available_at, None, None)
      BY <2>7, ChangedFields
    <3> QED
      BY <1>2, <1>3, <3>1 DEF Has, SameJob
  <2> QED
    BY <1>t, <2>1, <2>2, <2>3, <2>4, <2>5, <2>6, <2>7
<1> QED
  BY <1>1, <1>4, UnversionedIs

\* Indexes that mirror each other and met the same orphans.
Mirrored == {m \in Indexes \X Indexes : Mirrors(m[1], m[2]) /\ m[1].orphans = m[2].orphans}

LEMMA ApplyMirrors ==
  ASSUME NEW idx \in Indexes, NEW read \in Indexes, Mirrors(idx, read), NEW rec \in Record
  PROVE  Mirrors(Apply(idx, rec), Apply(read, rec))
<1> DEFINE i == Apply(idx, rec)  r == Apply(read, rec)
<1>0. /\ idx.seq \in Nat /\ read.seq \in Nat
      /\ DOMAIN idx.jobs = DOMAIN read.jobs /\ idx.seq >= read.seq
      /\ \A id \in DOMAIN read.jobs : Unversioned(idx.jobs[id]) = Unversioned(read.jobs[id])
  BY DEF Indexes, Mirrors
<1>1. CASE rec.type = "ENQUEUE"
  <2> DEFINE job == FromDict(rec)
  <2>1. i.jobs = Put(idx.jobs, rec.id, job) /\ r.jobs = Put(read.jobs, rec.id, job)
    BY <1>1, ApplyJobs
  <2>2. /\ i.seq = IF rec.seq > idx.seq THEN rec.seq ELSE idx.seq
        /\ r.seq = IF rec.seq > read.seq THEN rec.seq ELSE read.seq
    BY <1>1, ApplyJobs
  <2>3. rec.seq \in Nat
    BY <1>1, RecordFacts DEF FromDict, Job
  <2>4. i.seq >= r.seq
    BY <1>0, <2>2, <2>3
  <2> HIDE DEF job, i, r
  <2>5. \A id \in DOMAIN r.jobs : Unversioned(i.jobs[id]) = Unversioned(r.jobs[id])
    BY <1>0, <2>1 DEF Put
  <2>6. DOMAIN i.jobs = DOMAIN r.jobs
    BY <1>0, <2>1 DEF Put
  <2> QED
    BY <2>4, <2>5, <2>6 DEF Mirrors, i, r
<1>2. CASE rec.type = "PURGE"
  <2>1. DOMAIN i.jobs = {} /\ DOMAIN r.jobs = {} /\ i.seq = idx.seq /\ r.seq = read.seq
    BY <1>2, ApplyJobs
  <2> QED
    BY <1>0, <2>1 DEF Mirrors
<1>3. CASE NamesJob(rec) /\ rec.id \in DOMAIN idx.jobs
  <2> DEFINE a == Changed(idx.jobs[rec.id], rec)  b == Changed(read.jobs[rec.id], rec)
  <2>1. /\ i.jobs = Put(idx.jobs, rec.id, a) /\ i.seq = idx.seq
        /\ r.jobs = Put(read.jobs, rec.id, b) /\ r.seq = read.seq
    <3>1. rec.type # "ENQUEUE" /\ rec.id \in DOMAIN read.jobs
      BY <1>0, <1>3 DEF NamesJob
    <3> QED
      BY <1>3, <3>1, ApplyJobs
  <2>2. Unversioned(a) = Unversioned(b)
    BY <1>0, <1>3, ChangedAlike, JobsType
  <2> HIDE DEF a, b, i, r
  <2>3. \A id \in DOMAIN r.jobs : Unversioned(i.jobs[id]) = Unversioned(r.jobs[id])
    BY <1>0, <2>1, <2>2 DEF Put
  <2>4. DOMAIN i.jobs = DOMAIN r.jobs
    BY <1>0, <2>1 DEF Put
  <2> QED
    BY <1>0, <2>1, <2>3, <2>4 DEF Mirrors, i, r
<1>4. CASE NamesJob(rec) /\ rec.id \notin DOMAIN idx.jobs
  <2>1. i.jobs = idx.jobs /\ r.jobs = read.jobs /\ i.seq = idx.seq /\ r.seq = read.seq
    BY <1>0, <1>4, ApplyJobs DEF NamesJob
  <2> QED
    BY <1>0, <2>1 DEF Mirrors
<1> QED
  BY <1>1, <1>2, <1>3, <1>4 DEF NamesJob

LEMMA ApplyOrphans ==
  ASSUME NEW idx \in Indexes, NEW read \in Indexes, DOMAIN idx.jobs = DOMAIN read.jobs,
         idx.orphans = read.orphans, NEW rec \in Record
  PROVE  Apply(idx, rec).orphans = Apply(read, rec).orphans
<1>1. CASE rec.type \in {"ENQUEUE", "PURGE"}
  BY <1>1, ApplyJobs
<1>2. CASE NamesJob(rec) /\ rec.id \in DOMAIN idx.jobs
  BY <1>2, ApplyJobs
<1>3. CASE NamesJob(rec) /\ rec.id \notin DOMAIN idx.jobs
  BY <1>3, ApplyJobs
<1> QED
  BY <1>1, <1>2, <1>3 DEF NamesJob

LEMMA ReplayMirrors ==
  ASSUME NEW idx \in Indexes, NEW read \in Indexes, Mirrors(idx, read),
         idx.orphans = read.orphans, NEW recs \in Seq(Record)
  PROVE  /\ Mirrors(Replay(idx, recs), Replay(read, recs))
         /\ Replay(idx, recs).orphans = Replay(read, recs).orphans
<1>1. <<idx, read>> \in Mirrored
  BY DEF Mirrored
<1>2. ASSUME NEW i, NEW j, NEW rec \in Record, <<i, j>> \in Mirrored
      PROVE  <<Apply(i, rec), Apply(j, rec)>> \in Mirrored
  <2>1. i \in Indexes /\ j \in Indexes /\ Mirrors(i, j) /\ i.orphans = j.orphans
    BY <1>2 DEF Mirrored
  <2>2. DOMAIN i.jobs = DOMAIN j.jobs
    BY <2>1 DEF Mirrors
  <2>3. /\ Apply(i, rec) \in Indexes /\ Apply(j, rec) \in Indexes
        /\ Mirrors(Apply(i, rec), Apply(j, rec))
        /\ Apply(i, rec).orphans = Apply(j, rec).orphans
    BY <2>1, <2>2, ApplyType, ApplyMirrors, ApplyOrphans
  <2> QED
    BY <2>3 DEF Mirrored
<1>3. <<Replay(idx, recs), Replay(read, recs)>> \in Mirrored
  BY <1>1, <1>2, ReplayRelates
<1> QED
  BY <1>3 DEF Mirrored

LEMMA MirrorsItself ==
  ASSUME NEW idx \in Indexes PROVE Mirrors(idx, idx)
  BY DEF Mirrors, Indexes

-----------------------------------------------------------------------------
(***************************************************************************)
(* Sound logs: the records a process appends to one leave it sound,        *)
(* wherever the batch is cut.                                              *)
(***************************************************************************)
LEMMA SoundNamed ==
  ASSUME NEW read \in Indexes, Sound(read), NEW rec \in Record, NamesJob(rec),
         rec.id \in DOMAIN read.jobs
  PROVE  Sound(Apply(read, rec)) /\ DOMAIN Apply(read, rec).jobs = DOMAIN read.jobs
<1> DEFINE out == Apply(read, rec)  job == Changed(read.jobs[rec.id], rec)
<1>1. out.jobs = Put(read.jobs, rec.id, job) /\ out.orphans = read.orphans /\ out.seq = read.seq
  BY ApplyJobs DEF NamesJob
<1>2. job.seq = read.jobs[rec.id].seq
  BY JobsType, ChangedFields
<1> HIDE DEF out, job
<1>3. DOMAIN out.jobs = DOMAIN read.jobs
  BY <1>1 DEF Put
<1>4. \A id \in DOMAIN read.jobs : out.jobs[id].seq = read.jobs[id].seq
  BY <1>1, <1>2 DEF Put
<1>5. DistinctSeqs(out.jobs)
  BY <1>3, <1>4 DEF Sound, DistinctSeqs
<1>6. \A id \in DOMAIN out.jobs : out.jobs[id].seq <= out.seq
  BY <1>1, <1>3, <1>4 DEF Sound
<1> QED
  BY <1>1, <1>3, <1>5, <1>6 DEF Sound, out

LEMMA SoundEnqueue ==
  ASSUME NEW read \in Indexes, Sound(read), NEW rec \in Record, rec.type = "ENQUEUE",
         rec.seq > read.seq
  PROVE  Sound(Apply(read, rec)) /\ Apply(read, rec).seq = rec.seq
<1> DEFINE out == Apply(read, rec)  job == FromDict(rec)
<1>1. out.jobs = Put(read.jobs, rec.id, job) /\ out.orphans = read.orphans /\ out.seq = rec.seq
  BY ApplyJobs
<1>2. job.seq = rec.seq
  BY DEF FromDict
<1>3. rec.seq \in Nat /\ read.seq \in Nat
  BY <1>2, RecordFacts DEF Job, Indexes
<1>4. \A id \in DOMAIN read.jobs : read.jobs[id].seq \in Nat /\ read.jobs[id].seq <= read.seq
  BY JobsType DEF Job, Sound
<1> HIDE DEF out, job
<1>5. \A id \in DOMAIN out.jobs : \/ id = rec.id /\ out.jobs[id].seq = rec.seq
                                  \/ id \in DOMAIN read.jobs /\ out.jobs[id] = read.jobs[id]
  BY <1>1, <1>2 DEF Put
<1>6. DistinctSeqs(out.jobs)
  BY <1>3, <1>4, <1>5 DEF Sound, DistinctSeqs
<1>7. \A id \in DOMAIN out.jobs : out.jobs[id].seq <= out.seq
  BY <1>1, <1>3, <1>4, <1>5
<1> QED
  BY <1>1, <1>6, <1>7 DEF Sound, out

LEMMA SoundPurge ==
  ASSUME NEW read \in Indexes, Sound(read), NEW rec \in Record, rec.type = "PURGE"
  PROVE  Sound(Apply(read, rec))
<1>1. DOMAIN Apply(read, rec).jobs = {} /\ Apply(read, rec).orphans = read.orphans
  BY ApplyJobs
<1> QED
  BY <1>1 DEF Sound, DistinctSeqs

\* The batches operations write: about known jobs, of new ones, or a purge.
Fits(read, recs) ==
  \/ \A k \in 1..Len(recs) : NamesJob(recs[k]) /\ recs[k].id \in DOMAIN read.jobs
  \/ \E base \in Nat : /\ base >= read.seq
                       /\ \A k \in 1..Len(recs) : recs[k].type = "ENQUEUE" /\ recs[k].seq = base + k
  \/ \A k \in 1..Len(recs) : recs[k].type = "PURGE"

LEMMA BatchSound ==
  ASSUME NEW read \in Indexes, Sound(read), NEW recs \in Seq(Record), Fits(read, recs)
  PROVE  \A n \in 0..Len(recs) : Sound(Replay(read, SubSeq(recs, 1, n)))
<1> DEFINE after(n) == Replay(read, SubSeq(recs, 1, n))
<1>p. /\ Len(recs) \in Nat /\ SubSeq(recs, 1, 0) = <<>>
      /\ \A n \in 1..Len(recs) : recs[n] \in Record
  BY PrefixFacts
<1>0. /\ Len(recs) \in Nat /\ after(0) = read /\ 0 \in 0..Len(recs)
      /\ \A n \in 1..Len(recs) : recs[n] \in Record
  <2>1. after(0) = Replay(read, <<>>)
    BY <1>p
  <2> QED
    BY <1>p, <2>1, ReplayNothing
<1>1. \A n \in 0..Len(recs) : after(n) \in Indexes
  BY ReplayType
<1>2. \A n \in 0..(Len(recs) - 1) : after(n + 1) = Apply(after(n), recs[n + 1])
  BY ReplayNext
<1> HIDE DEF after
<1>3. CASE \A k \in 1..Len(recs) : NamesJob(recs[k]) /\ recs[k].id \in DOMAIN read.jobs
  <2> DEFINE T == {n \in Nat : Sound(after(n)) /\ DOMAIN after(n).jobs = DOMAIN read.jobs}
  <2>1. 0 \in T
    BY <1>0
  <2>2. ASSUME NEW n \in 0..(Len(recs) - 1), n \in T PROVE n + 1 \in T
    <3>1. n + 1 \in 1..Len(recs) /\ n + 1 \in Nat /\ n \in 0..Len(recs)
      BY <1>0
    <3>2. /\ after(n) \in Indexes /\ recs[n + 1] \in Record /\ NamesJob(recs[n + 1])
          /\ recs[n + 1].id \in DOMAIN after(n).jobs
      BY <1>0, <1>1, <1>3, <2>2, <3>1
    <3>3. /\ Sound(Apply(after(n), recs[n + 1]))
          /\ DOMAIN Apply(after(n), recs[n + 1]).jobs = DOMAIN after(n).jobs
      BY <2>2, <3>2, SoundNamed
    <3> QED
      BY <1>2, <2>2, <3>1, <3>3
  <2> HIDE DEF T
  <2>3. 0..Len(recs) \subseteq T
    BY <1>0, <2>1, <2>2, UpToInduction
  <2> QED
    BY <2>3 DEF T, after
<1>4. CASE \E base \in Nat :
             /\ base >= read.seq
             /\ \A k \in 1..Len(recs) : recs[k].type = "ENQUEUE" /\ recs[k].seq = base + k
  <2> PICK base \in Nat :
             /\ base >= read.seq
             /\ \A k \in 1..Len(recs) : recs[k].type = "ENQUEUE" /\ recs[k].seq = base + k
    BY <1>4
  <2> DEFINE T == {n \in Nat : Sound(after(n)) /\ after(n).seq <= base + n}
  <2>1. 0 \in T
    BY <1>0 DEF Indexes
  <2>2. ASSUME NEW n \in 0..(Len(recs) - 1), n \in T PROVE n + 1 \in T
    <3>1. n + 1 \in 1..Len(recs) /\ n + 1 \in Nat /\ n \in 0..Len(recs)
      BY <1>0
    <3>2. /\ after(n) \in Indexes /\ recs[n + 1] \in Record /\ recs[n + 1].type = "ENQUEUE"
          /\ recs[n + 1].seq = base + (n + 1) /\ after(n).seq \in Nat
      BY <1>0, <1>1, <3>1 DEF Indexes
    <3>3. recs[n + 1].seq > after(n).seq
      BY <2>2, <3>2
    <3>4. /\ Sound(Apply(after(n), recs[n + 1]))
          /\ Apply(after(n), recs[n + 1]).seq = recs[n + 1].seq
      BY <2>2, <3>2, <3>3, SoundEnqueue
    <3> QED
      BY <1>2, <3>1, <3>2, <3>4
  <2> HIDE DEF T
  <2>3. 0..Len(recs) \subseteq T
    BY <1>0, <2>1, <2>2, UpToInduction
  <2> QED
    BY <2>3 DEF T, after
<1>5. CASE \A k \in 1..Len(recs) : recs[k].type = "PURGE"
  <2> DEFINE T == {n \in Nat : Sound(after(n))}
  <2>1. 0 \in T
    BY <1>0
  <2>2. ASSUME NEW n \in 0..(Len(recs) - 1), n \in T PROVE n + 1 \in T
    <3>1. n + 1 \in 1..Len(recs) /\ n + 1 \in Nat /\ n \in 0..Len(recs)
      BY <1>0
    <3>2. after(n) \in Indexes /\ recs[n + 1] \in Record /\ recs[n + 1].type = "PURGE"
      BY <1>0, <1>1, <1>5, <3>1
    <3>3. Sound(Apply(after(n), recs[n + 1]))
      BY <2>2, <3>2, SoundPurge
    <3> QED
      BY <1>2, <3>1, <3>3
  <2> HIDE DEF T
  <2>3. 0..Len(recs) \subseteq T
    BY <1>0, <2>1, <2>2, UpToInduction
  <2> QED
    BY <2>3 DEF T, after
<1> QED
  BY <1>3, <1>4, <1>5 DEF Fits

-----------------------------------------------------------------------------
(***************************************************************************)
(* Heaps come and go, the jobs stay.                                       *)
(***************************************************************************)
SameJobs(a, b) == a.jobs = b.jobs /\ a.seq = b.seq /\ a.orphans = b.orphans

LEMMA SetHeap ==
  ASSUME NEW idx \in Indexes
  PROVE  /\ \A r \in Finite(ReadyEntries) : [idx EXCEPT !.ready = r] \in Indexes
         /\ \A s \in Finite(ScheduledEntries) : [idx EXCEPT !.scheduled = s] \in Indexes
         /\ \A l \in Finite(LeaseEntries) : [idx EXCEPT !.leases = l] \in Indexes
         /\ \A n \in Nat : [idx EXCEPT !.seq = n] \in Indexes
<1>1. \A r \in Finite(ReadyEntries) : [idx EXCEPT !.ready = r] \in Indexes
  BY DEF Indexes
<1>2. \A s \in Finite(ScheduledEntries) : [idx EXCEPT !.scheduled = s] \in Indexes
  BY DEF Indexes
<1>3. \A l \in Finite(LeaseEntries) : [idx EXCEPT !.leases = l] \in Indexes
  BY DEF Indexes
<1>4. \A n \in Nat : [idx EXCEPT !.seq = n] \in Indexes
  BY DEF Indexes
<1> QED
  BY <1>1, <1>2, <1>3, <1>4

\* out is idx with these two heaps.
WithHeaps(out, idx, r, s) ==
  \/ out = [idx EXCEPT !.ready = r, !.scheduled = s]
  \/ out = [idx EXCEPT !.scheduled = s, !.ready = r]

LEMMA SetTwoHeaps ==
  ASSUME NEW idx \in Indexes, NEW r \in Finite(ReadyEntries), NEW s \in Finite(ScheduledEntries),
         NEW out, WithHeaps(out, idx, r, s)
  PROVE  /\ out \in Indexes /\ SameJobs(out, idx)
         /\ out.ready = r /\ out.scheduled = s /\ out.leases = idx.leases
<1> DEFINE a == [idx EXCEPT !.ready = r]  b == [idx EXCEPT !.scheduled = s]
<1>1. out = [a EXCEPT !.scheduled = s] \/ out = [b EXCEPT !.ready = r]
  BY DEF WithHeaps
<1>2. a \in Indexes /\ b \in Indexes
  BY SetHeap
<1>3. SameJobs(out, idx) /\ out.ready = r /\ out.scheduled = s /\ out.leases = idx.leases
  BY <1>1 DEF SameJobs, Indexes
<1> HIDE DEF a, b
<1>4. out \in Indexes
  BY <1>1, <1>2, SetHeap
<1> QED
  BY <1>3, <1>4

\* A set of entries that stand for some finite set.
LEMMA FiniteImage ==
  ASSUME NEW S, NEW T, NEW f, IsFiniteSet(T), \A x \in T : f[x] \in S
  PROVE  {f[x] : x \in T} \in Finite(S)
<1> DEFINE image == {f[x] : x \in T}  g == [x \in T |-> f[x]]
<1>1. g \in Surjection(T, image)
  BY DEF Surjection
<1> HIDE DEF g, image
<1>2. IsFiniteSet(image)
  BY <1>1, FS_Surjection
<1> QED
  BY <1>2 DEF Finite, image

LEMMA PromoteFacts ==
  ASSUME NEW idx \in Indexes, NEW time
  PROVE  LET out == Promote(idx, time) IN
         /\ out \in Indexes /\ SameJobs(out, idx) /\ out.leases = idx.leases
         /\ out.scheduled = {e \in idx.scheduled : ~(e.at <= time)}
         /\ \A e \in idx.ready : e \in out.ready
         /\ \A e \in out.ready : \/ e \in idx.ready
                                 \/ \E d \in idx.scheduled :
                                      /\ d.at <= time /\ Current(idx, d, "READY")
                                      /\ e.id = d.id /\ e.version = d.version
         /\ \A d \in idx.scheduled : d.at <= time /\ Current(idx, d, "READY") =>
              \E e \in out.ready : e.id = d.id /\ e.version = d.version
<1> DEFINE due == {e \in idx.scheduled : e.at <= time}
           now2 == {d \in due : Current(idx, d, "READY")}
           entry == [e \in now2 |->
                       [priority |-> idx.jobs[e.id].priority, at |-> e.at, seq |-> e.seq,
                        version |-> e.version, id |-> e.id]]
           pushed == {entry[e] : e \in now2}
           out == Promote(idx, time)
<1>1. idx.scheduled \in Finite(ScheduledEntries) /\ idx.ready \in Finite(ReadyEntries)
  BY DEF Indexes
<1>2. IsFiniteSet(now2) /\ \A e \in now2 : entry[e] \in ReadyEntries
  <2>1. IsFiniteSet(now2)
    BY <1>1, FS_Subset DEF Finite
  <2>2. ASSUME NEW e \in now2 PROVE entry[e] \in ReadyEntries
    <3>1. e \in ScheduledEntries /\ e.id \in DOMAIN idx.jobs
      BY <1>1 DEF Finite, Current
    <3>2. idx.jobs[e.id].priority \in Int
      BY <3>1, JobsType DEF Job
    <3> QED
      BY <3>1, <3>2 DEF ScheduledEntries, ReadyEntries
  <2> QED
    BY <2>1, <2>2
<1>3. pushed \in Finite(ReadyEntries)
  <2> HIDE DEF entry, now2
  <2> QED
    BY <1>2, FiniteImage
<1>4. out = [idx EXCEPT !.scheduled = idx.scheduled \ due, !.ready = idx.ready \cup pushed]
  BY DEF Promote
<1>5. idx.scheduled \ due \in Finite(ScheduledEntries) /\ idx.ready \cup pushed \in Finite(ReadyEntries)
  <2> HIDE DEF pushed
  <2> QED
    BY <1>1, <1>3, FinitePushes
<1>6. /\ out \in Indexes /\ SameJobs(out, idx) /\ out.leases = idx.leases
      /\ out.scheduled = idx.scheduled \ due /\ out.ready = idx.ready \cup pushed
  <2> DEFINE s == idx.scheduled \ due  r == idx.ready \cup pushed
  <2>1. s \in Finite(ScheduledEntries) /\ r \in Finite(ReadyEntries)
        /\ WithHeaps(out, idx, r, s)
    BY <1>4, <1>5 DEF WithHeaps
  <2> HIDE DEF pushed, due, out, r, s
  <2>2. out \in Indexes /\ SameJobs(out, idx) /\ out.leases = idx.leases
        /\ out.scheduled = s /\ out.ready = r
    BY <2>1, SetTwoHeaps
  <2> QED
    BY <2>2 DEF r, s
<1>7. \A d \in now2 : entry[d] \in pushed /\ entry[d].id = d.id /\ entry[d].version = d.version
  OBVIOUS
<1>8. \A e \in pushed : \E d \in now2 : e.id = d.id /\ e.version = d.version
  <2> HIDE DEF entry, now2
  <2> QED
    BY <1>7
<1> HIDE DEF pushed, entry, out
<1> QED
  BY <1>6, <1>7, <1>8 DEF out

\* The order of the ready heap has a first entry in every finite set of them.
LEMMA BestExists ==
  ASSUME NEW S \in Finite(ReadyEntries), S # {}
  PROVE  \E e \in S : \A f \in S : ~Precedes(f, e)
<1> DEFINE R == {ef \in ReadyEntries \X ReadyEntries : Precedes(ef[1], ef[2])}
<1>0. /\ IsFiniteSet(S) /\ S \subseteq ReadyEntries
      /\ \A e \in ReadyEntries : e.priority \in Int /\ e.at \in Nat /\ e.seq \in Nat /\ e.version \in Nat
  BY DEF Finite, ReadyEntries
<1>1. \A x, y \in S : <<x, y>> \in R <=> Precedes(x, y)
  BY <1>0
<1>2. \A x \in S : <<x, x>> \notin R
  BY <1>0, <1>1 DEF Precedes
<1>3. \A x, y, z \in S : <<x, y>> \in R /\ <<y, z>> \in R => <<x, z>> \in R
  BY <1>0, <1>1 DEF Precedes
<1> HIDE DEF R
<1>4. \E x \in S : \A y \in S : <<y, x>> \notin R
  BY <1>0, <1>2, <1>3, MinimalElement
<1> QED
  BY <1>1, <1>4

\* The job popped, if any, is one that waits.
LEMMA NextReadyFacts ==
  ASSUME NEW idx \in Indexes, NEW time
  PROVE  LET next == NextReady(idx, time) IN
         /\ next.idx \in Indexes /\ SameJobs(next.idx, idx) /\ next.idx.leases = idx.leases
         /\ \/ next.ids = <<>>
            \/ \E id \in DOMAIN idx.jobs :
                 next.ids = <<id>> /\ idx.jobs[id].state = "READY" /\ idx.jobs[id].available_at <= time
<1> DEFINE next     == NextReady(idx, time)
           mid      == Promote(idx, time)
           valid    == {e \in mid.ready : Current(mid, e, "READY")}
           eligible == {e \in valid : mid.jobs[e.id].available_at <= time}
           later    == valid \ eligible
           sentBack(popped) == {ScheduledEntry(e.id, mid.jobs[e.id]) : e \in popped \cap later}
           best == CHOOSE e \in eligible : \A f \in eligible : ~Precedes(f, e)
           popped1 == {e \in mid.ready : e = best \/ Precedes(e, best)}
<1>1. mid \in Indexes /\ SameJobs(mid, idx) /\ mid.leases = idx.leases
  BY PromoteFacts
<1> HIDE DEF mid
<1>2. /\ mid.ready \in Finite(ReadyEntries) /\ mid.scheduled \in Finite(ScheduledEntries)
      /\ valid \in Finite(ReadyEntries) /\ eligible \in Finite(ReadyEntries)
  <2>1. mid.ready \in Finite(ReadyEntries) /\ mid.scheduled \in Finite(ScheduledEntries)
    BY <1>1 DEF Indexes
  <2>2. valid \in SUBSET mid.ready /\ eligible \in SUBSET mid.ready
    OBVIOUS
  <2> HIDE DEF valid, eligible
  <2> QED
    BY <2>1, <2>2, FinitePushes
<1>3. \A popped : sentBack(popped) \in Finite(ScheduledEntries)
  <2> TAKE popped
  <2> DEFINE T == popped \cap later
             entry == [e \in T |-> ScheduledEntry(e.id, mid.jobs[e.id])]
  <2>1. IsFiniteSet(T)
    <3>1. T \subseteq valid
      OBVIOUS
    <3> HIDE DEF T
    <3> QED
      BY <1>2, <3>1, FS_Subset DEF Finite
  <2>2. \A e \in T : entry[e] \in ScheduledEntries
    <3> TAKE e \in T
    <3>1. e.id \in DOMAIN mid.jobs
      BY DEF Current
    <3>2. e.id \in JobId /\ mid.jobs[e.id] \in JobFields
      BY <1>1, <3>1, JobsType DEF Job, JobFields
    <3>3. ScheduledEntry(e.id, mid.jobs[e.id]) \in ScheduledEntries
      BY <3>2, EntryTypes
    <3> QED
      BY <3>3
  <2>3. sentBack(popped) = {entry[e] : e \in T}
    OBVIOUS
  <2> HIDE DEF T, entry, sentBack
  <2> QED
    BY <2>1, <2>2, <2>3, FiniteImage
<1>4. CASE eligible = {}
  <2> DEFINE r == {}  s == mid.scheduled \cup sentBack(later)
  <2>1. next = [ids |-> <<>>, idx |-> [mid EXCEPT !.ready = r, !.scheduled = s]]
    BY <1>4 DEF NextReady, mid
  <2>2. r \in Finite(ReadyEntries) /\ s \in Finite(ScheduledEntries)
    <3> HIDE DEF sentBack, later
    <3> QED
      BY <1>2, <1>3, FinitePushes
  <2> HIDE DEF r, s
  <2>3. WithHeaps(next.idx, mid, r, s) /\ next.ids = <<>>
    BY <2>1 DEF WithHeaps
  <2>4. next.idx \in Indexes /\ SameJobs(next.idx, mid) /\ next.idx.leases = mid.leases
    <3> HIDE DEF next
    <3> QED
      BY <1>1, <2>2, <2>3, SetTwoHeaps
  <2> QED
    BY <1>1, <2>3, <2>4 DEF SameJobs
<1>5. CASE eligible # {}
  <2> DEFINE r == mid.ready \ popped1  s == mid.scheduled \cup sentBack(popped1)
  <2>1. next = [ids |-> <<best.id>>, idx |-> [mid EXCEPT !.ready = r, !.scheduled = s]]
    BY <1>5 DEF NextReady, mid
  <2>2. r \in Finite(ReadyEntries) /\ s \in Finite(ScheduledEntries)
    <3>1. r \in SUBSET mid.ready
      OBVIOUS
    <3> HIDE DEF sentBack, r, popped1
    <3> QED
      BY <1>2, <1>3, <3>1, FinitePushes
  <2>3. best \in eligible
    <3> HIDE DEF eligible
    <3> QED
      BY <1>2, <1>5, BestExists
  <2>4. /\ best.id \in DOMAIN idx.jobs /\ idx.jobs[best.id].state = "READY"
        /\ idx.jobs[best.id].available_at <= time
    <3> HIDE DEF best
    <3> QED
      BY <1>1, <2>3 DEF Current, SameJobs
  <2> HIDE DEF r, s, best
  <2>5. WithHeaps(next.idx, mid, r, s) /\ next.ids = <<best.id>>
    BY <2>1 DEF WithHeaps
  <2>6. next.idx \in Indexes /\ SameJobs(next.idx, mid) /\ next.idx.leases = mid.leases
    <3> HIDE DEF next
    <3> QED
      BY <1>1, <2>2, <2>5, SetTwoHeaps
  <2> QED
    BY <1>1, <2>4, <2>5, <2>6 DEF SameJobs
<1> QED
  BY <1>4, <1>5

\* f[n] is what n calls of next_ready leave.
IsTaking(f, idx, n) ==
  f = [k \in 0..n |-> IF k = 0 THEN [ids |-> <<>>, idx |-> idx] ELSE TakeOne(f[k - 1])]

LEMMA TakingExists ==
  ASSUME NEW idx, NEW N \in Nat
  PROVE  \E f : IsTaking(f, idx, N)
<1> DEFINE T == {n \in Nat : \E f : IsTaking(f, idx, n)}
<1>1. 0 \in T
  <2>1. IsTaking([k \in 0..0 |-> [ids |-> <<>>, idx |-> idx]], idx, 0)
    BY DEF IsTaking
  <2> QED
    BY <2>1
<1>2. ASSUME NEW n \in Nat, n \in T PROVE n + 1 \in T
  <2>1. PICK f : IsTaking(f, idx, n)
    BY <1>2
  <2> DEFINE g == [k \in 0..(n + 1) |-> IF k = n + 1 THEN TakeOne(f[n]) ELSE f[k]]
             h == [k \in 0..(n + 1) |-> IF k = 0 THEN [ids |-> <<>>, idx |-> idx]
                                        ELSE TakeOne(g[k - 1])]
  <2>2. ASSUME NEW k \in 0..(n + 1) PROVE g[k] = h[k]
    <3>1. CASE k = n + 1
      BY <3>1
    <3>2. CASE k # n + 1
      <4>1. k \in 0..n /\ g[k] = f[k]
        BY <3>2
      <4>2. f[k] = IF k = 0 THEN [ids |-> <<>>, idx |-> idx] ELSE TakeOne(f[k - 1])
        BY <2>1, <4>1 DEF IsTaking
      <4> QED
        BY <3>2, <4>1, <4>2
    <3> QED
      BY <3>1, <3>2
  <2>3. g = h
    BY <2>2
  <2>4. IsTaking(g, idx, n + 1)
    BY <2>3 DEF IsTaking
  <2> QED
    BY <2>4
<1> HIDE DEF T
<1>3. Nat \subseteq T
  BY <1>1, <1>2, NatSetInduction
<1> QED
  BY <1>3 DEF T

LEMMA TakenIs ==
  ASSUME NEW idx, NEW count \in Nat
  PROVE  \E f : IsTaking(f, idx, count) /\ Taken(idx, count) = f[count]
<1> DEFINE nothing == [ids |-> <<>>, idx |-> idx]
           A(f) == [n \in 0..count |-> IF n = 0 THEN nothing
                                       ELSE The({TakeOne(so) : so \in {f[n - 1]}})]
           B(f) == [n \in 0..count |-> IF n = 0 THEN nothing ELSE TakeOne(f[n - 1])]
<1>1. ASSUME NEW f PROVE A(f) = B(f)
  <2>1. ASSUME NEW n \in 0..count PROVE A(f)[n] = B(f)[n]
    <3>1. {TakeOne(so) : so \in {f[n - 1]}} = {TakeOne(f[n - 1])}
      OBVIOUS
    <3> QED
      BY <3>1, TheSingleton
  <2> QED
    BY <2>1
<1>2. PICK g : IsTaking(g, idx, count)
  BY TakingExists
<1>3. g = A(g)
  <2>1. g = B(g)
    BY <1>2 DEF IsTaking
  <2> QED
    BY <1>1, <2>1
<1> DEFINE after == CHOOSE f : f = A(f)
<1>4. after = A(after) /\ Taken(idx, count) = after[count]
  BY <1>3 DEF Taken
<1>5. after = B(after)
  BY <1>1, <1>4
<1> QED
  BY <1>4, <1>5 DEF IsTaking

WaitingIds(idx) == {id \in DOMAIN idx.jobs : idx.jobs[id].state = "READY"}

\* What a lease takes are jobs that wait, and it takes them off the heaps only.
Takings(idx) ==
  {so \in [ids : Seq(WaitingIds(idx)), idx : Indexes] :
     SameJobs(so.idx, idx) /\ so.idx.leases = idx.leases}

LEMMA TakeOneFacts ==
  ASSUME NEW idx \in Indexes, NEW so \in Takings(idx)
  PROVE  TakeOne(so) \in Takings(idx)
<1> DEFINE next == NextReady(so.idx, now)
<1>1. TakeOne(so) = [ids |-> so.ids \o next.ids, idx |-> next.idx]
  <2>1. {[ids |-> so.ids \o n.ids, idx |-> n.idx] : n \in {next}} =
          {[ids |-> so.ids \o next.ids, idx |-> next.idx]}
    OBVIOUS
  <2> QED
    BY <2>1, TheSingleton DEF TakeOne
<1>2. so.idx \in Indexes /\ SameJobs(so.idx, idx) /\ so.ids \in Seq(WaitingIds(idx))
      /\ so.idx.leases = idx.leases
  BY DEF Takings
<1>3. /\ next.idx \in Indexes /\ SameJobs(next.idx, so.idx) /\ next.idx.leases = so.idx.leases
      /\ \/ next.ids = <<>>
         \/ \E id \in DOMAIN so.idx.jobs : next.ids = <<id>> /\ so.idx.jobs[id].state = "READY"
  BY <1>2, NextReadyFacts
<1> HIDE DEF next
<1>4. next.ids \in Seq(WaitingIds(idx))
  <2>1. CASE next.ids = <<>>
    BY <2>1
  <2>2. CASE \E id \in WaitingIds(idx) : next.ids = <<id>>
    BY <2>2
  <2> QED
    BY <1>2, <1>3, <2>1, <2>2 DEF WaitingIds, SameJobs
<1>5. so.ids \o next.ids \in Seq(WaitingIds(idx))
  BY <1>2, <1>4, ConcatProperties
<1>6. SameJobs(next.idx, idx) /\ next.idx.leases = idx.leases
  BY <1>2, <1>3 DEF SameJobs
<1> QED
  BY <1>1, <1>3, <1>5, <1>6 DEF Takings

LEMMA TakenFacts ==
  ASSUME NEW idx \in Indexes, NEW count \in Nat
  PROVE  Taken(idx, count) \in Takings(idx)
<1>1. PICK f : IsTaking(f, idx, count) /\ Taken(idx, count) = f[count]
  BY TakenIs
<1> DEFINE T == {n \in Nat : f[n] \in Takings(idx)}
<1>2. 0 \in T
  <2>1. f[0] = [ids |-> <<>>, idx |-> idx]
    BY <1>1 DEF IsTaking
  <2>2. <<>> \in Seq(WaitingIds(idx))
    OBVIOUS
  <2>3. f[0].idx = idx /\ f[0] \in [ids : Seq(WaitingIds(idx)), idx : Indexes]
    BY <2>1, <2>2
  <2> QED
    BY <2>3 DEF Takings, SameJobs
<1>3. ASSUME NEW n \in 0..(count - 1), n \in T PROVE n + 1 \in T
  <2>1. n + 1 \in 0..count /\ n + 1 # 0 /\ (n + 1) - 1 = n /\ n + 1 \in Nat
    OBVIOUS
  <2>2. f[n + 1] = TakeOne(f[(n + 1) - 1])
    BY <1>1, <2>1 DEF IsTaking
  <2>3. f[n + 1] = TakeOne(f[n])
    BY <2>1, <2>2
  <2> QED
    BY <1>3, <2>1, <2>3, TakeOneFacts
<1> HIDE DEF T
<1>4. 0..count \subseteq T
  BY <1>2, <1>3, UpToInduction
<1>5. count \in T
  BY <1>4
<1> QED
  BY <1>1, <1>5 DEF T

LEMMA WithoutLapsedFacts ==
  ASSUME NEW idx \in Indexes, NEW time
  PROVE  LET out == WithoutLapsed(idx, time) IN
         /\ out \in Indexes /\ SameJobs(out, idx) /\ out.leases = idx.leases \ Lapsed(idx, time)
         /\ out.ready = idx.ready /\ out.scheduled = idx.scheduled
<1> DEFINE l == idx.leases \ Lapsed(idx, time)
<1>1. l \in Finite(LeaseEntries)
  <2>1. l \in SUBSET idx.leases /\ idx.leases \in Finite(LeaseEntries)
    BY DEF Indexes
  <2> HIDE DEF l
  <2> QED
    BY <2>1, FinitePushes
<1>2. WithoutLapsed(idx, time) = [idx EXCEPT !.leases = l]
  BY DEF WithoutLapsed
<1> HIDE DEF l
<1>3. WithoutLapsed(idx, time) \in Indexes
  BY <1>1, <1>2, SetHeap
<1>4. /\ SameJobs(WithoutLapsed(idx, time), idx) /\ WithoutLapsed(idx, time).leases = l
      /\ WithoutLapsed(idx, time).ready = idx.ready
      /\ WithoutLapsed(idx, time).scheduled = idx.scheduled
  BY <1>2 DEF Indexes, SameJobs
<1> QED
  BY <1>3, <1>4 DEF l

\* The entries of some of the jobs.
LEMMA EntriesOf ==
  ASSUME NEW idx \in Indexes, NEW ids \in SUBSET DOMAIN idx.jobs
  PROVE  /\ {ScheduledEntry(id, idx.jobs[id]) : id \in ids} \in Finite(ScheduledEntries)
         /\ (\A id \in ids : idx.jobs[id].lease_deadline # None) =>
              {LeaseEntry(id, idx.jobs[id]) : id \in ids} \in Finite(LeaseEntries)
<1>1. IsFiniteSet(ids) /\ \A id \in ids : id \in JobId /\ idx.jobs[id] \in JobFields
  BY JobsType, FS_Subset DEF Finite, Job, JobFields
<1>2. {ScheduledEntry(id, idx.jobs[id]) : id \in ids} \in Finite(ScheduledEntries)
  <2> DEFINE entry == [id \in ids |-> ScheduledEntry(id, idx.jobs[id])]
  <2>1. \A id \in ids : entry[id] \in ScheduledEntries
    BY <1>1, EntryTypes
  <2>2. {ScheduledEntry(id, idx.jobs[id]) : id \in ids} = {entry[id] : id \in ids}
    OBVIOUS
  <2> HIDE DEF entry
  <2> QED
    BY <1>1, <2>1, <2>2, FiniteImage
<1>3. ASSUME \A id \in ids : idx.jobs[id].lease_deadline # None
      PROVE  {LeaseEntry(id, idx.jobs[id]) : id \in ids} \in Finite(LeaseEntries)
  <2> DEFINE entry == [id \in ids |-> LeaseEntry(id, idx.jobs[id])]
  <2>1. \A id \in ids : entry[id] \in LeaseEntries
    BY <1>1, <1>3, EntryTypes
  <2>2. {LeaseEntry(id, idx.jobs[id]) : id \in ids} = {entry[id] : id \in ids}
    OBVIOUS
  <2> HIDE DEF entry
  <2> QED
    BY <1>1, <2>1, <2>2, FiniteImage
<1> QED
  BY <1>2, <1>3

LEMMA RestoreFacts ==
  ASSUME NEW idx \in Indexes, NEW ids \in SUBSET DOMAIN idx.jobs
  PROVE  LET out == Restore(idx, ids) IN
         /\ out \in Indexes /\ SameJobs(out, idx) /\ out.ready = idx.ready
         /\ out.leases = idx.leases
         /\ out.scheduled = idx.scheduled \cup {ScheduledEntry(id, idx.jobs[id]) : id \in ids}
<1> DEFINE s == idx.scheduled \cup {ScheduledEntry(id, idx.jobs[id]) : id \in ids}
<1>1. s \in Finite(ScheduledEntries)
  BY EntriesOf, FinitePushes DEF Indexes
<1>2. Restore(idx, ids) = [idx EXCEPT !.scheduled = s]
  BY DEF Restore
<1> HIDE DEF s
<1>3. Restore(idx, ids) \in Indexes
  BY <1>1, <1>2, SetHeap
<1>4. /\ SameJobs(Restore(idx, ids), idx) /\ Restore(idx, ids).scheduled = s
      /\ Restore(idx, ids).ready = idx.ready /\ Restore(idx, ids).leases = idx.leases
  BY <1>2 DEF Indexes, SameJobs
<1> QED
  BY <1>3, <1>4 DEF s

\* The bijections from the first numbers are sequences without repetition.
LEMMA Arranged ==
  ASSUME NEW S, IsFiniteSet(S), NEW s \in Bijection(1..Cardinality(S), S)
  PROVE  /\ s \in Seq(S) /\ Len(s) = Cardinality(S) /\ ToSet(s) = S
         /\ \A i, j \in 1..Len(s) : i # j => s[i] # s[j]
<1>1. Cardinality(S) \in Nat
  BY FS_CardinalityType
<1>2. s \in [1..Cardinality(S) -> S]
  BY DEF Bijection, Injection
<1>3. s \in Seq(S) /\ Len(s) = Cardinality(S)
  BY <1>1, <1>2
<1>4. ToSet(s) = S
  BY <1>2 DEF ToSet, Bijection, Surjection
<1>5. \A i, j \in 1..Len(s) : i # j => s[i] # s[j]
  BY <1>3 DEF Bijection, Injection, IsInjective
<1> QED
  BY <1>3, <1>4, <1>5

LEMMA BySeqFacts ==
  ASSUME NEW idx, NEW ids, IsFiniteSet(ids), NEW order \in BySeq(idx, ids)
  PROVE  /\ order \in Seq(ids) /\ Len(order) = Cardinality(ids) /\ ToSet(order) = ids
         /\ \A i, j \in 1..Len(order) : i # j => order[i] # order[j]
<1>1. order \in Bijection(1..Cardinality(ids), ids)
  BY DEF BySeq, Orders
<1> QED
  BY <1>1, Arranged

LeasedIds(idx) == {id \in DOMAIN idx.jobs : idx.jobs[id].state = "LEASED"}

LEMMA ExpiredFacts ==
  ASSUME NEW idx \in Indexes, NEW time, NEW ids \in ExpiredLeases(idx, time)
  PROVE  /\ ids \in Seq(LeasedIds(idx))
         /\ \A e \in Lapsed(idx, time) : Current(idx, e, "LEASED") => e.id \in ToSet(ids)
<1> DEFINE entries == {e \in Lapsed(idx, time) : Current(idx, e, "LEASED")}
<1>1. PICK s \in Bijection(1..Cardinality(entries), entries) : ids = [i \in DOMAIN s |-> s[i].id]
  BY DEF ExpiredLeases, Orders
<1>2. IsFiniteSet(entries)
  <2>1. entries \subseteq idx.leases /\ IsFiniteSet(idx.leases)
    BY DEF Lapsed, Indexes, Finite
  <2> QED
    BY <2>1, FS_Subset
<1>3. \A e \in entries : e.id \in LeasedIds(idx)
  BY DEF Current, LeasedIds
<1> HIDE DEF entries
<1>4. s \in Seq(entries) /\ ToSet(s) = entries
  BY <1>1, <1>2, Arranged
<1>5. Len(s) \in Nat /\ \A i \in 1..Len(s) : s[i] \in entries /\ DOMAIN s = 1..Len(s)
  BY <1>4
<1>6. ids \in Seq(LeasedIds(idx)) /\ DOMAIN ids = DOMAIN s
  BY <1>1, <1>3, <1>4
<1>7. \A e \in entries : e.id \in ToSet(ids)
  BY <1>1, <1>4 DEF ToSet
<1> QED
  BY <1>6, <1>7 DEF entries

-----------------------------------------------------------------------------
(***************************************************************************)
(* Compaction: what the new log says is what the index holds.              *)
(***************************************************************************)
WithJobs(out, idx, jobs) == out = [idx EXCEPT !.jobs = jobs]

LEMMA SetJobs ==
  ASSUME NEW idx \in Indexes, NEW jobs \in Tables, NEW out, WithJobs(out, idx, jobs)
  PROVE  /\ out \in Indexes /\ out.jobs = jobs /\ out.seq = idx.seq /\ out.orphans = idx.orphans
         /\ out.ready = idx.ready /\ out.scheduled = idx.scheduled /\ out.leases = idx.leases
  BY DEF WithJobs, Indexes

LEMMA RebuildFacts ==
  ASSUME NEW idx \in Indexes
  PROVE  LET out == RebuildHeaps(idx)  jobs == idx.jobs IN
         /\ out \in Indexes /\ SameJobs(out, idx) /\ out.ready = {}
         /\ out.scheduled =
              {ScheduledEntry(id, jobs[id]) : id \in {i \in DOMAIN jobs : Waits(jobs[i])}}
         /\ out.leases =
              {LeaseEntry(id, jobs[id]) : id \in {i \in DOMAIN jobs : TimesOut(jobs[i])}}
<1> DEFINE jobs == idx.jobs
           s == {ScheduledEntry(id, jobs[id]) : id \in {i \in DOMAIN jobs : Waits(jobs[i])}}
           l == {LeaseEntry(id, jobs[id]) : id \in {i \in DOMAIN jobs : TimesOut(jobs[i])}}
           r == {}
           a == [idx EXCEPT !.ready = r, !.scheduled = s]
           out == RebuildHeaps(idx)
<1>1. s \in Finite(ScheduledEntries)
  BY EntriesOf
<1>2. l \in Finite(LeaseEntries)
  BY EntriesOf DEF TimesOut
<1>3. r \in Finite(ReadyEntries)
  BY FinitePushes DEF Indexes
<1>4. out = [a EXCEPT !.leases = l]
  BY DEF RebuildHeaps
<1> HIDE DEF s, l, r
<1>5. WithHeaps(a, idx, r, s)
  BY DEF WithHeaps
<1> HIDE DEF a, out
<1>6. a \in Indexes /\ SameJobs(a, idx) /\ a.ready = r /\ a.scheduled = s
  BY <1>1, <1>3, <1>5, SetTwoHeaps
<1>7. out \in Indexes
  BY <1>2, <1>4, <1>6, SetHeap
<1>8. SameJobs(out, idx) /\ out.ready = r /\ out.scheduled = s /\ out.leases = l
  BY <1>4, <1>6 DEF SameJobs, Indexes
<1> QED
  BY <1>7, <1>8 DEF out, s, l, r

LEMMA RetainFacts ==
  ASSUME NEW idx \in Indexes, NEW ids \in Seq(DOMAIN idx.jobs)
  PROVE  LET out == Retain(idx, ids)  jobs == [id \in ToSet(ids) |-> idx.jobs[id]] IN
         /\ out \in Indexes /\ out.jobs = jobs
         /\ out.seq = idx.seq /\ out.orphans = idx.orphans /\ out.ready = {}
         /\ out.scheduled =
              {ScheduledEntry(id, jobs[id]) : id \in {i \in DOMAIN jobs : Waits(jobs[i])}}
         /\ out.leases =
              {LeaseEntry(id, jobs[id]) : id \in {i \in DOMAIN jobs : TimesOut(jobs[i])}}
<1> DEFINE jobs == [id \in ToSet(ids) |-> idx.jobs[id]]
           kept == [idx EXCEPT !.jobs = jobs]
<1>1. ToSet(ids) \subseteq DOMAIN idx.jobs
  BY DEF ToSet
<1>2. jobs \in Tables
  <2>1. ToSet(ids) \in Finite(JobId)
    BY <1>1, JobsType, FS_Subset DEF Finite
  <2>2. jobs \in [ToSet(ids) -> Job]
    BY <1>1, JobsType
  <2> QED
    BY <2>1, <2>2 DEF Tables
<1>3. WithJobs(kept, idx, jobs) /\ Retain(idx, ids) = RebuildHeaps(kept)
  BY DEF WithJobs, Retain
<1> HIDE DEF kept, jobs
<1>4. /\ kept \in Indexes /\ kept.jobs = jobs /\ kept.seq = idx.seq /\ kept.orphans = idx.orphans
  BY <1>2, <1>3, SetJobs
<1>5. /\ RebuildHeaps(kept) \in Indexes /\ SameJobs(RebuildHeaps(kept), kept)
      /\ RebuildHeaps(kept).ready = {}
      /\ RebuildHeaps(kept).scheduled =
           {ScheduledEntry(id, jobs[id]) : id \in {i \in DOMAIN jobs : Waits(jobs[i])}}
      /\ RebuildHeaps(kept).leases =
           {LeaseEntry(id, jobs[id]) : id \in {i \in DOMAIN jobs : TimesOut(jobs[i])}}
  BY <1>4, RebuildFacts
<1> QED
  BY <1>3, <1>4, <1>5 DEF SameJobs, jobs

\* A job survives being written and read, but for its version.
LEMMA RoundTrip ==
  ASSUME NEW id \in JobId, NEW job \in Job
  PROVE  /\ ToDict(id, job) \in Record /\ ToDict(id, job).type = "ENQUEUE"
         /\ ToDict(id, job).id = id /\ ToDict(id, job).seq = job.seq
         /\ FromDict(ToDict(id, job)) = Unversioned(job)
<1>1. job \in JobFields /\ HeldWhenLeased(job)
  BY DEF Job, JobFields
<1>2. ToDict(id, job) \in Record
  BY <1>1 DEF ToDict, Record, JobFields, HeldWhenLeased
<1>3. FromDict(ToDict(id, job)) = Unversioned(job)
  BY <1>1 DEF ToDict, FromDict, Unversioned, JobFields
<1> QED
  BY <1>2, <1>3 DEF ToDict

Snapshot(idx, ids) == [i \in DOMAIN ids |-> ToDict(ids[i], idx.jobs[ids[i]])]

LEMMA SnapshotFacts ==
  ASSUME NEW idx \in Indexes, DistinctSeqs(idx.jobs), NEW ids \in Seq(DOMAIN idx.jobs),
         \A id \in DOMAIN idx.jobs : idx.jobs[id].seq <= idx.seq
  PROVE  LET recs == Snapshot(idx, ids)  read == Replay(EmptyIndex, recs) IN
         /\ recs \in Seq(Record) /\ Len(recs) = Len(ids)
         /\ \A n \in 0..Len(recs) : Sound(Replay(EmptyIndex, SubSeq(recs, 1, n)))
         /\ DOMAIN read.jobs = ToSet(ids)
         /\ \A id \in DOMAIN read.jobs : read.jobs[id] = Unversioned(idx.jobs[id])
         /\ read.seq <= idx.seq
<1> DEFINE recs == Snapshot(idx, ids)
           after(n) == Replay(EmptyIndex, SubSeq(recs, 1, n))
           written(n) == {ids[k] : k \in 1..n}
<1>0. /\ Len(ids) \in Nat /\ DOMAIN ids = 1..Len(ids)
      /\ \A k \in 1..Len(ids) : ids[k] \in DOMAIN idx.jobs
  OBVIOUS
<1>1. \A k \in 1..Len(ids) : recs[k] = ToDict(ids[k], idx.jobs[ids[k]])
  BY <1>0 DEF Snapshot
<1>2. \A k \in 1..Len(ids) :
        /\ recs[k] \in Record /\ recs[k].type = "ENQUEUE" /\ recs[k].id = ids[k]
        /\ recs[k].seq = idx.jobs[ids[k]].seq
        /\ FromDict(recs[k]) = Unversioned(idx.jobs[ids[k]])
  BY <1>0, <1>1, RoundTrip, JobsType
<1>3. recs \in Seq(Record) /\ Len(recs) = Len(ids)
  <2>1. recs = [k \in 1..Len(ids) |-> recs[k]]
    BY <1>0 DEF Snapshot
  <2> HIDE DEF recs
  <2>2. recs \in [1..Len(ids) -> Record]
    BY <1>2, <2>1
  <2> QED
    BY <1>0, <2>2
<1>4. /\ after(0) = EmptyIndex
      /\ \A n \in 0..Len(recs) : after(n) \in Indexes
      /\ \A n \in 0..(Len(recs) - 1) : after(n + 1) = Apply(after(n), recs[n + 1])
      /\ after(Len(recs)) = Replay(EmptyIndex, recs)
  <2> HIDE DEF recs
  <2>1. SubSeq(recs, 1, 0) = <<>> /\ SubSeq(recs, 1, Len(recs)) = recs
    BY <1>3, PrefixFacts
  <2>2. after(0) = Replay(EmptyIndex, <<>>) /\ after(Len(recs)) = Replay(EmptyIndex, recs)
    BY <2>1
  <2>3. \A n \in 0..Len(recs) : after(n) \in Indexes
    BY <1>3, EmptyFacts, ReplayType
  <2>4. \A n \in 0..(Len(recs) - 1) : after(n + 1) = Apply(after(n), recs[n + 1])
    BY <1>3, ReplayNext
  <2> QED
    BY <2>2, <2>3, <2>4, ReplayNothing
<1>5. idx.seq \in Nat /\ \A id \in DOMAIN idx.jobs : /\ idx.jobs[id].seq \in Nat
                                                    /\ Unversioned(idx.jobs[id]).seq = idx.jobs[id].seq
  <2>1. idx.seq \in Nat /\ \A id \in DOMAIN idx.jobs : idx.jobs[id] \in JobFields
    BY JobsType DEF Indexes, Job, JobFields
  <2> QED
    BY <2>1 DEF JobFields, Unversioned
<1> HIDE DEF after, recs
<1> DEFINE Good(read, n) ==
             /\ DOMAIN read.jobs = written(n)
             /\ \A id \in DOMAIN read.jobs : /\ read.jobs[id] = Unversioned(idx.jobs[id])
                                             /\ read.jobs[id].seq <= read.seq
             /\ read.seq <= idx.seq /\ read.orphans = 0
           T == {n \in Nat : Good(after(n), n)}
<1>6. 0 \in T
  <2>1. written(0) = {}
    OBVIOUS
  <2> QED
    BY <1>4, <1>5, <2>1, EmptyFacts
<1>7. ASSUME NEW n \in 0..(Len(recs) - 1), n \in T PROVE n + 1 \in T
  <2> DEFINE id == ids[n + 1]  read == after(n)  new == after(n + 1)
  <2>1. /\ n + 1 \in 1..Len(recs) /\ n + 1 \in Nat /\ n \in 0..Len(recs)
        /\ written(n + 1) = written(n) \cup {id}
    BY <1>0, <1>3
  <2>2. id \in DOMAIN idx.jobs /\ read \in Indexes /\ new = Apply(read, recs[n + 1])
    BY <1>0, <1>3, <1>4, <2>1
  <2>3. /\ new.jobs = Put(read.jobs, id, Unversioned(idx.jobs[id])) /\ new.orphans = read.orphans
        /\ new.seq = IF idx.jobs[id].seq > read.seq THEN idx.jobs[id].seq ELSE read.seq
    <3>1. recs[n + 1] \in Record /\ recs[n + 1].type = "ENQUEUE" /\ recs[n + 1].id = id
          /\ recs[n + 1].seq = idx.jobs[id].seq /\ FromDict(recs[n + 1]) = Unversioned(idx.jobs[id])
      BY <1>2, <1>3, <2>1
    <3> HIDE DEF id, read, new
    <3> QED
      BY <2>2, <3>1, ApplyJobs
  <2>4. read.seq \in Nat
    BY <2>2 DEF Indexes
  <2>5. Good(read, n)
    BY <1>7
  <2> HIDE DEF id, read, new, written
  <2>6. DOMAIN new.jobs = written(n + 1)
    BY <2>1, <2>3, <2>5 DEF Put
  <2>7. new.seq <= idx.seq /\ new.seq >= read.seq /\ new.seq >= idx.jobs[id].seq /\ new.orphans = 0
    BY <1>5, <2>2, <2>3, <2>4, <2>5
  <2>8. ASSUME NEW i \in DOMAIN new.jobs
        PROVE  new.jobs[i] = Unversioned(idx.jobs[i]) /\ new.jobs[i].seq <= new.seq
    <3>1. CASE i = id
      <4>1. new.jobs[i] = Unversioned(idx.jobs[i])
        BY <2>3, <3>1 DEF Put
      <4> QED
        BY <1>5, <2>2, <2>7, <3>1, <4>1
    <3>2. CASE i # id
      <4>1. i \in DOMAIN read.jobs /\ new.jobs[i] = read.jobs[i]
        BY <2>3, <3>2 DEF Put
      <4>2. i \in DOMAIN idx.jobs
        BY <1>0, <1>3, <2>1, <2>5, <4>1 DEF written
      <4>3. read.jobs[i].seq \in Nat /\ new.seq \in Nat
        BY <1>5, <2>2, <2>3, <2>4, <2>5, <4>1, <4>2
      <4> QED
        BY <2>4, <2>5, <2>7, <4>1, <4>3
    <3> QED
      BY <3>1, <3>2
  <2> QED
    BY <2>1, <2>6, <2>7, <2>8 DEF new
<1>8. \A n \in 0..Len(recs) : Good(after(n), n)
  <2> HIDE DEF T
  <2>1. 0..Len(recs) \subseteq T
    BY <1>0, <1>3, <1>6, <1>7, UpToInduction
  <2> HIDE DEF Good
  <2> QED
    BY <2>1 DEF T
<1>9. \A n \in 0..Len(recs) : Sound(after(n))
  <2> TAKE n \in 0..Len(recs)
  <2>1. \A i \in DOMAIN after(n).jobs : i \in DOMAIN idx.jobs
    BY <1>0, <1>3, <1>8
  <2>2. DistinctSeqs(after(n).jobs)
    BY <1>5, <1>8, <2>1 DEF DistinctSeqs
  <2> QED
    BY <1>8, <2>2 DEF Sound
<1>10. written(Len(recs)) = ToSet(ids)
  BY <1>0, <1>3 DEF ToSet
<1>11. /\ DOMAIN Replay(EmptyIndex, recs).jobs = ToSet(ids)
       /\ Replay(EmptyIndex, recs).seq <= idx.seq
       /\ \A id \in DOMAIN Replay(EmptyIndex, recs).jobs :
            Replay(EmptyIndex, recs).jobs[id] = Unversioned(idx.jobs[id])
  <2>1. Len(recs) \in 0..Len(recs)
    BY <1>0, <1>3
  <2> QED
    BY <1>4, <1>8, <1>10, <2>1
<1> QED
  BY <1>3, <1>9, <1>11 DEF after, recs

-----------------------------------------------------------------------------
(***************************************************************************)
(* The parts of the invariant, for a log and a process in general.         *)
(***************************************************************************)
Logs(gens) == [gen : gens, recs : Seq(Record), torn : BOOLEAN, synced : Nat]

ReadingOf(recs, n) == Replay(EmptyIndex, SubSeq(recs, 1, n))

SoundUpTo(recs) == \A n \in 0..Len(recs) : Sound(ReadingOf(recs, n))

\* A log that may follow the present one in its generation.
Follows(l) ==
  /\ l \in Logs({log.gen}) /\ past.kept <= l.synced /\ l.synced <= Len(l.recs)
  /\ SoundUpTo(l.recs)
  /\ Len(log.recs) <= Len(l.recs)
  /\ \A n \in 0..Len(log.recs) : SubSeq(l.recs, 1, n) = SubSeq(log.recs, 1, n)

Process(gens) == [up : BOOLEAN, gen : gens, pos : Nat, idx : Indexes]

\* A process that is right about this log, if it takes it for the live one.
Agrees(q, l) ==
  /\ q \in Process(0..l.gen) /\ q.idx.orphans = 0
  /\ q.up /\ q.gen = l.gen =>
       q.pos <= Len(l.recs) /\ Mirrors(q.idx, ReadingOf(l.recs, q.pos))

Scalars ==
  past \in [events : Seq(Record), kept : Nat] /\ now \in 0..MaxTime /\ issued \in Nat
  /\ faults \in 0..MaxFaults

IParts ==
  /\ Scalars /\ log \in Logs(0..MaxGen)
  /\ past.kept <= log.synced /\ log.synced <= Len(log.recs) /\ SoundUpTo(log.recs)
  /\ DOMAIN proc = Proc /\ \A p \in Proc : Agrees(proc[p], log)

LEMMA SameParts == IInv <=> IParts
<1>1. ASSUME IInv
      PROVE  /\ Scalars /\ log \in Logs(0..MaxGen)
             /\ past.kept <= log.synced /\ log.synced <= Len(log.recs) /\ SoundUpTo(log.recs)
             /\ DOMAIN proc = Proc /\ \A p \in Proc : Agrees(proc[p], log)
  <2>1. /\ Scalars /\ log \in Logs(0..MaxGen) /\ DOMAIN proc = Proc
        /\ past.kept <= log.synced /\ log.synced <= Len(log.recs)
    BY <1>1 DEF IInv, TypeOK, Scalars, Logs
  <2>2. SoundUpTo(log.recs)
    BY <1>1 DEF IInv, SoundLog, SoundUpTo, ReadingOf, Reading
  <2>3. ASSUME NEW p \in Proc PROVE Agrees(proc[p], log)
    <3>1. proc[p].idx \in Indexes
      BY <1>1, IndexType DEF IInv, TypeOK
    <3>2. proc[p] \in Process(0..log.gen)
      BY <1>1, <3>1 DEF IInv, TypeOK, Process
    <3>3. proc[p].idx.orphans = 0
      BY <1>1 DEF IInv, NoOrphans
    <3>4. proc[p].up /\ proc[p].gen = log.gen =>
            /\ proc[p].pos <= Len(log.recs)
            /\ Mirrors(proc[p].idx, ReadingOf(log.recs, proc[p].pos))
      BY <1>1 DEF IInv, CacheOfLog, Attending, Reading, ReadingOf
    <3> QED
      BY <3>2, <3>3, <3>4 DEF Agrees
  <2> QED
    BY <2>1, <2>2, <2>3
<1>2. ASSUME Scalars, log \in Logs(0..MaxGen),
             past.kept <= log.synced, log.synced <= Len(log.recs), SoundUpTo(log.recs),
             DOMAIN proc = Proc, \A p \in Proc : Agrees(proc[p], log)
      PROVE  IInv
  <2>1. ASSUME NEW p \in Proc
        PROVE  /\ proc[p] \in [up : BOOLEAN, gen : 0..log.gen, pos : Nat, idx : {proc[p].idx}]
               /\ IsIndex(proc[p].idx)
    <3>1. proc[p] \in Process(0..log.gen)
      BY <1>2 DEF Agrees
    <3>2. IsIndex(proc[p].idx)
      BY <3>1, IndexType DEF Process
    <3> QED
      BY <3>1, <3>2 DEF Process
  <2>2. TypeOK
    BY <1>2, <2>1 DEF TypeOK, Scalars, Logs
  <2>3. SoundLog
    BY <1>2 DEF SoundLog, SoundUpTo, ReadingOf, Reading
  <2>4. CacheOfLog
    BY <1>2 DEF CacheOfLog, Attending, Agrees, ReadingOf, Reading
  <2>5. NoOrphans
    BY <1>2 DEF NoOrphans, Agrees
  <2> QED
    BY <2>2, <2>3, <2>4, <2>5 DEF IInv
<1> QED
  BY <1>1, <1>2 DEF IParts

LEMMA Parts ==
  ASSUME IInv
  PROVE  /\ Scalars /\ log \in Logs(0..MaxGen)
         /\ past.kept <= log.synced /\ log.synced <= Len(log.recs) /\ SoundUpTo(log.recs)
         /\ DOMAIN proc = Proc /\ \A p \in Proc : Agrees(proc[p], log)
  BY SameParts DEF IParts

LEMMA PartsNext == IParts' => IInv'
  BY SameParts, PTL

LEMMA Bounds == MaxTime \in Nat /\ MaxFaults \in Nat /\ MaxGen \in Nat /\ MaxDelay \in Nat
  BY BoundsAssumption, BackoffAssumption

-----------------------------------------------------------------------------
(***************************************************************************)
(* Logs that grow.                                                         *)
(***************************************************************************)
LEMMA ConcatPrefix ==
  ASSUME NEW R, NEW s \in Seq(R), NEW t \in Seq(R)
  PROVE  /\ \A n \in 0..Len(s) : SubSeq(s \o t, 1, n) = SubSeq(s, 1, n)
         /\ \A n \in 0..Len(t) : SubSeq(s \o t, 1, Len(s) + n) = s \o SubSeq(t, 1, n)
<1> DEFINE u == s \o t
<1>1. /\ u \in Seq(R) /\ Len(u) = Len(s) + Len(t)
      /\ \A i \in 1..Len(s) + Len(t) : u[i] = IF i <= Len(s) THEN s[i] ELSE t[i - Len(s)]
      /\ Len(s) \in Nat /\ Len(t) \in Nat
  BY ConcatProperties, LenProperties
<1> HIDE DEF u
<1>2. ASSUME NEW n \in 0..Len(s) PROVE SubSeq(u, 1, n) = SubSeq(s, 1, n)
  <2> DEFINE a == SubSeq(u, 1, n)  b == SubSeq(s, 1, n)
  <2>1. n \in 0..Len(u)
    BY <1>1
  <2>2. /\ a \in Seq(R) /\ Len(a) = n /\ \A i \in 1..n : a[i] = u[i]
        /\ b \in Seq(R) /\ Len(b) = n /\ \A i \in 1..n : b[i] = s[i]
    BY <1>1, <2>1, PrefixFacts
  <2>3. \A i \in 1..Len(a) : a[i] = b[i]
    BY <1>1, <2>2
  <2> HIDE DEF a, b
  <2>4. a = b
    BY <2>2, <2>3, SeqEqual
  <2> QED
    BY <2>4 DEF a, b
<1>3. ASSUME NEW n \in 0..Len(t) PROVE SubSeq(u, 1, Len(s) + n) = s \o SubSeq(t, 1, n)
  <2> DEFINE m == Len(s) + n  a == SubSeq(u, 1, m)  c == SubSeq(t, 1, n)  b == s \o c
  <2>1. m \in 0..Len(u)
    BY <1>1
  <2>2. /\ a \in Seq(R) /\ Len(a) = m /\ \A i \in 1..m : a[i] = u[i]
        /\ c \in Seq(R) /\ Len(c) = n /\ \A i \in 1..n : c[i] = t[i]
    BY <1>1, <2>1, PrefixFacts
  <2> HIDE DEF a, c
  <2>3. /\ b \in Seq(R) /\ Len(b) = Len(s) + n
        /\ \A i \in 1..Len(s) + n : b[i] = IF i <= Len(s) THEN s[i] ELSE c[i - Len(s)]
    BY <2>2, ConcatProperties
  <2> HIDE DEF b
  <2>4. ASSUME NEW i \in 1..Len(a) PROVE a[i] = b[i]
    <3>1. i \in 1..m /\ i \in 1..Len(s) + n /\ i \in 1..Len(s) + Len(t)
      BY <1>1, <2>1, <2>2
    <3>2. CASE i <= Len(s)
      BY <1>1, <2>2, <2>3, <3>1, <3>2
    <3>3. CASE ~(i <= Len(s))
      <4>1. i - Len(s) \in 1..n
        BY <1>1, <3>1, <3>3
      <4> QED
        BY <1>1, <2>2, <2>3, <3>1, <3>3, <4>1
    <3> QED
      BY <3>2, <3>3
  <2>5. a = b
    BY <2>2, <2>3, <2>4, SeqEqual
  <2> QED
    BY <2>5 DEF a, b, c
<1> QED
  BY <1>2, <1>3 DEF u

LEMMA RestFacts ==
  ASSUME NEW R, NEW recs \in Seq(R), NEW n \in 0..Len(recs)
  PROVE  LET rest == SubSeq(recs, n + 1, Len(recs)) IN
         /\ rest \in Seq(R) /\ Len(rest) = Len(recs) - n
         /\ \A i \in 1..Len(recs) - n : rest[i] = recs[n + i]
<1> DEFINE N == Len(recs)  m == n + 1  rest == SubSeq(recs, m, N)
<1>1. N \in Nat /\ n \in Nat /\ m \in Int /\ N \in Int /\ \A i \in m..N : recs[i] \in R
  BY LenProperties, ElementOfSeq
<1> HIDE DEF N, m
<1>2. /\ rest \in Seq(R) /\ Len(rest) = (IF m <= N THEN N - m + 1 ELSE 0)
      /\ \A i \in 1..N - m + 1 : rest[i] = recs[m + i - 1]
  BY <1>1, SubSeqProperties
<1> HIDE DEF rest
<1>3. N - m + 1 = N - n /\ (IF m <= N THEN N - m + 1 ELSE 0) = N - n
  BY <1>1 DEF m, N
<1>4. \A i \in 1..N - n : m + i - 1 = n + i
  BY <1>1 DEF m
<1> QED
  BY <1>2, <1>3, <1>4 DEF rest, m, N

LEMMA SplitAt ==
  ASSUME NEW R, NEW recs \in Seq(R), NEW n \in Nat, n <= Len(recs)
  PROVE  /\ SubSeq(recs, n + 1, Len(recs)) \in Seq(R) /\ SubSeq(recs, 1, n) \in Seq(R)
         /\ recs = SubSeq(recs, 1, n) \o SubSeq(recs, n + 1, Len(recs))
<1> DEFINE head == SubSeq(recs, 1, n)  rest == SubSeq(recs, n + 1, Len(recs))  N == Len(recs)
           both == head \o rest
<1>0. N \in Nat /\ n \in 0..N
  BY LenProperties
<1>1. /\ head \in Seq(R) /\ Len(head) = n /\ \A i \in 1..n : head[i] = recs[i]
  BY <1>0, PrefixFacts
<1>2. /\ rest \in Seq(R) /\ Len(rest) = N - n /\ \A i \in 1..N - n : rest[i] = recs[n + i]
  BY <1>0, RestFacts
<1> HIDE DEF head, rest
<1>3. /\ both \in Seq(R) /\ Len(both) = Len(head) + Len(rest)
      /\ \A i \in 1..Len(head) + Len(rest) :
           both[i] = IF i <= Len(head) THEN head[i] ELSE rest[i - Len(head)]
  BY <1>1, <1>2, ConcatProperties
<1> HIDE DEF both
<1>4. ASSUME NEW i \in 1..N PROVE recs[i] = both[i]
  <2>1. CASE i <= n
    BY <1>0, <1>1, <1>2, <1>3, <2>1
  <2>2. CASE ~(i <= n)
    <3>1. i - n \in 1..N - n /\ n + (i - n) = i
      BY <1>0, <2>2
    <3>2. rest[i - n] = recs[i]
      BY <1>2, <3>1
    <3> QED
      BY <1>0, <1>1, <1>2, <1>3, <2>2, <3>2
  <2> QED
    BY <2>1, <2>2
<1>5. Len(both) = N
  BY <1>0, <1>1, <1>2, <1>3
<1>6. recs = both
  BY <1>3, <1>4, <1>5, SeqEqual
<1> QED
  BY <1>1, <1>2, <1>6 DEF head, rest, both

\* A sound log stays so when a batch that fits it is added, or a part of one.
LEMMA SoundGrows ==
  ASSUME NEW s \in Seq(Record), SoundUpTo(s), NEW t \in Seq(Record),
         Fits(Replay(EmptyIndex, s), t)
  PROVE  SoundUpTo(s \o t)
<1> DEFINE read == Replay(EmptyIndex, s)
<1>1. Len(s) \in Nat /\ Len(t) \in Nat /\ Len(s \o t) = Len(s) + Len(t) /\ s \o t \in Seq(Record)
  BY ConcatProperties, LenProperties
<1>2. read \in Indexes /\ Sound(read)
  <2>1. read \in Indexes
    BY EmptyFacts, ReplayType
  <2>2. SubSeq(s, 1, Len(s)) = s /\ Len(s) \in 0..Len(s)
    BY <1>1, PrefixFacts
  <2> QED
    BY <2>1, <2>2 DEF SoundUpTo, ReadingOf
<1> SUFFICES ASSUME NEW n \in 0..Len(s) + Len(t) PROVE Sound(ReadingOf(s \o t, n))
  BY <1>1 DEF SoundUpTo
<1>3. CASE n <= Len(s)
  <2>1. n \in 0..Len(s)
    BY <1>1, <1>3
  <2>2. SubSeq(s \o t, 1, n) = SubSeq(s, 1, n)
    BY <2>1, ConcatPrefix
  <2> QED
    BY <2>1, <2>2 DEF SoundUpTo, ReadingOf
<1>4. CASE n > Len(s)
  <2> DEFINE m == n - Len(s)
  <2>1. m \in 0..Len(t) /\ Len(s) + m = n
    BY <1>1, <1>4
  <2> HIDE DEF m
  <2>2. SubSeq(s \o t, 1, Len(s) + m) = s \o SubSeq(t, 1, m) /\ SubSeq(t, 1, m) \in Seq(Record)
    BY <2>1, ConcatPrefix, PrefixFacts
  <2>3. ReadingOf(s \o t, n) = Replay(read, SubSeq(t, 1, m))
    <3> DEFINE w == SubSeq(t, 1, m)
    <3>1. SubSeq(s \o t, 1, n) = s \o w /\ w \in Seq(Record)
      BY <2>1, <2>2
    <3> HIDE DEF w
    <3>2. Replay(EmptyIndex, s \o w) = Replay(Replay(EmptyIndex, s), w)
      BY <3>1, ReplayConcat
    <3> QED
      BY <3>1, <3>2 DEF ReadingOf, w
  <2>4. Sound(Replay(read, SubSeq(t, 1, m)))
    BY <1>2, <2>1, BatchSound
  <2> QED
    BY <2>3, <2>4
<1> QED
  BY <1>1, <1>3, <1>4

LEMMA FitsPart ==
  ASSUME NEW read, NEW recs \in Seq(Record), Fits(read, recs), NEW k \in 0..Len(recs)
  PROVE  Fits(read, SubSeq(recs, 1, k))
<1> DEFINE part == SubSeq(recs, 1, k)
<1>1. Len(part) = k /\ \A i \in 1..k : part[i] = recs[i] /\ i \in 1..Len(recs)
  <2>1. Len(part) = k /\ \A i \in 1..k : part[i] = recs[i]
    BY PrefixFacts
  <2>2. Len(recs) \in Nat
    BY LenProperties
  <2> QED
    BY <2>1, <2>2
<1> HIDE DEF part
<1> QED
  BY <1>1 DEF Fits, part

-----------------------------------------------------------------------------
(***************************************************************************)
(* Sessions.                                                               *)
(***************************************************************************)
Whole(l) == Replay(EmptyIndex, l.recs)

\* A process inside an operation: it has read its log to the end.
Session(s) ==
  /\ s \in [log : Logs({log.gen}), idx : Indexes]
  /\ Follows(s.log) /\ s.idx.orphans = 0 /\ Mirrors(s.idx, Whole(s.log))

LEMMA WholeReading ==
  ASSUME NEW recs \in Seq(Record)
  PROVE  /\ ReadingOf(recs, Len(recs)) = Replay(EmptyIndex, recs)
         /\ Len(recs) \in Nat /\ Len(recs) \in 0..Len(recs)
         /\ Replay(EmptyIndex, recs) \in Indexes
<1>1. SubSeq(recs, 1, Len(recs)) = recs /\ Len(recs) \in Nat
  BY PrefixFacts
<1>2. Replay(EmptyIndex, recs) \in Indexes
  <2>1. EmptyIndex \in Indexes
    BY EmptyFacts
  <2> QED
    BY <2>1, ReplayType
<1>3. ReadingOf(recs, Len(recs)) = Replay(EmptyIndex, recs)
  BY <1>1 DEF ReadingOf
<1>4. Len(recs) \in 0..Len(recs)
  BY <1>1
<1> QED
  BY <1>1, <1>2, <1>3, <1>4

LEMMA RepairedFacts ==
  ASSUME IInv
  PROVE  Follows(Repaired(log)) /\ Repaired(log).recs = log.recs
<1>1. /\ log \in Logs(0..MaxGen) /\ Len(log.recs) \in Nat
      /\ past.kept <= log.synced /\ log.synced <= Len(log.recs) /\ SoundUpTo(log.recs)
      /\ past.kept \in Nat /\ log.synced \in Nat
  BY Parts, LenProperties DEF Logs, Scalars
<1>2. CASE log.torn
  <2> DEFINE l == [log EXCEPT !.torn = FALSE, !.synced = Len(log.recs)]
  <2>1. Repaired(log) = l
    BY <1>2 DEF Repaired
  <2>2. l \in Logs({log.gen}) /\ l.recs = log.recs /\ l.synced = Len(log.recs)
    <3>1. l = [[log EXCEPT !.torn = FALSE] EXCEPT !.synced = Len(log.recs)]
      OBVIOUS
    <3>2. [log EXCEPT !.torn = FALSE] \in Logs({log.gen})
      BY <1>1 DEF Logs
    <3>3. l \in Logs({log.gen})
      <4> HIDE DEF l
      <4> QED
        BY <1>1, <3>1, <3>2 DEF Logs
    <3> QED
      BY <1>1, <3>3 DEF Logs
  <2> HIDE DEF l
  <2>3. Follows(l)
    BY <1>1, <2>2 DEF Follows
  <2> QED
    BY <2>1, <2>2, <2>3
<1>3. CASE ~log.torn
  <2>1. Repaired(log) = log
    BY <1>3 DEF Repaired
  <2>2. log \in Logs({log.gen})
    BY <1>1 DEF Logs
  <2> QED
    BY <1>1, <2>1, <2>2 DEF Follows
<1> QED
  BY <1>2, <1>3

LEMMA CaughtUpFacts ==
  ASSUME IInv, NEW p \in Proc, proc[p].up
  PROVE  Session(CaughtUp(p))
<1> DEFINE q == proc[p]  recs == log.recs  rest == SubSeq(recs, q.pos + 1, Len(recs))
<1>1. Follows(Repaired(log)) /\ Repaired(log).recs = recs /\ Repaired(log) \in Logs({log.gen})
  BY RepairedFacts DEF Follows
<1>2. recs \in Seq(Record) /\ Agrees(q, log) /\ Len(recs) \in Nat
  BY Parts, LenProperties DEF Logs
<1>3. Whole(log) \in Indexes /\ Whole(log).orphans = 0 /\ Mirrors(Whole(log), Whole(log))
  <2>1. /\ Whole(log) = ReadingOf(recs, Len(recs)) /\ Len(recs) \in 0..Len(recs)
        /\ Whole(log) \in Indexes
    BY <1>2, WholeReading DEF Whole
  <2>2. Sound(ReadingOf(recs, Len(recs)))
    BY <2>1, Parts DEF SoundUpTo
  <2> QED
    BY <2>1, <2>2, MirrorsItself DEF Sound
<1>4. CASE q.gen # log.gen
  <2>1. CaughtUp(p) = [log |-> Repaired(log), idx |-> Whole(log)]
    BY <1>4 DEF CaughtUp, Whole
  <2> QED
    BY <1>1, <1>3, <2>1 DEF Session, Whole
<1>5. CASE q.gen = log.gen
  <2>1. /\ q.pos \in Nat /\ q.pos <= Len(recs) /\ q.idx \in Indexes /\ q.idx.orphans = 0
        /\ Mirrors(q.idx, ReadingOf(recs, q.pos))
    BY <1>2, <1>5 DEF Agrees, Process
  <2>2. rest \in Seq(Record) /\ recs = SubSeq(recs, 1, q.pos) \o rest
        /\ SubSeq(recs, 1, q.pos) \in Seq(Record)
    BY <1>2, <2>1, SplitAt
  <2> HIDE DEF rest
  <2>3. Whole(log) = Replay(ReadingOf(recs, q.pos), rest)
    <3> DEFINE head == SubSeq(recs, 1, q.pos)
    <3>1. head \in Seq(Record) /\ recs = head \o rest
      BY <2>2
    <3> HIDE DEF head, recs
    <3>2. Replay(EmptyIndex, recs) = Replay(Replay(EmptyIndex, head), rest)
      BY <2>2, <3>1, ReplayConcat
    <3> QED
      BY <3>2 DEF Whole, ReadingOf, head, recs
  <2>4. ReadingOf(recs, q.pos) \in Indexes /\ ReadingOf(recs, q.pos).orphans = 0
    <3>1. q.pos \in 0..Len(recs)
      BY <1>2, <2>1
    <3>2. ReadingOf(recs, q.pos) \in Indexes
      BY <1>2, <3>1, EmptyFacts, ReplayType DEF ReadingOf
    <3>3. Sound(ReadingOf(recs, q.pos))
      BY <3>1, Parts DEF SoundUpTo
    <3> QED
      BY <3>2, <3>3 DEF Sound
  <2>5. /\ Mirrors(Replay(q.idx, rest), Whole(log))
        /\ Replay(q.idx, rest).orphans = Whole(log).orphans
        /\ Replay(q.idx, rest) \in Indexes
    <3> DEFINE read == ReadingOf(recs, q.pos)
    <3>1. /\ read \in Indexes /\ Mirrors(q.idx, read) /\ q.idx.orphans = read.orphans
          /\ Whole(log) = Replay(read, rest)
      BY <2>1, <2>3, <2>4
    <3> HIDE DEF read
    <3>2. /\ Mirrors(Replay(q.idx, rest), Replay(read, rest))
          /\ Replay(q.idx, rest).orphans = Replay(read, rest).orphans
      BY <2>1, <2>2, <3>1, ReplayMirrors
    <3>3. Replay(q.idx, rest) \in Indexes
      BY <2>1, <2>2, ReplayType
    <3> QED
      BY <3>1, <3>2, <3>3
  <2>6. CaughtUp(p) = [log |-> Repaired(log), idx |-> Replay(q.idx, rest)]
    BY <1>5 DEF CaughtUp, rest
  <2> QED
    BY <1>1, <1>3, <2>5, <2>6 DEF Session, Whole
<1> QED
  BY <1>4, <1>5

-----------------------------------------------------------------------------
(***************************************************************************)
(* What a session writes.                                                  *)
(***************************************************************************)
LEMMA WholeFacts ==
  ASSUME NEW l, Follows(l)
  PROVE  /\ Whole(l) \in Indexes /\ Sound(Whole(l)) /\ Whole(l).orphans = 0
         /\ Whole(l) = ReadingOf(l.recs, Len(l.recs))
         /\ l.recs \in Seq(Record) /\ Len(l.recs) \in Nat /\ Len(l.recs) \in 0..Len(l.recs)
<1>1. l.recs \in Seq(Record) /\ SoundUpTo(l.recs)
  BY DEF Follows, Logs
<1>2. /\ Whole(l) = ReadingOf(l.recs, Len(l.recs)) /\ Whole(l) \in Indexes
      /\ Len(l.recs) \in Nat /\ Len(l.recs) \in 0..Len(l.recs)
  BY <1>1, WholeReading DEF Whole
<1>3. Sound(Whole(l))
  BY <1>1, <1>2 DEF SoundUpTo
<1> QED
  BY <1>1, <1>2, <1>3 DEF Sound

\* A log goes on with a batch that fits it.
LEMMA FollowsMore ==
  ASSUME past.kept \in Nat, Len(log.recs) \in Nat,
         NEW l, Follows(l), NEW recs \in Seq(Record), Fits(Whole(l), recs),
         NEW m \in Logs({log.gen}), m.recs = l.recs \o recs,
         l.synced <= m.synced, m.synced <= Len(l.recs) + Len(recs)
  PROVE  /\ Follows(m)
         /\ Len(l.recs) <= Len(m.recs) /\ SubSeq(m.recs, 1, Len(l.recs)) = l.recs
<1>1. /\ l.recs \in Seq(Record) /\ Len(l.recs) \in Nat /\ SoundUpTo(l.recs) /\ l.synced \in Nat
      /\ past.kept <= l.synced /\ Len(log.recs) <= Len(l.recs) /\ m.synced \in Nat
      /\ \A n \in 0..Len(log.recs) : SubSeq(l.recs, 1, n) = SubSeq(log.recs, 1, n)
  BY WholeFacts DEF Follows, Logs
<1>2. SoundUpTo(m.recs)
  BY <1>1, SoundGrows DEF Whole
<1>3. Len(m.recs) = Len(l.recs) + Len(recs) /\ Len(recs) \in Nat
  BY <1>1, ConcatProperties, LenProperties
<1>4. \A n \in 0..Len(l.recs) : SubSeq(m.recs, 1, n) = SubSeq(l.recs, 1, n)
  BY <1>1, ConcatPrefix
<1>5. SubSeq(m.recs, 1, Len(l.recs)) = l.recs
  <2>1. Len(l.recs) \in 0..Len(l.recs) /\ SubSeq(l.recs, 1, Len(l.recs)) = l.recs
    BY <1>1, PrefixFacts
  <2> QED
    BY <1>4, <2>1
<1>6. \A n \in 0..Len(log.recs) : SubSeq(m.recs, 1, n) = SubSeq(log.recs, 1, n)
  <2>1. \A n \in 0..Len(log.recs) : n \in 0..Len(l.recs)
    BY <1>1
  <2> QED
    BY <1>1, <1>4, <2>1
<1>7. past.kept <= m.synced /\ m.synced <= Len(m.recs) /\ Len(log.recs) <= Len(m.recs)
  BY <1>1, <1>3
<1>8. Follows(m)
  BY <1>2, <1>6, <1>7 DEF Follows
<1> QED
  BY <1>1, <1>3, <1>5, <1>8

LEMMA AppendedFacts ==
  ASSUME NEW G, NEW l \in Logs(G), l.synced <= Len(l.recs), NEW recs \in Seq(Record)
  PROVE  LET m == Appended(l, recs) IN
         /\ m \in Logs(G) /\ m.recs = l.recs \o recs
         /\ l.synced <= m.synced /\ m.synced <= Len(l.recs) + Len(recs)
<1> DEFINE n == IF Fsync /\ recs # <<>> THEN Len(l.recs) + Len(recs) ELSE l.synced
           all == l.recs \o recs
           m == [[l EXCEPT !.recs = all] EXCEPT !.synced = n]
<1>1. all \in Seq(Record) /\ Len(l.recs) \in Nat /\ Len(recs) \in Nat /\ l.synced \in Nat
  BY ConcatProperties, LenProperties DEF Logs
<1>2. n \in Nat /\ l.synced <= n /\ n <= Len(l.recs) + Len(recs)
  BY <1>1
<1>3. Appended(l, recs) = m
  BY DEF Appended
<1> HIDE DEF n, all
<1>4. m \in Logs(G) /\ m.recs = all /\ m.synced = n
  BY <1>1, <1>2 DEF Logs
<1> QED
  BY <1>2, <1>3, <1>4 DEF all

LEMMA CommittedFacts ==
  ASSUME IInv, NEW s, Session(s), NEW recs \in Seq(Record), Fits(Whole(s.log), recs)
  PROVE  Session(Committed(s, recs))
<1> DEFINE m == Appended(s.log, recs)  idx == Replay(s.idx, recs)
<1>1. /\ s.log \in Logs({log.gen}) /\ s.idx \in Indexes /\ Follows(s.log) /\ s.idx.orphans = 0
      /\ Mirrors(s.idx, Whole(s.log)) /\ s.log.synced <= Len(s.log.recs)
  BY DEF Session, Follows
<1>2. past.kept \in Nat /\ Len(log.recs) \in Nat
  BY Parts, LenProperties DEF Scalars, Logs
<1>3. /\ m \in Logs({log.gen}) /\ m.recs = s.log.recs \o recs
      /\ s.log.synced <= m.synced /\ m.synced <= Len(s.log.recs) + Len(recs)
  BY <1>1, AppendedFacts
<1> HIDE DEF m
<1>4. Follows(m)
  BY <1>1, <1>2, <1>3, FollowsMore
<1>5. /\ Whole(s.log) \in Indexes /\ Whole(s.log).orphans = 0 /\ s.log.recs \in Seq(Record)
  BY <1>1, WholeFacts
<1>6. Whole(m) = Replay(Whole(s.log), recs)
  <2>1. Replay(EmptyIndex, s.log.recs \o recs) = Replay(Replay(EmptyIndex, s.log.recs), recs)
    BY <1>5, ReplayConcat
  <2> QED
    BY <1>3, <2>1 DEF Whole
<1>7. idx \in Indexes
  BY <1>1, ReplayType
<1>8. /\ Mirrors(idx, Replay(Whole(s.log), recs))
      /\ idx.orphans = Replay(Whole(s.log), recs).orphans
  BY <1>1, <1>5, ReplayMirrors
<1>9. Whole(m).orphans = 0
  BY <1>4, WholeFacts
<1> HIDE DEF idx
<1>10. Session([log |-> m, idx |-> idx])
  BY <1>3, <1>4, <1>6, <1>7, <1>8, <1>9 DEF Session
<1> QED
  BY <1>10 DEF Committed, m, idx

\* A session may change its heaps, and count further.
LEMMA SessionIndex ==
  ASSUME NEW s, Session(s), NEW idx \in Indexes, idx.jobs = s.idx.jobs,
         idx.orphans = s.idx.orphans, idx.seq >= s.idx.seq
  PROVE  Session([s EXCEPT !.idx = idx]) /\ [s EXCEPT !.idx = idx].log = s.log
<1>1. /\ s \in [log : Logs({log.gen}), idx : Indexes]
      /\ Follows(s.log) /\ s.idx.orphans = 0 /\ Mirrors(s.idx, Whole(s.log))
  BY DEF Session
<1>2. s.idx.seq \in Nat /\ idx.seq \in Nat
  BY <1>1 DEF Indexes
<1>3. Whole(s.log) \in Indexes
  BY <1>1, WholeFacts
<1>4. Whole(s.log).seq \in Nat
  BY <1>3 DEF Indexes
<1>5. Mirrors(idx, Whole(s.log))
  BY <1>1, <1>2, <1>4 DEF Mirrors
<1>6. [s EXCEPT !.idx = idx] = [log |-> s.log, idx |-> idx]
  BY <1>1
<1>7. s.log \in Logs({log.gen})
  BY <1>1
<1> QED
  BY <1>1, <1>5, <1>6, <1>7 DEF Session

-----------------------------------------------------------------------------
(***************************************************************************)
(* How an operation ends.                                                  *)
(***************************************************************************)
LEMMA DownAgrees ==
  ASSUME NEW l, l.gen \in Nat PROVE Agrees(Down, l)
<1>1. 0 \in 0..l.gen
  OBVIOUS
<1>2. Down \in Process(0..l.gen) /\ ~Down.up /\ Down.idx.orphans = 0
  BY <1>1, EmptyFacts DEF Down, Process
<1> QED
  BY <1>2 DEF Agrees

LEMMA AttachedAgrees ==
  ASSUME log.gen \in Nat, NEW s, Session(s),
         NEW l \in Logs({log.gen}), Len(s.log.recs) <= Len(l.recs),
         SubSeq(l.recs, 1, Len(s.log.recs)) = s.log.recs
  PROVE  Agrees(Attached(s), l)
<1>1. /\ s.log \in Logs({log.gen}) /\ s.idx \in Indexes /\ Follows(s.log) /\ s.idx.orphans = 0
      /\ Mirrors(s.idx, Whole(s.log))
  BY DEF Session
<1>2. s.log.gen = log.gen /\ l.gen = log.gen /\ log.gen \in 0..log.gen
  BY <1>1 DEF Logs
<1>3. Len(s.log.recs) \in Nat
  BY <1>1, WholeFacts
<1>4. ReadingOf(l.recs, Len(s.log.recs)) = Whole(s.log)
  BY DEF ReadingOf, Whole
<1>5. /\ Attached(s).pos = Len(s.log.recs) /\ Attached(s).idx = s.idx
      /\ Attached(s) \in Process(0..l.gen)
  BY <1>1, <1>2, <1>3 DEF Attached, Process
<1> QED
  BY <1>1, <1>4, <1>5 DEF Agrees

\* One process is changed and the log goes on: all the others stay right about it.
LEMMA StepKeeps ==
  ASSUME IInv, NEW p \in Proc, NEW l, Follows(l), NEW q, Agrees(q, l),
         log' = l, proc' = [proc EXCEPT ![p] = q], past' = past, now' \in 0..MaxTime,
         issued' \in Nat, faults' \in 0..MaxFaults
  PROVE  IInv'
<1>1. /\ Scalars /\ log \in Logs(0..MaxGen) /\ DOMAIN proc = Proc
      /\ \A r \in Proc : Agrees(proc[r], log)
  BY Parts
<1>2. /\ l \in Logs({log.gen}) /\ past.kept <= l.synced /\ l.synced <= Len(l.recs)
      /\ SoundUpTo(l.recs) /\ Len(log.recs) <= Len(l.recs)
      /\ \A n \in 0..Len(log.recs) : SubSeq(l.recs, 1, n) = SubSeq(log.recs, 1, n)
  BY DEF Follows
<1>3. l \in Logs(0..MaxGen) /\ l.gen = log.gen
  BY <1>1, <1>2 DEF Logs
<1>4. Scalars'
  BY <1>1 DEF Scalars
<1>5. ASSUME NEW r \in Proc PROVE Agrees(proc'[r], l)
  <2>1. CASE r = p
    BY <1>1, <2>1
  <2>2. CASE r # p
    <3> DEFINE o == proc[r]
    <3>1. proc'[r] = o
      BY <1>1, <2>2
    <3>2. /\ o \in Process(0..log.gen) /\ o.idx.orphans = 0
          /\ o.up /\ o.gen = log.gen =>
               o.pos <= Len(log.recs) /\ Mirrors(o.idx, ReadingOf(log.recs, o.pos))
      BY <1>1 DEF Agrees
    <3>3. o.pos \in Nat
      BY <3>2 DEF Process
    <3>4. Len(log.recs) \in Nat /\ Len(l.recs) \in Nat
      BY <1>1, <1>3, LenProperties DEF Logs
    <3> HIDE DEF o
    <3>5. o.pos <= Len(log.recs) =>
            /\ o.pos <= Len(l.recs)
            /\ ReadingOf(l.recs, o.pos) = ReadingOf(log.recs, o.pos)
      <4>1. ASSUME o.pos <= Len(log.recs)
            PROVE  o.pos <= Len(l.recs) /\ SubSeq(l.recs, 1, o.pos) = SubSeq(log.recs, 1, o.pos)
        <5>1. o.pos \in 0..Len(log.recs) /\ o.pos <= Len(l.recs)
          BY <1>2, <3>3, <3>4, <4>1
        <5> QED
          BY <1>2, <5>1
      <4> QED
        BY <4>1 DEF ReadingOf
    <3>6. Agrees(o, l)
      BY <1>3, <3>2, <3>5 DEF Agrees
    <3> QED
      BY <3>1, <3>6
  <2> QED
    BY <2>1, <2>2
<1>6. DOMAIN proc' = Proc
  BY <1>1
<1>7. IParts'
  BY <1>2, <1>3, <1>4, <1>5, <1>6 DEF IParts
<1> QED
  BY <1>7, PartsNext

\* The parts that an operation leaves to the end.
Steady == past' = past /\ now' = now /\ issued' \in Nat

LEMMA ReturnsKeeps ==
  ASSUME IInv, NEW p \in Proc, NEW s, Session(s), NEW replies, Returns(p, s, replies), Steady
  PROVE  IInv'
<1>1. Scalars /\ log \in Logs(0..MaxGen)
  BY Parts
<1>2. log.gen \in Nat
  BY <1>1, Bounds DEF Logs
<1>3. s.log \in Logs({log.gen}) /\ Follows(s.log)
  BY DEF Session
<1>4. Len(s.log.recs) \in Nat /\ SubSeq(s.log.recs, 1, Len(s.log.recs)) = s.log.recs
  BY <1>3, WholeFacts, PrefixFacts
<1>5. Agrees(Attached(s), s.log)
  <2>1. Len(s.log.recs) <= Len(s.log.recs)
    BY <1>4
  <2> QED
    BY <1>2, <1>3, <1>4, <2>1, AttachedAgrees
<1>6. /\ log' = s.log /\ proc' = [proc EXCEPT ![p] = Attached(s)] /\ faults' = faults
  BY DEF Returns
<1>7. now' \in 0..MaxTime /\ faults' \in 0..MaxFaults /\ issued' \in Nat /\ past' = past
  BY <1>1, <1>6 DEF Scalars, Steady
<1> QED
  BY <1>3, <1>5, <1>6, <1>7, StepKeeps

\* The log l goes on from where the session is, and the process breaks off.
LEMMA BreaksKeeps ==
  ASSUME IInv, NEW p \in Proc, NEW s, Session(s), Breaks(p, s), Steady,
         NEW l, Follows(l), log' = l, Len(s.log.recs) <= Len(l.recs),
         SubSeq(l.recs, 1, Len(s.log.recs)) = s.log.recs
  PROVE  IInv'
<1>1. Scalars /\ log \in Logs(0..MaxGen)
  BY Parts
<1>2. log.gen \in Nat /\ l \in Logs({log.gen}) /\ l.gen = log.gen
  BY <1>1, Bounds DEF Logs, Follows
<1>3. Agrees(Attached(s), l)
  BY <1>2, AttachedAgrees
<1>4. Agrees(Down, l)
  BY <1>2, DownAgrees
<1>5. faults < MaxFaults /\ faults' = faults + 1
  BY DEF Breaks
<1>6. PICK q \in {Down, Attached(s)} : proc' = [proc EXCEPT ![p] = q]
  BY DEF Breaks
<1>7. Agrees(q, l)
  BY <1>3, <1>4, <1>6
<1>8. now' \in 0..MaxTime /\ faults' \in 0..MaxFaults /\ issued' \in Nat /\ past' = past
  BY <1>1, <1>5, Bounds DEF Scalars, Steady
<1> QED
  BY <1>6, <1>7, <1>8, StepKeeps

LEMMA InterruptedKeeps ==
  ASSUME IInv, NEW p \in Proc, NEW s, Session(s), NEW recs \in Seq(Record),
         Fits(Whole(s.log), recs), Interrupted(p, s, recs), Steady
  PROVE  IInv'
<1>1. PICK k \in 0..Len(recs), torn \in BOOLEAN :
        log' = [s.log EXCEPT !.recs = @ \o SubSeq(recs, 1, k), !.torn = torn]
  BY DEF Interrupted
<1> DEFINE part == SubSeq(recs, 1, k)  all == s.log.recs \o part
           m == [[s.log EXCEPT !.recs = all] EXCEPT !.torn = torn]
<1>2. Breaks(p, s) /\ log' = m
  BY <1>1 DEF Interrupted
<1>3. s.log \in Logs({log.gen}) /\ Follows(s.log) /\ s.log.synced <= Len(s.log.recs)
  BY DEF Session, Follows
<1>4. part \in Seq(Record) /\ Fits(Whole(s.log), part) /\ Len(part) \in Nat
  BY PrefixFacts, FitsPart, LenProperties
<1>5. past.kept \in Nat /\ Len(log.recs) \in Nat
  BY Parts, LenProperties DEF Scalars, Logs
<1> HIDE DEF part
<1>6. all \in Seq(Record) /\ Len(s.log.recs) \in Nat /\ s.log.synced \in Nat
  BY <1>3, <1>4, ConcatProperties, LenProperties DEF Logs
<1>7. m \in Logs({log.gen}) /\ m.recs = all /\ m.synced = s.log.synced
  <2> HIDE DEF all
  <2> QED
    BY <1>1, <1>3, <1>6 DEF Logs
<1>8. s.log.synced <= m.synced /\ m.synced <= Len(s.log.recs) + Len(part)
  BY <1>3, <1>4, <1>6, <1>7
<1> HIDE DEF m
<1>9. /\ Follows(m) /\ Len(s.log.recs) <= Len(m.recs)
      /\ SubSeq(m.recs, 1, Len(s.log.recs)) = s.log.recs
  BY <1>3, <1>4, <1>5, <1>7, <1>8, FollowsMore
<1> QED
  BY <1>2, <1>9, BreaksKeeps

LEMMA CommitKeeps ==
  ASSUME IInv, NEW p \in Proc, NEW s, Session(s), NEW recs \in Seq(Record),
         Fits(Whole(s.log), recs), NEW replies, Commit(p, s, recs, replies), Steady
  PROVE  IInv'
<1>1. Returns(p, Committed(s, recs), replies) \/ Interrupted(p, s, recs)
  BY DEF Commit
<1>2. CASE Returns(p, Committed(s, recs), replies)
  BY <1>2, CommittedFacts, ReturnsKeeps
<1>3. CASE Interrupted(p, s, recs)
  BY <1>3, InterruptedKeeps
<1> QED
  BY <1>1, <1>2, <1>3

-----------------------------------------------------------------------------
(***************************************************************************)
(* The prologue of an operation: the lapsed leases are popped, and one     *)
(* batch of RECLAIM and DEAD records is written for them.                  *)
(***************************************************************************)
LEMMA MappedSeq ==
  ASSUME NEW X, NEW ids \in Seq(X), NEW R, NEW recs, recs = [i \in DOMAIN ids |-> recs[i]],
         \A i \in 1..Len(ids) : recs[i] \in R
  PROVE  recs \in Seq(R) /\ Len(recs) = Len(ids) /\ Len(ids) \in Nat
<1>1. DOMAIN ids = 1..Len(ids) /\ Len(ids) \in Nat
  OBVIOUS
<1>2. recs \in [1..Len(ids) -> R]
  BY <1>1
<1> QED
  BY <1>1, <1>2

LEMMA DelaysType == ASSUME NEW attempts PROVE DelaysFor(attempts) \subseteq Nat
<1> DEFINE raw == Min({Base * Factor ^ (attempts - 1), MaxDelay})
<1>1. DelaysFor(attempts) = IF attempts <= 0 THEN {0}
                            ELSE {d \in 0..raw : 100 * d >= raw * (100 - JitterPercent)}
  BY DEF DelaysFor
<1> HIDE DEF raw
<1>2. 0..raw \subseteq Nat
  OBVIOUS
<1>3. CASE attempts <= 0
  BY <1>1, <1>3
<1>4. CASE ~(attempts <= 0)
  <2>1. {d \in 0..raw : 100 * d >= raw * (100 - JitterPercent)} \subseteq 0..raw
    OBVIOUS
  <2> QED
    BY <1>1, <1>2, <1>4, <2>1
<1> QED
  BY <1>3, <1>4

\* Records that name jobs the session knows.
LEMMA NamedBatch ==
  ASSUME NEW s, Session(s), NEW recs,
         \A k \in 1..Len(recs) : NamesJob(recs[k]) /\ recs[k].id \in DOMAIN s.idx.jobs
  PROVE  Fits(Whole(s.log), recs)
<1>1. DOMAIN s.idx.jobs = DOMAIN Whole(s.log).jobs
  BY DEF Session, Mirrors
<1> QED
  BY <1>1 DEF Fits

LEMMA NowType == ASSUME IInv PROVE now \in Nat /\ issued \in Nat
  BY Parts, Bounds DEF Scalars

LEMMA ReapRecordType ==
  ASSUME now \in Nat, NEW idx, NEW id \in JobId, NEW delay \in Nat
  PROVE  LET rec == ReapRecord(idx, id, delay) IN
         rec \in Record /\ NamesJob(rec) /\ rec.id = id
<1>1. /\ [type |-> "DEAD", id |-> id, at |-> now, error |-> "expired"] \in Record
      /\ [type |-> "RECLAIM", id |-> id, at |-> now, available_at |-> now + delay] \in Record
  BY DEF Record
<1> QED
  BY <1>1 DEF ReapRecord, NamesJob

Popped(p) == [CaughtUp(p) EXCEPT !.idx = WithoutLapsed(@, now)]

LEMMA PoppedFacts ==
  ASSUME IInv, NEW p \in Proc, proc[p].up
  PROVE  Session(Popped(p)) /\ Popped(p).log = CaughtUp(p).log
         /\ DOMAIN Popped(p).idx.jobs = DOMAIN CaughtUp(p).idx.jobs
<1> DEFINE s == CaughtUp(p)  idx == WithoutLapsed(s.idx, now)
<1>1. Session(s) /\ s.idx \in Indexes /\ s \in [log : Logs({log.gen}), idx : Indexes]
  BY CaughtUpFacts DEF Session
<1> HIDE DEF s
<1>2. idx \in Indexes /\ SameJobs(idx, s.idx)
  BY <1>1, WithoutLapsedFacts
<1>3. s.idx.seq \in Nat
  BY <1>1 DEF Indexes
<1> HIDE DEF idx
<1>4. idx.jobs = s.idx.jobs /\ idx.orphans = s.idx.orphans /\ idx.seq >= s.idx.seq
  BY <1>2, <1>3 DEF SameJobs
<1>5. Session([s EXCEPT !.idx = idx]) /\ [s EXCEPT !.idx = idx].log = s.log
  BY <1>1, <1>2, <1>4, SessionIndex
<1>6. Popped(p) = [s EXCEPT !.idx = idx]
  BY DEF Popped, idx, s
<1>7. Popped(p).idx = idx
  BY <1>1, <1>6
<1> QED
  BY <1>4, <1>5, <1>6, <1>7 DEF s

LEMMA ReapFacts ==
  ASSUME IInv, NEW p \in Proc, proc[p].up, NEW batch \in ReapBatches(CaughtUp(p).idx)
  PROVE  /\ batch \in Seq(Record) /\ Fits(Whole(Popped(p).log), batch)
         /\ Session(Popped(p)) /\ Session(Committed(Popped(p), batch))
<1> DEFINE idx == CaughtUp(p).idx
<1>0. PICK ids \in ExpiredLeases(idx, now) : \E delay \in [DOMAIN ids -> 0..MaxDelay] :
        batch = [i \in DOMAIN ids |-> ReapRecord(idx, ids[i], delay[i])]
  BY DEF ReapBatches
<1>1. PICK delay \in [DOMAIN ids -> 0..MaxDelay] :
        batch = [i \in DOMAIN ids |-> ReapRecord(idx, ids[i], delay[i])]
  BY <1>0
<1>2. idx \in Indexes
  BY CaughtUpFacts DEF Session
<1>3. Session(Popped(p)) /\ DOMAIN Popped(p).idx.jobs = DOMAIN idx.jobs
  BY PoppedFacts
<1> HIDE DEF idx
<1>4. ids \in Seq(LeasedIds(idx))
  BY <1>1, <1>2, ExpiredFacts
<1>5. Len(ids) \in Nat /\ DOMAIN ids = 1..Len(ids) /\ \A i \in 1..Len(ids) : ids[i] \in LeasedIds(idx)
  BY <1>4
<1>6. \A i \in 1..Len(ids) : ids[i] \in DOMAIN idx.jobs /\ ids[i] \in JobId /\ delay[i] \in Nat
  BY <1>1, <1>2, <1>5, JobsType DEF LeasedIds
<1>7. \A i \in 1..Len(ids) : batch[i] = ReapRecord(idx, ids[i], delay[i])
  BY <1>1, <1>5
<1>8. \A i \in 1..Len(ids) : /\ batch[i] \in Record
                             /\ NamesJob(batch[i]) /\ batch[i].id \in DOMAIN idx.jobs
  BY <1>6, <1>7, NowType, ReapRecordType
<1>9. batch = [i \in DOMAIN ids |-> batch[i]]
  BY <1>1
<1>10. batch \in Seq(Record) /\ Len(batch) = Len(ids)
  BY <1>4, <1>8, <1>9, MappedSeq
<1>11. \A i \in 1..Len(batch) : NamesJob(batch[i]) /\ batch[i].id \in DOMAIN Popped(p).idx.jobs
  BY <1>3, <1>8, <1>10
<1>12. Fits(Whole(Popped(p).log), batch)
  BY <1>3, <1>11, NamedBatch
<1>13. Session(Committed(Popped(p), batch))
  BY <1>3, <1>10, <1>12, CommittedFacts
<1> QED
  BY <1>3, <1>10, <1>12, <1>13

-----------------------------------------------------------------------------
(***************************************************************************)
(* The operations, one by one.                                             *)
(***************************************************************************)
Begun(p, batch) == Committed(Popped(p), batch)

LEMMA BegunFacts ==
  ASSUME IInv, NEW p \in Proc, proc[p].up, NEW batch \in ReapBatches(CaughtUp(p).idx)
  PROVE  LET s == Begun(p, batch) IN
         /\ Session(s) /\ s.idx \in Indexes /\ s = [log |-> s.log, idx |-> s.idx]
         /\ \A id \in DOMAIN s.idx.jobs : id \in JobId /\ s.idx.jobs[id] \in Job
<1> DEFINE s == Begun(p, batch)
<1>1. Session(s)
  BY ReapFacts DEF Begun
<1>2. s.idx \in Indexes /\ s \in [log : Logs({log.gen}), idx : Indexes]
  BY <1>1 DEF Session
<1> HIDE DEF s
<1>3. \A id \in DOMAIN s.idx.jobs : id \in JobId /\ s.idx.jobs[id] \in Job
  BY <1>2, JobsType
<1> QED
  BY <1>1, <1>2, <1>3 DEF s

LEMMA ReapBreaks ==
  ASSUME IInv, NEW p \in Proc, proc[p].up, NEW batch \in ReapBatches(CaughtUp(p).idx),
         Interrupted(p, Popped(p), batch), UNCHANGED <<issued, past, now>>
  PROVE  IInv'
<1>1. Steady
  BY NowType DEF Steady
<1> QED
  BY <1>1, ReapFacts, InterruptedKeeps

\* One record about a job the session knows.
LEMMA CommitOne ==
  ASSUME IInv, NEW p \in Proc, NEW s, Session(s), NEW rec \in Record, NamesJob(rec),
         rec.id \in DOMAIN s.idx.jobs, NEW replies, Commit(p, s, <<rec>>, replies),
         UNCHANGED <<issued, past, now>>
  PROVE  IInv'
<1>1. Steady
  BY NowType DEF Steady
<1>2. <<rec>> \in Seq(Record) /\ Len(<<rec>>) = 1 /\ <<rec>>[1] = rec
  OBVIOUS
<1>3. \A k \in 1..Len(<<rec>>) :
        NamesJob((<<rec>>)[k]) /\ (<<rec>>)[k].id \in DOMAIN s.idx.jobs
  BY <1>2
<1>4. Fits(Whole(s.log), <<rec>>)
  BY <1>3, NamedBatch
<1> QED
  BY <1>1, <1>2, <1>4, CommitKeeps

\* The session ends with nothing more written.
LEMMA ReturnsPlain ==
  ASSUME IInv, NEW p \in Proc, NEW s, Session(s), NEW replies, Returns(p, s, replies),
         UNCHANGED <<issued, past, now>>
  PROVE  IInv'
<1>1. Steady
  BY NowType DEF Steady
<1> QED
  BY <1>1, ReturnsKeeps

LEMMA ReadKeeps == ASSUME IInv, NEW p \in Proc, Read(p) PROVE IInv'
<1>1. proc[p].up /\ now' = now
  BY DEF Read, Transaction
<1>2. PICK batch \in ReapBatches(CaughtUp(p).idx) :
        /\ Returns(p, Begun(p, batch), {}) \/ Interrupted(p, Popped(p), batch)
        /\ UNCHANGED <<issued, past>>
  BY DEF Read, Transaction, Popped, Begun
<1>3. CASE Returns(p, Begun(p, batch), {})
  BY <1>1, <1>2, <1>3, BegunFacts, ReturnsPlain
<1>4. CASE Interrupted(p, Popped(p), batch)
  BY <1>1, <1>2, <1>4, ReapBreaks
<1> QED
  BY <1>2, <1>3, <1>4

LEMMA PurgeKeeps == ASSUME IInv, NEW p \in Proc, Purge(p) PROVE IInv'
<1> DEFINE rec == [type |-> "PURGE", at |-> now]  recs == <<rec>>
<1>1. proc[p].up /\ now' = now
  BY DEF Purge, Transaction
<1>2. PICK batch \in ReapBatches(CaughtUp(p).idx) :
        /\ Commit(p, Begun(p, batch), recs, {}) \/ Interrupted(p, Popped(p), batch)
        /\ UNCHANGED <<issued, past>>
  BY DEF Purge, Transaction, Popped, Begun
<1>3. rec \in Record /\ rec.type = "PURGE"
  BY NowType DEF Record
<1> HIDE DEF rec
<1>4. recs \in Seq(Record) /\ \A k \in 1..Len(recs) : recs[k].type = "PURGE"
  BY <1>3
<1> HIDE DEF recs
<1>5. Steady
  BY <1>1, <1>2, NowType DEF Steady
<1>6. CASE Commit(p, Begun(p, batch), recs, {})
  <2>1. Fits(Whole(Begun(p, batch).log), recs)
    BY <1>4 DEF Fits
  <2> QED
    BY <1>1, <1>4, <1>5, <1>6, <2>1, BegunFacts, CommitKeeps
<1>7. CASE Interrupted(p, Popped(p), batch)
  BY <1>1, <1>2, <1>7, ReapBreaks
<1> QED
  BY <1>2, <1>6, <1>7

LEMMA AckKeeps ==
  ASSUME IInv, NEW p \in Proc, NEW id \in JobId, NEW token, Ack(p, id, token) PROVE IInv'
<1> DEFINE rec == [type |-> "ACK", id |-> id, at |-> now]
<1>1. proc[p].up /\ now' = now
  BY DEF Ack, Transaction
<1>2. PICK batch \in ReapBatches(CaughtUp(p).idx) :
        /\ \/ \E replies : Returns(p, Begun(p, batch), replies)
           \/ /\ id \in DOMAIN Begun(p, batch).idx.jobs
              /\ \E replies : Commit(p, Begun(p, batch), <<rec>>, replies)
           \/ Interrupted(p, Popped(p), batch)
        /\ UNCHANGED <<issued, past>>
  BY DEF Ack, Transaction, Popped, Begun
<1>3. rec \in Record /\ NamesJob(rec) /\ rec.id = id
  BY NowType DEF Record, NamesJob
<1> HIDE DEF rec
<1>4. CASE \E replies : Returns(p, Begun(p, batch), replies)
  BY <1>1, <1>2, <1>4, BegunFacts, ReturnsPlain
<1>5. CASE /\ id \in DOMAIN Begun(p, batch).idx.jobs
           /\ \E replies : Commit(p, Begun(p, batch), <<rec>>, replies)
  BY <1>1, <1>2, <1>3, <1>5, BegunFacts, CommitOne
<1>6. CASE Interrupted(p, Popped(p), batch)
  BY <1>1, <1>2, <1>6, ReapBreaks
<1> QED
  BY <1>2, <1>4, <1>5, <1>6

LEMMA HeldFacts ==
  ASSUME NEW idx \in Indexes, NEW id \in DOMAIN idx.jobs, NEW token, HoldsLease(idx, id, token)
  PROVE  idx.jobs[id].lease_deadline \in Nat /\ idx.jobs[id].attempts \in Nat
<1>1. idx.jobs[id] \in Job /\ idx.jobs[id].state = "LEASED"
  BY JobsType DEF HoldsLease
<1> QED
  BY <1>1 DEF Job, HeldWhenLeased

LEMMA NackKeeps ==
  ASSUME IInv, NEW p \in Proc, NEW id \in JobId, NEW token, Nack(p, id, token) PROVE IInv'
<1> DEFINE dead == [type |-> "DEAD", id |-> id, at |-> now, error |-> "reported"]
           nack(n, wait) == [type |-> "NACK", id |-> id, at |-> now, attempts |-> n,
                             available_at |-> now + wait]
<1>1. proc[p].up /\ now' = now
  BY DEF Nack, WithLease, Transaction
<1>2. PICK batch \in ReapBatches(CaughtUp(p).idx) :
        LET s == Begun(p, batch)  n == s.idx.jobs[id].attempts IN
        /\ \/ Returns(p, s, {})
           \/ /\ id \in DOMAIN s.idx.jobs /\ HoldsLease(s.idx, id, token)
              /\ \/ Commit(p, s, <<dead>>, {})
                 \/ \E wait \in DelaysFor(n) \cup NackDelays : Commit(p, s, <<nack(n, wait)>>, {})
           \/ Interrupted(p, Popped(p), batch)
        /\ UNCHANGED <<issued, past>>
  BY DEF Nack, WithLease, Transaction, Popped, Begun
<1> DEFINE s == Begun(p, batch)  n == s.idx.jobs[id].attempts
<1>3. Session(s) /\ s.idx \in Indexes
  BY <1>1, BegunFacts
<1>4. CASE Returns(p, s, {})
  BY <1>1, <1>2, <1>3, <1>4, ReturnsPlain
<1>5. dead \in Record /\ NamesJob(dead) /\ dead.id = id
  BY NowType DEF Record, NamesJob
<1>6. ASSUME NEW m \in Nat, NEW wait \in Nat
      PROVE  nack(m, wait) \in Record /\ NamesJob(nack(m, wait)) /\ nack(m, wait).id = id
  BY NowType DEF Record, NamesJob
<1> HIDE DEF s, dead, nack
<1>7. CASE id \in DOMAIN s.idx.jobs /\ Commit(p, s, <<dead>>, {})
  BY <1>1, <1>2, <1>3, <1>5, <1>7, CommitOne
<1>8. CASE /\ id \in DOMAIN s.idx.jobs /\ HoldsLease(s.idx, id, token)
           /\ \E wait \in DelaysFor(n) \cup NackDelays : Commit(p, s, <<nack(n, wait)>>, {})
  <2>1. PICK wait \in DelaysFor(n) \cup NackDelays : Commit(p, s, <<nack(n, wait)>>, {})
    BY <1>8
  <2>2. wait \in Nat
    BY <2>1, DelaysType, InputAssumption
  <2>3. n \in Nat
    BY <1>3, <1>8, HeldFacts
  <2> DEFINE rec == nack(n, wait)
  <2>4. rec \in Record /\ NamesJob(rec) /\ rec.id = id
    BY <1>6, <2>2, <2>3
  <2> HIDE DEF rec
  <2>5. Commit(p, s, <<rec>>, {})
    BY <2>1 DEF rec
  <2> QED
    BY <1>1, <1>2, <1>3, <1>8, <2>4, <2>5, CommitOne
<1>9. CASE Interrupted(p, Popped(p), batch)
  BY <1>1, <1>2, <1>9, ReapBreaks
<1> QED
  BY <1>2, <1>4, <1>7, <1>8, <1>9 DEF s

LEMMA MaxOfTwo == ASSUME NEW i \in Nat, NEW j \in Nat PROVE Max({i, j}) \in Nat
  BY DEF Max

LEMMA ExtendKeeps ==
  ASSUME IInv, NEW p \in Proc, NEW id \in JobId, NEW token, NEW seconds \in Extensions,
         Extend(p, id, token, seconds)
  PROVE  IInv'
<1> DEFINE extend(d) == [type |-> "EXTEND", id |-> id, at |-> now,
                         deadline |-> Max({d, now}) + seconds]
<1>1. proc[p].up /\ now' = now
  BY DEF Extend, WithLease, Transaction
<1>2. PICK batch \in ReapBatches(CaughtUp(p).idx) :
        LET s == Begun(p, batch) IN
        /\ \/ Returns(p, s, {})
           \/ /\ id \in DOMAIN s.idx.jobs /\ HoldsLease(s.idx, id, token)
              /\ Commit(p, s, <<extend(s.idx.jobs[id].lease_deadline)>>, {})
           \/ Interrupted(p, Popped(p), batch)
        /\ UNCHANGED <<issued, past>>
  BY DEF Extend, WithLease, Transaction, Popped, Begun
<1> DEFINE s == Begun(p, batch)  rec == extend(s.idx.jobs[id].lease_deadline)
<1>3. Session(s) /\ s.idx \in Indexes
  BY <1>1, BegunFacts
<1> HIDE DEF s
<1>4. CASE Returns(p, s, {})
  BY <1>1, <1>2, <1>3, <1>4, ReturnsPlain
<1>5. CASE /\ id \in DOMAIN s.idx.jobs /\ HoldsLease(s.idx, id, token)
           /\ Commit(p, s, <<rec>>, {})
  <2>1. s.idx.jobs[id].lease_deadline \in Nat /\ seconds \in Nat /\ now \in Nat
    BY <1>3, <1>5, HeldFacts, NowType, InputAssumption
  <2>2. Max({s.idx.jobs[id].lease_deadline, now}) + seconds \in Nat
    BY <2>1, MaxOfTwo
  <2>3. rec \in Record /\ NamesJob(rec) /\ rec.id = id
    BY <2>1, <2>2 DEF Record, NamesJob
  <2> HIDE DEF rec
  <2> QED
    BY <1>1, <1>2, <1>3, <1>5, <2>3, CommitOne
<1>6. CASE Interrupted(p, Popped(p), batch)
  BY <1>1, <1>2, <1>6, ReapBreaks
<1> QED
  BY <1>2, <1>4, <1>5, <1>6 DEF s

LEMMA RequeueBatch ==
  ASSUME IInv, NEW s, Session(s), NEW ids \in Seq(JobId),
         \A i \in 1..Len(ids) : ids[i] \in DOMAIN s.idx.jobs
  PROVE  RequeueRecords(ids) \in Seq(Record) /\ Fits(Whole(s.log), RequeueRecords(ids))
<1> DEFINE recs == RequeueRecords(ids)
<1>1. Len(ids) \in Nat /\ DOMAIN ids = 1..Len(ids) /\ \A i \in 1..Len(ids) : ids[i] \in JobId
  OBVIOUS
<1>2. recs = [i \in DOMAIN ids |-> [type |-> "REQUEUE", id |-> ids[i], at |-> now,
                                    available_at |-> now]]
  BY DEF RequeueRecords
<1>3. \A i \in 1..Len(ids) : recs[i] = [type |-> "REQUEUE", id |-> ids[i], at |-> now,
                                        available_at |-> now]
  BY <1>1, <1>2
<1>4. recs = [i \in DOMAIN ids |-> recs[i]]
  BY <1>2
<1> HIDE DEF recs
<1>5. \A i \in 1..Len(ids) : /\ recs[i] \in Record /\ NamesJob(recs[i])
                             /\ recs[i].id \in DOMAIN s.idx.jobs
  <2>1. ASSUME NEW id \in JobId
        PROVE  LET rec == [type |-> "REQUEUE", id |-> id, at |-> now, available_at |-> now] IN
               rec \in Record /\ NamesJob(rec) /\ rec.id = id
    BY NowType DEF Record, NamesJob
  <2> QED
    BY <1>1, <1>3, <2>1
<1>6. recs \in Seq(Record) /\ Len(recs) = Len(ids)
  BY <1>4, <1>5, MappedSeq
<1>7. Fits(Whole(s.log), recs)
  BY <1>5, <1>6, NamedBatch
<1> QED
  BY <1>6, <1>7 DEF recs

LEMMA RequeueOneKeeps ==
  ASSUME IInv, NEW p \in Proc, NEW id \in JobId, RequeueOne(p, id) PROVE IInv'
<1>1. proc[p].up /\ now' = now
  BY DEF RequeueOne, Transaction
<1>2. PICK batch \in ReapBatches(CaughtUp(p).idx) :
        LET s == Begun(p, batch)
            targets == IF id \in DOMAIN s.idx.jobs /\ s.idx.jobs[id].state = "DEAD"
                       THEN <<id>> ELSE <<>>
        IN
        /\ Commit(p, s, RequeueRecords(targets), {}) \/ Interrupted(p, Popped(p), batch)
        /\ UNCHANGED <<issued, past>>
  BY DEF RequeueOne, Transaction, Popped, Begun
<1> DEFINE s == Begun(p, batch)
           targets == IF id \in DOMAIN s.idx.jobs /\ s.idx.jobs[id].state = "DEAD"
                      THEN <<id>> ELSE <<>>
<1>3. Session(s) /\ Steady
  BY <1>1, <1>2, BegunFacts, NowType DEF Steady
<1> HIDE DEF s
<1>4. targets \in Seq(JobId) /\ \A i \in 1..Len(targets) : targets[i] \in DOMAIN s.idx.jobs
  <2>1. CASE id \in DOMAIN s.idx.jobs /\ s.idx.jobs[id].state = "DEAD"
    BY <2>1
  <2>2. CASE ~(id \in DOMAIN s.idx.jobs /\ s.idx.jobs[id].state = "DEAD")
    BY <2>2
  <2> QED
    BY <2>1, <2>2
<1>5. CASE Commit(p, s, RequeueRecords(targets), {})
  <2> HIDE DEF targets
  <2> QED
    BY <1>3, <1>4, <1>5, RequeueBatch, CommitKeeps
<1>6. CASE Interrupted(p, Popped(p), batch)
  BY <1>1, <1>2, <1>6, ReapBreaks
<1> QED
  BY <1>2, <1>5, <1>6 DEF s

LEMMA RequeueAllKeeps == ASSUME IInv, NEW p \in Proc, RequeueAll(p) PROVE IInv'
<1> DEFINE deadIds(idx) == {id \in DOMAIN idx.jobs : idx.jobs[id].state = "DEAD"}
<1>1. proc[p].up /\ now' = now
  BY DEF RequeueAll, Transaction
<1>2. PICK batch \in ReapBatches(CaughtUp(p).idx) :
        LET s == Begun(p, batch) IN
        /\ \/ \E ids \in BySeq(s.idx, deadIds(s.idx)) : Commit(p, s, RequeueRecords(ids), {})
           \/ Interrupted(p, Popped(p), batch)
        /\ UNCHANGED <<issued, past>>
  BY DEF RequeueAll, Transaction, Popped, Begun
<1> DEFINE s == Begun(p, batch)
<1>3. Session(s) /\ Steady /\ s.idx \in Indexes
  BY <1>1, <1>2, BegunFacts, NowType DEF Steady
<1> HIDE DEF s
<1>4. CASE \E ids \in BySeq(s.idx, deadIds(s.idx)) : Commit(p, s, RequeueRecords(ids), {})
  <2>1. PICK ids \in BySeq(s.idx, deadIds(s.idx)) : Commit(p, s, RequeueRecords(ids), {})
    BY <1>4
  <2>2. IsFiniteSet(deadIds(s.idx))
    BY <1>3, JobsType, FS_Subset DEF Finite
  <2>3. ids \in Seq(deadIds(s.idx))
    <3> DEFINE dead == deadIds(s.idx)
    <3>1. ids \in BySeq(s.idx, dead) /\ IsFiniteSet(dead)
      BY <2>1, <2>2
    <3> HIDE DEF dead
    <3>2. ids \in Seq(dead)
      BY <3>1, BySeqFacts
    <3> QED
      BY <3>2 DEF dead
  <2>4. \A id \in deadIds(s.idx) : id \in DOMAIN s.idx.jobs /\ id \in JobId
    BY <1>3, JobsType
  <2> HIDE DEF deadIds
  <2>5. ids \in Seq(JobId) /\ \A i \in 1..Len(ids) : ids[i] \in DOMAIN s.idx.jobs
    BY <2>3, <2>4
  <2> QED
    BY <1>3, <2>1, <2>5, RequeueBatch, CommitKeeps
<1>5. CASE Interrupted(p, Popped(p), batch)
  BY <1>1, <1>2, <1>5, ReapBreaks
<1> QED
  BY <1>2, <1>4, <1>5 DEF s

LEMMA FreshFacts ==
  ASSUME NEW idx, NEW ids \in Seq(JobId), NEW fresh \in Fresh(idx, ids)
  PROVE  fresh \in Seq(JobId) /\ Len(fresh) \in Nat
<1> DEFINE unknown == {k \in DOMAIN ids : ids[k] \notin DOMAIN idx.jobs}
<1>1. PICK order \in Ascending(unknown) : fresh = [i \in DOMAIN order |-> ids[order[i]]]
  BY DEF Fresh
<1>2. IsFiniteSet(unknown) /\ DOMAIN ids = 1..Len(ids) /\ Len(ids) \in Nat
  <2>1. DOMAIN ids = 1..Len(ids) /\ Len(ids) \in Nat
    OBVIOUS
  <2>2. IsFiniteSet(1..Len(ids))
    BY <2>1, FS_Interval
  <2> QED
    BY <2>1, <2>2, FS_Subset
<1>3. order \in Bijection(1..Cardinality(unknown), unknown)
  BY <1>1 DEF Ascending, Orders
<1> HIDE DEF unknown
<1>4. order \in Seq(unknown)
  BY <1>2, <1>3, Arranged
<1>5. \A i \in 1..Len(order) : order[i] \in 1..Len(ids)
  BY <1>2, <1>4 DEF unknown
<1>6. DOMAIN order = 1..Len(order)
  BY <1>4
<1>7. \A i \in 1..Len(order) : fresh[i] \in JobId
  BY <1>1, <1>5, <1>6
<1>8. fresh = [i \in DOMAIN order |-> fresh[i]]
  BY <1>1
<1> QED
  BY <1>4, <1>7, <1>8, MappedSeq

LEMMA NewRecord ==
  ASSUME IInv, NEW batch \in Batches, NEW id \in JobId, NEW n \in Nat \ {0}
  PROVE  LET rec == ToDict(id, NewJob(batch, n)) IN
         rec \in Record /\ rec.type = "ENQUEUE" /\ rec.seq = n
<1> DEFINE rec == [type |-> "ENQUEUE", id |-> id, priority |-> batch.priority,
                   state |-> "READY", attempts |-> 0, max_attempts |-> batch.limit,
                   available_at |-> now + batch.delay, lease_deadline |-> None,
                   lease_token |-> None, seq |-> n]
<1>1. ToDict(id, NewJob(batch, n)) = rec
  BY DEF ToDict, NewJob
<1>2. batch.priority \in Int /\ batch.limit \in Nat /\ now + batch.delay \in Nat
  BY InputAssumption, NowType
<1>3. HeldWhenLeased(rec)
  BY DEF HeldWhenLeased
<1>4. rec \in [type : {"ENQUEUE"}, id : JobId, priority : Int, state : States,
               attempts : Nat, max_attempts : Nat, available_at : Nat,
               lease_deadline : Nat \cup {None}, lease_token : Nat \cup {None}, seq : Nat \ {0}]
  BY <1>2 DEF States
<1>5. rec.type = "ENQUEUE" /\ rec.seq = n
  OBVIOUS
<1> HIDE DEF rec
<1>6. rec \in Record
  BY <1>3, <1>4 DEF Record
<1> QED
  BY <1>1, <1>5, <1>6

LEMMA CountedSession ==
  ASSUME NEW s, Session(s), NEW n \in Nat
  PROVE  /\ Session([s EXCEPT !.idx.seq = @ + n])
         /\ [s EXCEPT !.idx.seq = @ + n].log = s.log
         /\ s.idx.seq \in Nat
<1> DEFINE idx == [s.idx EXCEPT !.seq = s.idx.seq + n]
<1>1. s.idx \in Indexes /\ s.idx.seq \in Nat
  BY DEF Session, Indexes
<1>2. s.idx.seq + n \in Nat /\ s.idx.seq + n >= s.idx.seq
  BY <1>1
<1>3. idx \in Indexes
  BY <1>1, <1>2, SetHeap
<1>4. idx.jobs = s.idx.jobs /\ idx.orphans = s.idx.orphans /\ idx.seq >= s.idx.seq
  BY <1>1, <1>2 DEF Indexes
<1>5. [s EXCEPT !.idx.seq = @ + n] = [s EXCEPT !.idx = idx]
  OBVIOUS
<1> HIDE DEF idx
<1>6. Session([s EXCEPT !.idx = idx]) /\ [s EXCEPT !.idx = idx].log = s.log
  BY <1>3, <1>4, SessionIndex
<1> QED
  BY <1>1, <1>5, <1>6

LEMMA EnqueueKeeps ==
  ASSUME IInv, NEW p \in Proc, NEW call \in Batches, Enqueue(p, call) PROVE IInv'
<1>1. proc[p].up /\ now' = now
  BY DEF Enqueue, Transaction
<1>2. PICK batch \in ReapBatches(CaughtUp(p).idx) :
        LET s == Begun(p, batch) IN
        /\ \/ \E fresh \in Fresh(s.idx, call.ids) : \E replies :
                Commit(p, [s EXCEPT !.idx.seq = @ + Len(fresh)],
                       [i \in DOMAIN fresh |-> ToDict(fresh[i], NewJob(call, s.idx.seq + i))],
                       replies)
           \/ Interrupted(p, Popped(p), batch)
        /\ UNCHANGED <<issued, past>>
  BY DEF Enqueue, Transaction, Popped, Begun
<1> DEFINE s == Begun(p, batch)
<1>3. Session(s) /\ Steady
  BY <1>1, <1>2, BegunFacts, NowType DEF Steady
<1> HIDE DEF s
<1>4. CASE \E fresh \in Fresh(s.idx, call.ids) : \E replies :
             Commit(p, [s EXCEPT !.idx.seq = @ + Len(fresh)],
                    [i \in DOMAIN fresh |-> ToDict(fresh[i], NewJob(call, s.idx.seq + i))],
                    replies)
  <2>0. PICK fresh \in Fresh(s.idx, call.ids) : \E replies :
          Commit(p, [s EXCEPT !.idx.seq = @ + Len(fresh)],
                 [i \in DOMAIN fresh |-> ToDict(fresh[i], NewJob(call, s.idx.seq + i))],
                 replies)
    BY <1>4
  <2>1. PICK replies :
          Commit(p, [s EXCEPT !.idx.seq = @ + Len(fresh)],
                 [i \in DOMAIN fresh |-> ToDict(fresh[i], NewJob(call, s.idx.seq + i))],
                 replies)
    BY <2>0
  <2> DEFINE t == [s EXCEPT !.idx.seq = @ + Len(fresh)]  base == s.idx.seq
             recs == [i \in DOMAIN fresh |-> ToDict(fresh[i], NewJob(call, base + i))]
  <2>2. fresh \in Seq(JobId) /\ Len(fresh) \in Nat
    BY <2>0, FreshFacts, InputAssumption
  <2>3. Session(t) /\ t.log = s.log /\ base \in Nat
    BY <1>3, <2>2, CountedSession
  <2>4. Commit(p, t, recs, replies)
    BY <2>1
  <2> HIDE DEF t, base
  <2>5. DOMAIN fresh = 1..Len(fresh) /\ \A i \in 1..Len(fresh) : fresh[i] \in JobId
    BY <2>2
  <2>6. \A i \in 1..Len(fresh) : recs[i] = ToDict(fresh[i], NewJob(call, base + i))
    BY <2>5
  <2>7. recs = [i \in DOMAIN fresh |-> recs[i]]
    OBVIOUS
  <2> HIDE DEF recs
  <2>8. \A i \in 1..Len(fresh) :
          recs[i] \in Record /\ recs[i].type = "ENQUEUE" /\ recs[i].seq = base + i
    <3>1. \A i \in 1..Len(fresh) : base + i \in Nat \ {0}
      BY <2>2, <2>3
    <3> QED
      BY <2>5, <2>6, <3>1, NewRecord
  <2>9. recs \in Seq(Record) /\ Len(recs) = Len(fresh)
    BY <2>2, <2>7, <2>8, MappedSeq
  <2>10. base >= Whole(t.log).seq
    BY <1>3, <2>3 DEF Session, Mirrors, base
  <2>11. Fits(Whole(t.log), recs)
    BY <2>3, <2>8, <2>9, <2>10 DEF Fits
  <2> QED
    BY <1>3, <2>3, <2>4, <2>9, <2>11, CommitKeeps
<1>5. CASE Interrupted(p, Popped(p), batch)
  BY <1>1, <1>2, <1>5, ReapBreaks
<1> QED
  BY <1>2, <1>4, <1>5 DEF s

LEMMA LeaseBatch ==
  ASSUME IInv, NEW s, Session(s), s.idx \in Indexes, NEW timeout \in Nat,
         NEW ids \in Seq(WaitingIds(s.idx))
  PROVE  /\ LeaseRecords(s, ids, timeout) \in Seq(Record)
         /\ Fits(Whole(s.log), LeaseRecords(s, ids, timeout))
<1> DEFINE recs == LeaseRecords(s, ids, timeout)
           lease(id, n, token) == [type |-> "LEASE", id |-> id, at |-> now,
                                   deadline |-> now + timeout, attempts |-> n, token |-> token]
<1>1. /\ Len(ids) \in Nat /\ DOMAIN ids = 1..Len(ids)
      /\ \A i \in 1..Len(ids) : ids[i] \in WaitingIds(s.idx)
  OBVIOUS
<1>2. ASSUME NEW i \in 1..Len(ids)
      PROVE  /\ ids[i] \in DOMAIN s.idx.jobs /\ ids[i] \in JobId
             /\ s.idx.jobs[ids[i]].attempts + 1 \in Nat /\ issued + i \in Nat
  <2>1. ids[i] \in DOMAIN s.idx.jobs
    BY <1>1 DEF WaitingIds
  <2>2. ids[i] \in JobId /\ s.idx.jobs[ids[i]] \in Job
    BY <2>1, JobsType
  <2>3. s.idx.jobs[ids[i]].attempts \in Nat
    BY <2>2 DEF Job
  <2>4. issued + i \in Nat
    BY <1>1, NowType
  <2> QED
    BY <2>1, <2>2, <2>3, <2>4
<1>3. ASSUME NEW id \in JobId, NEW n \in Nat, NEW token \in Nat
      PROVE  lease(id, n, token) \in Record /\ NamesJob(lease(id, n, token))
             /\ lease(id, n, token).id = id
  BY NowType DEF Record, NamesJob
<1>4. recs = [i \in DOMAIN ids |-> lease(ids[i], s.idx.jobs[ids[i]].attempts + 1, issued + i)]
  BY DEF LeaseRecords
<1>5. recs = [i \in DOMAIN ids |-> recs[i]]
  BY <1>4
<1>6. \A i \in 1..Len(ids) : recs[i] = lease(ids[i], s.idx.jobs[ids[i]].attempts + 1, issued + i)
  BY <1>1, <1>4
<1> HIDE DEF recs, lease
<1>7. \A i \in 1..Len(ids) : /\ recs[i] \in Record /\ NamesJob(recs[i])
                             /\ recs[i].id \in DOMAIN s.idx.jobs
  BY <1>2, <1>3, <1>6
<1>8. recs \in Seq(Record) /\ Len(recs) = Len(ids)
  BY <1>5, <1>7, MappedSeq
<1>9. Fits(Whole(s.log), recs)
  BY <1>7, <1>8, NamedBatch
<1> QED
  BY <1>8, <1>9 DEF recs

LEMMA TakenSession ==
  ASSUME NEW s, Session(s), s.idx \in Indexes, NEW n \in Nat
  PROVE  LET taken == Taken(s.idx, n)  t == [s EXCEPT !.idx = taken.idx] IN
         /\ Session(t) /\ t.log = s.log /\ t.idx = taken.idx /\ taken.idx \in Indexes
         /\ taken.idx.jobs = s.idx.jobs
         /\ taken.ids \in Seq(WaitingIds(s.idx)) /\ taken.ids \in Seq(WaitingIds(taken.idx))
         /\ Len(taken.ids) \in Nat
<1> DEFINE taken == Taken(s.idx, n)  idx == taken.idx  t == [s EXCEPT !.idx = idx]
<1>1. /\ taken.ids \in Seq(WaitingIds(s.idx)) /\ idx \in Indexes /\ SameJobs(idx, s.idx)
  BY TakenFacts DEF Takings
<1>2. s.idx.seq \in Nat /\ s \in [log : Logs({log.gen}), idx : Indexes]
  BY DEF Session, Indexes
<1>3. idx.jobs = s.idx.jobs /\ idx.orphans = s.idx.orphans /\ idx.seq >= s.idx.seq
  BY <1>1, <1>2 DEF SameJobs
<1>4. WaitingIds(idx) = WaitingIds(s.idx)
  BY <1>3 DEF WaitingIds
<1> HIDE DEF taken, idx
<1>5. Session([s EXCEPT !.idx = idx]) /\ [s EXCEPT !.idx = idx].log = s.log
  BY <1>1, <1>3, SessionIndex
<1>6. t.idx = idx
  BY <1>2
<1> QED
  BY <1>1, <1>3, <1>4, <1>5, <1>6 DEF taken, idx

LEMMA LeaseKeeps ==
  ASSUME IInv, NEW p \in Proc, NEW count \in Counts, NEW timeout \in Timeouts,
         Lease(p, count, timeout)
  PROVE  IInv'
<1>1. proc[p].up /\ now' = now
  BY DEF Lease, Transaction
<1>2. PICK batch \in ReapBatches(CaughtUp(p).idx) :
        LET s == Begun(p, batch)  taken == Taken(s.idx, count) IN
        \/ /\ Commit(p, [s EXCEPT !.idx = taken.idx], LeaseRecords(s, taken.ids, timeout), {})
           /\ issued' = issued + Len(taken.ids) /\ past' = past
        \/ Interrupted(p, Popped(p), batch) /\ UNCHANGED <<issued, past>>
  BY DEF Lease, Transaction, Popped, Begun
<1> DEFINE s == Begun(p, batch)  taken == Taken(s.idx, count)  t == [s EXCEPT !.idx = taken.idx]
           recs == LeaseRecords(s, taken.ids, timeout)
<1>3. Session(s) /\ s.idx \in Indexes /\ count \in Nat /\ timeout \in Nat
  BY <1>1, BegunFacts, InputAssumption
<1> HIDE DEF s
<1>4. CASE Commit(p, t, recs, {}) /\ issued' = issued + Len(taken.ids) /\ past' = past
  <2>1. /\ Session(t) /\ t.log = s.log
        /\ taken.ids \in Seq(WaitingIds(s.idx)) /\ Len(taken.ids) \in Nat
    BY <1>3, TakenSession
  <2>2. Steady
    BY <1>1, <1>4, <2>1, NowType DEF Steady
  <2> HIDE DEF taken
  <2>3. recs \in Seq(Record) /\ Fits(Whole(t.log), recs)
    BY <1>3, <2>1, LeaseBatch
  <2> HIDE DEF t, recs
  <2> QED
    BY <1>4, <2>1, <2>2, <2>3, CommitKeeps
<1>5. CASE Interrupted(p, Popped(p), batch) /\ UNCHANGED <<issued, past>>
  BY <1>1, <1>5, ReapBreaks
<1> QED
  BY <1>2, <1>4, <1>5 DEF s

LEMMA GivenBack ==
  ASSUME NEW s, Session(s), s.idx \in Indexes, NEW n \in Nat, NEW ids,
         ids = Taken(s.idx, n).ids \/ (ids = Front(Taken(s.idx, n).ids) /\ Taken(s.idx, n).ids # <<>>)
  PROVE  LET t == [s EXCEPT !.idx = Restore(Taken(s.idx, n).idx, ToSet(ids))] IN
         Session(t) /\ t.log = s.log
<1> DEFINE taken == Taken(s.idx, n)  idx == taken.idx  all == taken.ids
           back == Restore(idx, ToSet(ids))
<1>1. /\ idx \in Indexes /\ SameJobs(idx, s.idx) /\ all \in Seq(WaitingIds(s.idx))
  BY TakenFacts DEF Takings
<1>2. Len(all) \in Nat /\ \A i \in 1..Len(all) : all[i] \in DOMAIN s.idx.jobs
  BY <1>1 DEF WaitingIds
<1>3. ids = all \/ (ids = Front(all) /\ all # <<>>)
  OBVIOUS
<1> HIDE DEF all
<1>4. ToSet(ids) \subseteq DOMAIN s.idx.jobs
  <2>1. CASE ids = all
    BY <1>1, <1>2, <2>1 DEF ToSet
  <2>2. CASE ids = Front(all) /\ all # <<>>
    <3>1. Len(all) - 1 \in 0..Len(all) /\ Front(all) = SubSeq(all, 1, Len(all) - 1)
      BY <1>1, <1>2, <2>2 DEF Front
    <3> DEFINE m == Len(all) - 1
    <3>2. m \in 0..Len(all) /\ ids = SubSeq(all, 1, m)
      BY <2>2, <3>1
    <3> HIDE DEF m
    <3>3. /\ ids \in Seq(WaitingIds(s.idx)) /\ Len(ids) = m
          /\ \A i \in 1..m : ids[i] = all[i]
      BY <1>1, <3>2, PrefixFacts
    <3>4. DOMAIN ids = 1..m /\ \A i \in 1..m : i \in 1..Len(all)
      BY <1>2, <3>2, <3>3
    <3> QED
      BY <1>2, <3>3, <3>4 DEF ToSet
  <2> QED
    BY <1>3, <2>1, <2>2
<1> HIDE DEF taken
<1>5. ToSet(ids) \in SUBSET DOMAIN idx.jobs
  BY <1>1, <1>4 DEF SameJobs
<1> HIDE DEF idx
<1>6. back \in Indexes /\ SameJobs(back, idx)
  BY <1>1, <1>5, RestoreFacts
<1>7. s.idx.seq \in Nat
  BY DEF Session, Indexes
<1>8. back.jobs = s.idx.jobs /\ back.orphans = s.idx.orphans /\ back.seq >= s.idx.seq
  BY <1>1, <1>6, <1>7 DEF SameJobs
<1> HIDE DEF back
<1>9. Session([s EXCEPT !.idx = back]) /\ [s EXCEPT !.idx = back].log = s.log
  BY <1>6, <1>8, SessionIndex
<1> QED
  BY <1>9 DEF back, idx, taken

LEMMA AbortedLeaseKeeps ==
  ASSUME IInv, NEW p \in Proc, NEW count \in Counts, AbortedLease(p, count) PROVE IInv'
<1>1. proc[p].up /\ now' = now
  BY DEF AbortedLease, Transaction
<1> DEFINE ended(s, n, ids) ==
             /\ proc' = [proc EXCEPT ![p] =
                           Attached([s EXCEPT !.idx = Restore(Taken(s.idx, n).idx, ToSet(ids))])]
             /\ log' = s.log /\ faults < MaxFaults /\ faults' = faults + 1
             /\ UNCHANGED <<issued, past>>
<1>2. PICK batch \in ReapBatches(CaughtUp(p).idx) :
        LET s == Begun(p, batch) IN
        \/ \E n \in 0..count :
             LET all == Taken(s.idx, n).ids IN
             ended(s, n, all) \/ (all # <<>> /\ ended(s, n, Front(all)))
        \/ Interrupted(p, Popped(p), batch) /\ UNCHANGED <<issued, past>>
  <2> DEFINE back(s, taken, ids) == Attached([s EXCEPT !.idx = Restore(taken.idx, ToSet(ids))])
             ends(s, taken) ==
               /\ \/ /\ "abort" \in Faults
                     /\ proc' = [proc EXCEPT ![p] = back(s, taken, taken.ids)]
                  \/ /\ "interrupt" \in Faults /\ taken.ids # <<>>
                     /\ proc' = [proc EXCEPT ![p] = back(s, taken, Front(taken.ids))]
               /\ log' = s.log
               /\ faults < MaxFaults /\ faults' = faults + 1
               /\ UNCHANGED <<issued, past, told>>
  <2>1. \E s \in {CaughtUp(p)} :
          \E batch \in ReapBatches(s.idx), popped \in {[s EXCEPT !.idx = WithoutLapsed(@, now)]} :
            \/ \E t \in {Committed(popped, batch)} :
                 \E n \in 0..count : \E taken \in {Taken(t.idx, n)} : ends(t, taken)
            \/ Interrupted(p, popped, batch) /\ UNCHANGED <<issued, past>>
    BY DEF AbortedLease, Transaction
  <2> HIDE DEF ends
  <2>2. PICK batch \in ReapBatches(CaughtUp(p).idx) :
          \/ \E n \in 0..count : ends(Begun(p, batch), Taken(Begun(p, batch).idx, n))
          \/ Interrupted(p, Popped(p), batch) /\ UNCHANGED <<issued, past>>
    BY <2>1 DEF Popped, Begun
  <2>3. ASSUME NEW s, NEW n, ends(s, Taken(s.idx, n))
        PROVE  LET all == Taken(s.idx, n).ids IN
               ended(s, n, all) \/ (all # <<>> /\ ended(s, n, Front(all)))
    BY <2>3 DEF ends
  <2> HIDE DEF ended
  <2> QED
    BY <2>2, <2>3
<1> DEFINE s == Begun(p, batch)
<1>3. Session(s) /\ s.idx \in Indexes /\ count \in Nat
  BY <1>1, BegunFacts, InputAssumption
<1> HIDE DEF s
<1>4. ASSUME NEW n \in 0..count, NEW ids,
             ids = Taken(s.idx, n).ids \/ (ids = Front(Taken(s.idx, n).ids) /\ Taken(s.idx, n).ids # <<>>),
             ended(s, n, ids)
      PROVE  IInv'
  <2> DEFINE t == [s EXCEPT !.idx = Restore(Taken(s.idx, n).idx, ToSet(ids))]
  <2>1. Session(t) /\ t.log = s.log
    <3>1. n \in Nat
      BY <1>3
    <3> QED
      BY <1>3, <1>4, <3>1, GivenBack
  <2>2. proc' = [proc EXCEPT ![p] = Attached(t)] /\ log' = t.log
    BY <1>4, <2>1
  <2> HIDE DEF t
  <2>3. Scalars /\ log \in Logs(0..MaxGen) /\ log.gen \in Nat
    BY Parts, Bounds DEF Logs
  <2>4. t.log \in Logs({log.gen}) /\ Follows(t.log)
    BY <2>1 DEF Session
  <2>5. Len(t.log.recs) <= Len(t.log.recs) /\ SubSeq(t.log.recs, 1, Len(t.log.recs)) = t.log.recs
    BY <2>4, WholeFacts, PrefixFacts
  <2>6. Agrees(Attached(t), t.log)
    BY <2>1, <2>3, <2>4, <2>5, AttachedAgrees
  <2>7. /\ now' \in 0..MaxTime /\ issued' \in Nat /\ past' = past
        /\ faults' \in 0..MaxFaults
    BY <1>1, <1>4, <2>3, Bounds DEF Scalars
  <2> QED
    BY <2>2, <2>4, <2>6, <2>7, StepKeeps
<1>5. CASE Interrupted(p, Popped(p), batch) /\ UNCHANGED <<issued, past>>
  BY <1>1, <1>5, ReapBreaks
<1> HIDE DEF ended
<1>6. \/ \E n \in 0..count :
           LET all == Taken(s.idx, n).ids IN
           ended(s, n, all) \/ (all # <<>> /\ ended(s, n, Front(all)))
      \/ Interrupted(p, Popped(p), batch) /\ UNCHANGED <<issued, past>>
  BY <1>2 DEF s
<1> QED
  BY <1>4, <1>5, <1>6

-----------------------------------------------------------------------------
(***************************************************************************)
(* Compaction: the log starts again, with a snapshot of the live jobs.     *)
(***************************************************************************)
\* Whoever mirrors a sound log has distinct, counted sequence numbers too.
LEMMA SessionSeqs ==
  ASSUME NEW s, Session(s)
  PROVE  DistinctSeqs(s.idx.jobs) /\ \A id \in DOMAIN s.idx.jobs : s.idx.jobs[id].seq <= s.idx.seq
<1> DEFINE read == Whole(s.log)  idx == s.idx
<1>1. read \in Indexes /\ Sound(read) /\ idx \in Indexes /\ Mirrors(idx, read)
  BY WholeFacts DEF Session
<1> HIDE DEF read, idx
<1>2. DOMAIN idx.jobs = DOMAIN read.jobs /\ idx.seq >= read.seq
  BY <1>1 DEF Mirrors
<1>3. idx.seq \in Nat /\ read.seq \in Nat
  BY <1>1 DEF Indexes
<1>4. ASSUME NEW id \in DOMAIN idx.jobs
      PROVE  idx.jobs[id].seq = read.jobs[id].seq /\ idx.jobs[id].seq \in Nat
  <2>1. idx.jobs[id] \in JobFields /\ read.jobs[id] \in JobFields
    BY <1>1, <1>2, JobsType DEF Job, JobFields
  <2>2. Unversioned(idx.jobs[id]) = Unversioned(read.jobs[id])
    BY <1>1, <1>2 DEF Mirrors
  <2>3. SameJob(idx.jobs[id], read.jobs[id])
    BY <2>1, <2>2, UnversionedIs
  <2> QED
    BY <2>1, <2>3 DEF SameJob, JobFields
<1>5. DistinctSeqs(idx.jobs)
  BY <1>1, <1>2, <1>4 DEF DistinctSeqs, Sound
<1>6. \A id \in DOMAIN idx.jobs : read.jobs[id].seq <= read.seq
  BY <1>1, <1>2 DEF Sound
<1>7. \A id \in DOMAIN idx.jobs : idx.jobs[id].seq <= idx.seq
  BY <1>2, <1>3, <1>4, <1>6
<1> QED
  BY <1>5, <1>7 DEF idx

LEMMA LiveFacts ==
  ASSUME NEW idx \in Indexes, NEW live \in LiveJobs(idx)
  PROVE  live \in Seq(DOMAIN idx.jobs) /\ Len(live) \in Nat
<1> DEFINE ids == {id \in DOMAIN idx.jobs : idx.jobs[id].state # "DONE"}
<1>1. IsFiniteSet(ids)
  BY JobsType, FS_Subset DEF Finite
<1>2. live \in BySeq(idx, ids) /\ ids \subseteq DOMAIN idx.jobs
  BY DEF LiveJobs
<1> HIDE DEF ids
<1>3. live \in Seq(ids)
  BY <1>1, <1>2, BySeqFacts
<1> QED
  BY <1>2, <1>3

LEMMA CompactedFacts ==
  ASSUME IInv, NEW s, Session(s), s.idx \in Indexes, NEW live \in LiveJobs(s.idx)
  PROVE  LET l == Compacted(s.log, s.idx, live)  kept == Retain(s.idx, live) IN
         /\ l \in Logs({log.gen + 1}) /\ l.synced = Len(live) /\ Len(l.recs) = Len(live)
         /\ SoundUpTo(l.recs) /\ kept \in Indexes /\ kept.orphans = 0
         /\ Mirrors(kept, ReadingOf(l.recs, Len(live))) /\ Len(live) \in Nat
<1> DEFINE idx == s.idx  l == Compacted(s.log, idx, live)  kept == Retain(idx, live)
           recs == Snapshot(idx, live)  read == Replay(EmptyIndex, recs)
<1>1. /\ idx \in Indexes /\ DistinctSeqs(idx.jobs) /\ idx.orphans = 0
      /\ \A id \in DOMAIN idx.jobs : idx.jobs[id].seq <= idx.seq
  BY SessionSeqs DEF Session
<1>2. s.log.gen = log.gen /\ log.gen \in Nat
  BY Parts, Bounds DEF Session, Logs
<1> HIDE DEF idx
<1>3. live \in Seq(DOMAIN idx.jobs) /\ Len(live) \in Nat
  BY LiveFacts DEF idx
<1>4. /\ recs \in Seq(Record) /\ Len(recs) = Len(live)
      /\ \A n \in 0..Len(recs) : Sound(Replay(EmptyIndex, SubSeq(recs, 1, n)))
      /\ DOMAIN read.jobs = ToSet(live)
      /\ \A id \in DOMAIN read.jobs : read.jobs[id] = Unversioned(idx.jobs[id])
      /\ read.seq <= idx.seq
  BY <1>1, <1>3, SnapshotFacts
<1>5. /\ kept \in Indexes /\ kept.jobs = [id \in ToSet(live) |-> idx.jobs[id]]
      /\ kept.seq = idx.seq /\ kept.orphans = 0
  BY <1>1, <1>3, RetainFacts
<1>6. l = [gen |-> log.gen + 1, recs |-> recs, torn |-> FALSE, synced |-> Len(live)]
  BY <1>2 DEF Compacted, Snapshot
<1>7. SoundUpTo(recs) /\ ReadingOf(recs, Len(live)) = read
  BY <1>4, WholeReading DEF SoundUpTo, ReadingOf
<1>8. /\ idx.seq \in Nat /\ read.seq \in Nat
      /\ \A id \in ToSet(live) : id \in DOMAIN idx.jobs /\ idx.jobs[id] \in JobFields
  <2>1. read \in Indexes
    BY <1>4, WholeReading
  <2>2. ToSet(live) \subseteq DOMAIN idx.jobs
    BY <1>3 DEF ToSet
  <2> HIDE DEF read
  <2> QED
    BY <1>1, <2>1, <2>2, JobsType DEF Indexes, Job, JobFields
<1> HIDE DEF kept, read, recs
<1>9. Mirrors(kept, read)
  <2>1. ASSUME NEW job \in JobFields PROVE Unversioned(job) = Unversioned(Unversioned(job))
    BY DEF Unversioned, JobFields
  <2>2. ASSUME NEW id \in DOMAIN read.jobs
        PROVE  Unversioned(kept.jobs[id]) = Unversioned(read.jobs[id])
    BY <1>4, <1>5, <1>8, <2>1, <2>2
  <2>3. kept.seq >= read.seq
    BY <1>4, <1>5, <1>8
  <2> QED
    BY <1>4, <1>5, <2>2, <2>3 DEF Mirrors
<1>10. l \in Logs({log.gen + 1}) /\ l.recs = recs /\ l.synced = Len(live)
  BY <1>2, <1>3, <1>4, <1>6 DEF Logs
<1> HIDE DEF l
<1>11. /\ l \in Logs({log.gen + 1}) /\ l.synced = Len(live) /\ Len(l.recs) = Len(live)
       /\ SoundUpTo(l.recs) /\ kept \in Indexes /\ kept.orphans = 0
       /\ Mirrors(kept, ReadingOf(l.recs, Len(live))) /\ Len(live) \in Nat
  BY <1>3, <1>4, <1>5, <1>7, <1>9, <1>10
<1> QED
  BY <1>11 DEF l, kept, idx

LEMMA FlipKeeps ==
  ASSUME IInv, log.gen < MaxGen, NEW p \in Proc, NEW s, Session(s), s.idx \in Indexes,
         NEW live \in LiveJobs(s.idx), Flip(s, live), now' = now, issued' = issued,
         faults' \in 0..MaxFaults, NEW q, Agrees(q, log'), proc' = [proc EXCEPT ![p] = q]
  PROVE  IInv'
<1> DEFINE l == Compacted(s.log, s.idx, live)
           old == SubSeq(s.log.recs, past.kept + 1, Len(s.log.recs))
<1>1. /\ Scalars /\ log \in Logs(0..MaxGen) /\ DOMAIN proc = Proc
      /\ \A r \in Proc : Agrees(proc[r], log)
  BY Parts
<1>2. /\ l \in Logs({log.gen + 1}) /\ l.synced = Len(live) /\ Len(l.recs) = Len(live)
      /\ SoundUpTo(l.recs) /\ Len(live) \in Nat
  BY CompactedFacts
<1>3. log' = l /\ past' = [events |-> past.events \o old, kept |-> Len(live)]
  BY DEF Flip
<1>4. past.events \in Seq(Record) /\ past.kept \in Nat
  BY <1>1 DEF Scalars
<1>5. old \in Seq(Record)
  <2>1. /\ s.log.recs \in Seq(Record) /\ Len(s.log.recs) \in Nat
        /\ past.kept <= s.log.synced /\ s.log.synced <= Len(s.log.recs) /\ s.log.synced \in Nat
    BY WholeFacts DEF Session, Follows, Logs
  <2>2. past.kept <= Len(s.log.recs)
    BY <1>4, <2>1
  <2> QED
    BY <1>4, <2>1, <2>2, SplitAt
<1> HIDE DEF l, old
<1>6. past.events \o old \in Seq(Record)
  BY <1>4, <1>5, ConcatProperties
<1>7. Scalars'
  BY <1>1, <1>2, <1>3, <1>6 DEF Scalars
<1>8. log.gen \in Nat /\ log.gen + 1 \in 0..MaxGen /\ l.gen = log.gen + 1
  BY <1>1, <1>2, Bounds DEF Logs
<1>9. l \in Logs(0..MaxGen)
  BY <1>2, <1>8 DEF Logs
<1>10. ASSUME NEW r \in Proc PROVE Agrees(proc'[r], l)
  <2>1. CASE r = p
    BY <1>1, <1>3, <2>1
  <2>2. CASE r # p
    <3> DEFINE o == proc[r]
    <3>1. proc'[r] = o
      BY <1>1, <2>2
    <3>2. o \in Process(0..log.gen) /\ o.idx.orphans = 0
      BY <1>1 DEF Agrees
    <3> HIDE DEF o
    <3>3. o \in Process(0..l.gen) /\ o.gen # l.gen
      BY <1>8, <3>2 DEF Process
    <3>4. Agrees(o, l)
      BY <3>2, <3>3 DEF Agrees
    <3> QED
      BY <3>1, <3>4
  <2> QED
    BY <2>1, <2>2
<1>11. past'.kept <= l.synced /\ l.synced <= Len(l.recs)
  BY <1>2, <1>3
<1>12. IParts'
  BY <1>1, <1>2, <1>3, <1>7, <1>9, <1>10, <1>11 DEF IParts
<1> QED
  BY <1>12, PartsNext

LEMMA CompactKeeps == ASSUME IInv, NEW p \in Proc, Compact(p) PROVE IInv'
<1> DEFINE kept(s, live) == [up |-> TRUE, gen |-> s.log.gen + 1, pos |-> Len(live),
                             idx |-> Retain(s.idx, live)]
<1>1. proc[p].up /\ now' = now /\ log.gen < MaxGen
  BY DEF Compact, Transaction
<1>2. PICK batch \in ReapBatches(CaughtUp(p).idx) :
        \/ \E s \in {Begun(p, batch)} :
           /\ \E live \in LiveJobs(s.idx) :
                \/ /\ Flip(s, live)
                   /\ proc' = [proc EXCEPT ![p] = kept(s, live)]
                   /\ UNCHANGED <<told, faults>>
                \/ /\ Flip(s, live) \/ (log' = s.log /\ UNCHANGED past)
                   /\ Breaks(p, s)
           /\ UNCHANGED issued
        \/ Interrupted(p, Popped(p), batch) /\ UNCHANGED <<issued, past>>
  BY DEF Compact, Transaction, Popped, Begun
<1>3. CASE Interrupted(p, Popped(p), batch) /\ UNCHANGED <<issued, past>>
  BY <1>1, <1>3, ReapBreaks
<1>4. CASE ~(Interrupted(p, Popped(p), batch) /\ UNCHANGED <<issued, past>>)
  <2> DEFINE s == Begun(p, batch)
  <2>1. PICK live \in LiveJobs(s.idx) :
          \/ /\ Flip(s, live)
             /\ proc' = [proc EXCEPT ![p] = kept(s, live)]
             /\ UNCHANGED <<told, faults>>
          \/ Flip(s, live) /\ Breaks(p, s)
          \/ log' = s.log /\ UNCHANGED past /\ Breaks(p, s)
    BY <1>2, <1>4
  <2>2. UNCHANGED issued
    BY <1>2, <1>4
  <2>3. Session(s) /\ s.idx \in Indexes
    BY <1>1, BegunFacts
  <2> HIDE DEF s
  <2>4. Scalars /\ log.gen \in Nat /\ s.log.gen = log.gen /\ Steady = (past' = past)
    BY <1>1, <2>2, <2>3, Parts, Bounds, NowType DEF Session, Logs, Steady
  <2> DEFINE l == Compacted(s.log, s.idx, live)
  <2>5. /\ l \in Logs({log.gen + 1}) /\ Len(l.recs) = Len(live) /\ Len(live) \in Nat
        /\ Retain(s.idx, live) \in Indexes /\ Retain(s.idx, live).orphans = 0
        /\ Mirrors(Retain(s.idx, live), ReadingOf(l.recs, Len(live)))
    BY <2>3, CompactedFacts
  <2>6. l.gen = log.gen + 1 /\ l.gen \in 0..l.gen /\ log.gen \in 0..l.gen /\ l.gen \in Nat
    BY <2>4, <2>5 DEF Logs
  <2>7. Flip(s, live) => log' = l
    BY DEF Flip
  <2> HIDE DEF l
  <2>8. CASE /\ Flip(s, live)
             /\ proc' = [proc EXCEPT ![p] = kept(s, live)]
             /\ UNCHANGED <<told, faults>>
    <3> DEFINE q == kept(s, live)
    <3>1. q \in Process(0..l.gen) /\ q.idx = Retain(s.idx, live) /\ q.pos = Len(live)
      BY <2>4, <2>5, <2>6 DEF Process
    <3> HIDE DEF kept
    <3>2. Agrees(q, l)
      BY <2>5, <3>1 DEF Agrees
    <3>3. faults' \in 0..MaxFaults
      BY <2>4, <2>8 DEF Scalars
    <3> QED
      BY <1>1, <2>2, <2>3, <2>7, <2>8, <3>2, <3>3, FlipKeeps
  <2>9. CASE Flip(s, live) /\ Breaks(p, s)
    <3>1. PICK q \in {Down, Attached(s)} : proc' = [proc EXCEPT ![p] = q]
      BY <2>9 DEF Breaks
    <3>2. Agrees(Down, l)
      BY <2>6, DownAgrees
    <3>3. Agrees(Attached(s), l)
      <4>1. Len(s.log.recs) \in Nat /\ s.idx.orphans = 0
        BY <2>3, WholeFacts DEF Session
      <4>2. Attached(s) \in Process(0..l.gen) /\ Attached(s).idx = s.idx /\ Attached(s).gen = log.gen
        BY <2>3, <2>4, <2>6, <4>1 DEF Attached, Process
      <4>3. log.gen # l.gen
        BY <2>4, <2>6
      <4> QED
        BY <4>1, <4>2, <4>3 DEF Agrees
    <3>4. faults' \in 0..MaxFaults
      BY <2>4, <2>9, Bounds DEF Scalars, Breaks
    <3> QED
      BY <1>1, <2>2, <2>3, <2>7, <2>9, <3>1, <3>2, <3>3, <3>4, FlipKeeps
  <2>10. CASE log' = s.log /\ UNCHANGED past /\ Breaks(p, s)
    <3>1. /\ Follows(s.log) /\ Len(s.log.recs) <= Len(s.log.recs)
          /\ SubSeq(s.log.recs, 1, Len(s.log.recs)) = s.log.recs
      BY <2>3, WholeFacts, PrefixFacts DEF Session
    <3> QED
      BY <2>3, <2>4, <2>10, <3>1, BreaksKeeps
  <2> QED
    BY <2>1, <2>8, <2>9, <2>10
<1> QED
  BY <1>3, <1>4

-----------------------------------------------------------------------------
(***************************************************************************)
(* The environment.                                                        *)
(***************************************************************************)
LEMMA OpenKeeps == ASSUME IInv, NEW p \in Proc, Open(p) PROVE IInv'
<1> DEFINE l == Repaired(log)  s == [log |-> l, idx |-> Replay(EmptyIndex, log.recs)]
<1>1. Follows(l) /\ l.recs = log.recs
  BY RepairedFacts
<1>2. l \in Logs({log.gen}) /\ Whole(l) \in Indexes /\ Whole(l).orphans = 0
  BY <1>1, WholeFacts DEF Follows
<1>3. Whole(l) = Replay(EmptyIndex, log.recs)
  BY <1>1 DEF Whole
<1>4. Mirrors(Whole(l), Whole(l))
  BY <1>2, MirrorsItself
<1>5. proc' = [proc EXCEPT ![p] = Attached(s)] /\ log' = l /\ UNCHANGED <<now, issued, past, told, faults>>
  BY DEF Open
<1> HIDE DEF l
<1>6. Session(s) /\ s.log = l
  BY <1>1, <1>2, <1>3, <1>4 DEF Session
<1> HIDE DEF s
<1>7. Returns(p, s, {}) /\ UNCHANGED <<issued, past, now>>
  BY <1>5, <1>6 DEF Returns
<1> QED
  BY <1>6, <1>7, ReturnsPlain

\* The present log follows itself.
LEMMA FollowsItself == ASSUME IInv PROVE Follows(log) /\ log.gen \in Nat
<1>1. /\ log \in Logs(0..MaxGen) /\ past.kept <= log.synced /\ log.synced <= Len(log.recs)
      /\ SoundUpTo(log.recs) /\ Len(log.recs) \in Nat
  BY Parts, LenProperties DEF Logs
<1>2. log \in Logs({log.gen}) /\ log.gen \in Nat
  BY <1>1, Bounds DEF Logs
<1> QED
  BY <1>1, <1>2 DEF Follows

LEMMA StopKeeps == ASSUME IInv, NEW p \in Proc, Stop(p) PROVE IInv'
<1>1. /\ proc' = [proc EXCEPT ![p] = Down] /\ log' = log
      /\ past' = past /\ now' = now /\ issued' = issued /\ faults' = faults
  BY DEF Stop
<1>2. Follows(log) /\ Agrees(Down, log)
  BY FollowsItself, DownAgrees
<1>3. now' \in 0..MaxTime /\ issued' \in Nat /\ faults' \in 0..MaxFaults
  BY <1>1, Parts DEF Scalars
<1> QED
  BY <1>1, <1>2, <1>3, StepKeeps

\* The clock moves, forward or back.
LEMMA ClockKeeps ==
  ASSUME IInv, UNCHANGED <<log, proc, issued, past>>, now' \in 0..MaxTime,
         faults' \in 0..MaxFaults
  PROVE  IInv'
<1>1. IParts
  BY SameParts
<1>2. IParts'
  BY <1>1 DEF IParts, Scalars
<1> QED
  BY <1>2, PartsNext

LEMMA PrefixOfPrefix ==
  ASSUME NEW R, NEW recs \in Seq(R), NEW n \in 0..Len(recs), NEW m \in 0..n
  PROVE  SubSeq(SubSeq(recs, 1, n), 1, m) = SubSeq(recs, 1, m)
<1> DEFINE head == SubSeq(recs, 1, n)  a == SubSeq(head, 1, m)  b == SubSeq(recs, 1, m)
<1>1. Len(recs) \in Nat /\ m \in 0..Len(recs)
  BY LenProperties
<1>2. head \in Seq(R) /\ Len(head) = n /\ \A i \in 1..n : head[i] = recs[i]
  BY PrefixFacts
<1> HIDE DEF head
<1>3. m \in 0..Len(head)
  BY <1>2
<1>4. a \in Seq(R) /\ Len(a) = m /\ \A i \in 1..m : a[i] = head[i]
  BY <1>2, <1>3, PrefixFacts
<1>5. b \in Seq(R) /\ Len(b) = m /\ \A i \in 1..m : b[i] = recs[i]
  BY <1>1, PrefixFacts
<1>6. \A i \in 1..m : a[i] = b[i]
  BY <1>1, <1>2, <1>4, <1>5
<1> HIDE DEF a, b
<1>7. a = b
  BY <1>4, <1>5, <1>6, SeqEqual
<1> QED
  BY <1>7 DEF a, b, head

LEMMA PowerLossKeeps == ASSUME IInv, PowerLoss PROVE IInv'
<1>1. PICK n \in log.synced..Len(log.recs), torn \in BOOLEAN :
        log' = [log EXCEPT !.recs = SubSeq(@, 1, n), !.torn = torn]
  BY DEF PowerLoss
<1> DEFINE head == SubSeq(log.recs, 1, n)  l == [[log EXCEPT !.recs = head] EXCEPT !.torn = torn]
<1>2. /\ log \in Logs(0..MaxGen) /\ past.kept <= log.synced /\ log.synced <= Len(log.recs)
      /\ SoundUpTo(log.recs) /\ Scalars /\ Len(log.recs) \in Nat /\ log.synced \in Nat
  BY Parts, LenProperties DEF Logs
<1>3. log' = l /\ faults < MaxFaults /\ faults' = faults + 1
      /\ proc' = [p \in Proc |-> Down] /\ UNCHANGED <<now, issued, past>>
  BY <1>1 DEF PowerLoss
<1>4. n \in 0..Len(log.recs) /\ log.recs \in Seq(Record)
  BY <1>1, <1>2 DEF Logs
<1>5. head \in Seq(Record) /\ Len(head) = n
  BY <1>4, PrefixFacts
<1>6. SoundUpTo(head)
  <2> SUFFICES ASSUME NEW m \in 0..n PROVE Sound(ReadingOf(head, m))
    BY <1>5 DEF SoundUpTo
  <2>1. SubSeq(head, 1, m) = SubSeq(log.recs, 1, m)
    BY <1>4, PrefixOfPrefix
  <2>2. m \in 0..Len(log.recs)
    BY <1>2, <1>4
  <2> HIDE DEF head
  <2> QED
    BY <1>2, <2>1, <2>2 DEF SoundUpTo, ReadingOf
<1> HIDE DEF head
<1>7. l \in Logs(0..MaxGen) /\ l.recs = head /\ l.synced = log.synced /\ l.gen = log.gen
  BY <1>1, <1>2, <1>5 DEF Logs
<1> HIDE DEF l
<1>8. l.gen \in Nat
  BY <1>2, <1>7, Bounds DEF Logs
<1>9. \A p \in Proc : Agrees(proc'[p], l)
  BY <1>3, <1>8, DownAgrees
<1>10. Scalars'
  BY <1>2, <1>3, Bounds DEF Scalars
<1>11. past'.kept <= l.synced /\ l.synced <= Len(l.recs) /\ DOMAIN proc' = Proc
  BY <1>1, <1>2, <1>3, <1>5, <1>7
<1>12. IParts'
  BY <1>3, <1>6, <1>7, <1>9, <1>10, <1>11 DEF IParts
<1> QED
  BY <1>12, PartsNext

-----------------------------------------------------------------------------
(***************************************************************************)
(* The invariant of the queue.                                             *)
(***************************************************************************)
LEMMA InitInv == Init => IInv
<1> SUFFICES ASSUME Init PROVE IInv
  OBVIOUS
<1>1. /\ log = [gen |-> 0, recs |-> <<>>, torn |-> FALSE, synced |-> 0]
      /\ proc = [p \in Proc |-> Down] /\ now = 0 /\ issued = 0
      /\ past = [events |-> <<>>, kept |-> 0] /\ faults = 0
  BY DEF Init
<1>2. <<>> \in Seq(Record) /\ Len(<<>>) = 0
  OBVIOUS
<1>3. 0 \in 0..MaxGen /\ 0 \in 0..MaxTime /\ 0 \in 0..MaxFaults
  BY Bounds
<1>4. Scalars /\ log \in Logs(0..MaxGen)
  BY <1>1, <1>2, <1>3 DEF Scalars, Logs
<1>5. SoundUpTo(log.recs)
  <2>1. SubSeq(<<>>, 1, 0) = <<>>
    BY <1>2, PrefixFacts
  <2>2. ReadingOf(<<>>, 0) = EmptyIndex
    BY <2>1, ReplayNothing DEF ReadingOf
  <2>3. Sound(EmptyIndex)
    BY EmptyFacts DEF Sound, DistinctSeqs
  <2>4. \A n \in 0..Len(<<>>) : n = 0
    BY <1>2
  <2> QED
    BY <1>1, <2>2, <2>3, <2>4 DEF SoundUpTo
<1>6. \A p \in Proc : Agrees(proc[p], log)
  BY <1>1, DownAgrees
<1>7. IParts
  BY <1>1, <1>2, <1>4, <1>5, <1>6 DEF IParts
<1> QED
  BY <1>7, SameParts

LEMMA StepInv == IInv /\ [Next]_vars => IInv'
<1> SUFFICES ASSUME IInv, [Next]_vars PROVE IInv'
  OBVIOUS
<1>1. ASSUME NEW p \in Proc, Open(p) PROVE IInv'
  BY <1>1, OpenKeeps
<1>2. ASSUME NEW p \in Proc, Stop(p) PROVE IInv'
  BY <1>2, StopKeeps
<1>3. ASSUME NEW p \in Proc, RequeueAll(p) PROVE IInv'
  BY <1>3, RequeueAllKeeps
<1>4. ASSUME NEW p \in Proc, Purge(p) PROVE IInv'
  BY <1>4, PurgeKeeps
<1>5. ASSUME NEW p \in Proc, Read(p) PROVE IInv'
  BY <1>5, ReadKeeps
<1>6. ASSUME NEW p \in Proc, Compact(p) PROVE IInv'
  BY <1>6, CompactKeeps
<1>7. ASSUME NEW p \in Proc, NEW batch \in Batches, Enqueue(p, batch) PROVE IInv'
  BY <1>7, EnqueueKeeps
<1>8. ASSUME NEW p \in Proc, NEW count \in Counts, NEW timeout \in Timeouts,
             Lease(p, count, timeout)
      PROVE  IInv'
  BY <1>8, LeaseKeeps
<1>9. ASSUME NEW p \in Proc, NEW count \in Counts, AbortedLease(p, count) PROVE IInv'
  BY <1>9, AbortedLeaseKeeps
<1>10. ASSUME NEW p \in Proc, NEW id \in JobId, RequeueOne(p, id) PROVE IInv'
  BY <1>10, RequeueOneKeeps
<1>11. ASSUME NEW p \in Proc, NEW id \in JobId, NEW token, Ack(p, id, token) PROVE IInv'
  BY <1>11, AckKeeps
<1>12. ASSUME NEW p \in Proc, NEW id \in JobId, NEW token, Nack(p, id, token) PROVE IInv'
  BY <1>12, NackKeeps
<1>13. ASSUME NEW p \in Proc, NEW id \in JobId, NEW seconds \in Extensions, NEW token,
              Extend(p, id, token, seconds)
       PROVE  IInv'
  BY <1>13, ExtendKeeps
<1>14. CASE PowerLoss
  BY <1>14, PowerLossKeeps
<1>15. CASE Tick
  <2>1. /\ UNCHANGED <<log, proc, issued, past>> /\ now < MaxTime /\ now' = now + 1
        /\ faults' = faults /\ Scalars
    BY <1>15, Parts DEF Tick
  <2>2. now' \in 0..MaxTime /\ faults' \in 0..MaxFaults
    BY <2>1, Bounds DEF Scalars
  <2> QED
    BY <2>1, <2>2, ClockKeeps
<1>16. CASE ClockBack
  <2>1. /\ UNCHANGED <<log, proc, issued, past>> /\ now > 0 /\ now' = now - 1
        /\ faults < MaxFaults /\ faults' = faults + 1 /\ Scalars
    BY <1>16, Parts DEF ClockBack
  <2>2. now' \in 0..MaxTime /\ faults' \in 0..MaxFaults
    BY <2>1, Bounds DEF Scalars
  <2> QED
    BY <2>1, <2>2, ClockKeeps
<1>17. CASE UNCHANGED vars
  <2>1. UNCHANGED <<log, proc, issued, past>> /\ now' = now /\ faults' = faults /\ Scalars
    BY <1>17, Parts DEF vars
  <2>2. now' \in 0..MaxTime /\ faults' \in 0..MaxFaults
    BY <2>1 DEF Scalars
  <2> QED
    BY <2>1, <2>2, ClockKeeps
<1> QED
  BY <1>1, <1>2, <1>3, <1>4, <1>5, <1>6, <1>7, <1>8, <1>9, <1>10, <1>11, <1>12, <1>13, <1>14,
     <1>15, <1>16, <1>17 DEF Next

\* The queue's state is always well formed, every index is the replay of what its
\* process has read, and every prefix of the log can be replayed.
THEOREM QueueInvariant == Spec => []IInv
<1>1. Init => IInv
  BY InitInv
<1>2. IInv /\ [Next]_vars => IInv'
  BY StepInv
<1> QED
  BY <1>1, <1>2, PTL DEF Spec

\* Log, indexes, clock and ghosts are well formed at every moment.
THEOREM QueueTyped == Spec => []TypeOK
<1>1. IInv => TypeOK
  BY DEF IInv
<1> QED
  BY <1>1, QueueInvariant, PTL

\* A process that holds the live generation has in memory exactly the jobs that a
\* fresh replay of what it has read gives, after every operation, fault and
\* compaction.
THEOREM IndexIsReplay == Spec => []CacheOfLog
<1>1. IInv => CacheOfLog
  BY DEF IInv
<1> QED
  BY <1>1, QueueInvariant, PTL

\* No reader ever meets a record about a job it does not know.
THEOREM NothingOrphaned == Spec => []NoOrphans
<1>1. IInv => NoOrphans
  BY DEF IInv
<1> QED
  BY <1>1, QueueInvariant, PTL

\* No two jobs of the log share a sequence number, whoever enqueued them and
\* however often the log was compacted or cut.
THEOREM SeqsDistinct == Spec => []SeqUnique
<1>1. ASSUME IInv PROVE SeqUnique
  <2>1. Follows(log)
    BY <1>1, FollowsItself
  <2>2. Sound(Whole(log))
    BY <2>1, WholeFacts
  <2> QED
    BY <2>2 DEF SeqUnique, Jobs, Whole, Sound
<1> QED
  BY <1>1, QueueInvariant, PTL

-----------------------------------------------------------------------------
(***************************************************************************)
(* What callers were told stays true: the replies a queue gave are borne   *)
(* out by the history of records, wherever a crash, an error or a power    *)
(* loss cuts the log, and however often it is compacted.  To begin with,   *)
(* a history with one more record.                                         *)
(***************************************************************************)
Extends(g, h, rec) ==
  /\ Len(h) \in Nat /\ DOMAIN h = 1..Len(h)
  /\ DOMAIN g = 1..Len(h) + 1 /\ g[Len(h) + 1] = rec
  /\ \A i \in 1..Len(h) : g[i] = h[i]

About(rec, types, id) == \E t \in types : Is(rec, t, id)

LEMMA AtMore ==
  ASSUME NEW h, NEW g, NEW rec, Extends(g, h, rec), NEW types, NEW id
  PROVE  /\ Len(h) \in Nat
         /\ At(h, types, id) \subseteq 1..Len(h)
         /\ At(g, types, id) \subseteq 1..Len(h) + 1
         /\ At(h, types, id) \subseteq At(g, types, id)
         /\ \A i \in At(g, types, id) : i = Len(h) + 1 \/ i \in At(h, types, id)
         /\ Len(h) + 1 \in At(g, types, id) <=> About(rec, types, id)
<1>1. At(h, types, id) = {i \in DOMAIN h : About(h[i], types, id)}
  BY DEF At, About
<1>2. At(g, types, id) = {i \in DOMAIN g : About(g[i], types, id)}
  BY DEF At, About
<1> QED
  BY <1>1, <1>2 DEF Extends

\* Records of a known type, or of two.
LEMMA AboutOne ==
  ASSUME NEW rec, NEW id, NEW t, NEW u
  PROVE  /\ About(rec, {t}, id) <=> Is(rec, t, id)
         /\ About(rec, {t, u}, id) <=> Is(rec, t, id) \/ Is(rec, u, id)
  BY DEF About

LEMMA AboutOther ==
  ASSUME NEW rec \in Record, NEW id
  PROVE  About(rec, RecordTypes \ {"EXTEND"}, id) <=>
           rec.type # "EXTEND" /\ (rec.type = "PURGE" \/ rec.id = id)
<1>1. rec.type \in RecordTypes
  BY RecordFacts
<1> QED
  BY <1>1 DEF About, Is

-----------------------------------------------------------------------------
(***************************************************************************)
(* What operations write: new jobs that are ready, records about jobs that *)
(* are known and not done, and purges.                                     *)
(***************************************************************************)
Legal(jobs, rec) ==
  \/ rec.type = "PURGE"
  \/ rec.type = "ENQUEUE" /\ rec.state = "READY"
  \/ NamesJob(rec) /\ rec.id \in DOMAIN jobs /\ jobs[rec.id].state # "DONE"

LEMMA JobAfter ==
  ASSUME NEW read \in Indexes, NEW rec \in Record, Legal(read.jobs, rec), NEW id,
         NEW old, old = read.jobs, NEW new, new = Apply(read, rec).jobs
  PROVE  /\ rec.type = "PURGE" => id \notin DOMAIN new
         /\ rec.type # "PURGE" /\ rec.id # id =>
              /\ id \in DOMAIN new <=> id \in DOMAIN old
              /\ id \in DOMAIN old => new[id] = old[id]
         /\ rec.type # "PURGE" /\ rec.id = id =>
              /\ id \in DOMAIN new
              /\ rec.type = "ENQUEUE" => new[id].state = "READY"
              /\ rec.type # "ENQUEUE" => id \in DOMAIN old /\ old[id].state # "DONE"
              /\ rec.type = "LEASE" =>
                   new[id].state = "LEASED" /\ new[id].lease_token = rec.token
              /\ rec.type = "EXTEND" =>
                   new[id].state = old[id].state /\ new[id].lease_token = old[id].lease_token
              /\ rec.type = "ACK" => new[id].state = "DONE"
              /\ rec.type \in {"NACK", "RECLAIM", "REQUEUE"} => new[id].state = "READY"
              /\ rec.type = "DEAD" => new[id].state = "DEAD"
<1>1. CASE rec.type = "PURGE"
  <2>1. DOMAIN new = {}
    BY <1>1, ApplyJobs
  <2>2. id \notin DOMAIN new
    BY <2>1
  <2> QED
    BY <1>1, <2>2
<1>2. CASE rec.type = "ENQUEUE"
  <2>1. new = Put(old, rec.id, FromDict(rec)) /\ rec.state = "READY"
    BY <1>2, ApplyJobs DEF Legal, NamesJob
  <2>2. FromDict(rec).state = rec.state
    BY DEF FromDict
  <2>3. /\ DOMAIN new = DOMAIN old \cup {rec.id} /\ new[rec.id].state = "READY"
        /\ \A y \in DOMAIN old : y # rec.id => new[y] = old[y]
    BY <2>1, <2>2 DEF Put
  <2> QED
    BY <1>2, <2>3
<1>3. CASE NamesJob(rec)
  <2>1. rec.id \in DOMAIN old /\ old[rec.id].state # "DONE"
    BY <1>3 DEF Legal, NamesJob
  <2> DEFINE job == Changed(old[rec.id], rec)
  <2>2. new = Put(old, rec.id, job)
    BY <1>3, <2>1, ApplyJobs
  <2>3. old[rec.id] \in Job
    BY <2>1, JobsType
  <2>4. /\ rec.type = "LEASE" => job.state = "LEASED" /\ job.lease_token = rec.token
        /\ rec.type = "EXTEND" =>
             job.state = old[rec.id].state /\ job.lease_token = old[rec.id].lease_token
        /\ rec.type = "ACK" => job.state = "DONE"
        /\ rec.type \in {"NACK", "RECLAIM", "REQUEUE"} => job.state = "READY"
        /\ rec.type = "DEAD" => job.state = "DEAD"
    BY <1>3, <2>3, ChangedFields DEF Has
  <2> HIDE DEF job
  <2>5. /\ DOMAIN new = DOMAIN old \cup {rec.id} /\ new[rec.id] = job
        /\ \A y \in DOMAIN old : y # rec.id => new[y] = old[y]
    BY <2>2 DEF Put
  <2> QED
    BY <1>3, <2>1, <2>4, <2>5 DEF NamesJob
<1> QED
  BY <1>1, <1>2, <1>3 DEF NamesJob

LEMMA KnownMore ==
  ASSUME NEW read \in Indexes, NEW rec \in Record, Legal(read.jobs, rec),
         NEW h, NEW g, Extends(g, h, rec), NEW id, Known(h, read.jobs, id)
  PROVE  Known(g, Apply(read, rec).jobs, id)
<1> DEFINE new == Apply(read, rec).jobs
<1>1. PICK i \in At(h, {"ENQUEUE"}, id) :
        \/ \E k \in At(h, {"ACK", "PURGE"}, id) : i < k
        \/ id \in DOMAIN read.jobs /\ read.jobs[id].state # "DONE"
  BY DEF Known
<1>2. i \in At(g, {"ENQUEUE"}, id) /\ i \in 1..Len(h) /\ Len(h) \in Nat
  BY <1>1, AtMore
<1>3. CASE \E k \in At(h, {"ACK", "PURGE"}, id) : i < k
  <2>1. \E k \in At(g, {"ACK", "PURGE"}, id) : i < k
    BY <1>3, AtMore
  <2> QED
    BY <1>2, <2>1 DEF Known
<1>4. CASE Is(rec, "ACK", id) \/ Is(rec, "PURGE", id)
  <2>1. About(rec, {"ACK", "PURGE"}, id)
    BY <1>4, AboutOne
  <2>2. Len(h) + 1 \in At(g, {"ACK", "PURGE"}, id) /\ i < Len(h) + 1
    BY <1>2, <2>1, AtMore
  <2> QED
    BY <1>2, <2>2 DEF Known
<1>5. CASE /\ id \in DOMAIN read.jobs /\ read.jobs[id].state # "DONE"
           /\ ~(Is(rec, "ACK", id) \/ Is(rec, "PURGE", id))
  <2>1. rec.type # "PURGE" /\ (rec.id = id => rec.type # "ACK") /\ rec.type \in RecordTypes
    BY <1>5, RecordFacts DEF Is
  <2>2. id \in DOMAIN new /\ new[id].state # "DONE"
    BY <1>5, <2>1, JobAfter DEF RecordTypes
  <2> QED
    BY <1>2, <2>2 DEF Known
<1> QED
  BY <1>1, <1>3, <1>4, <1>5

LEMMA FinishedMore ==
  ASSUME NEW read \in Indexes, NEW rec \in Record, Legal(read.jobs, rec),
         NEW h, NEW g, Extends(g, h, rec), NEW id, Finished(h, read.jobs, id)
  PROVE  Finished(g, Apply(read, rec).jobs, id)
<1> DEFINE new == Apply(read, rec).jobs
           anew(f) == At(f, {"ENQUEUE", "PURGE"}, id)
           rests(f, i, jobs) == \/ \E j \in anew(f) : i < j
                                \/ id \in DOMAIN jobs => jobs[id].state = "DONE"
<1>1. PICK i \in At(h, {"ACK"}, id) :
        /\ \A k \in At(h, {"LEASE"}, id) : i < k => Between(i, k, anew(h))
        /\ rests(h, i, read.jobs)
  BY DEF Finished
<1>2. i \in At(g, {"ACK"}, id) /\ i \in 1..Len(h) /\ Len(h) \in Nat
  BY <1>1, AtMore
<1>3. anew(h) \subseteq anew(g) /\ anew(h) \subseteq 1..Len(h)
      /\ (Is(rec, "ENQUEUE", id) \/ Is(rec, "PURGE", id) => Len(h) + 1 \in anew(g))
  BY AtMore, AboutOne
<1>4. rests(g, i, new)
  <2>1. CASE \E j \in anew(h) : i < j
    BY <1>3, <2>1
  <2>2. CASE Is(rec, "ENQUEUE", id) \/ Is(rec, "PURGE", id)
    <3>1. Len(h) + 1 \in anew(g) /\ i < Len(h) + 1
      BY <1>2, <1>3, <2>2
    <3> QED
      BY <3>1
  <2>3. CASE /\ id \in DOMAIN read.jobs => read.jobs[id].state = "DONE"
             /\ ~(Is(rec, "ENQUEUE", id) \/ Is(rec, "PURGE", id))
    <3>1. rec.type # "PURGE" /\ (rec.id = id => rec.type # "ENQUEUE")
      BY <2>3 DEF Is
    <3>2. rec.id # id
      BY <2>3, <3>1, JobAfter
    <3>3. id \in DOMAIN new => id \in DOMAIN read.jobs /\ new[id] = read.jobs[id]
      BY <3>1, <3>2, JobAfter
    <3> HIDE DEF new
    <3> QED
      BY <2>3, <3>3
  <2> QED
    BY <1>1, <2>1, <2>2, <2>3
<1>5. ASSUME NEW k \in At(g, {"LEASE"}, id), i < k PROVE Between(i, k, anew(g))
  <2>1. CASE k \in At(h, {"LEASE"}, id)
    BY <1>1, <1>3, <1>5, <2>1 DEF Between
  <2>2. CASE k = Len(h) + 1
    <3>0. About(rec, {"LEASE"}, id)
      BY <1>5, <2>2, AtMore
    <3>1. rec.type = "LEASE" /\ rec.id = id
      BY <3>0, AboutOne DEF Is
    <3>2. id \in DOMAIN read.jobs /\ read.jobs[id].state # "DONE"
      BY <3>1, JobAfter
    <3>3. PICK j \in anew(h) : i < j
      BY <1>1, <3>2
    <3>4. j \in anew(g) /\ j < k
      BY <1>2, <1>3, <2>2, <3>3
    <3> QED
      BY <3>3, <3>4 DEF Between
  <2> QED
    BY <1>5, <2>1, <2>2, AtMore
<1> QED
  BY <1>2, <1>4, <1>5 DEF Finished

LEMMA RecordedMore ==
  ASSUME NEW read \in Indexes, NEW rec \in Record, Legal(read.jobs, rec),
         NEW h, NEW g, Extends(g, h, rec), LeasesRecorded(h, read.jobs)
  PROVE  LeasesRecorded(g, Apply(read, rec).jobs)
<1> DEFINE new == Apply(read, rec).jobs  others(f, id) == At(f, RecordTypes \ {"EXTEND"}, id)
<1> SUFFICES ASSUME NEW id \in DOMAIN new, new[id].state = "LEASED"
             PROVE  \E i \in At(g, {"LEASE"}, id) :
                      g[i].token = new[id].lease_token /\ \A k \in others(g, id) : k <= i
  BY DEF LeasesRecorded
<1>t. rec.type \in RecordTypes
  BY RecordFacts
<1>1. CASE rec.type = "LEASE" /\ rec.id = id
  <2>0. About(rec, {"LEASE"}, id)
    BY <1>1, AboutOne DEF Is
  <2>1. Len(h) + 1 \in At(g, {"LEASE"}, id) /\ g[Len(h) + 1] = rec
    BY <2>0, AtMore DEF Extends
  <2>2. new[id].lease_token = rec.token
    BY <1>1, JobAfter
  <2>3. \A k \in others(g, id) : k <= Len(h) + 1
    BY AtMore
  <2> QED
    BY <2>1, <2>2, <2>3
<1>2. CASE rec.type # "PURGE" /\ (rec.id # id \/ rec.type = "EXTEND")
  <2>1. /\ id \in DOMAIN read.jobs /\ read.jobs[id].state = "LEASED"
        /\ read.jobs[id].lease_token = new[id].lease_token
    BY <1>2, JobAfter
  <2>2. PICK i \in At(h, {"LEASE"}, id) :
          h[i].token = read.jobs[id].lease_token /\ \A k \in others(h, id) : k <= i
    BY <2>1 DEF LeasesRecorded
  <2>3. i \in At(g, {"LEASE"}, id) /\ i \in 1..Len(h)
    BY <2>2, AtMore
  <2>4. g[i] = h[i]
    BY <2>3 DEF Extends
  <2>5. ~About(rec, RecordTypes \ {"EXTEND"}, id)
    BY <1>2, AboutOther
  <2>6. \A k \in others(g, id) : k \in others(h, id)
    BY <2>5, AtMore
  <2> HIDE DEF new
  <2> QED
    BY <2>1, <2>2, <2>3, <2>4, <2>6
<1>3. CASE rec.type = "PURGE" \/ (rec.id = id /\ rec.type \notin {"LEASE", "EXTEND"})
  BY <1>t, <1>3, JobAfter DEF RecordTypes
<1> QED
  BY <1>1, <1>2, <1>3

LEMMA CompletedMore ==
  ASSUME NEW rec, NEW h, NEW g, Extends(g, h, rec), NEW id, NEW token, CompletedBy(h, id, token)
  PROVE  CompletedBy(g, id, token)
<1> DEFINE others(f) == At(f, RecordTypes \ {"EXTEND"}, id)
<1>1. PICK i \in At(h, {"LEASE"}, id), k \in At(h, {"ACK"}, id) :
        h[i].token = token /\ i < k /\ ~Between(i, k, others(h))
  BY DEF CompletedBy
<1>2. i \in At(g, {"LEASE"}, id) /\ k \in At(g, {"ACK"}, id)
      /\ i \in 1..Len(h) /\ k \in 1..Len(h) /\ Len(h) \in Nat
  BY <1>1, AtMore
<1>3. g[i] = h[i]
  BY <1>2 DEF Extends
<1>4. \A j \in others(g) : j = Len(h) + 1 \/ j \in others(h)
  BY AtMore
<1>5. ~Between(i, k, others(g))
  <2> SUFFICES ASSUME NEW j \in others(g), i < j, j < k PROVE FALSE
    BY DEF Between
  <2>1. j # Len(h) + 1
    BY <1>2
  <2> HIDE DEF others
  <2>2. j \in others(h)
    BY <1>4, <2>1
  <2> QED
    BY <1>1, <2>2 DEF Between
<1> QED
  BY <1>1, <1>2, <1>3, <1>5 DEF CompletedBy

LEMMA BearsOutMore ==
  ASSUME NEW read \in Indexes, NEW rec \in Record, Legal(read.jobs, rec),
         NEW h, NEW g, Extends(g, h, rec), NEW replies, BearsOut(h, read.jobs, replies)
  PROVE  BearsOut(g, Apply(read, rec).jobs, replies)
<1>1. LeasesRecorded(g, Apply(read, rec).jobs)
  BY RecordedMore DEF BearsOut
<1>2. ASSUME NEW r \in replies
      PROVE  /\ r.how = "created" => Known(g, Apply(read, rec).jobs, r.id)
             /\ r.how = "acked" => Finished(g, Apply(read, rec).jobs, r.id)
             /\ r.how = "acked" /\ r.token # None => CompletedBy(g, r.id, r.token)
  BY KnownMore, FinishedMore, CompletedMore DEF BearsOut
<1> QED
  BY <1>1, <1>2 DEF BearsOut

-----------------------------------------------------------------------------
(***************************************************************************)
(* A batch of records, after a history.                                    *)
(***************************************************************************)
\* What one write of an operation holds, given the jobs that were known before it.
Rightful(jobs, recs) ==
  \/ \A k \in 1..Len(recs) : recs[k].type = "PURGE"
  \/ \A k \in 1..Len(recs) : recs[k].type = "ENQUEUE" /\ recs[k].state = "READY"
  \/ /\ \A k \in 1..Len(recs) : /\ NamesJob(recs[k]) /\ recs[k].id \in DOMAIN jobs
                                /\ jobs[recs[k].id].state # "DONE"
     /\ Len(recs) <= 1 \/ \A k \in 1..Len(recs) : recs[k].type # "ACK"

LEMMA RightfulPart ==
  ASSUME NEW jobs, NEW recs \in Seq(Record), Rightful(jobs, recs), NEW k \in 0..Len(recs)
  PROVE  Rightful(jobs, SubSeq(recs, 1, k))
<1> DEFINE part == SubSeq(recs, 1, k)
<1>1. Len(part) = k /\ Len(recs) \in Nat /\ \A i \in 1..k : part[i] = recs[i]
  BY PrefixFacts
<1>2. \A i \in 1..k : i \in 1..Len(recs)
  BY <1>1
<1>3. Len(recs) <= 1 => k <= 1
  BY <1>1
<1> HIDE DEF part
<1> QED
  BY <1>1, <1>2, <1>3 DEF Rightful, part

\* What the jobs are after the first n records of a batch.
After(read, recs, n) == Replay(read, SubSeq(recs, 1, n))

LEMMA AfterFacts ==
  ASSUME NEW read \in Indexes, NEW recs \in Seq(Record)
  PROVE  /\ Len(recs) \in Nat /\ After(read, recs, 0) = read
         /\ \A n \in 0..Len(recs) : After(read, recs, n) \in Indexes
         /\ \A n \in 0..Len(recs) - 1 :
              /\ After(read, recs, n + 1) = Apply(After(read, recs, n), recs[n + 1])
              /\ recs[n + 1] \in Record /\ n \in 0..Len(recs) /\ n + 1 \in 1..Len(recs)
         /\ After(read, recs, Len(recs)) = Replay(read, recs)
<1>1. Len(recs) \in Nat /\ SubSeq(recs, 1, 0) = <<>> /\ SubSeq(recs, 1, Len(recs)) = recs
  BY PrefixFacts
<1>2. After(read, recs, 0) = read /\ After(read, recs, Len(recs)) = Replay(read, recs)
  BY <1>1, ReplayNothing DEF After
<1>3. \A n \in 0..Len(recs) : After(read, recs, n) \in Indexes
  BY ReplayType DEF After
<1>4. ASSUME NEW n \in 0..Len(recs) - 1
      PROVE  /\ After(read, recs, n + 1) = Apply(After(read, recs, n), recs[n + 1])
             /\ recs[n + 1] \in Record /\ n \in 0..Len(recs) /\ n + 1 \in 1..Len(recs)
  <2>1. n \in 0..Len(recs) /\ n + 1 \in 1..Len(recs)
    BY <1>1
  <2> QED
    BY <2>1, ReplayNext, PrefixFacts DEF After
<1> QED
  BY <1>1, <1>2, <1>3, <1>4

LEMMA BatchLegal ==
  ASSUME NEW read \in Indexes, NEW recs \in Seq(Record), Rightful(read.jobs, recs)
  PROVE  \A n \in 0..Len(recs) - 1 : Legal(After(read, recs, n).jobs, recs[n + 1])
<1>0. /\ Len(recs) \in Nat
      /\ \A n \in 0..Len(recs) - 1 : n + 1 \in 1..Len(recs)
  BY AfterFacts
<1>1. CASE \A k \in 1..Len(recs) : recs[k].type = "PURGE"
  BY <1>0, <1>1 DEF Legal
<1>2. CASE \A k \in 1..Len(recs) : recs[k].type = "ENQUEUE" /\ recs[k].state = "READY"
  BY <1>0, <1>2 DEF Legal
<1>3. CASE \A k \in 1..Len(recs) : /\ NamesJob(recs[k]) /\ recs[k].id \in DOMAIN read.jobs
                                   /\ read.jobs[recs[k].id].state # "DONE"
                                   /\ recs[k].type # "ACK"
  <2> DEFINE open(jobs) == {id \in DOMAIN jobs : jobs[id].state # "DONE"}
             T == {n \in 0..Len(recs) : open(read.jobs) \subseteq open(After(read, recs, n).jobs)}
  <2>1. 0 \in T
    BY AfterFacts
  <2>2. ASSUME NEW n \in 0..Len(recs) - 1, n \in T
        PROVE  n + 1 \in T /\ Legal(After(read, recs, n).jobs, recs[n + 1])
    <3> DEFINE idx == After(read, recs, n)  rec == recs[n + 1]  jobs == Apply(idx, rec).jobs
    <3>1. /\ idx \in Indexes /\ rec \in Record /\ n + 1 \in 1..Len(recs)
          /\ After(read, recs, n + 1) = Apply(idx, rec)
      BY AfterFacts
    <3>2. NamesJob(rec) /\ rec.id \in open(read.jobs) /\ rec.type # "ACK"
      BY <1>3, <3>1
    <3>3. open(read.jobs) \subseteq open(idx.jobs)
      BY <2>2
    <3>4. jobs = Apply(idx, rec).jobs /\ After(read, recs, n + 1).jobs = jobs
      BY <3>1
    <3> HIDE DEF idx, rec, jobs
    <3>5. Legal(idx.jobs, rec)
      BY <3>2, <3>3 DEF Legal
    <3>6. rec.type \in RecordTypes
      BY <3>1, RecordFacts
    <3>7. ASSUME NEW id \in open(idx.jobs) PROVE id \in open(jobs)
      <4> DEFINE old == idx.jobs
      <4>0. rec.type # "PURGE" /\ old = idx.jobs
        BY <3>2 DEF NamesJob
      <4> HIDE DEF old
      <4>1. /\ rec.type # "PURGE" /\ rec.id # id =>
                 /\ id \in DOMAIN jobs <=> id \in DOMAIN old
                 /\ id \in DOMAIN old => jobs[id] = old[id]
            /\ rec.type # "PURGE" /\ rec.id = id =>
                 /\ id \in DOMAIN jobs
                 /\ rec.type = "LEASE" => jobs[id].state = "LEASED"
                 /\ rec.type = "EXTEND" => jobs[id].state = old[id].state
                 /\ rec.type \in {"NACK", "RECLAIM", "REQUEUE"} => jobs[id].state = "READY"
                 /\ rec.type = "DEAD" => jobs[id].state = "DEAD"
        BY <3>1, <3>4, <3>5, <4>0, JobAfter
      <4>2. CASE rec.id # id
        BY <3>7, <4>0, <4>1, <4>2
      <4>3. CASE rec.id = id
        <5>1. rec.type \in {"LEASE", "EXTEND", "NACK", "RECLAIM", "REQUEUE", "DEAD"}
          BY <3>2, <3>6 DEF RecordTypes, NamesJob
        <5> QED
          BY <3>7, <4>0, <4>1, <4>3, <5>1
      <4> QED
        BY <4>2, <4>3
    <3>8. open(read.jobs) \subseteq open(jobs)
      BY <3>3, <3>7
    <3>9. n + 1 \in T
      BY <1>0, <3>4, <3>8
    <3> QED
      BY <3>5, <3>9 DEF idx, rec
  <2> HIDE DEF T
  <2>3. 0..Len(recs) \subseteq T
    BY <1>0, <2>1, <2>2, UpToInduction
  <2>4. \A n \in 0..Len(recs) - 1 : n \in 0..Len(recs)
    BY <1>0
  <2> QED
    BY <2>2, <2>3, <2>4
<1>4. CASE /\ \A k \in 1..Len(recs) : /\ NamesJob(recs[k]) /\ recs[k].id \in DOMAIN read.jobs
                                      /\ read.jobs[recs[k].id].state # "DONE"
           /\ Len(recs) <= 1
  <2> SUFFICES ASSUME NEW n \in 0..Len(recs) - 1
               PROVE  Legal(After(read, recs, n).jobs, recs[n + 1])
    OBVIOUS
  <2>1. n = 0 /\ n + 1 \in 1..Len(recs) /\ After(read, recs, 0) = read
    BY <1>0, <1>4, AfterFacts
  <2> QED
    BY <1>4, <2>1 DEF Legal
<1> QED
  BY <1>1, <1>2, <1>3, <1>4 DEF Rightful

LEMMA ConcatExtends ==
  ASSUME NEW R, NEW h \in Seq(R), NEW recs \in Seq(R), NEW n \in 0..Len(recs) - 1
  PROVE  /\ Extends(h \o SubSeq(recs, 1, n + 1), h \o SubSeq(recs, 1, n), recs[n + 1])
         /\ h \o SubSeq(recs, 1, n) \in Seq(R)
<1> DEFINE m == n + 1
           a == SubSeq(recs, 1, n)  b == SubSeq(recs, 1, m)  f == h \o a  g == h \o b
<1>1. Len(recs) \in Nat /\ n \in 0..Len(recs) /\ m \in 0..Len(recs) /\ m = n + 1
  BY LenProperties
<1> HIDE DEF m
<1>2. a \in Seq(R) /\ Len(a) = n /\ \A i \in 1..n : a[i] = recs[i]
  BY <1>1, PrefixFacts
<1>3. b \in Seq(R) /\ Len(b) = m /\ \A i \in 1..m : b[i] = recs[i]
  BY <1>1, PrefixFacts
<1> HIDE DEF a, b
<1>4. /\ f \in Seq(R) /\ Len(f) = Len(h) + n /\ Len(h) \in Nat
      /\ \A i \in 1..Len(h) + n : f[i] = IF i <= Len(h) THEN h[i] ELSE a[i - Len(h)]
  BY <1>2, ConcatProperties, LenProperties
<1>5. /\ g \in Seq(R) /\ Len(g) = Len(h) + m
      /\ \A i \in 1..Len(h) + m : g[i] = IF i <= Len(h) THEN h[i] ELSE b[i - Len(h)]
  BY <1>3, ConcatProperties
<1> HIDE DEF f, g
<1>6. DOMAIN f = 1..Len(f) /\ DOMAIN g = 1..Len(g) /\ Len(f) \in Nat
  BY <1>4, <1>5, LenProperties
<1>7. Len(g) = Len(f) + 1
  BY <1>1, <1>4, <1>5
<1>8. g[Len(f) + 1] = recs[m]
  <2>1. /\ Len(f) + 1 \in 1..Len(h) + m /\ ~(Len(f) + 1 <= Len(h))
        /\ Len(f) + 1 - Len(h) = m /\ m \in 1..m
    BY <1>1, <1>4
  <2> QED
    BY <1>3, <1>5, <2>1
<1>9. ASSUME NEW i \in 1..Len(f) PROVE g[i] = f[i]
  <2>1. i \in 1..Len(h) + n /\ i \in 1..Len(h) + m
    BY <1>1, <1>4
  <2>2. CASE i <= Len(h)
    BY <1>4, <1>5, <2>1, <2>2
  <2>3. CASE ~(i <= Len(h))
    <3>1. i - Len(h) \in 1..n /\ i - Len(h) \in 1..m
      BY <1>1, <1>4, <2>1, <2>3
    <3> QED
      BY <1>2, <1>3, <1>4, <1>5, <2>1, <2>3, <3>1
  <2> QED
    BY <2>2, <2>3
<1>10. Extends(g, f, recs[m]) /\ f \in Seq(R)
  BY <1>4, <1>6, <1>7, <1>8, <1>9 DEF Extends
<1> QED
  BY <1>10 DEF f, g, a, b, m

\* A batch bears out what was borne out before it, wherever it is cut.
LEMMA BatchBearsOut ==
  ASSUME NEW read \in Indexes, NEW recs \in Seq(Record), Rightful(read.jobs, recs),
         NEW h \in Seq(Record), NEW replies, BearsOut(h, read.jobs, replies)
  PROVE  \A n \in 0..Len(recs) :
           BearsOut(h \o SubSeq(recs, 1, n), After(read, recs, n).jobs, replies)
<1> DEFINE T == {n \in 0..Len(recs) :
                   BearsOut(h \o SubSeq(recs, 1, n), After(read, recs, n).jobs, replies)}
<1>0. Len(recs) \in Nat
  BY AfterFacts
<1>1. 0 \in T
  <2>1. SubSeq(recs, 1, 0) = <<>> /\ h \o <<>> = h /\ After(read, recs, 0) = read
    BY PrefixFacts, AfterFacts, ConcatEmptySeq
  <2>2. BearsOut(h \o SubSeq(recs, 1, 0), After(read, recs, 0).jobs, replies)
    BY <2>1
  <2> QED
    BY <1>0, <2>2
<1>2. ASSUME NEW n \in 0..Len(recs) - 1, n \in T PROVE n + 1 \in T
  <2> DEFINE f == h \o SubSeq(recs, 1, n)  g == h \o SubSeq(recs, 1, n + 1)
             idx == After(read, recs, n)  rec == recs[n + 1]
  <2>1. Extends(g, f, rec)
    BY ConcatExtends
  <2>2. idx \in Indexes /\ rec \in Record /\ After(read, recs, n + 1) = Apply(idx, rec)
    BY AfterFacts
  <2>3. Legal(idx.jobs, rec)
    BY BatchLegal
  <2>4. BearsOut(f, idx.jobs, replies)
    BY <1>2
  <2> HIDE DEF f, g, idx, rec
  <2>5. BearsOut(g, Apply(idx, rec).jobs, replies)
    BY <2>1, <2>2, <2>3, <2>4, BearsOutMore
  <2>6. n + 1 \in 0..Len(recs)
    BY <1>0
  <2> QED
    BY <2>2, <2>5, <2>6 DEF g, f, idx, rec
<1> HIDE DEF T
<1>3. 0..Len(recs) \subseteq T
  BY <1>0, <1>1, <1>2, UpToInduction
<1> QED
  BY <1>3 DEF T

-----------------------------------------------------------------------------
(***************************************************************************)
(* The history up to a cut of a log.                                       *)
(***************************************************************************)
LEMMA MiddleFacts ==
  ASSUME NEW R, NEW recs \in Seq(R), NEW n \in 0..Len(recs), NEW k \in 0..n
  PROVE  LET mid == SubSeq(recs, k + 1, n) IN
         /\ mid \in Seq(R) /\ Len(mid) = n - k
         /\ \A i \in 1..n - k : mid[i] = recs[k + i]
<1> DEFINE N == Len(recs)  m == k + 1  mid == SubSeq(recs, m, n)
<1>1. /\ N \in Nat /\ n \in Int /\ k \in Nat /\ m \in Int /\ n <= N
      /\ \A i \in m..n : recs[i] \in R
  <2>1. N \in Nat /\ \A i \in 1..N : recs[i] \in R
    BY LenProperties, ElementOfSeq
  <2>2. \A i \in m..n : i \in 1..N
    BY <2>1
  <2> QED
    BY <2>1, <2>2
<1> HIDE DEF N, m
<1>2. /\ mid \in Seq(R) /\ Len(mid) = (IF m <= n THEN n - m + 1 ELSE 0)
      /\ \A i \in 1..n - m + 1 : mid[i] = recs[m + i - 1]
  BY <1>1, SubSeqProperties
<1> HIDE DEF mid
<1>3. n - m + 1 = n - k /\ (IF m <= n THEN n - m + 1 ELSE 0) = n - k
  BY <1>1 DEF m
<1>4. \A i \in 1..n - k : m + i - 1 = k + i
  BY <1>1 DEF m
<1> QED
  BY <1>2, <1>3, <1>4 DEF mid, m

\* A part of a log is the same in every log that goes on from it.
LEMMA MiddleSame ==
  ASSUME NEW R, NEW s \in Seq(R), NEW u \in Seq(R), NEW n \in 0..Len(s), n <= Len(u),
         \A i \in 1..n : u[i] = s[i], NEW k \in 0..n
  PROVE  SubSeq(u, k + 1, n) = SubSeq(s, k + 1, n)
<1> DEFINE a == SubSeq(u, k + 1, n)  b == SubSeq(s, k + 1, n)
<1>1. Len(s) \in Nat /\ Len(u) \in Nat /\ n \in 0..Len(u) /\ k \in Nat
  BY LenProperties
<1>2. a \in Seq(R) /\ Len(a) = n - k /\ \A i \in 1..n - k : a[i] = u[k + i]
  BY <1>1, MiddleFacts
<1>3. b \in Seq(R) /\ Len(b) = n - k /\ \A i \in 1..n - k : b[i] = s[k + i]
  BY <1>1, MiddleFacts
<1>4. \A i \in 1..n - k : k + i \in 1..n
  BY <1>1
<1> HIDE DEF a, b
<1>5. \A i \in 1..Len(a) : a[i] = b[i]
  BY <1>2, <1>3, <1>4
<1>6. a = b
  BY <1>2, <1>3, <1>5, SeqEqual
<1> QED
  BY <1>6 DEF a, b

LEMMA MiddleMore ==
  ASSUME NEW R, NEW s \in Seq(R), NEW t \in Seq(R), NEW k \in 0..Len(s), NEW j \in 0..Len(t)
  PROVE  SubSeq(s \o t, k + 1, Len(s) + j) = SubSeq(s, k + 1, Len(s)) \o SubSeq(t, 1, j)
<1> DEFINE N == Len(s)  M == N + j  u == s \o t  a == SubSeq(u, k + 1, M)
           c == SubSeq(s, k + 1, N)  d == SubSeq(t, 1, j)  b == c \o d  w == N - k
<1>1. /\ u \in Seq(R) /\ Len(u) = N + Len(t) /\ N \in Nat /\ Len(t) \in Nat
      /\ \A i \in 1..N + Len(t) : u[i] = IF i <= N THEN s[i] ELSE t[i - N]
  BY ConcatProperties, LenProperties
<1>2. k \in Nat /\ j \in Nat /\ M \in 0..Len(u) /\ k \in 0..M /\ N \in 0..N /\ M = N + j
      /\ w \in Nat /\ w = N - k
  BY <1>1
<1> HIDE DEF u, M
<1>3. a \in Seq(R) /\ Len(a) = M - k /\ \A i \in 1..M - k : a[i] = u[k + i]
  BY <1>1, <1>2, MiddleFacts
<1>4. c \in Seq(R) /\ Len(c) = w /\ \A i \in 1..w : c[i] = s[k + i]
  BY <1>2, MiddleFacts DEF w
<1>5. d \in Seq(R) /\ Len(d) = j /\ \A i \in 1..j : d[i] = t[i]
  BY PrefixFacts
<1> HIDE DEF a, c, d, w
<1>6. /\ b \in Seq(R) /\ Len(b) = w + j
      /\ \A i \in 1..w + j : b[i] = IF i <= w THEN c[i] ELSE d[i - w]
  BY <1>4, <1>5, ConcatProperties
<1> HIDE DEF b, N
<1>7. ASSUME NEW i \in 1..Len(a) PROVE a[i] = b[i]
  <2>1. i \in 1..M - k /\ k + i \in 1..N + Len(t) /\ i \in 1..w + j
    BY <1>1, <1>2, <1>3
  <2>2. CASE i <= w
    <3>1. k + i <= N /\ i \in 1..w
      BY <1>1, <1>2, <2>1, <2>2
    <3> QED
      BY <1>1, <1>3, <1>4, <1>6, <2>1, <2>2, <3>1
  <2>3. CASE ~(i <= w)
    <3>1. ~(k + i <= N) /\ i - w = k + i - N /\ k + i - N \in 1..j
      BY <1>1, <1>2, <2>1, <2>3
    <3>2. b[i] = d[i - w] /\ a[i] = t[k + i - N]
      BY <1>1, <1>3, <1>6, <2>1, <2>3, <3>1
    <3> QED
      BY <1>5, <3>1, <3>2
  <2> QED
    BY <2>2, <2>3
<1>8. Len(a) = Len(b)
  BY <1>1, <1>2, <1>3, <1>6
<1>9. a = b
  BY <1>3, <1>6, <1>7, <1>8, SeqEqual
<1> QED
  BY <1>9 DEF a, b, c, d, u, M, N

\* Cuts, HistoryTo and RepliesKept, for a log in general.
CutsOf(l) == IF Fsync THEN l.synced..Len(l.recs) ELSE {Len(l.recs)}

HistoryOf(l, n) == past.events \o SubSeq(l.recs, past.kept + 1, n)

KeptIn(l, replies) ==
  \A n \in CutsOf(l) : BearsOut(HistoryOf(l, n), ReadingOf(l.recs, n).jobs, replies)

\* What is whole of a log that may follow the present one.
LEMMA WholeCut ==
  ASSUME IInv, NEW l, Follows(l)
  PROVE  /\ Len(l.recs) \in CutsOf(l) /\ Len(l.recs) \in Nat /\ l.synced \in Nat
         /\ past.kept \in 0..Len(l.recs) /\ l.recs \in Seq(Record)
         /\ \A n \in CutsOf(l) : n \in Nat /\ past.kept <= n /\ n <= Len(l.recs)
         /\ past.events \in Seq(Record) /\ HistoryOf(l, Len(l.recs)) \in Seq(Record)
<1>1. past.events \in Seq(Record) /\ past.kept \in Nat
  BY Parts DEF Scalars
<1>2. /\ l.recs \in Seq(Record) /\ Len(l.recs) \in Nat /\ l.synced \in Nat
      /\ past.kept <= l.synced /\ l.synced <= Len(l.recs)
  BY WholeFacts DEF Follows, Logs
<1>3. past.kept \in 0..Len(l.recs) /\ Len(l.recs) \in 0..Len(l.recs)
  BY <1>1, <1>2
<1>4. SubSeq(l.recs, past.kept + 1, Len(l.recs)) \in Seq(Record)
  BY <1>2, <1>3, MiddleFacts
<1>5. HistoryOf(l, Len(l.recs)) \in Seq(Record)
  BY <1>1, <1>4, ConcatProperties DEF HistoryOf
<1>6. \A n \in CutsOf(l) : n \in Nat /\ past.kept <= n /\ n <= Len(l.recs)
  BY <1>1, <1>2 DEF CutsOf
<1>7. Len(l.recs) \in CutsOf(l)
  BY <1>2 DEF CutsOf
<1> QED
  BY <1>1, <1>2, <1>3, <1>5, <1>6, <1>7

\* What is in a log that goes on from another, before its end and after it.
LEMMA GrownLog ==
  ASSUME IInv, NEW l, Follows(l), NEW recs \in Seq(Record), NEW m, m.recs = l.recs \o recs
  PROVE  LET N == Len(l.recs) IN
         /\ Len(m.recs) = N + Len(recs) /\ m.recs \in Seq(Record)
         /\ \A n \in past.kept..N : /\ HistoryOf(m, n) = HistoryOf(l, n)
                                    /\ ReadingOf(m.recs, n) = ReadingOf(l.recs, n)
         /\ \A j \in 0..Len(recs) :
              /\ HistoryOf(m, N + j) = HistoryOf(l, N) \o SubSeq(recs, 1, j)
              /\ ReadingOf(m.recs, N + j) = After(Whole(l), recs, j)
<1> DEFINE N == Len(l.recs)  read == Whole(l)
<1>1. /\ N \in Nat /\ past.kept \in 0..N /\ l.recs \in Seq(Record) /\ past.events \in Seq(Record)
  BY WholeCut
<1>2. Len(m.recs) = N + Len(recs) /\ Len(recs) \in Nat /\ m.recs \in Seq(Record)
  BY <1>1, ConcatProperties, LenProperties
<1>3. ASSUME NEW n \in past.kept..N
      PROVE  HistoryOf(m, n) = HistoryOf(l, n) /\ ReadingOf(m.recs, n) = ReadingOf(l.recs, n)
  <2>1. n \in 0..N /\ past.kept \in 0..n
    BY <1>1
  <2>2. n <= Len(m.recs) /\ \A i \in 1..n : m.recs[i] = l.recs[i]
    <3>1. \A i \in 1..n : i \in 1..N + Len(recs) /\ i <= N
      BY <1>1, <1>2, <2>1
    <3>2. \A i \in 1..N + Len(recs) : i <= N => m.recs[i] = l.recs[i]
      BY <1>1, ConcatProperties
    <3> QED
      BY <1>1, <1>2, <2>1, <3>1, <3>2
  <2>3. HistoryOf(m, n) = HistoryOf(l, n)
    BY <1>1, <1>2, <2>1, <2>2, MiddleSame DEF HistoryOf
  <2>4. SubSeq(m.recs, 1, n) = SubSeq(l.recs, 1, n)
    <3> DEFINE s == l.recs
    <3>1. s \in Seq(Record) /\ n \in 0..Len(s)
      BY <1>1, <2>1
    <3> HIDE DEF s
    <3>2. SubSeq(s \o recs, 1, n) = SubSeq(s, 1, n)
      BY <3>1, ConcatPrefix
    <3> QED
      BY <3>2 DEF s
  <2> QED
    BY <2>3, <2>4 DEF ReadingOf
<1>4. ASSUME NEW j \in 0..Len(recs)
      PROVE  /\ HistoryOf(m, N + j) = HistoryOf(l, N) \o SubSeq(recs, 1, j)
             /\ ReadingOf(m.recs, N + j) = After(read, recs, j)
  <2> DEFINE part == SubSeq(recs, 1, j)  mid == SubSeq(l.recs, past.kept + 1, N)
  <2>1. part \in Seq(Record)
    BY PrefixFacts
  <2>2. mid \in Seq(Record)
    <3>1. N \in 0..N
      BY <1>1
    <3> QED
      BY <1>1, <3>1, MiddleFacts
  <2>3. SubSeq(m.recs, past.kept + 1, N + j) = mid \o part
    BY <1>1, MiddleMore
  <2>4. SubSeq(m.recs, 1, N + j) = l.recs \o part
    <3> DEFINE s == l.recs
    <3>1. s \in Seq(Record)
      BY <1>1
    <3> HIDE DEF s
    <3>2. SubSeq(s \o recs, 1, Len(s) + j) = s \o part
      BY <3>1, ConcatPrefix
    <3> QED
      BY <3>2 DEF s
  <2> HIDE DEF part, mid
  <2>5. past.events \o (mid \o part) = (past.events \o mid) \o part
    <3> DEFINE e == past.events
    <3>1. e \in Seq(Record)
      BY <1>1
    <3> HIDE DEF e
    <3>2. (e \o mid) \o part = e \o (mid \o part)
      BY <2>1, <2>2, <3>1, ConcatAssociative
    <3> QED
      BY <3>2 DEF e
  <2>6. HistoryOf(m, N + j) = HistoryOf(l, N) \o part
    BY <2>3, <2>5 DEF HistoryOf, mid
  <2>7. Replay(EmptyIndex, l.recs \o part) = Replay(read, part)
    BY <1>1, <2>1, ReplayConcat DEF Whole
  <2>8. ReadingOf(m.recs, N + j) = After(read, recs, j)
    BY <2>4, <2>7 DEF ReadingOf, After, part
  <2> QED
    BY <2>6, <2>8 DEF part
<1> QED
  BY <1>2, <1>3, <1>4

\* A log goes on with a rightful batch, or a part of one.
LEMMA AppendKept ==
  ASSUME IInv, NEW l, Follows(l), NEW replies, KeptIn(l, replies),
         NEW recs \in Seq(Record), Rightful(Whole(l).jobs, recs),
         NEW m \in Logs({log.gen}), m.recs = l.recs \o recs, l.synced <= m.synced
  PROVE  KeptIn(m, replies)
<1> DEFINE N == Len(l.recs)  h == HistoryOf(l, N)  read == Whole(l)
<1>1. /\ N \in CutsOf(l) /\ N \in Nat /\ l.synced \in Nat /\ past.kept \in 0..N
      /\ h \in Seq(Record) /\ \A n \in CutsOf(l) : n \in Nat /\ past.kept <= n /\ n <= N
  BY WholeCut
<1>2. read \in Indexes /\ read = ReadingOf(l.recs, N)
  BY WholeFacts
<1>3. /\ Len(m.recs) = N + Len(recs) /\ Len(recs) \in Nat /\ m.synced \in Nat
      /\ \A n \in past.kept..N : /\ HistoryOf(m, n) = HistoryOf(l, n)
                                 /\ ReadingOf(m.recs, n) = ReadingOf(l.recs, n)
      /\ \A j \in 0..Len(recs) : /\ HistoryOf(m, N + j) = h \o SubSeq(recs, 1, j)
                                 /\ ReadingOf(m.recs, N + j) = After(read, recs, j)
  BY GrownLog, LenProperties DEF Logs
<1>4. BearsOut(h, read.jobs, replies)
  BY <1>1, <1>2 DEF KeptIn
<1> SUFFICES ASSUME NEW n \in CutsOf(m)
             PROVE  BearsOut(HistoryOf(m, n), ReadingOf(m.recs, n).jobs, replies)
  BY DEF KeptIn
<1>5. n \in CutsOf(l) \/ \E j \in 0..Len(recs) : n = N + j
  <2>1. CASE Fsync
    <3>1. n \in m.synced..N + Len(recs)
      BY <1>3, <2>1 DEF CutsOf
    <3>2. CASE n <= N
      BY <1>1, <1>3, <2>1, <3>1, <3>2 DEF CutsOf
    <3>3. CASE ~(n <= N)
      <4>1. n - N \in 0..Len(recs) /\ n = N + (n - N)
        BY <1>1, <1>3, <3>1, <3>3
      <4> QED
        BY <4>1
    <3> QED
      BY <3>2, <3>3
  <2>2. CASE ~Fsync
    BY <1>3, <2>2 DEF CutsOf
  <2> QED
    BY <2>1, <2>2
<1>6. CASE n \in CutsOf(l)
  <2>1. n \in past.kept..N
    BY <1>1, <1>6
  <2>2. BearsOut(HistoryOf(l, n), ReadingOf(l.recs, n).jobs, replies)
    BY <1>6 DEF KeptIn
  <2> QED
    BY <1>3, <2>1, <2>2
<1>7. ASSUME NEW j \in 0..Len(recs), n = N + j
      PROVE  BearsOut(HistoryOf(m, n), ReadingOf(m.recs, n).jobs, replies)
  <2> HIDE DEF h, read
  <2>1. BearsOut(h \o SubSeq(recs, 1, j), After(read, recs, j).jobs, replies)
    BY <1>1, <1>2, <1>4, BatchBearsOut DEF read
  <2> QED
    BY <1>3, <1>7, <2>1
<1> QED
  BY <1>5, <1>6, <1>7

LEMMA KeptNow == RepliesKept <=> KeptIn(log, told)
  BY DEF RepliesKept, KeptIn, Cuts, CutsOf, HistoryTo, HistoryOf, Reading, ReadingOf

\* The retired records stay, the log becomes l and these replies were given.
LEMMA KeptNext ==
  ASSUME NEW l, NEW replies, KeptIn(l, replies), log' = l, past' = past, told' = replies
  PROVE  RepliesKept'
<1>1. Cuts' = CutsOf(l)
  BY DEF Cuts, CutsOf
<1>2. ASSUME NEW n \in CutsOf(l)
      PROVE  BearsOut(HistoryTo(n)', (Reading(n)').jobs, replies)
  <2>1. HistoryTo(n)' = HistoryOf(l, n) /\ Reading(n)' = ReadingOf(l.recs, n)
    BY DEF HistoryTo, HistoryOf, Reading, ReadingOf
  <2> QED
    BY <2>1 DEF KeptIn
<1> QED
  BY <1>1, <1>2 DEF RepliesKept

LEMMA RepairedKept ==
  ASSUME IInv, RepliesKept PROVE KeptIn(Repaired(log), told)
<1> DEFINE l == Repaired(log)
<1>1. KeptIn(log, told)
  BY KeptNow
<1>2. l.recs = log.recs
  BY RepairedFacts
<1>3. CutsOf(l) \subseteq CutsOf(log)
  <2>1. CASE log.torn
    <3>1. l.synced = Len(log.recs)
      <4>1. log \in Logs(0..MaxGen)
        BY Parts
      <4> QED
        BY <2>1, <4>1 DEF Repaired, Logs
    <3>2. log.synced \in Nat /\ Len(log.recs) \in CutsOf(log) /\ Len(log.recs) \in Nat
      BY FollowsItself, WholeCut
    <3>3. CutsOf(l) \subseteq {Len(log.recs)}
      BY <1>2, <3>1, <3>2 DEF CutsOf
    <3> QED
      BY <3>2, <3>3
  <2>2. CASE ~log.torn
    BY <2>2 DEF Repaired
  <2> QED
    BY <2>1, <2>2
<1> HIDE DEF l
<1>4. ASSUME NEW n \in CutsOf(l)
      PROVE  BearsOut(HistoryOf(l, n), ReadingOf(l.recs, n).jobs, told)
  <2>1. HistoryOf(l, n) = HistoryOf(log, n)
    BY <1>2 DEF HistoryOf
  <2> QED
    BY <1>1, <1>2, <1>3, <2>1 DEF KeptIn
<1> QED
  BY <1>4 DEF KeptIn, l

-----------------------------------------------------------------------------
(***************************************************************************)
(* What a session writes, and what it answers.                             *)
(***************************************************************************)
Borne(h, jobs, r) ==
  /\ r.how = "created" => Known(h, jobs, r.id)
  /\ r.how = "acked" => Finished(h, jobs, r.id)
  /\ r.how = "acked" /\ r.token # None => CompletedBy(h, r.id, r.token)

\* An answer that promises something comes with a record that bears it out.
Earned(s, recs, r) ==
  r.how \in {"created", "acked"} =>
    /\ recs # <<>>
    /\ Borne(HistoryOf(s.log, Len(s.log.recs)) \o recs, Replay(Whole(s.log), recs).jobs, r)

LEMMA CommittedKept ==
  ASSUME IInv, NEW s, Session(s), NEW old, KeptIn(s.log, old),
         NEW recs \in Seq(Record), Rightful(Whole(s.log).jobs, recs)
  PROVE  KeptIn(Committed(s, recs).log, old)
<1> DEFINE l == s.log  m == Appended(l, recs)
<1>1. Follows(l) /\ l \in Logs({log.gen}) /\ l.synced <= Len(l.recs)
  BY DEF Session, Follows
<1>2. Committed(s, recs).log = m /\ KeptIn(l, old) /\ Rightful(Whole(l).jobs, recs)
  BY DEF Committed
<1> HIDE DEF l
<1>3. m \in Logs({log.gen}) /\ m.recs = l.recs \o recs /\ l.synced <= m.synced
  BY <1>1, AppendedFacts
<1> HIDE DEF m
<1>4. KeptIn(m, old)
  BY <1>1, <1>2, <1>3, AppendKept
<1> QED
  BY <1>2, <1>4

LEMMA AnswersKept ==
  ASSUME IInv, NEW s, Session(s), NEW old, KeptIn(s.log, old),
         NEW recs \in Seq(Record), Fits(Whole(s.log), recs), Rightful(Whole(s.log).jobs, recs),
         NEW new, \A r \in new : Earned(s, recs, r)
  PROVE  KeptIn(Committed(s, recs).log, old \cup new)
<1> DEFINE l == s.log  m == Committed(s, recs).log  N == Len(l.recs)
<1>1. /\ Follows(l) /\ l \in Logs({log.gen}) /\ l.synced <= Len(l.recs) /\ l.recs \in Seq(Record)
      /\ Session(Committed(s, recs))
  BY CommittedFacts DEF Session, Follows, Logs
<1>2. /\ m \in Logs({log.gen}) /\ m.recs = l.recs \o recs
      /\ m.synced = IF Fsync /\ recs # <<>> THEN N + Len(recs) ELSE l.synced
  <2>1. m = Appended(l, recs)
    BY DEF Committed
  <2>2. m \in Logs({log.gen}) /\ m.recs = l.recs \o recs
    BY <1>1, <2>1, AppendedFacts
  <2>3. [l EXCEPT !.recs = @ \o recs, !.synced = IF Fsync /\ recs # <<>> THEN N + Len(recs) ELSE @].synced
          = IF Fsync /\ recs # <<>> THEN N + Len(recs) ELSE l.synced
    BY <1>1 DEF Logs
  <2> QED
    BY <2>1, <2>2, <2>3 DEF Appended
<1>3. Follows(m)
  BY <1>1 DEF Session
<1>4. KeptIn(m, old)
  BY CommittedKept
<1>5. ASSUME NEW n \in CutsOf(m), NEW r \in new
      PROVE  Borne(HistoryOf(m, n), ReadingOf(m.recs, n).jobs, r)
  <2>1. CASE r.how \in {"created", "acked"}
    <3>1. /\ recs # <<>>
          /\ Borne(HistoryOf(l, N) \o recs, Replay(Whole(l), recs).jobs, r)
      BY <2>1 DEF Earned
    <3>2. Len(m.recs) = N + Len(recs) /\ Len(recs) \in Nat /\ N \in Nat
      BY <1>1, <1>2, ConcatProperties, LenProperties
    <3>3. n = N + Len(recs)
      BY <1>2, <3>1, <3>2 DEF CutsOf
    <3>4. SubSeq(recs, 1, Len(recs)) = recs /\ Len(recs) \in 0..Len(recs)
      BY <3>2, PrefixFacts
    <3> DEFINE base == l.recs  e == past.events  mid == SubSeq(base, past.kept + 1, N)
    <3>5. base \in Seq(Record) /\ e \in Seq(Record) /\ past.kept \in 0..Len(base) /\ N = Len(base)
      BY <1>1, WholeCut
    <3>6. m.recs = base \o recs
      BY <1>2
    <3> HIDE DEF base, l, m, N
    <3>7. mid \in Seq(Record)
      <4>1. N \in 0..Len(base) /\ past.kept \in 0..N
        BY <3>2, <3>5
      <4> QED
        BY <3>5, <4>1, MiddleFacts
    <3>8. SubSeq(m.recs, past.kept + 1, n) = mid \o recs
      <4>1. SubSeq(base \o recs, past.kept + 1, Len(base) + Len(recs))
              = SubSeq(base, past.kept + 1, Len(base)) \o SubSeq(recs, 1, Len(recs))
        <5> DEFINE k == past.kept  j == Len(recs)
        <5>1. base \in Seq(Record) /\ k \in 0..Len(base) /\ j \in 0..Len(recs)
          BY <3>4, <3>5
        <5> HIDE DEF k, j
        <5>2. SubSeq(base \o recs, k + 1, Len(base) + j)
                = SubSeq(base, k + 1, Len(base)) \o SubSeq(recs, 1, j)
          BY <5>1, MiddleMore
        <5> QED
          BY <5>2 DEF k, j
      <4> QED
        BY <3>3, <3>4, <3>5, <3>6, <4>1
    <3> HIDE DEF mid, e
    <3>9. (e \o mid) \o recs = e \o (mid \o recs)
      <4>1. e \in Seq(Record)
        BY <3>5
      <4> QED
        BY <3>7, <4>1, ConcatAssociative
    <3>10. HistoryOf(m, n) = HistoryOf(l, N) \o recs
      BY <3>8, <3>9 DEF HistoryOf, e, mid, base
    <3>11. SubSeq(m.recs, 1, n) = base \o recs
      BY <3>3, <3>4, <3>5, <3>6, ConcatPrefix
    <3>12. Replay(EmptyIndex, base \o recs) = Replay(Replay(EmptyIndex, base), recs)
      BY <3>5, ReplayConcat
    <3>13. ReadingOf(m.recs, n) = Replay(Whole(l), recs)
      BY <3>11, <3>12 DEF ReadingOf, Whole, base
    <3> QED
      BY <3>1, <3>10, <3>13
  <2>2. CASE r.how \notin {"created", "acked"}
    BY <2>2 DEF Borne
  <2> QED
    BY <2>1, <2>2
<1> HIDE DEF m
<1>6. KeptIn(m, old \cup new)
  BY <1>4, <1>5 DEF KeptIn, BearsOut, Borne
<1> QED
  BY <1>6 DEF m

LEMMA ReturnsKept ==
  ASSUME IInv, NEW p, NEW s, Session(s), KeptIn(s.log, told),
         NEW recs \in Seq(Record), Fits(Whole(s.log), recs), Rightful(Whole(s.log).jobs, recs),
         NEW replies, \A r \in replies : Earned(s, recs, r),
         Returns(p, Committed(s, recs), replies), past' = past
  PROVE  RepliesKept'
<1> DEFINE new == {r \in replies : r.how \in Watched}
<1>1. \A r \in new : Earned(s, recs, r)
  OBVIOUS
<1>2. log' = Committed(s, recs).log /\ told' = told \cup new
  BY DEF Returns
<1> HIDE DEF new
<1>3. KeptIn(Committed(s, recs).log, told \cup new)
  BY <1>1, AnswersKept
<1> QED
  BY <1>2, <1>3, KeptNext

LEMMA InterruptedKept ==
  ASSUME IInv, NEW p, NEW s, Session(s), KeptIn(s.log, told),
         NEW recs \in Seq(Record), Rightful(Whole(s.log).jobs, recs),
         Interrupted(p, s, recs), past' = past
  PROVE  RepliesKept'
<1>1. PICK k \in 0..Len(recs), torn \in BOOLEAN :
        log' = [s.log EXCEPT !.recs = @ \o SubSeq(recs, 1, k), !.torn = torn]
  BY DEF Interrupted
<1> DEFINE l == s.log  part == SubSeq(recs, 1, k)  all == l.recs \o part
           m == [[l EXCEPT !.recs = all] EXCEPT !.torn = torn]
<1>2. told' = told /\ log' = m
  BY <1>1 DEF Interrupted, Breaks
<1>3. l \in Logs({log.gen}) /\ Follows(l) /\ KeptIn(l, told)
  BY DEF Session
<1>4. part \in Seq(Record) /\ Rightful(Whole(l).jobs, part)
  BY PrefixFacts, RightfulPart
<1> HIDE DEF part, l
<1>5. all \in Seq(Record) /\ l.synced \in Nat
  BY <1>3, <1>4, ConcatProperties DEF Logs
<1>6. m \in Logs({log.gen}) /\ m.recs = all /\ m.synced = l.synced
  <2> HIDE DEF all
  <2> QED
    BY <1>1, <1>3, <1>5 DEF Logs
<1> HIDE DEF m
<1>7. l.synced <= m.synced
  BY <1>5, <1>6
<1>8. KeptIn(m, told)
  BY <1>3, <1>4, <1>6, <1>7, AppendKept
<1> QED
  BY <1>2, <1>8, KeptNext

LEMMA CommitKept ==
  ASSUME IInv, NEW p, NEW s, Session(s), KeptIn(s.log, told),
         NEW recs \in Seq(Record), Fits(Whole(s.log), recs), Rightful(Whole(s.log).jobs, recs),
         NEW replies, \A r \in replies : Earned(s, recs, r),
         Commit(p, s, recs, replies), past' = past
  PROVE  RepliesKept'
<1>1. Returns(p, Committed(s, recs), replies) \/ Interrupted(p, s, recs)
  BY DEF Commit
<1> QED
  BY <1>1, ReturnsKept, InterruptedKept

\* What a session knows of a job is what the log says of it.
LEMMA SessionJobs ==
  ASSUME NEW s, Session(s)
  PROVE  LET read == Whole(s.log) IN
         /\ DOMAIN read.jobs = DOMAIN s.idx.jobs /\ read \in Indexes
         /\ \A id \in DOMAIN s.idx.jobs : /\ read.jobs[id].state = s.idx.jobs[id].state
                                          /\ read.jobs[id].lease_token = s.idx.jobs[id].lease_token
                                          /\ read.jobs[id].attempts = s.idx.jobs[id].attempts
                                          /\ read.jobs[id].max_attempts = s.idx.jobs[id].max_attempts
<1> DEFINE read == Whole(s.log)  idx == s.idx
<1>1. read \in Indexes /\ idx \in Indexes /\ Mirrors(idx, read)
  BY WholeFacts DEF Session
<1> HIDE DEF read, idx
<1>2. DOMAIN read.jobs = DOMAIN idx.jobs
  BY <1>1 DEF Mirrors
<1>3. ASSUME NEW id \in DOMAIN idx.jobs
      PROVE  /\ read.jobs[id].state = idx.jobs[id].state
             /\ read.jobs[id].lease_token = idx.jobs[id].lease_token
             /\ read.jobs[id].attempts = idx.jobs[id].attempts
             /\ read.jobs[id].max_attempts = idx.jobs[id].max_attempts
  <2>1. idx.jobs[id] \in JobFields /\ read.jobs[id] \in JobFields
    BY <1>1, <1>2, JobsType DEF Job, JobFields
  <2>2. Unversioned(idx.jobs[id]) = Unversioned(read.jobs[id])
    BY <1>1, <1>2 DEF Mirrors
  <2>3. SameJob(idx.jobs[id], read.jobs[id])
    BY <2>1, <2>2, UnversionedIs
  <2> QED
    BY <2>3 DEF SameJob
<1> QED
  BY <1>1, <1>2, <1>3 DEF read, idx

\* Records about jobs the session knows, none of them done, and an ACK only on its own.
LEMMA NamedRightful ==
  ASSUME NEW s, Session(s), NEW recs, Len(recs) \in Nat,
         \A k \in 1..Len(recs) : /\ NamesJob(recs[k]) /\ recs[k].id \in DOMAIN s.idx.jobs
                                 /\ s.idx.jobs[recs[k].id].state # "DONE",
         Len(recs) <= 1 \/ \A k \in 1..Len(recs) : recs[k].type # "ACK"
  PROVE  Rightful(Whole(s.log).jobs, recs)
<1> DEFINE jobs == Whole(s.log).jobs
<1>1. DOMAIN jobs = DOMAIN s.idx.jobs /\ \A id \in DOMAIN s.idx.jobs : jobs[id].state = s.idx.jobs[id].state
  BY SessionJobs
<1> HIDE DEF jobs
<1>2. \A k \in 1..Len(recs) : /\ NamesJob(recs[k]) /\ recs[k].id \in DOMAIN jobs
                              /\ jobs[recs[k].id].state # "DONE"
  BY <1>1
<1>3. Rightful(jobs, recs)
  BY <1>2 DEF Rightful
<1> QED
  BY <1>3 DEF jobs

LEMMA ReapRightful ==
  ASSUME IInv, NEW p \in Proc, proc[p].up, NEW batch \in ReapBatches(CaughtUp(p).idx)
  PROVE  Rightful(Whole(Popped(p).log).jobs, batch)
<1> DEFINE idx == CaughtUp(p).idx
<1>0. PICK ids \in ExpiredLeases(idx, now) : \E delay \in [DOMAIN ids -> 0..MaxDelay] :
        batch = [i \in DOMAIN ids |-> ReapRecord(idx, ids[i], delay[i])]
  BY DEF ReapBatches
<1>1. PICK delay \in [DOMAIN ids -> 0..MaxDelay] :
        batch = [i \in DOMAIN ids |-> ReapRecord(idx, ids[i], delay[i])]
  BY <1>0
<1>2. idx \in Indexes /\ CaughtUp(p) \in [log : Logs({log.gen}), idx : Indexes]
  BY CaughtUpFacts DEF Session
<1>3. Session(Popped(p)) /\ batch \in Seq(Record)
  BY ReapFacts
<1>4. Popped(p).idx.jobs = idx.jobs
  <2>1. Popped(p).idx = WithoutLapsed(idx, now)
    BY <1>2 DEF Popped
  <2> QED
    BY <1>2, <2>1, WithoutLapsedFacts DEF SameJobs
<1> HIDE DEF idx
<1>5. ids \in Seq(LeasedIds(idx))
  BY <1>1, <1>2, ExpiredFacts
<1>6. Len(ids) \in Nat /\ DOMAIN ids = 1..Len(ids) /\ \A i \in 1..Len(ids) : ids[i] \in LeasedIds(idx)
  BY <1>5
<1>7. DOMAIN batch = 1..Len(ids) /\ DOMAIN batch = 1..Len(batch) /\ Len(batch) \in Nat
  <2>1. DOMAIN batch = DOMAIN ids
    BY <1>1
  <2> QED
    BY <1>3, <1>6, <2>1, LenProperties
<1>8. \A i \in 1..Len(batch) : batch[i] = ReapRecord(idx, ids[i], delay[i]) /\ i \in 1..Len(ids)
  BY <1>1, <1>6, <1>7
<1>9. ASSUME NEW id, NEW wait
      PROVE  LET rec == ReapRecord(idx, id, wait) IN
             NamesJob(rec) /\ rec.type # "ACK" /\ rec.id = id
  BY DEF ReapRecord, NamesJob
<1>10. \A i \in 1..Len(batch) : /\ NamesJob(batch[i]) /\ batch[i].type # "ACK"
                                /\ batch[i].id \in LeasedIds(idx)
  BY <1>6, <1>8, <1>9
<1>11. \A i \in 1..Len(batch) : /\ NamesJob(batch[i]) /\ batch[i].id \in DOMAIN Popped(p).idx.jobs
                                /\ Popped(p).idx.jobs[batch[i].id].state # "DONE"
  BY <1>4, <1>10 DEF LeasedIds
<1> QED
  BY <1>3, <1>7, <1>10, <1>11, NamedRightful

\* The prologue of an operation keeps what was told.
LEMMA BegunKept ==
  ASSUME IInv, RepliesKept, NEW p \in Proc, proc[p].up, NEW batch \in ReapBatches(CaughtUp(p).idx)
  PROVE  KeptIn(Popped(p).log, told) /\ KeptIn(Begun(p, batch).log, told)
<1>1. Popped(p).log = Repaired(log)
  <2>1. Popped(p).log = CaughtUp(p).log
    BY PoppedFacts
  <2> QED
    BY <2>1 DEF CaughtUp
<1>2. KeptIn(Popped(p).log, told)
  BY <1>1, RepairedKept
<1>3. Session(Popped(p)) /\ batch \in Seq(Record) /\ Rightful(Whole(Popped(p).log).jobs, batch)
  BY ReapFacts, ReapRightful
<1>4. KeptIn(Committed(Popped(p), batch).log, told)
  BY <1>2, <1>3, CommittedKept
<1> QED
  BY <1>2, <1>4 DEF Begun

LEMMA ReapBreaksKept ==
  ASSUME IInv, RepliesKept, NEW p \in Proc, proc[p].up, NEW batch \in ReapBatches(CaughtUp(p).idx),
         Interrupted(p, Popped(p), batch), past' = past
  PROVE  RepliesKept'
  BY BegunKept, ReapFacts, ReapRightful, InterruptedKept

\* An operation that writes nothing and promises nothing.
LEMMA PlainKept ==
  ASSUME NEW p, NEW s, KeptIn(s.log, told), NEW replies,
         \A r \in replies : r.how \notin {"created", "acked"},
         Returns(p, s, replies), past' = past
  PROVE  RepliesKept'
<1> DEFINE l == s.log  new == {r \in replies : r.how \in Watched}
<1>1. KeptIn(l, told) /\ log' = l /\ told' = told \cup new
  BY DEF Returns
<1>2. \A r \in new : r.how \notin {"created", "acked"}
  OBVIOUS
<1> HIDE DEF l, new
<1>3. KeptIn(l, told \cup new)
  BY <1>1, <1>2 DEF KeptIn, BearsOut
<1> QED
  BY <1>1, <1>3, KeptNext

\* One record about a job the session knows and that is not done.
LEMMA OneKept ==
  ASSUME IInv, NEW p, NEW s, Session(s), KeptIn(s.log, told), NEW rec \in Record, NamesJob(rec),
         rec.id \in DOMAIN s.idx.jobs, s.idx.jobs[rec.id].state # "DONE",
         NEW replies, \A r \in replies : Earned(s, <<rec>>, r),
         Commit(p, s, <<rec>>, replies), past' = past
  PROVE  RepliesKept'
<1> DEFINE recs == <<rec>>
<1>1. /\ recs \in Seq(Record) /\ Len(recs) = 1 /\ recs[1] = rec
      /\ Len(recs) \in Nat /\ Len(recs) <= 1
  OBVIOUS
<1>2. Commit(p, s, recs, replies) /\ \A r \in replies : Earned(s, recs, r)
  OBVIOUS
<1> HIDE DEF recs
<1>3. \A k \in 1..Len(recs) : /\ NamesJob(recs[k]) /\ recs[k].id \in DOMAIN s.idx.jobs
                              /\ s.idx.jobs[recs[k].id].state # "DONE"
  BY <1>1
<1>4. Fits(Whole(s.log), recs)
  BY <1>3, NamedBatch
<1>5. Rightful(Whole(s.log).jobs, recs)
  <2>1. Len(recs) \in Nat /\ (Len(recs) <= 1 \/ \A k \in 1..Len(recs) : recs[k].type # "ACK")
    BY <1>1
  <2> QED
    BY <1>3, <2>1, NamedRightful
<1> QED
  BY <1>1, <1>2, <1>4, <1>5, CommitKept

LEMMA ReadKept ==
  ASSUME IInv, RepliesKept, NEW p \in Proc, Read(p) PROVE RepliesKept'
<1>1. proc[p].up
  BY DEF Read, Transaction
<1>2. PICK batch \in ReapBatches(CaughtUp(p).idx) :
        /\ Returns(p, Begun(p, batch), {}) \/ Interrupted(p, Popped(p), batch)
        /\ past' = past
  BY DEF Read, Transaction, Popped, Begun
<1>3. CASE Returns(p, Begun(p, batch), {})
  BY <1>1, <1>2, <1>3, BegunKept, PlainKept
<1>4. CASE Interrupted(p, Popped(p), batch)
  BY <1>1, <1>2, <1>4, ReapBreaksKept
<1> QED
  BY <1>2, <1>3, <1>4

LEMMA PurgeKept ==
  ASSUME IInv, RepliesKept, NEW p \in Proc, Purge(p) PROVE RepliesKept'
<1> DEFINE rec == [type |-> "PURGE", at |-> now]  recs == <<rec>>
<1>1. proc[p].up
  BY DEF Purge, Transaction
<1>2. PICK batch \in ReapBatches(CaughtUp(p).idx) :
        /\ Commit(p, Begun(p, batch), recs, {}) \/ Interrupted(p, Popped(p), batch)
        /\ past' = past
  BY DEF Purge, Transaction, Popped, Begun
<1>3. rec \in Record /\ rec.type = "PURGE"
  BY NowType DEF Record
<1> HIDE DEF rec
<1>4. recs \in Seq(Record) /\ \A k \in 1..Len(recs) : recs[k].type = "PURGE"
  BY <1>3
<1> HIDE DEF recs
<1>5. CASE Commit(p, Begun(p, batch), recs, {})
  <2> DEFINE s == Begun(p, batch)
  <2>1. Session(s) /\ KeptIn(s.log, told) /\ Commit(p, s, recs, {})
    BY <1>1, <1>5, BegunFacts, BegunKept
  <2> HIDE DEF s
  <2>2. Fits(Whole(s.log), recs) /\ Rightful(Whole(s.log).jobs, recs)
    BY <1>4 DEF Fits, Rightful
  <2> QED
    BY <1>2, <1>4, <2>1, <2>2, CommitKept
<1>6. CASE Interrupted(p, Popped(p), batch)
  BY <1>1, <1>2, <1>6, ReapBreaksKept
<1> QED
  BY <1>2, <1>5, <1>6

\* The record an ack writes is the completion it promises, under the token it names.
LEMMA AckEarned ==
  ASSUME IInv, NEW s, Session(s), KeptIn(s.log, told), NEW id \in DOMAIN s.idx.jobs, NEW token,
         HoldsLease(s.idx, id, token), NEW rec \in Record, rec.type = "ACK", rec.id = id,
         NEW r, r = [how |-> "acked", id |-> id, token |-> token]
  PROVE  Earned(s, <<rec>>, r)
<1> DEFINE l == s.log  N == Len(l.recs)  h == HistoryOf(l, N)  read == Whole(l)
           recs == <<rec>>  g == h \o recs  new == Apply(read, rec).jobs
           others(f) == At(f, RecordTypes \ {"EXTEND"}, id)
<1>1. /\ h \in Seq(Record) /\ N \in CutsOf(l) /\ read \in Indexes /\ read = ReadingOf(l.recs, N)
  BY WholeCut, WholeFacts DEF Session
<1>2. LeasesRecorded(h, read.jobs)
  BY <1>1 DEF KeptIn, BearsOut
<1>3. /\ id \in DOMAIN read.jobs /\ read.jobs[id].state = "LEASED"
      /\ token # None => token = read.jobs[id].lease_token
  BY SessionJobs DEF HoldsLease
<1>4. /\ recs \in Seq(Record) /\ Len(recs) = 1 /\ recs # <<>> /\ recs[1] = rec
      /\ SubSeq(recs, 1, 1) = recs /\ SubSeq(recs, 1, 0) = <<>>
  <2>1. recs \in Seq(Record) /\ Len(recs) = 1 /\ recs # <<>> /\ recs[1] = rec
    OBVIOUS
  <2> HIDE DEF recs
  <2>2. SubSeq(recs, 1, Len(recs)) = recs /\ SubSeq(recs, 1, 0) = <<>>
    BY <2>1, PrefixFacts
  <2> QED
    BY <2>1, <2>2
<1> HIDE DEF l, N, h, read, recs
<1>5. Extends(g, h, rec)
  <2>1. 0 \in 0..Len(recs) - 1 /\ 0 + 1 = 1
    BY <1>4
  <2>2. Extends(h \o SubSeq(recs, 1, 0 + 1), h \o SubSeq(recs, 1, 0), recs[0 + 1])
    BY <1>1, <1>4, <2>1, ConcatExtends
  <2>3. h \o <<>> = h
    BY <1>1, ConcatEmptySeq
  <2> QED
    BY <1>4, <2>1, <2>2, <2>3
<1>6. Replay(read, recs) = Apply(read, rec)
  <2>1. /\ After(read, recs, 0) = read /\ After(read, recs, Len(recs)) = Replay(read, recs)
        /\ \A n \in 0..Len(recs) - 1 : After(read, recs, n + 1) = Apply(After(read, recs, n), recs[n + 1])
    BY <1>1, <1>4, AfterFacts
  <2>2. 0 \in 0..Len(recs) - 1 /\ 0 + 1 = 1
    BY <1>4
  <2> QED
    BY <1>4, <2>1, <2>2
<1>7. id \in DOMAIN new => new[id].state = "DONE"
  <2>1. NamesJob(rec)
    BY DEF NamesJob
  <2>2. Legal(read.jobs, rec)
    BY <1>3, <2>1 DEF Legal
  <2>3. new = Apply(read, rec).jobs
    OBVIOUS
  <2> HIDE DEF new
  <2>4. rec.type # "PURGE" /\ rec.id = id /\ rec.type = "ACK"
    OBVIOUS
  <2>5. new[id].state = "DONE"
    BY <1>1, <2>2, <2>3, <2>4, JobAfter
  <2> QED
    BY <2>5
<1>8. About(rec, {"ACK"}, id)
  BY DEF About, Is
<1>9. Len(h) + 1 \in At(g, {"ACK"}, id) /\ Len(h) \in Nat
  BY <1>5, <1>8, AtMore
<1> HIDE DEF g, new
<1>10. Finished(g, new, id)
  <2>1. \A k \in At(g, {"LEASE"}, id) : ~(Len(h) + 1 < k)
    BY <1>5, <1>9, AtMore
  <2> QED
    BY <1>7, <1>9, <2>1 DEF Finished
<1>11. ASSUME token # None PROVE CompletedBy(g, id, token)
  <2>1. PICK i \in At(h, {"LEASE"}, id) : h[i].token = token /\ \A k \in others(h) : k <= i
    BY <1>2, <1>3, <1>11 DEF LeasesRecorded
  <2>2. i \in At(g, {"LEASE"}, id) /\ i \in 1..Len(h)
    BY <1>5, <2>1, AtMore
  <2>3. g[i] = h[i] /\ i < Len(h) + 1
    BY <1>5, <1>9, <2>2 DEF Extends
  <2>4. \A j \in others(g) : j = Len(h) + 1 \/ j \in others(h)
    BY <1>5, AtMore
  <2>5. ~Between(i, Len(h) + 1, others(g))
    <3> SUFFICES ASSUME NEW j \in others(g), i < j, j < Len(h) + 1 PROVE FALSE
      BY DEF Between
    <3>1. j # Len(h) + 1
      BY <1>9
    <3>2. others(h) \subseteq 1..Len(h)
      BY <1>5, AtMore
    <3> HIDE DEF others
    <3>3. j \in others(h) /\ j <= i
      BY <2>1, <2>4, <3>1
    <3>4. j \in 1..Len(h)
      BY <3>2, <3>3
    <3> QED
      BY <1>9, <2>2, <3>3, <3>4
  <2> QED
    BY <1>9, <2>1, <2>2, <2>3, <2>5 DEF CompletedBy
<1>12. Borne(g, new, r)
  BY <1>10, <1>11 DEF Borne
<1> QED
  BY <1>4, <1>6, <1>12 DEF Earned, l, N, h, read, recs, g, new

LEMMA AckKept ==
  ASSUME IInv, RepliesKept, NEW p \in Proc, NEW id \in JobId, NEW token, Ack(p, id, token)
  PROVE  RepliesKept'
<1> DEFINE rec == [type |-> "ACK", id |-> id, at |-> now]
           acked == [how |-> "acked", id |-> id, token |-> token]
<1>1. proc[p].up
  BY DEF Ack, Transaction
<1>2. PICK batch \in ReapBatches(CaughtUp(p).idx) :
        LET s == Begun(p, batch) IN
        /\ \/ \E how \in {"already"} : Returns(p, s, Told(how, id, token))
           \/ Returns(p, s, {})
           \/ /\ id \in DOMAIN s.idx.jobs /\ HoldsLease(s.idx, id, token)
              /\ Commit(p, s, <<rec>>, Told("acked", id, token))
           \/ Interrupted(p, Popped(p), batch)
        /\ past' = past
  BY DEF Ack, Transaction, Popped, Begun
<1> DEFINE s == Begun(p, batch)
<1>3. Session(s) /\ KeptIn(s.log, told)
  BY <1>1, BegunFacts, BegunKept
<1>4. rec \in Record /\ NamesJob(rec) /\ rec.id = id /\ rec.type = "ACK"
  BY NowType DEF Record, NamesJob
<1> HIDE DEF s, rec
<1>5. CASE \E how \in {"already"} : Returns(p, s, Told(how, id, token))
  <2>1. \A r \in Told("already", id, token) : r.how \notin {"created", "acked"}
    BY DEF Told
  <2> QED
    BY <1>2, <1>3, <1>5, <2>1, PlainKept
<1>6. CASE Returns(p, s, {})
  BY <1>2, <1>3, <1>6, PlainKept
<1>7. CASE /\ id \in DOMAIN s.idx.jobs /\ HoldsLease(s.idx, id, token)
           /\ Commit(p, s, <<rec>>, Told("acked", id, token))
  <2>1. \A r \in Told("acked", id, token) : r = acked
    BY DEF Told
  <2> HIDE DEF acked
  <2>2. Earned(s, <<rec>>, acked)
    BY <1>3, <1>4, <1>7, AckEarned DEF acked
  <2>3. s.idx.jobs[id].state # "DONE"
    BY <1>7 DEF HoldsLease
  <2> QED
    BY <1>2, <1>3, <1>4, <1>7, <2>1, <2>2, <2>3, OneKept
<1>8. CASE Interrupted(p, Popped(p), batch)
  BY <1>1, <1>2, <1>8, ReapBreaksKept
<1> QED
  BY <1>2, <1>5, <1>6, <1>7, <1>8 DEF s

LEMMA NackKept ==
  ASSUME IInv, RepliesKept, NEW p \in Proc, NEW id \in JobId, NEW token, Nack(p, id, token)
  PROVE  RepliesKept'
<1> DEFINE dead == [type |-> "DEAD", id |-> id, at |-> now, error |-> "reported"]
           nack(n, wait) == [type |-> "NACK", id |-> id, at |-> now, attempts |-> n,
                             available_at |-> now + wait]
<1>1. proc[p].up
  BY DEF Nack, WithLease, Transaction
<1>2. PICK batch \in ReapBatches(CaughtUp(p).idx) :
        LET s == Begun(p, batch)  n == s.idx.jobs[id].attempts IN
        /\ \/ Returns(p, s, {})
           \/ /\ id \in DOMAIN s.idx.jobs /\ HoldsLease(s.idx, id, token)
              /\ \/ Commit(p, s, <<dead>>, {})
                 \/ \E wait \in DelaysFor(n) \cup NackDelays : Commit(p, s, <<nack(n, wait)>>, {})
           \/ Interrupted(p, Popped(p), batch)
        /\ past' = past
  BY DEF Nack, WithLease, Transaction, Popped, Begun
<1> DEFINE s == Begun(p, batch)  n == s.idx.jobs[id].attempts
<1>3. Session(s) /\ s.idx \in Indexes /\ KeptIn(s.log, told)
  BY <1>1, BegunFacts, BegunKept
<1>4. CASE Returns(p, s, {})
  BY <1>1, <1>2, <1>3, <1>4, PlainKept
<1>5. dead \in Record /\ NamesJob(dead) /\ dead.id = id
  BY NowType DEF Record, NamesJob
<1>6. ASSUME NEW m \in Nat, NEW wait \in Nat
      PROVE  nack(m, wait) \in Record /\ NamesJob(nack(m, wait)) /\ nack(m, wait).id = id
  BY NowType DEF Record, NamesJob
<1> HIDE DEF s, dead, nack
<1>7. CASE /\ id \in DOMAIN s.idx.jobs /\ HoldsLease(s.idx, id, token)
           /\ \/ Commit(p, s, <<dead>>, {})
              \/ \E wait \in DelaysFor(n) \cup NackDelays : Commit(p, s, <<nack(n, wait)>>, {})
  <2>1. s.idx.jobs[id].state # "DONE"
    BY <1>7 DEF HoldsLease
  <2>2. CASE Commit(p, s, <<dead>>, {})
    BY <1>2, <1>3, <1>5, <1>7, <2>1, <2>2, OneKept
  <2>3. CASE \E wait \in DelaysFor(n) \cup NackDelays : Commit(p, s, <<nack(n, wait)>>, {})
    <3>1. PICK wait \in DelaysFor(n) \cup NackDelays : Commit(p, s, <<nack(n, wait)>>, {})
      BY <2>3
    <3>2. wait \in Nat
      BY <3>1, DelaysType, InputAssumption
    <3>3. n \in Nat
      BY <1>3, <1>7, HeldFacts
    <3> DEFINE rec == nack(n, wait)
    <3>4. rec \in Record /\ NamesJob(rec) /\ rec.id = id
      BY <1>6, <3>2, <3>3
    <3> HIDE DEF rec
    <3>5. Commit(p, s, <<rec>>, {})
      BY <3>1 DEF rec
    <3> QED
      BY <1>2, <1>3, <1>7, <2>1, <3>4, <3>5, OneKept
  <2> QED
    BY <1>7, <2>2, <2>3
<1>8. CASE Interrupted(p, Popped(p), batch)
  BY <1>1, <1>2, <1>8, ReapBreaksKept
<1> QED
  BY <1>2, <1>4, <1>7, <1>8 DEF s

LEMMA ExtendKept ==
  ASSUME IInv, RepliesKept, NEW p \in Proc, NEW id \in JobId, NEW token,
         NEW seconds \in Extensions, Extend(p, id, token, seconds)
  PROVE  RepliesKept'
<1> DEFINE extend(d) == [type |-> "EXTEND", id |-> id, at |-> now,
                         deadline |-> Max({d, now}) + seconds]
<1>1. proc[p].up
  BY DEF Extend, WithLease, Transaction
<1>2. PICK batch \in ReapBatches(CaughtUp(p).idx) :
        LET s == Begun(p, batch) IN
        /\ \/ Returns(p, s, {})
           \/ /\ id \in DOMAIN s.idx.jobs /\ HoldsLease(s.idx, id, token)
              /\ Commit(p, s, <<extend(s.idx.jobs[id].lease_deadline)>>, {})
           \/ Interrupted(p, Popped(p), batch)
        /\ past' = past
  BY DEF Extend, WithLease, Transaction, Popped, Begun
<1> DEFINE s == Begun(p, batch)  rec == extend(s.idx.jobs[id].lease_deadline)
<1>3. Session(s) /\ s.idx \in Indexes /\ KeptIn(s.log, told)
  BY <1>1, BegunFacts, BegunKept
<1> HIDE DEF s
<1>4. CASE Returns(p, s, {})
  BY <1>2, <1>3, <1>4, PlainKept
<1>5. CASE /\ id \in DOMAIN s.idx.jobs /\ HoldsLease(s.idx, id, token)
           /\ Commit(p, s, <<rec>>, {})
  <2>1. s.idx.jobs[id].lease_deadline \in Nat /\ seconds \in Nat /\ now \in Nat
    BY <1>3, <1>5, HeldFacts, NowType, InputAssumption
  <2>2. Max({s.idx.jobs[id].lease_deadline, now}) + seconds \in Nat
    BY <2>1, MaxOfTwo
  <2>3. rec \in Record /\ NamesJob(rec) /\ rec.id = id
    BY <2>1, <2>2 DEF Record, NamesJob
  <2>4. s.idx.jobs[id].state # "DONE"
    BY <1>5 DEF HoldsLease
  <2> HIDE DEF rec
  <2> QED
    BY <1>2, <1>3, <1>5, <2>3, <2>4, OneKept
<1>6. CASE Interrupted(p, Popped(p), batch)
  BY <1>1, <1>2, <1>6, ReapBreaksKept
<1> QED
  BY <1>2, <1>4, <1>5, <1>6 DEF s

LEMMA RequeueKept ==
  ASSUME IInv, NEW p, NEW s, Session(s), KeptIn(s.log, told), NEW ids \in Seq(JobId),
         \A i \in 1..Len(ids) : ids[i] \in DOMAIN s.idx.jobs /\ s.idx.jobs[ids[i]].state = "DEAD",
         Commit(p, s, RequeueRecords(ids), {}), past' = past
  PROVE  RepliesKept'
<1> DEFINE recs == RequeueRecords(ids)
<1>1. Len(ids) \in Nat /\ DOMAIN ids = 1..Len(ids)
  OBVIOUS
<1>2. recs \in Seq(Record) /\ Fits(Whole(s.log), recs)
  BY RequeueBatch
<1>3. recs = [i \in DOMAIN ids |-> [type |-> "REQUEUE", id |-> ids[i], at |-> now,
                                    available_at |-> now]]
  BY DEF RequeueRecords
<1>4. Commit(p, s, recs, {})
  OBVIOUS
<1> HIDE DEF recs
<1>5. DOMAIN recs = 1..Len(ids) /\ DOMAIN recs = 1..Len(recs) /\ Len(recs) \in Nat
  BY <1>1, <1>2, <1>3, LenProperties
<1>6. \A i \in 1..Len(recs) : /\ recs[i].type = "REQUEUE" /\ recs[i].id = ids[i]
                              /\ i \in 1..Len(ids)
  BY <1>3, <1>5
<1>7. \A i \in 1..Len(recs) : /\ NamesJob(recs[i]) /\ recs[i].type # "ACK"
                              /\ recs[i].id \in DOMAIN s.idx.jobs
                              /\ s.idx.jobs[recs[i].id].state # "DONE"
  BY <1>6 DEF NamesJob
<1>8. Rightful(Whole(s.log).jobs, recs)
  BY <1>5, <1>7, NamedRightful
<1> QED
  BY <1>2, <1>4, <1>8, CommitKept

LEMMA RequeueOneKept ==
  ASSUME IInv, RepliesKept, NEW p \in Proc, NEW id \in JobId, RequeueOne(p, id)
  PROVE  RepliesKept'
<1>1. proc[p].up
  BY DEF RequeueOne, Transaction
<1>2. PICK batch \in ReapBatches(CaughtUp(p).idx) :
        LET s == Begun(p, batch)
            targets == IF id \in DOMAIN s.idx.jobs /\ s.idx.jobs[id].state = "DEAD"
                       THEN <<id>> ELSE <<>>
        IN
        /\ Commit(p, s, RequeueRecords(targets), {}) \/ Interrupted(p, Popped(p), batch)
        /\ past' = past
  BY DEF RequeueOne, Transaction, Popped, Begun
<1> DEFINE s == Begun(p, batch)
           targets == IF id \in DOMAIN s.idx.jobs /\ s.idx.jobs[id].state = "DEAD"
                      THEN <<id>> ELSE <<>>
<1>3. Session(s) /\ KeptIn(s.log, told)
  BY <1>1, BegunFacts, BegunKept
<1> HIDE DEF s
<1>4. /\ targets \in Seq(JobId)
      /\ \A i \in 1..Len(targets) :
           targets[i] \in DOMAIN s.idx.jobs /\ s.idx.jobs[targets[i]].state = "DEAD"
  <2>1. CASE id \in DOMAIN s.idx.jobs /\ s.idx.jobs[id].state = "DEAD"
    BY <2>1
  <2>2. CASE ~(id \in DOMAIN s.idx.jobs /\ s.idx.jobs[id].state = "DEAD")
    BY <2>2
  <2> QED
    BY <2>1, <2>2
<1>5. CASE Commit(p, s, RequeueRecords(targets), {})
  <2> HIDE DEF targets
  <2> QED
    BY <1>2, <1>3, <1>4, <1>5, RequeueKept
<1>6. CASE Interrupted(p, Popped(p), batch)
  BY <1>1, <1>2, <1>6, ReapBreaksKept
<1> QED
  BY <1>2, <1>5, <1>6 DEF s

LEMMA RequeueAllKept ==
  ASSUME IInv, RepliesKept, NEW p \in Proc, RequeueAll(p) PROVE RepliesKept'
<1> DEFINE deadIds(idx) == {id \in DOMAIN idx.jobs : idx.jobs[id].state = "DEAD"}
<1>1. proc[p].up
  BY DEF RequeueAll, Transaction
<1>2. PICK batch \in ReapBatches(CaughtUp(p).idx) :
        LET s == Begun(p, batch) IN
        /\ \/ \E ids \in BySeq(s.idx, deadIds(s.idx)) : Commit(p, s, RequeueRecords(ids), {})
           \/ Interrupted(p, Popped(p), batch)
        /\ past' = past
  BY DEF RequeueAll, Transaction, Popped, Begun
<1> DEFINE s == Begun(p, batch)
<1>3. Session(s) /\ s.idx \in Indexes /\ KeptIn(s.log, told)
  BY <1>1, BegunFacts, BegunKept
<1> HIDE DEF s
<1>4. CASE \E ids \in BySeq(s.idx, deadIds(s.idx)) : Commit(p, s, RequeueRecords(ids), {})
  <2>1. PICK ids \in BySeq(s.idx, deadIds(s.idx)) : Commit(p, s, RequeueRecords(ids), {})
    BY <1>4
  <2> DEFINE dead == deadIds(s.idx)
  <2>2. IsFiniteSet(dead)
    BY <1>3, JobsType, FS_Subset DEF Finite
  <2>3. ids \in BySeq(s.idx, dead)
    BY <2>1
  <2>4. \A id \in dead : id \in DOMAIN s.idx.jobs /\ id \in JobId /\ s.idx.jobs[id].state = "DEAD"
    BY <1>3, JobsType
  <2> HIDE DEF dead
  <2>5. ids \in Seq(dead)
    BY <2>2, <2>3, BySeqFacts
  <2>6. /\ ids \in Seq(JobId)
        /\ \A i \in 1..Len(ids) : ids[i] \in DOMAIN s.idx.jobs /\ s.idx.jobs[ids[i]].state = "DEAD"
    BY <2>4, <2>5
  <2> QED
    BY <1>2, <1>3, <2>1, <2>6, RequeueKept
<1>5. CASE Interrupted(p, Popped(p), batch)
  BY <1>1, <1>2, <1>5, ReapBreaksKept
<1> QED
  BY <1>2, <1>4, <1>5 DEF s

LEMMA LeaseKept ==
  ASSUME IInv, RepliesKept, NEW p \in Proc, NEW count \in Counts, NEW timeout \in Timeouts,
         Lease(p, count, timeout)
  PROVE  RepliesKept'
<1>1. proc[p].up
  BY DEF Lease, Transaction
<1>2. PICK batch \in ReapBatches(CaughtUp(p).idx) :
        LET s == Begun(p, batch)  taken == Taken(s.idx, count) IN
        /\ \/ Commit(p, [s EXCEPT !.idx = taken.idx], LeaseRecords(s, taken.ids, timeout), {})
           \/ Interrupted(p, Popped(p), batch)
        /\ past' = past
  BY DEF Lease, Transaction, Popped, Begun
<1> DEFINE s == Begun(p, batch)  taken == Taken(s.idx, count)  t == [s EXCEPT !.idx = taken.idx]
           ids == taken.ids  recs == LeaseRecords(s, ids, timeout)
<1>3. Session(s) /\ s.idx \in Indexes /\ count \in Nat /\ timeout \in Nat /\ KeptIn(s.log, told)
  BY <1>1, BegunFacts, BegunKept, InputAssumption
<1> HIDE DEF s
<1>4. CASE Commit(p, t, recs, {})
  <2>1. /\ Session(t) /\ t.log = s.log /\ t.idx.jobs = s.idx.jobs
        /\ ids \in Seq(WaitingIds(s.idx)) /\ Len(ids) \in Nat
    BY <1>3, TakenSession
  <2> HIDE DEF taken, ids
  <2>2. recs \in Seq(Record) /\ Fits(Whole(t.log), recs)
    BY <1>3, <2>1, LeaseBatch
  <2>3. DOMAIN recs = DOMAIN ids /\ \A i \in DOMAIN ids : recs[i].type = "LEASE" /\ recs[i].id = ids[i]
    BY DEF LeaseRecords
  <2> HIDE DEF t, recs
  <2>4. DOMAIN recs = 1..Len(recs) /\ Len(recs) \in Nat
    BY <2>2, LenProperties
  <2>5. \A i \in DOMAIN ids : ids[i] \in WaitingIds(s.idx)
    BY <2>1
  <2>6. \A i \in 1..Len(recs) : recs[i].type = "LEASE" /\ recs[i].id \in WaitingIds(s.idx)
    BY <2>3, <2>4, <2>5
  <2>7. \A i \in 1..Len(recs) : /\ NamesJob(recs[i]) /\ recs[i].type # "ACK"
                                /\ recs[i].id \in DOMAIN t.idx.jobs
                                /\ t.idx.jobs[recs[i].id].state # "DONE"
    BY <2>1, <2>6 DEF NamesJob, WaitingIds
  <2>8. Rightful(Whole(t.log).jobs, recs)
    BY <2>1, <2>4, <2>7, NamedRightful
  <2>9. KeptIn(t.log, told)
    BY <1>3, <2>1
  <2> QED
    BY <1>2, <1>4, <2>1, <2>2, <2>8, <2>9, CommitKept
<1>5. CASE Interrupted(p, Popped(p), batch)
  BY <1>1, <1>2, <1>5, ReapBreaksKept
<1> QED
  BY <1>2, <1>4, <1>5 DEF s

LEMMA AbortedLeaseKept ==
  ASSUME IInv, RepliesKept, NEW p \in Proc, NEW count \in Counts, AbortedLease(p, count)
  PROVE  RepliesKept'
<1>1. proc[p].up
  BY DEF AbortedLease, Transaction
<1>2. PICK batch \in ReapBatches(CaughtUp(p).idx) :
        /\ \/ log' = Begun(p, batch).log /\ told' = told
           \/ Interrupted(p, Popped(p), batch)
        /\ past' = past
  BY DEF AbortedLease, Transaction, Popped, Begun
<1>3. CASE log' = Begun(p, batch).log /\ told' = told
  BY <1>1, <1>2, <1>3, BegunKept, KeptNext
<1>4. CASE Interrupted(p, Popped(p), batch)
  BY <1>1, <1>2, <1>4, ReapBreaksKept
<1> QED
  BY <1>2, <1>3, <1>4

-----------------------------------------------------------------------------
(***************************************************************************)
(* A batch of new jobs: each is ready once all are written.                *)
(***************************************************************************)
LEMMA NewJobsReady ==
  ASSUME NEW read \in Indexes, NEW recs \in Seq(Record),
         \A k \in 1..Len(recs) : recs[k].type = "ENQUEUE" /\ recs[k].state = "READY"
  PROVE  LET jobs == Replay(read, recs).jobs IN
         \A k \in 1..Len(recs) : recs[k].id \in DOMAIN jobs /\ jobs[recs[k].id].state = "READY"
<1> DEFINE waiting(jobs) == {id \in DOMAIN jobs : jobs[id].state = "READY"}
           T == {n \in 0..Len(recs) : \A k \in 1..n : recs[k].id \in waiting(After(read, recs, n).jobs)}
<1>0. Len(recs) \in Nat /\ After(read, recs, Len(recs)) = Replay(read, recs)
  BY AfterFacts
<1>1. 0 \in T
  BY <1>0
<1>2. ASSUME NEW n \in 0..Len(recs) - 1, n \in T PROVE n + 1 \in T
  <2> DEFINE idx == After(read, recs, n)  rec == recs[n + 1]  jobs == Apply(idx, rec).jobs
  <2>1. /\ idx \in Indexes /\ rec \in Record /\ n + 1 \in 1..Len(recs)
        /\ After(read, recs, n + 1) = Apply(idx, rec)
    BY AfterFacts
  <2>2. rec.type = "ENQUEUE" /\ rec.state = "READY"
    BY <2>1
  <2>3. Legal(idx.jobs, rec)
    BY <2>2 DEF Legal
  <2>4. jobs = Apply(idx, rec).jobs /\ After(read, recs, n + 1).jobs = jobs
    BY <2>1
  <2>5. \A k \in 1..n : recs[k].id \in waiting(idx.jobs)
    BY <1>2
  <2> HIDE DEF idx, jobs
  <2>6. rec.type # "PURGE"
    BY <2>2
  <2>7. rec.id \in waiting(jobs)
    BY <2>1, <2>2, <2>3, <2>4, <2>6, JobAfter
  <2>8. ASSUME NEW id \in waiting(idx.jobs) PROVE id \in waiting(jobs)
    <3>1. CASE rec.id = id
      BY <2>7, <3>1
    <3>2. CASE rec.id # id
      <4>1. id \in DOMAIN jobs /\ jobs[id] = idx.jobs[id]
        BY <2>1, <2>3, <2>4, <2>6, <2>8, <3>2, JobAfter
      <4> QED
        BY <2>8, <4>1
    <3> QED
      BY <3>1, <3>2
  <2> HIDE DEF waiting
  <2>9. \A k \in 1..(n + 1) : recs[k].id \in waiting(jobs)
    <3> SUFFICES ASSUME NEW k \in 1..(n + 1) PROVE recs[k].id \in waiting(jobs)
      OBVIOUS
    <3>1. k \in 1..n \/ k = n + 1
      BY <1>0
    <3> QED
      BY <2>5, <2>7, <2>8, <3>1 DEF rec
  <2>10. n + 1 \in 0..Len(recs)
    BY <1>0
  <2> QED
    BY <2>4, <2>9, <2>10
<1> HIDE DEF T
<1>3. 0..Len(recs) \subseteq T
  BY <1>0, <1>1, <1>2, UpToInduction
<1>4. Len(recs) \in T
  BY <1>0, <1>3
<1> QED
  BY <1>0, <1>4 DEF T

LEMMA CreatedEarned ==
  ASSUME IInv, NEW s, Session(s), NEW recs \in Seq(Record),
         \A k \in 1..Len(recs) : recs[k].type = "ENQUEUE" /\ recs[k].state = "READY",
         NEW k \in 1..Len(recs), NEW r, r.how = "created", r.id = recs[k].id
  PROVE  Earned(s, recs, r)
<1> DEFINE h == HistoryOf(s.log, Len(s.log.recs))  read == Whole(s.log)  g == h \o recs
           jobs == Replay(read, recs).jobs  id == r.id
<1>1. h \in Seq(Record) /\ read \in Indexes
  BY WholeCut, WholeFacts DEF Session
<1> HIDE DEF h, read
<1>2. id \in DOMAIN jobs /\ jobs[id].state = "READY"
  BY <1>1, NewJobsReady
<1>3. /\ Len(h) \in Nat /\ Len(recs) \in Nat /\ g \in Seq(Record) /\ Len(g) = Len(h) + Len(recs)
      /\ \A i \in 1..Len(h) + Len(recs) : g[i] = IF i <= Len(h) THEN h[i] ELSE recs[i - Len(h)]
      /\ DOMAIN g = 1..Len(g)
  BY <1>1, ConcatProperties, LenProperties
<1> HIDE DEF g, jobs
<1> DEFINE i == Len(h) + k
<1>4. i \in 1..Len(h) + Len(recs) /\ ~(i <= Len(h)) /\ i - Len(h) = k
  BY <1>3
<1> HIDE DEF i
<1>5. g[i] = recs[k] /\ i \in DOMAIN g
  BY <1>3, <1>4
<1>6. i \in At(g, {"ENQUEUE"}, id)
  BY <1>5 DEF At, Is
<1>7. Known(g, jobs, id)
  BY <1>2, <1>6 DEF Known
<1>8. recs # <<>>
  OBVIOUS
<1>9. Borne(g, jobs, r)
  BY <1>7 DEF Borne
<1> QED
  BY <1>8, <1>9 DEF Earned, g, h, jobs, read

LEMMA EnqueueKept ==
  ASSUME IInv, RepliesKept, NEW p \in Proc, NEW call \in Batches, Enqueue(p, call)
  PROVE  RepliesKept'
<1>1. proc[p].up
  BY DEF Enqueue, Transaction
<1>2. PICK batch \in ReapBatches(CaughtUp(p).idx) :
        LET s == Begun(p, batch) IN
        /\ \/ \E fresh \in Fresh(s.idx, call.ids) :
                Commit(p, [s EXCEPT !.idx.seq = @ + Len(fresh)],
                       [i \in DOMAIN fresh |-> ToDict(fresh[i], NewJob(call, s.idx.seq + i))],
                       UNION {Told("created", id, None) : id \in ToSet(fresh)})
           \/ Interrupted(p, Popped(p), batch)
        /\ past' = past
  BY DEF Enqueue, Transaction, Popped, Begun
<1> DEFINE s == Begun(p, batch)
<1>3. Session(s) /\ KeptIn(s.log, told)
  BY <1>1, BegunFacts, BegunKept
<1> HIDE DEF s
<1>4. CASE \E fresh \in Fresh(s.idx, call.ids) :
             Commit(p, [s EXCEPT !.idx.seq = @ + Len(fresh)],
                    [i \in DOMAIN fresh |-> ToDict(fresh[i], NewJob(call, s.idx.seq + i))],
                    UNION {Told("created", id, None) : id \in ToSet(fresh)})
  <2>1. PICK fresh \in Fresh(s.idx, call.ids) :
          Commit(p, [s EXCEPT !.idx.seq = @ + Len(fresh)],
                 [i \in DOMAIN fresh |-> ToDict(fresh[i], NewJob(call, s.idx.seq + i))],
                 UNION {Told("created", id, None) : id \in ToSet(fresh)})
    BY <1>4
  <2> DEFINE t == [s EXCEPT !.idx.seq = @ + Len(fresh)]  base == s.idx.seq
             recs == [i \in DOMAIN fresh |-> ToDict(fresh[i], NewJob(call, base + i))]
             replies == UNION {Told("created", id, None) : id \in ToSet(fresh)}
  <2>2. fresh \in Seq(JobId) /\ Len(fresh) \in Nat
    BY <2>1, FreshFacts, InputAssumption
  <2>3. Session(t) /\ t.log = s.log /\ base \in Nat
    BY <1>3, <2>2, CountedSession
  <2>4. Commit(p, t, recs, replies)
    BY <2>1
  <2> HIDE DEF t, base
  <2>5. DOMAIN fresh = 1..Len(fresh) /\ \A i \in 1..Len(fresh) : fresh[i] \in JobId
    BY <2>2
  <2>6. \A i \in 1..Len(fresh) : recs[i] = ToDict(fresh[i], NewJob(call, base + i))
    BY <2>5
  <2>7. recs = [i \in DOMAIN fresh |-> recs[i]]
    OBVIOUS
  <2> HIDE DEF recs
  <2>8. \A i \in 1..Len(fresh) : /\ recs[i] \in Record /\ recs[i].type = "ENQUEUE"
                                 /\ recs[i].seq = base + i
    <3>1. \A i \in 1..Len(fresh) : base + i \in Nat \ {0}
      BY <2>2, <2>3
    <3> QED
      BY <2>5, <2>6, <3>1, NewRecord
  <2>9. \A i \in 1..Len(fresh) : recs[i].state = "READY" /\ recs[i].id = fresh[i]
    <3>1. ASSUME NEW id, NEW n
          PROVE  ToDict(id, NewJob(call, n)).state = "READY" /\ ToDict(id, NewJob(call, n)).id = id
      BY DEF ToDict, NewJob
    <3> QED
      BY <2>6, <3>1
  <2>10. recs \in Seq(Record) /\ Len(recs) = Len(fresh)
    BY <2>2, <2>7, <2>8, MappedSeq
  <2>11. base >= Whole(t.log).seq
    BY <1>3, <2>3 DEF Session, Mirrors, base
  <2>12. Fits(Whole(t.log), recs) /\ Rightful(Whole(t.log).jobs, recs)
    BY <2>3, <2>8, <2>9, <2>10, <2>11 DEF Fits, Rightful
  <2>13. KeptIn(t.log, told)
    BY <1>3, <2>3
  <2>14. ASSUME NEW r \in replies PROVE Earned(t, recs, r)
    <3>1. PICK id \in ToSet(fresh) : r \in Told("created", id, None)
      BY <2>14
    <3>2. r.how = "created" /\ r.id = id
      BY <3>1 DEF Told
    <3>3. PICK k \in 1..Len(fresh) : id = fresh[k]
      BY <2>5, <3>1 DEF ToSet
    <3>4. r.id = recs[k].id /\ k \in 1..Len(recs)
      BY <2>9, <2>10, <3>2, <3>3
    <3>5. \A i \in 1..Len(recs) : recs[i].type = "ENQUEUE" /\ recs[i].state = "READY"
      BY <2>8, <2>9, <2>10
    <3> QED
      BY <2>3, <2>10, <3>2, <3>4, <3>5, CreatedEarned
  <2> HIDE DEF replies
  <2> QED
    BY <1>2, <2>3, <2>4, <2>10, <2>12, <2>13, <2>14, CommitKept
<1>5. CASE Interrupted(p, Popped(p), batch)
  BY <1>1, <1>2, <1>5, ReapBreaksKept
<1> QED
  BY <1>2, <1>4, <1>5 DEF s

-----------------------------------------------------------------------------
(***************************************************************************)
(* Compaction retires the history and keeps what it says of the jobs that  *)
(* are not done.                                                           *)
(***************************************************************************)
LEMMA RetainedBearsOut ==
  ASSUME NEW h, NEW old, NEW new, NEW replies, BearsOut(h, old, replies),
         \A id \in DOMAIN new : /\ id \in DOMAIN old /\ new[id].state = old[id].state
                                /\ new[id].lease_token = old[id].lease_token,
         \A id \in DOMAIN old : old[id].state # "DONE" => id \in DOMAIN new
  PROVE  BearsOut(h, new, replies)
<1>1. LeasesRecorded(h, new)
  BY DEF BearsOut, LeasesRecorded
<1>2. ASSUME NEW id, Known(h, old, id) PROVE Known(h, new, id)
  BY <1>2 DEF Known
<1>3. ASSUME NEW id, Finished(h, old, id) PROVE Finished(h, new, id)
  BY <1>3 DEF Finished
<1> QED
  BY <1>1, <1>2, <1>3 DEF BearsOut

\* What reading the new log gives: the jobs that were not done, as they were.
LEMMA CompactedJobs ==
  ASSUME IInv, NEW s, Session(s), s.idx \in Indexes, NEW live \in LiveJobs(s.idx)
  PROVE  LET l == Compacted(s.log, s.idx, live)
             old == Whole(s.log).jobs  new == ReadingOf(l.recs, Len(live)).jobs IN
         /\ \A id \in DOMAIN new : /\ id \in DOMAIN old /\ new[id].state = old[id].state
                                   /\ new[id].lease_token = old[id].lease_token
                                   /\ new[id].attempts = old[id].attempts
                                   /\ new[id].max_attempts = old[id].max_attempts
         /\ \A id \in DOMAIN old : old[id].state # "DONE" => id \in DOMAIN new
<1> DEFINE idx == s.idx  l == Compacted(s.log, idx, live)  recs == Snapshot(idx, live)
           old == Whole(s.log).jobs  read == Replay(EmptyIndex, recs)
           ids == {id \in DOMAIN idx.jobs : idx.jobs[id].state # "DONE"}
<1>1. /\ idx \in Indexes /\ DistinctSeqs(idx.jobs)
      /\ \A id \in DOMAIN idx.jobs : idx.jobs[id].seq <= idx.seq
  BY SessionSeqs
<1>2. /\ DOMAIN old = DOMAIN idx.jobs
      /\ \A id \in DOMAIN idx.jobs : /\ old[id].state = idx.jobs[id].state
                                     /\ old[id].lease_token = idx.jobs[id].lease_token
                                     /\ old[id].attempts = idx.jobs[id].attempts
                                     /\ old[id].max_attempts = idx.jobs[id].max_attempts
  BY SessionJobs
<1>3. l.recs = recs
  BY DEF Compacted, Snapshot
<1> HIDE DEF idx, old
<1>4. live \in Seq(DOMAIN idx.jobs) /\ Len(live) \in Nat
  BY LiveFacts DEF idx
<1>5. ToSet(live) = ids
  <2>1. IsFiniteSet(ids)
    BY <1>1, JobsType, FS_Subset DEF Finite
  <2>2. live \in BySeq(idx, ids)
    BY DEF LiveJobs, idx
  <2> HIDE DEF ids
  <2> QED
    BY <2>1, <2>2, BySeqFacts
<1>6. /\ recs \in Seq(Record) /\ Len(recs) = Len(live) /\ DOMAIN read.jobs = ToSet(live)
      /\ \A id \in DOMAIN read.jobs : read.jobs[id] = Unversioned(idx.jobs[id])
  BY <1>1, <1>4, SnapshotFacts
<1>7. ReadingOf(recs, Len(live)) = read
  BY <1>6, WholeReading DEF ReadingOf
<1>8. ASSUME NEW id \in DOMAIN idx.jobs
      PROVE  /\ Unversioned(idx.jobs[id]).state = idx.jobs[id].state
             /\ Unversioned(idx.jobs[id]).lease_token = idx.jobs[id].lease_token
             /\ Unversioned(idx.jobs[id]).attempts = idx.jobs[id].attempts
             /\ Unversioned(idx.jobs[id]).max_attempts = idx.jobs[id].max_attempts
  <2>1. idx.jobs[id] \in JobFields
    BY <1>1, JobsType DEF Job, JobFields
  <2> QED
    BY <2>1 DEF Unversioned, JobFields
<1> HIDE DEF read, recs, l
<1>9. /\ \A id \in DOMAIN read.jobs : /\ id \in DOMAIN old /\ read.jobs[id].state = old[id].state
                                      /\ read.jobs[id].lease_token = old[id].lease_token
                                      /\ read.jobs[id].attempts = old[id].attempts
                                      /\ read.jobs[id].max_attempts = old[id].max_attempts
      /\ \A id \in DOMAIN old : old[id].state # "DONE" => id \in DOMAIN read.jobs
  BY <1>2, <1>5, <1>6, <1>8
<1> QED
  BY <1>3, <1>7, <1>9 DEF l, idx, old

\* The pointer now names the new log: it retires the whole of the old one.
LEMMA FlippedLog ==
  ASSUME IInv, NEW s, Session(s), s.idx \in Indexes, NEW live \in LiveJobs(s.idx), Flip(s, live)
  PROVE  LET l == Compacted(s.log, s.idx, live)  n == Len(live) IN
         /\ n \in Nat /\ Len(l.recs) = n /\ l.synced = n /\ log' = l /\ past'.kept = n
         /\ HistoryTo(n)' = HistoryOf(s.log, Len(s.log.recs)) /\ Reading(n)' = ReadingOf(l.recs, n)
<1> DEFINE l == Compacted(s.log, s.idx, live)  N == Len(s.log.recs)  n == Len(live)
           h == HistoryOf(s.log, N)
<1>1. h \in Seq(Record)
  BY WholeCut DEF Session
<1>2. /\ l \in Logs({log.gen + 1}) /\ l.synced = n /\ Len(l.recs) = n /\ n \in Nat
  BY CompactedFacts
<1>3. log' = l /\ past' = [events |-> h, kept |-> n]
  BY DEF Flip, HistoryOf
<1> HIDE DEF l, h
<1>4. HistoryTo(n)' = h
  <2>1. HistoryTo(n)' = h \o SubSeq(l.recs, n + 1, n)
    BY <1>3 DEF HistoryTo
  <2>2. l.recs \in Seq(Record) /\ n \in 0..Len(l.recs) /\ n \in 0..n
    BY <1>2 DEF Logs
  <2> DEFINE e == SubSeq(l.recs, n + 1, n)
  <2>3. e \in Seq(Record) /\ Len(e) = n - n
    BY <2>2, MiddleFacts
  <2> HIDE DEF e
  <2>4. e = <<>>
    <3>1. Len(e) = 0
      BY <1>2, <2>3
    <3> QED
      BY <2>3, <3>1, EmptySeq
  <2>5. h \o <<>> = h
    BY <1>1, ConcatEmptySeq
  <2> QED
    BY <2>1, <2>4, <2>5 DEF e
<1>5. Reading(n)' = ReadingOf(l.recs, n) /\ past'.kept = n
  BY <1>3 DEF Reading, ReadingOf
<1> QED
  BY <1>2, <1>3, <1>4, <1>5 DEF l, h

LEMMA FlipKept ==
  ASSUME IInv, NEW s, Session(s), s.idx \in Indexes, KeptIn(s.log, told),
         NEW live \in LiveJobs(s.idx), Flip(s, live), told' = told
  PROVE  RepliesKept'
<1> DEFINE l == Compacted(s.log, s.idx, live)  N == Len(s.log.recs)  n == Len(live)
           h == HistoryOf(s.log, N)  jobs == ReadingOf(l.recs, n).jobs
<1>1. Follows(s.log)
  BY DEF Session
<1>2. N \in CutsOf(s.log)
  BY <1>1, WholeCut
<1>3. Whole(s.log) = ReadingOf(s.log.recs, N)
  BY <1>1, WholeFacts
<1>4. BearsOut(h, Whole(s.log).jobs, told)
  BY <1>2, <1>3 DEF KeptIn
<1>5. BearsOut(h, jobs, told)
  <2> DEFINE before == Whole(s.log).jobs
  <2>1. /\ \A id \in DOMAIN jobs : /\ id \in DOMAIN before /\ jobs[id].state = before[id].state
                                   /\ jobs[id].lease_token = before[id].lease_token
        /\ \A id \in DOMAIN before : before[id].state # "DONE" => id \in DOMAIN jobs
    BY CompactedJobs
  <2> HIDE DEF h, jobs, before
  <2>2. BearsOut(h, before, told)
    BY <1>4 DEF before
  <2> QED
    BY <2>1, <2>2, RetainedBearsOut
<1>6. /\ n \in Nat /\ Len(l.recs) = n /\ l.synced = n /\ log' = l
      /\ HistoryTo(n)' = h /\ Reading(n)' = ReadingOf(l.recs, n)
  BY FlippedLog
<1> HIDE DEF l, h, n
<1>7. Cuts' = CutsOf(l) /\ \A k \in CutsOf(l) : k = n
  BY <1>6 DEF Cuts, CutsOf
<1> QED
  BY <1>5, <1>6, <1>7 DEF RepliesKept

LEMMA CompactKept ==
  ASSUME IInv, RepliesKept, NEW p \in Proc, Compact(p)
  PROVE  RepliesKept'
<1>1. proc[p].up
  BY DEF Compact, Transaction
<1>2. PICK batch \in ReapBatches(CaughtUp(p).idx) :
        \/ \E s \in {Begun(p, batch)} : \E live \in LiveJobs(s.idx) :
             /\ Flip(s, live) \/ (log' = s.log /\ UNCHANGED past)
             /\ UNCHANGED told
        \/ Interrupted(p, Popped(p), batch) /\ UNCHANGED past
  BY DEF Compact, Transaction, Popped, Begun, Breaks
<1> DEFINE s == Begun(p, batch)
<1>3. Session(s) /\ s.idx \in Indexes /\ KeptIn(s.log, told)
  BY <1>1, BegunFacts, BegunKept
<1> HIDE DEF s
<1>4. CASE Interrupted(p, Popped(p), batch) /\ UNCHANGED past
  BY <1>1, <1>4, ReapBreaksKept
<1>5. ASSUME NEW live \in LiveJobs(s.idx), Flip(s, live), UNCHANGED told
      PROVE  RepliesKept'
  BY <1>3, <1>5, FlipKept
<1>6. ASSUME log' = s.log, UNCHANGED past, UNCHANGED told
      PROVE  RepliesKept'
  BY <1>3, <1>6, KeptNext
<1> QED
  BY <1>2, <1>4, <1>5, <1>6 DEF s

-----------------------------------------------------------------------------
(***************************************************************************)
(* The environment.                                                        *)
(***************************************************************************)
LEMMA OpenKept ==
  ASSUME IInv, RepliesKept, NEW p \in Proc, Open(p)
  PROVE  RepliesKept'
<1>1. KeptIn(Repaired(log), told)
  BY RepairedKept
<1>2. log' = Repaired(log) /\ past' = past /\ told' = told
  BY DEF Open
<1> QED
  BY <1>1, <1>2, KeptNext

LEMMA StillKept ==
  ASSUME RepliesKept, UNCHANGED <<log, past, told>>
  PROVE  RepliesKept'
<1>1. KeptIn(log, told)
  BY KeptNow
<1> QED
  BY <1>1, KeptNext

\* A power loss leaves a log that ends at a cut of the present one.
LEMMA LostLog ==
  ASSUME IInv, PowerLoss
  PROVE  /\ past' = past /\ told' = told /\ log'.synced = log.synced
         /\ Len(log'.recs) \in log.synced..Len(log.recs)
         /\ \A k \in past.kept..Len(log'.recs) : HistoryTo(k)' = HistoryTo(k) /\ Reading(k)' = Reading(k)
<1>1. PICK n \in log.synced..Len(log.recs), torn \in BOOLEAN :
        log' = [log EXCEPT !.recs = SubSeq(@, 1, n), !.torn = torn]
  BY DEF PowerLoss
<1> DEFINE recs == log.recs  head == SubSeq(recs, 1, n)
<1>2. past' = past /\ told' = told
  BY DEF PowerLoss
<1>3. /\ log \in Logs(0..MaxGen) /\ log.synced \in Nat /\ recs \in Seq(Record) /\ Len(recs) \in Nat
      /\ past.kept \in Nat /\ past.kept <= log.synced
  BY Parts, LenProperties DEF Logs, Scalars
<1>4. n \in 0..Len(recs) /\ n \in Nat
  BY <1>1, <1>3
<1>5. head \in Seq(Record) /\ Len(head) = n /\ \A i \in 1..n : head[i] = recs[i]
  BY <1>3, <1>4, PrefixFacts
<1>6. log'.recs = head /\ log'.synced = log.synced
  BY <1>1, <1>3 DEF Logs
<1> HIDE DEF head
<1>7. ASSUME NEW k \in past.kept..n
      PROVE  HistoryTo(k)' = HistoryTo(k) /\ Reading(k)' = Reading(k)
  <2>1. k \in 0..n /\ k \in 0..Len(recs) /\ past.kept \in 0..k
    BY <1>3, <1>4
  <2>2. SubSeq(head, 1, k) = SubSeq(recs, 1, k)
    BY <1>3, <1>4, <2>1, PrefixOfPrefix DEF head
  <2>3. SubSeq(head, past.kept + 1, k) = SubSeq(recs, past.kept + 1, k)
    <3> DEFINE m == past.kept
    <3>1. /\ recs \in Seq(Record) /\ head \in Seq(Record) /\ k \in 0..Len(recs) /\ k <= Len(head)
          /\ \A i \in 1..k : head[i] = recs[i]
          /\ m \in 0..k
      BY <1>3, <1>4, <1>5, <2>1
    <3> HIDE DEF m, recs
    <3>2. SubSeq(head, m + 1, k) = SubSeq(recs, m + 1, k)
      BY <3>1, MiddleSame
    <3> QED
      BY <3>2 DEF m
  <2>4. HistoryTo(k)' = HistoryTo(k)
    BY <1>2, <1>6, <2>3 DEF HistoryTo
  <2>5. Reading(k)' = Reading(k)
    BY <1>6, <2>2 DEF Reading
  <2> QED
    BY <2>4, <2>5
<1>8. Len(log'.recs) = n /\ n \in log.synced..Len(log.recs)
  BY <1>5, <1>6
<1> QED
  BY <1>2, <1>6, <1>7, <1>8

LEMMA PowerLossKept ==
  ASSUME IInv, RepliesKept, Fsync, PowerLoss
  PROVE  RepliesKept'
<1>1. past.kept \in Nat /\ past.kept <= log.synced /\ log.synced \in Nat /\ Len(log.recs) \in Nat
  BY Parts, LenProperties DEF Logs, Scalars
<1>2. /\ told' = told /\ log'.synced = log.synced /\ Len(log'.recs) \in log.synced..Len(log.recs)
      /\ \A k \in past.kept..Len(log'.recs) : HistoryTo(k)' = HistoryTo(k) /\ Reading(k)' = Reading(k)
  BY LostLog
<1>3. \A k \in Cuts' : k \in Cuts /\ k \in past.kept..Len(log'.recs)
  BY <1>1, <1>2 DEF Cuts
<1> QED
  BY <1>2, <1>3 DEF RepliesKept

-----------------------------------------------------------------------------
(***************************************************************************)
(* The theorems.  A queue that does not sync may lose to a power loss what *)
(* it told; every other fault is allowed to both.                          *)
(***************************************************************************)
Durable == Fsync \/ "power" \notin Faults

LEMMA InitKept == Init => RepliesKept
<1> SUFFICES ASSUME Init PROVE RepliesKept
  OBVIOUS
<1>1. /\ log = [gen |-> 0, recs |-> <<>>, torn |-> FALSE, synced |-> 0]
      /\ told = {}
  BY DEF Init
<1>2. ASSUME NEW n \in Cuts PROVE (Reading(n)).jobs = EmptyIndex.jobs
  <2>1. Len(<<>>) = 0 /\ <<>> \in Seq(Record)
    OBVIOUS
  <2>2. n = 0
    BY <1>1, <2>1 DEF Cuts
  <2>3. SubSeq(<<>>, 1, 0) = <<>>
    BY <2>1, PrefixFacts
  <2>4. Reading(n) = Replay(EmptyIndex, <<>>)
    BY <1>1, <2>2, <2>3 DEF Reading
  <2> QED
    BY <2>4, ReplayNothing
<1>3. DOMAIN EmptyIndex.jobs = {}
  BY EmptyFacts
<1> QED
  BY <1>1, <1>2, <1>3 DEF RepliesKept, BearsOut, LeasesRecorded

LEMMA StepKept ==
  ASSUME Durable, IInv, RepliesKept, [Next]_vars
  PROVE  RepliesKept'
<1>1. ASSUME NEW p \in Proc, Open(p) PROVE RepliesKept'
  BY <1>1, OpenKept
<1>2. ASSUME NEW p \in Proc, Stop(p) PROVE RepliesKept'
  BY <1>2, StillKept DEF Stop
<1>3. ASSUME NEW p \in Proc, RequeueAll(p) PROVE RepliesKept'
  BY <1>3, RequeueAllKept
<1>4. ASSUME NEW p \in Proc, Purge(p) PROVE RepliesKept'
  BY <1>4, PurgeKept
<1>5. ASSUME NEW p \in Proc, Read(p) PROVE RepliesKept'
  BY <1>5, ReadKept
<1>6. ASSUME NEW p \in Proc, Compact(p) PROVE RepliesKept'
  BY <1>6, CompactKept
<1>7. ASSUME NEW p \in Proc, NEW batch \in Batches, Enqueue(p, batch) PROVE RepliesKept'
  BY <1>7, EnqueueKept
<1>8. ASSUME NEW p \in Proc, NEW count \in Counts, NEW timeout \in Timeouts,
             Lease(p, count, timeout)
      PROVE  RepliesKept'
  BY <1>8, LeaseKept
<1>9. ASSUME NEW p \in Proc, NEW count \in Counts, AbortedLease(p, count) PROVE RepliesKept'
  BY <1>9, AbortedLeaseKept
<1>10. ASSUME NEW p \in Proc, NEW id \in JobId, RequeueOne(p, id) PROVE RepliesKept'
  BY <1>10, RequeueOneKept
<1>11. ASSUME NEW p \in Proc, NEW id \in JobId, NEW token, Ack(p, id, token) PROVE RepliesKept'
  BY <1>11, AckKept
<1>12. ASSUME NEW p \in Proc, NEW id \in JobId, NEW token, Nack(p, id, token) PROVE RepliesKept'
  BY <1>12, NackKept
<1>13. ASSUME NEW p \in Proc, NEW id \in JobId, NEW seconds \in Extensions, NEW token,
              Extend(p, id, token, seconds)
       PROVE  RepliesKept'
  BY <1>13, ExtendKept
<1>14. CASE PowerLoss
  BY <1>14, PowerLossKept DEF Durable, PowerLoss
<1>15. CASE Tick \/ ClockBack \/ UNCHANGED vars
  <2>1. UNCHANGED <<log, past, told>>
    BY <1>15 DEF Tick, ClockBack, vars
  <2> QED
    BY <2>1, StillKept
<1> QED
  BY <1>1, <1>2, <1>3, <1>4, <1>5, <1>6, <1>7, <1>8, <1>9, <1>10, <1>11, <1>12, <1>13, <1>14,
     <1>15 DEF Next

\* Wherever the log may be cut next, it bears out every reply that was given.
THEOREM RepliesBorneOut == ASSUME Durable PROVE Spec => []RepliesKept
<1>1. Init => IInv /\ RepliesKept
  BY InitInv, InitKept
<1>2. IInv /\ RepliesKept /\ [Next]_vars => (IInv /\ RepliesKept)'
  BY StepInv, StepKept
<1> QED
  BY <1>1, <1>2, PTL DEF Spec

\* The whole log is one of the cuts.
LEMMA KeptWhole ==
  ASSUME IInv, RepliesKept
  PROVE  BearsOut(History, Jobs, told)
<1> DEFINE n == Len(log.recs)
<1>1. Follows(log)
  BY FollowsItself
<1>2. n \in Cuts
  BY <1>1, WholeCut DEF Cuts, CutsOf
<1>3. Whole(log) = ReadingOf(log.recs, n)
  BY <1>1, WholeFacts
<1>4. Reading(n).jobs = Jobs
  BY <1>3 DEF Reading, ReadingOf, Whole, Jobs
<1> QED
  BY <1>2, <1>4 DEF RepliesKept, HistoryTo, History

\* A job whose creation a caller was told of stays in the log until it is completed
\* or purged, whatever crashes, errors, torn tails and compactions come.
THEOREM CreatedIsKept == ASSUME Durable PROVE Spec => []NothingLost
<1>1. ASSUME IInv, RepliesKept PROVE NothingLost
  BY <1>1, KeptWhole DEF NothingLost, BearsOut, Known
<1> QED
  BY <1>1, QueueInvariant, RepliesBorneOut, PTL

\* A job whose completion a caller was told of is not delivered again, unless it was
\* enqueued anew.
THEOREM CompletedIsKept == ASSUME Durable PROVE Spec => []CompletedStaysCompleted
<1>1. ASSUME IInv, RepliesKept PROVE CompletedStaysCompleted
  BY <1>1, KeptWhole DEF CompletedStaysCompleted, BearsOut, Finished
<1> QED
  BY <1>1, QueueInvariant, RepliesBorneOut, PTL

\* An ack that completed a job came from the holder of its current lease.
THEOREM AcksAreFenced == ASSUME Durable PROVE Spec => []AckFenced
<1>1. ASSUME IInv, RepliesKept PROVE AckFenced
  BY <1>1, KeptWhole DEF AckFenced, BearsOut
<1> QED
  BY <1>1, QueueInvariant, RepliesBorneOut, PTL
=============================================================================
