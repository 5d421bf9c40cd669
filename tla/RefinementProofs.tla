--------------------------- MODULE RefinementProofs ----------------------------
(***************************************************************************)
(* Queue implements Delivery: what the records of the log say of each      *)
(* lease is a grant that nobody else shares, and every operation, with     *)
(* the reap that precedes it and wherever a crash cuts what it writes, is  *)
(* one step of the contract.                                               *)
(***************************************************************************)
EXTENDS LeasingProofs, QueueRefinement

-----------------------------------------------------------------------------
(***************************************************************************)
(* When a lease ends, as the history goes on.                              *)
(***************************************************************************)
EndTypes == {"ACK", "NACK", "RECLAIM", "DEAD", "PURGE"}

\* The records that ended the lease at position i, and those that renewed it before.
EndsOf(h, i) == {k \in At(h, EndTypes, h[i].id) : k > i}

Renewals(h, i) == {k \in At(h, {"EXTEND"}, h[i].id) : k > i /\ \A e \in EndsOf(h, i) : k < e}

LEMMA GrantEndIs ==
  ASSUME NEW h, NEW i
  PROVE  GrantEnd(h, i) =
           IF EndsOf(h, i) = {} \/ Expiry(h[Min(EndsOf(h, i))])
           THEN h[Max({i} \cup Renewals(h, i))].deadline
           ELSE h[Min(EndsOf(h, i))].at
<1>1. EndsOf(h, i) = {k \in At(h, {"ACK", "NACK", "RECLAIM", "DEAD", "PURGE"}, h[i].id) : k > i}
  BY DEF EndsOf, EndTypes
<1>2. Renewals(h, i) =
        {k \in {j \in At(h, {"EXTEND"}, h[i].id) : j > i} : \A e \in EndsOf(h, i) : k < e}
  BY DEF Renewals
<1> QED
  BY <1>1, <1>2, Zenon DEF GrantEnd

\* A set of positions has a first and a last.
LEMMA FirstAndLast ==
  ASSUME NEW N \in Nat, NEW S \in SUBSET (1..N), S # {}
  PROVE  /\ Min(S) \in S /\ \A k \in S : Min(S) <= k
         /\ Max(S) \in S /\ \A k \in S : k <= Max(S)
<1>1. IsFiniteSet(S)
  <2>1. N \in Int /\ 1 \in Int
    OBVIOUS
  <2>2. IsFiniteSet(1..N)
    BY <2>1, FS_Interval
  <2> QED
    BY <2>2, FS_Subset
<1>2. \E m \in S : \A k \in S : m <= k
  <2> DEFINE R == {e \in S \X S : e[1] < e[2]}
  <2>1. \A x, y \in S : <<x, y>> \in R <=> x < y
    OBVIOUS
  <2>2. \A x \in S : <<x, x>> \notin R
    BY <2>1
  <2>3. \A x, y, z \in S : <<x, y>> \in R /\ <<y, z>> \in R => <<x, z>> \in R
    BY <2>1
  <2> HIDE DEF R
  <2>4. PICK m \in S : \A k \in S : <<k, m>> \notin R
    BY <1>1, <2>2, <2>3, MinimalElement
  <2>5. \A k \in S : ~(k < m)
    BY <2>1, <2>4
  <2>6. \A k \in S : k \in Int /\ m \in Int
    OBVIOUS
  <2> QED
    BY <2>5, <2>6
<1>3. \E m \in S : \A k \in S : k <= m
  <2> DEFINE R == {e \in S \X S : e[1] > e[2]}
  <2>1. \A x, y \in S : <<x, y>> \in R <=> x > y
    OBVIOUS
  <2>2. \A x \in S : <<x, x>> \notin R
    BY <2>1
  <2>3. \A x, y, z \in S : <<x, y>> \in R /\ <<y, z>> \in R => <<x, z>> \in R
    BY <2>1
  <2> HIDE DEF R
  <2>4. PICK m \in S : \A k \in S : <<k, m>> \notin R
    BY <1>1, <2>2, <2>3, MinimalElement
  <2>5. \A k \in S : ~(k > m)
    BY <2>1, <2>4
  <2>6. \A k \in S : k \in Int /\ m \in Int
    OBVIOUS
  <2> QED
    BY <2>5, <2>6
<1>4. Min(S) \in S /\ \A k \in S : Min(S) <= k
  BY <1>2 DEF Min
<1>5. Max(S) \in S /\ \A k \in S : Max(S) >= k
  BY <1>3 DEF Max
<1> QED
  BY <1>4, <1>5

\* What is first in a set stays so when something later is added.
LEMMA FirstStays ==
  ASSUME NEW N \in Nat, NEW S \in SUBSET (1..N), S # {}
  PROVE  Min(S \cup {N + 1}) = Min(S)
<1>1. Min(S) \in S /\ \A k \in S : Min(S) <= k
  BY FirstAndLast
<1>2. N + 1 \in Nat /\ S \cup {N + 1} \in SUBSET (1..N + 1) /\ S \cup {N + 1} # {}
  OBVIOUS
<1> DEFINE T == S \cup {N + 1}  m == Min(S)  l == Min(T)
<1>3. l \in T /\ \A k \in T : l <= k
  <2> HIDE DEF T
  <2> QED
    BY <1>2, FirstAndLast DEF T
<1> HIDE DEF m, l
<1>4. m \in S /\ \A k \in S : m <= k
  BY <1>1 DEF m
<1>5. l = m
  BY <1>3, <1>4
<1> QED
  BY <1>5 DEF m, l, T

\* About which leases a record is.
LEMMA AboutEnd ==
  ASSUME NEW rec, NEW id
  PROVE  /\ About(rec, EndTypes, id) <=>
              rec.type \in EndTypes /\ (rec.type = "PURGE" \/ rec.id = id)
         /\ About(rec, {"EXTEND"}, id) <=> rec.type = "EXTEND" /\ rec.id = id
  BY DEF About, Is, EndTypes

LEMMA EndsMore ==
  ASSUME NEW h, NEW g, NEW rec, Extends(g, h, rec), NEW i \in 1..Len(h), NEW id, id = h[i].id
  PROVE  /\ EndsOf(h, i) \subseteq 1..Len(h) /\ Renewals(h, i) \subseteq 1..Len(h)
         /\ EndsOf(g, i) = IF About(rec, EndTypes, id) THEN EndsOf(h, i) \cup {Len(h) + 1}
                                                       ELSE EndsOf(h, i)
         /\ Renewals(g, i) = IF EndsOf(h, i) = {} /\ About(rec, {"EXTEND"}, id)
                             THEN Renewals(h, i) \cup {Len(h) + 1} ELSE Renewals(h, i)
<1> DEFINE n == Len(h) + 1
<1>1. Len(h) \in Nat /\ g[i] = h[i] /\ g[i].id = id /\ n > i
  BY DEF Extends
<1>2. /\ At(h, EndTypes, id) \subseteq 1..Len(h) /\ At(h, EndTypes, id) \subseteq At(g, EndTypes, id)
      /\ \A k \in At(g, EndTypes, id) : k = n \/ k \in At(h, EndTypes, id)
      /\ n \in At(g, EndTypes, id) <=> About(rec, EndTypes, id)
  BY AtMore
<1>3. /\ At(h, {"EXTEND"}, id) \subseteq 1..Len(h)
      /\ At(h, {"EXTEND"}, id) \subseteq At(g, {"EXTEND"}, id)
      /\ \A k \in At(g, {"EXTEND"}, id) : k = n \/ k \in At(h, {"EXTEND"}, id)
      /\ n \in At(g, {"EXTEND"}, id) <=> About(rec, {"EXTEND"}, id)
  BY AtMore
<1>4. About(rec, {"EXTEND"}, id) => ~About(rec, EndTypes, id)
  BY AboutEnd DEF EndTypes
<1> DEFINE E == At(h, EndTypes, id)  F == At(g, EndTypes, id)
           X == At(h, {"EXTEND"}, id)  Y == At(g, {"EXTEND"}, id)
<1>5. /\ EndsOf(h, i) = {k \in E : k > i} /\ EndsOf(g, i) = {k \in F : k > i}
      /\ Renewals(h, i) = {k \in X : k > i /\ \A e \in EndsOf(h, i) : k < e}
      /\ Renewals(g, i) = {k \in Y : k > i /\ \A e \in EndsOf(g, i) : k < e}
  BY <1>1 DEF EndsOf, Renewals
<1> HIDE DEF E, F, X, Y
<1>6. EndsOf(h, i) \subseteq 1..Len(h) /\ Renewals(h, i) \subseteq 1..Len(h)
  BY <1>2, <1>3, <1>5 DEF E, X
<1>7. EndsOf(g, i) = IF About(rec, EndTypes, id) THEN EndsOf(h, i) \cup {n} ELSE EndsOf(h, i)
  BY <1>1, <1>2, <1>5 DEF E, F
<1>8. ASSUME NEW k \in 1..Len(h)
      PROVE  (\A e \in EndsOf(g, i) : k < e) <=> (\A e \in EndsOf(h, i) : k < e)
  BY <1>1, <1>7
<1>9. (\A e \in EndsOf(g, i) : n < e) <=> EndsOf(g, i) = {}
  BY <1>1, <1>6, <1>7
<1>10. X \subseteq 1..Len(h) /\ X \subseteq Y /\ \A k \in Y : k = n \/ k \in X
  BY <1>3 DEF X, Y
<1>11. n \in Y <=> About(rec, {"EXTEND"}, id)
  BY <1>3 DEF Y
<1>12. \A k : k \in Renewals(g, i) <=>
               k \in Renewals(h, i) \/ (k = n /\ About(rec, {"EXTEND"}, id) /\ EndsOf(h, i) = {})
  BY <1>1, <1>4, <1>5, <1>7, <1>8, <1>9, <1>10, <1>11
<1> QED
  BY <1>6, <1>7, <1>12

\* What one more record does to a lease: nothing once it has ended; a reap leaves its
\* end where it was, any other end is at the time of the record, a renewal moves it.
LEMMA GrantMore ==
  ASSUME NEW h, NEW g, NEW rec, Extends(g, h, rec), NEW i \in 1..Len(h), NEW id, id = h[i].id
  PROVE  /\ EndsOf(h, i) # {} => EndsOf(g, i) # {} /\ GrantEnd(g, i) = GrantEnd(h, i)
         /\ EndsOf(h, i) = {} =>
              /\ About(rec, EndTypes, id) =>
                   /\ EndsOf(g, i) # {}
                   /\ GrantEnd(g, i) = IF Expiry(rec) THEN GrantEnd(h, i) ELSE rec.at
              /\ ~About(rec, EndTypes, id) => EndsOf(g, i) = {}
              /\ About(rec, {"EXTEND"}, id) => GrantEnd(g, i) = rec.deadline
              /\ ~About(rec, EndTypes, id) /\ ~About(rec, {"EXTEND"}, id) =>
                   GrantEnd(g, i) = GrantEnd(h, i)
<1> DEFINE n == Len(h) + 1
<1>1. /\ Len(h) \in Nat /\ g[n] = rec /\ \A k \in 1..Len(h) : g[k] = h[k]
      /\ ~(n \in 1..Len(h)) /\ i < n
  BY DEF Extends
<1>2. /\ EndsOf(h, i) \subseteq 1..Len(h) /\ Renewals(h, i) \subseteq 1..Len(h)
      /\ EndsOf(g, i) = IF About(rec, EndTypes, id) THEN EndsOf(h, i) \cup {n} ELSE EndsOf(h, i)
      /\ Renewals(g, i) = IF EndsOf(h, i) = {} /\ About(rec, {"EXTEND"}, id)
                          THEN Renewals(h, i) \cup {n} ELSE Renewals(h, i)
  BY EndsMore
<1>3. ASSUME NEW S, S = {i} \cup Renewals(h, i)
      PROVE  Max(S) \in 1..Len(h) /\ \A k \in S : k \in 1..Len(h)
  <2>1. S \in SUBSET (1..Len(h)) /\ S # {}
    BY <1>2, <1>3
  <2> QED
    BY <1>1, <2>1, FirstAndLast
<1>4. EndsOf(g, i) # {n} /\ EndsOf(h, i) # {} => Min(EndsOf(g, i)) = Min(EndsOf(h, i))
  <2>1. CASE EndsOf(h, i) # {}
    <3>1. Min(EndsOf(h, i) \cup {n}) = Min(EndsOf(h, i))
      BY <1>1, <1>2, <2>1, FirstStays
    <3> QED
      BY <1>2, <3>1
  <2> QED
    BY <2>1
<1>5. EndsOf(h, i) # {} => Min(EndsOf(h, i)) \in 1..Len(h)
  BY <1>1, <1>2, FirstAndLast
<1>6. ASSUME EndsOf(h, i) # {}
      PROVE  EndsOf(g, i) # {} /\ GrantEnd(g, i) = GrantEnd(h, i)
  <2>1. EndsOf(g, i) # {} /\ EndsOf(g, i) # {n} /\ Renewals(g, i) = Renewals(h, i)
    BY <1>1, <1>2, <1>6
  <2>2. g[Min(EndsOf(g, i))] = h[Min(EndsOf(h, i))]
    BY <1>1, <1>4, <1>5, <1>6, <2>1
  <2>3. g[Max({i} \cup Renewals(g, i))] = h[Max({i} \cup Renewals(h, i))]
    BY <1>1, <1>3, <2>1
  <2> QED
    BY <1>6, <2>1, <2>2, <2>3, GrantEndIs
<1>7. ASSUME EndsOf(h, i) = {}
      PROVE  GrantEnd(h, i) = h[Max({i} \cup Renewals(h, i))].deadline
  BY <1>7, GrantEndIs
<1>8. ASSUME EndsOf(h, i) = {}, About(rec, EndTypes, id)
      PROVE  EndsOf(g, i) # {} /\ GrantEnd(g, i) = IF Expiry(rec) THEN GrantEnd(h, i) ELSE rec.at
  <2>1. ~About(rec, {"EXTEND"}, id)
    BY <1>8, AboutEnd DEF EndTypes
  <2>2. EndsOf(g, i) = {n} /\ Renewals(g, i) = Renewals(h, i)
    BY <1>2, <1>8, <2>1
  <2>3. Min({n}) = n
    BY <1>1 DEF Min
  <2>4. g[Max({i} \cup Renewals(g, i))] = h[Max({i} \cup Renewals(h, i))]
    BY <1>1, <1>3, <2>2
  <2> QED
    BY <1>1, <1>7, <1>8, <2>2, <2>3, <2>4, GrantEndIs
<1>9. ASSUME EndsOf(h, i) = {}, ~About(rec, EndTypes, id)
      PROVE  EndsOf(g, i) = {} /\ GrantEnd(g, i) = g[Max({i} \cup Renewals(g, i))].deadline
  BY <1>2, <1>9, GrantEndIs
<1>10. ASSUME EndsOf(h, i) = {}, About(rec, {"EXTEND"}, id)
       PROVE  GrantEnd(g, i) = rec.deadline
  <2>1. ~About(rec, EndTypes, id)
    BY <1>10, AboutEnd DEF EndTypes
  <2>2. {i} \cup Renewals(g, i) = ({i} \cup Renewals(h, i)) \cup {n}
    BY <1>2, <1>10
  <2>3. Max({i} \cup Renewals(g, i)) = n
    <3> DEFINE S == {i} \cup Renewals(g, i)
    <3>1. S \in SUBSET (1..n) /\ S # {} /\ n \in S
      BY <1>1, <1>2, <2>2
    <3>2. Max(S) \in S /\ n <= Max(S)
      <4>1. n \in Nat
        BY <1>1
      <4> HIDE DEF S, n
      <4> QED
        BY <3>1, <4>1, FirstAndLast
    <3> QED
      BY <1>1, <3>1, <3>2
  <2> QED
    BY <1>1, <1>9, <1>10, <2>1, <2>3
<1>11. ASSUME EndsOf(h, i) = {}, ~About(rec, EndTypes, id), ~About(rec, {"EXTEND"}, id)
       PROVE  GrantEnd(g, i) = GrantEnd(h, i)
  <2>1. Renewals(g, i) = Renewals(h, i)
    BY <1>2, <1>11
  <2> QED
    BY <1>1, <1>3, <1>7, <1>9, <1>11, <2>1
<1> QED
  BY <1>6, <1>8, <1>9, <1>10, <1>11

\* A lease that was just taken runs to its deadline.
LEMMA GrantNew ==
  ASSUME NEW h, NEW g, NEW rec, Extends(g, h, rec), NEW n, n = Len(h) + 1
  PROVE  EndsOf(g, n) = {} /\ GrantEnd(g, n) = rec.deadline
<1>1. /\ Len(h) \in Nat /\ g[n] = rec /\ DOMAIN g = 1..n
  BY DEF Extends
<1>2. EndsOf(g, n) = {} /\ Renewals(g, n) = {}
  BY <1>1 DEF EndsOf, Renewals, At
<1>3. Max({n} \cup {}) = n
  BY <1>1 DEF Max
<1> QED
  BY <1>1, <1>2, <1>3, GrantEndIs

-----------------------------------------------------------------------------
(***************************************************************************)
(* The ledger: the leases in a history, and which of them are held.        *)
(***************************************************************************)
Leases(h) == {i \in DOMAIN h : h[i].type = "LEASE"}

\* The job is still held under the lease at position i.
Holds(h, jobs, i) == h[i].id \in DOMAIN jobs /\ jobs[h[i].id].lease_token = h[i].token

\* Every lease drew a token of its own; the ones that are held have not ended and
\* run to the job's deadline, the others have; and a job is held under a lease.
Ledger(h, jobs, top) ==
  /\ \A i \in Leases(h) :
       /\ h[i].token \in 1..top
       /\ IF Holds(h, jobs, i)
          THEN EndsOf(h, i) = {} /\ GrantEnd(h, i) = jobs[h[i].id].lease_deadline
          ELSE EndsOf(h, i) # {}
  /\ \A i, j \in Leases(h) : h[i].token = h[j].token => i = j
  /\ \A id \in DOMAIN jobs : jobs[id].state = "LEASED" =>
       \E i \in Leases(h) : h[i].id = id /\ h[i].token = jobs[id].lease_token

\* A record the queue may write, when top tokens are drawn.
Writable(jobs, rec, top) ==
  /\ NamesJob(rec) => rec.id \in DOMAIN jobs
  /\ rec.type = "ENQUEUE" => rec.state = "READY" /\ rec.id \notin DOMAIN jobs
  /\ rec.type = "LEASE" => jobs[rec.id].state = "READY" /\ rec.token = top + 1
  /\ rec.type = "REQUEUE" => jobs[rec.id].state # "LEASED"

\* What a record makes of the job it is about, and of the others.
Outcome(old, new, rec, id) ==
  /\ rec.type = "PURGE" => id \notin DOMAIN new
  /\ rec.type # "PURGE" /\ rec.id # id =>
       /\ id \in DOMAIN new <=> id \in DOMAIN old
       /\ id \in DOMAIN old => new[id] = old[id]
  /\ rec.type = "ENQUEUE" /\ rec.id = id =>
       id \notin DOMAIN old /\ id \in DOMAIN new /\ new[id] = FromDict(rec)
  /\ NamesJob(rec) /\ rec.id = id =>
       id \in DOMAIN old /\ id \in DOMAIN new /\ new[id] = Changed(old[id], rec)
  /\ id \in DOMAIN old => old[id] \in Job
  /\ id \in DOMAIN new => new[id] \in Job

LEMMA JobMore ==
  ASSUME NEW read \in Indexes, NEW rec \in Record, NEW top, Writable(read.jobs, rec, top), NEW id
  PROVE  Outcome(read.jobs, Apply(read, rec).jobs, rec, id)
<1> DEFINE old == read.jobs  new == Apply(read, rec).jobs
<1>1. Apply(read, rec) \in Indexes
  BY ApplyType
<1>2. /\ id \in DOMAIN old => old[id] \in Job
      /\ id \in DOMAIN new => new[id] \in Job
  BY <1>1, JobsType
<1>3. /\ rec.type = "ENQUEUE" => new = Put(old, rec.id, FromDict(rec))
      /\ rec.type = "PURGE" => DOMAIN new = {}
      /\ NamesJob(rec) /\ rec.id \in DOMAIN old => new = Put(old, rec.id, Changed(old[rec.id], rec))
  BY ApplyJobs
<1>4. NamesJob(rec) => rec.id \in DOMAIN old
  BY DEF Writable
<1>5. rec.type = "ENQUEUE" => rec.id \notin DOMAIN old
  BY DEF Writable
<1> SUFFICES Outcome(old, new, rec, id)
  OBVIOUS
<1> HIDE DEF old, new
<1>6. CASE rec.type = "PURGE"
  BY <1>2, <1>3, <1>6 DEF NamesJob, Outcome
<1>a. ASSUME NEW x, NEW v, new = Put(old, x, v)
      PROVE  /\ DOMAIN new = DOMAIN old \cup {x} /\ new[x] = v
             /\ \A y \in DOMAIN old : y # x => new[y] = old[y]
  <2>1. /\ DOMAIN Put(old, x, v) = DOMAIN old \cup {x} /\ Put(old, x, v)[x] = v
        /\ \A y \in DOMAIN old : y # x => Put(old, x, v)[y] = old[y]
    BY DEF Put
  <2> QED
    BY <1>a, <2>1
<1>7. CASE rec.type = "ENQUEUE"
  <2>1. /\ DOMAIN new = DOMAIN old \cup {rec.id} /\ new[rec.id] = FromDict(rec)
        /\ \A y \in DOMAIN old : y # rec.id => new[y] = old[y]
    BY <1>3, <1>7, <1>a
  <2> QED
    BY <1>2, <1>5, <1>7, <2>1 DEF NamesJob, Outcome
<1>8. CASE NamesJob(rec)
  <2>1. /\ DOMAIN new = DOMAIN old \cup {rec.id} /\ new[rec.id] = Changed(old[rec.id], rec)
        /\ \A y \in DOMAIN old : y # rec.id => new[y] = old[y]
    BY <1>3, <1>4, <1>8, <1>a
  <2> QED
    BY <1>2, <1>4, <1>8, <2>1 DEF NamesJob, Outcome
<1> QED
  BY <1>6, <1>7, <1>8 DEF NamesJob

LEMMA HoldsMore ==
  ASSUME NEW read \in Indexes, NEW rec \in Record, NEW top \in Nat, Writable(read.jobs, rec, top),
         NEW h, NEW g, Extends(g, h, rec), NEW i \in 1..Len(h), h[i].token \in 1..top,
         NEW id, id = h[i].id, NEW new, new = Apply(read, rec).jobs
  PROVE  /\ ~Holds(h, read.jobs, i) => ~Holds(g, new, i)
         /\ Holds(h, read.jobs, i) /\ About(rec, EndTypes, id) => ~Holds(g, new, i)
         /\ Holds(h, read.jobs, i) /\ ~About(rec, EndTypes, id) =>
              /\ Holds(g, new, i)
              /\ new[id].lease_deadline =
                   IF About(rec, {"EXTEND"}, id) THEN rec.deadline
                                                 ELSE read.jobs[id].lease_deadline
<1> DEFINE old == read.jobs  token == h[i].token
<1>1. g[i] = h[i]
  BY DEF Extends
<1>2. /\ Holds(h, old, i) <=> id \in DOMAIN old /\ old[id].lease_token = token
      /\ Holds(g, new, i) <=> id \in DOMAIN new /\ new[id].lease_token = token
  BY <1>1 DEF Holds
<1>3. token \in Nat /\ token # None /\ token # top + 1
  BY NoneAssumption
<1>4. /\ rec.type = "PURGE" => id \notin DOMAIN new
      /\ rec.type # "PURGE" /\ rec.id # id =>
           /\ id \in DOMAIN new <=> id \in DOMAIN old
           /\ id \in DOMAIN old => new[id] = old[id]
      /\ rec.type = "ENQUEUE" /\ rec.id = id =>
           id \notin DOMAIN old /\ id \in DOMAIN new /\ new[id] = FromDict(rec)
      /\ NamesJob(rec) /\ rec.id = id =>
           id \in DOMAIN old /\ id \in DOMAIN new /\ new[id] = Changed(old[id], rec)
      /\ id \in DOMAIN old => old[id] \in Job
      /\ id \in DOMAIN new => new[id] \in Job
  <2>1. Outcome(old, new, rec, id)
    BY JobMore
  <2> HIDE DEF old
  <2> QED
    BY <2>1 DEF Outcome
<1> SUFFICES
      /\ ~Holds(h, old, i) => ~Holds(g, new, i)
      /\ Holds(h, old, i) /\ About(rec, EndTypes, id) => ~Holds(g, new, i)
      /\ Holds(h, old, i) /\ ~About(rec, EndTypes, id) =>
           /\ Holds(g, new, i)
           /\ new[id].lease_deadline =
                IF About(rec, {"EXTEND"}, id) THEN rec.deadline ELSE old[id].lease_deadline
  OBVIOUS
<1> HIDE DEF old, token
<1>5. /\ About(rec, EndTypes, id) <=> rec.type \in EndTypes /\ (rec.type = "PURGE" \/ rec.id = id)
      /\ About(rec, {"EXTEND"}, id) <=> rec.type = "EXTEND" /\ rec.id = id
  BY AboutEnd
<1>6. rec.type \in RecordTypes
  BY RecordFacts
<1>7. ASSUME id \in DOMAIN old, old[id].lease_token = token PROVE old[id].state = "LEASED"
  BY <1>3, <1>4, <1>7 DEF Job, HeldWhenLeased
<1>8. CASE rec.type = "PURGE"
  BY <1>2, <1>4, <1>5, <1>8 DEF EndTypes
<1>9. CASE rec.type # "PURGE" /\ rec.id # id
  BY <1>2, <1>4, <1>5, <1>9
<1>10. CASE rec.type = "ENQUEUE" /\ rec.id = id
  <2>1. new[id].state = "READY"
    BY <1>4, <1>10 DEF Writable, FromDict
  <2>2. new[id].lease_token = None
    BY <1>4, <1>10, <2>1 DEF Job, HeldWhenLeased
  <2> QED
    BY <1>2, <1>3, <1>4, <1>10, <2>2
<1>11. CASE NamesJob(rec) /\ rec.id = id
  <2>1. id \in DOMAIN old /\ id \in DOMAIN new /\ new[id] = Changed(old[id], rec) /\ old[id] \in Job
    BY <1>4, <1>11
  <2>2. /\ rec.type = "LEASE" => new[id].lease_token = rec.token
        /\ rec.type = "EXTEND" /\ old[id].state = "LEASED" =>
             new[id].lease_token = old[id].lease_token /\ new[id].lease_deadline = rec.deadline
        /\ rec.type = "EXTEND" /\ old[id].state # "LEASED" => new[id] = old[id]
        /\ rec.type \notin {"LEASE", "EXTEND"} => new[id].lease_token = None
    BY <1>6, <1>11, <2>1, ChangedFields DEF Has, NamesJob, RecordTypes
  <2>3. /\ rec.type = "LEASE" => rec.token = top + 1 /\ old[id].state = "READY"
        /\ rec.type = "REQUEUE" => old[id].state # "LEASED"
    BY <1>11 DEF Writable, old
  <2>4. rec.type \in EndTypes \cup {"LEASE", "EXTEND", "REQUEUE"}
    BY <1>6, <1>11 DEF NamesJob, RecordTypes, EndTypes
  <2>5. CASE rec.type = "LEASE"
    BY <1>2, <1>3, <1>5, <1>7, <1>11, <2>1, <2>2, <2>3, <2>5 DEF EndTypes
  <2>6. CASE rec.type = "EXTEND"
    BY <1>2, <1>3, <1>5, <1>7, <1>11, <2>1, <2>2, <2>6 DEF EndTypes
  <2>7. CASE rec.type = "REQUEUE"
    BY <1>2, <1>3, <1>5, <1>7, <1>11, <2>1, <2>2, <2>3, <2>7 DEF EndTypes
  <2>8. CASE rec.type \in EndTypes
    BY <1>2, <1>3, <1>5, <1>11, <2>1, <2>2, <2>8 DEF EndTypes
  <2> QED
    BY <2>4, <2>5, <2>6, <2>7, <2>8
<1> QED
  BY <1>6, <1>8, <1>9, <1>10, <1>11 DEF NamesJob, old

LEMMA JustLeased ==
  ASSUME NEW read \in Indexes, NEW rec \in Record, NEW top, Writable(read.jobs, rec, top),
         rec.type = "LEASE", NEW new, new = Apply(read, rec).jobs
  PROVE  /\ rec.id \in DOMAIN new
         /\ new[rec.id].lease_token = rec.token /\ new[rec.id].lease_deadline = rec.deadline
<1>1. NamesJob(rec)
  BY DEF NamesJob
<1>2. /\ rec.id \in DOMAIN read.jobs /\ read.jobs[rec.id] \in Job
      /\ rec.id \in DOMAIN new /\ new[rec.id] = Changed(read.jobs[rec.id], rec)
  <2>1. Outcome(read.jobs, new, rec, rec.id)
    BY JobMore
  <2> QED
    BY <1>1, <2>1 DEF Outcome
<1> QED
  BY <1>1, <1>2, ChangedFields DEF Has

LEMMA LedgerMore ==
  ASSUME NEW read \in Indexes, NEW rec \in Record, NEW top \in Nat, Writable(read.jobs, rec, top),
         NEW h, NEW g, Extends(g, h, rec), Ledger(h, read.jobs, top),
         NEW new, new = Apply(read, rec).jobs,
         NEW drawn, drawn = IF rec.type = "LEASE" THEN top + 1 ELSE top
  PROVE  Ledger(g, new, drawn)
<1> DEFINE n == Len(h) + 1  old == read.jobs
<1>1. /\ Len(h) \in Nat /\ DOMAIN h = 1..Len(h) /\ DOMAIN g = 1..n /\ g[n] = rec
      /\ \A i \in 1..Len(h) : g[i] = h[i]
  BY DEF Extends
<1>2. /\ \A i \in Leases(h) : i \in Leases(g) /\ i \in 1..Len(h) /\ g[i] = h[i]
      /\ \A i \in Leases(g) : i \in Leases(h) \/ (i = n /\ rec.type = "LEASE")
      /\ rec.type = "LEASE" => n \in Leases(g)
  BY <1>1 DEF Leases
<1>3. drawn \in Nat /\ top <= drawn /\ (rec.type = "LEASE" => rec.token = drawn /\ drawn = top + 1)
  BY DEF Writable
<1>4. \A i \in Leases(h) : h[i].token \in 1..top
  BY DEF Ledger
<1>5. rec.type = "LEASE" =>
        /\ rec.id \in DOMAIN new
        /\ new[rec.id].lease_token = rec.token /\ new[rec.id].lease_deadline = rec.deadline
  BY JustLeased
<1>6. ASSUME NEW i \in Leases(g)
      PROVE  /\ g[i].token \in 1..drawn
             /\ IF Holds(g, new, i)
                THEN EndsOf(g, i) = {} /\ GrantEnd(g, i) = new[g[i].id].lease_deadline
                ELSE EndsOf(g, i) # {}
  <2>1. CASE i \in Leases(h)
    <3> DEFINE id == h[i].id
    <3>1. i \in 1..Len(h) /\ g[i] = h[i] /\ h[i].token \in 1..top
      BY <1>2, <1>4, <2>1
    <3>2. IF Holds(h, old, i)
          THEN EndsOf(h, i) = {} /\ GrantEnd(h, i) = old[id].lease_deadline
          ELSE EndsOf(h, i) # {}
      BY <2>1 DEF Ledger
    <3>3. /\ ~Holds(h, old, i) => ~Holds(g, new, i)
          /\ Holds(h, old, i) /\ About(rec, EndTypes, id) => ~Holds(g, new, i)
          /\ Holds(h, old, i) /\ ~About(rec, EndTypes, id) =>
               /\ Holds(g, new, i)
               /\ new[id].lease_deadline =
                    IF About(rec, {"EXTEND"}, id) THEN rec.deadline ELSE old[id].lease_deadline
      BY <3>1, HoldsMore
    <3>4. /\ EndsOf(h, i) # {} => EndsOf(g, i) # {}
          /\ EndsOf(h, i) = {} =>
               /\ About(rec, EndTypes, id) => EndsOf(g, i) # {}
               /\ ~About(rec, EndTypes, id) => EndsOf(g, i) = {}
               /\ About(rec, {"EXTEND"}, id) => GrantEnd(g, i) = rec.deadline
               /\ ~About(rec, EndTypes, id) /\ ~About(rec, {"EXTEND"}, id) =>
                    GrantEnd(g, i) = GrantEnd(h, i)
      BY <3>1, GrantMore
    <3>5. g[i].token \in 1..drawn /\ g[i].id = id
      BY <1>3, <3>1
    <3> HIDE DEF id, old
    <3>6. CASE ~Holds(h, old, i)
      BY <3>2, <3>3, <3>4, <3>5, <3>6
    <3>7. CASE Holds(h, old, i) /\ About(rec, EndTypes, id)
      BY <3>2, <3>3, <3>4, <3>5, <3>7
    <3>8. CASE Holds(h, old, i) /\ ~About(rec, EndTypes, id)
      BY <3>2, <3>3, <3>4, <3>5, <3>8
    <3> QED
      BY <3>6, <3>7, <3>8
  <2>2. CASE i = n /\ rec.type = "LEASE"
    <3>1. EndsOf(g, n) = {} /\ GrantEnd(g, n) = rec.deadline
      BY GrantNew
    <3>2. Holds(g, new, n)
      BY <1>1, <1>5, <2>2 DEF Holds
    <3> QED
      BY <1>1, <1>3, <1>5, <2>2, <3>1, <3>2
  <2> QED
    BY <1>2, <2>1, <2>2
<1>7. ASSUME NEW i \in Leases(g), NEW j \in Leases(g), g[i].token = g[j].token PROVE i = j
  <2>1. \A a, b \in Leases(h) : h[a].token = h[b].token => a = b
    BY DEF Ledger
  <2>2. \A a \in Leases(h) : h[a].token # top + 1 /\ g[a] = h[a]
    BY <1>2, <1>4
  <2> QED
    BY <1>1, <1>2, <1>3, <1>7, <2>1, <2>2
<1>8. ASSUME NEW id \in DOMAIN new, new[id].state = "LEASED"
      PROVE  \E i \in Leases(g) : g[i].id = id /\ g[i].token = new[id].lease_token
  <2>1. /\ rec.type = "PURGE" => id \notin DOMAIN new
        /\ rec.type # "PURGE" /\ rec.id # id =>
             /\ id \in DOMAIN new <=> id \in DOMAIN old
             /\ id \in DOMAIN old => new[id] = old[id]
        /\ rec.type = "ENQUEUE" /\ rec.id = id =>
             id \notin DOMAIN old /\ id \in DOMAIN new /\ new[id] = FromDict(rec)
        /\ NamesJob(rec) /\ rec.id = id =>
             id \in DOMAIN old /\ id \in DOMAIN new /\ new[id] = Changed(old[id], rec)
        /\ id \in DOMAIN old => old[id] \in Job
    <3>1. Outcome(old, new, rec, id)
      BY JobMore
    <3> HIDE DEF old
    <3> QED
      BY <3>1 DEF Outcome
  <2>2. \A k \in DOMAIN old : old[k].state = "LEASED" =>
          \E i \in Leases(h) : h[i].id = k /\ h[i].token = old[k].lease_token
    BY DEF Ledger
  <2> HIDE DEF old
  <2>3. CASE rec.id # id
    <3>1. id \in DOMAIN old /\ new[id] = old[id]
      BY <1>8, <2>1, <2>3
    <3>2. PICK i \in Leases(h) : h[i].id = id /\ h[i].token = old[id].lease_token
      BY <1>8, <2>2, <3>1
    <3> QED
      BY <1>2, <3>1, <3>2
  <2>4. CASE rec.id = id /\ rec.type = "LEASE"
    BY <1>1, <1>2, <1>5, <2>4
  <2>5. CASE rec.id = id /\ rec.type = "ENQUEUE"
    <3>1. new[id].state = "READY"
      BY <2>1, <2>5 DEF Writable, FromDict
    <3> QED
      BY <1>8, <3>1
  <2>6. CASE rec.id = id /\ NamesJob(rec) /\ rec.type # "LEASE"
    <3>1. id \in DOMAIN old /\ new[id] = Changed(old[id], rec) /\ old[id] \in Job
      BY <2>1, <2>6
    <3>2. rec.type \in RecordTypes
      BY RecordFacts
    <3>3. /\ rec.type = "EXTEND" /\ old[id].state = "LEASED" =>
               new[id].lease_token = old[id].lease_token
          /\ rec.type = "EXTEND" /\ old[id].state # "LEASED" => new[id] = old[id]
          /\ rec.type # "EXTEND" => new[id].state # "LEASED"
      BY <2>6, <3>1, <3>2, ChangedFields DEF Has, NamesJob, RecordTypes
    <3>4. old[id].state = "LEASED" /\ new[id].lease_token = old[id].lease_token
      BY <1>8, <3>3
    <3>5. PICK i \in Leases(h) : h[i].id = id /\ h[i].token = old[id].lease_token
      BY <2>2, <3>1, <3>4
    <3> QED
      BY <1>2, <3>4, <3>5
  <2> QED
    BY <1>8, <2>1, <2>3, <2>4, <2>5, <2>6 DEF NamesJob
<1> QED
  BY <1>6, <1>7, <1>8 DEF Ledger

LEMMA LedgerLater ==
  ASSUME NEW h, NEW jobs, NEW top \in Nat, NEW drawn \in Nat, top <= drawn, Ledger(h, jobs, top)
  PROVE  Ledger(h, jobs, drawn)
<1>1. \A i \in Leases(h) : h[i].token \in 1..drawn
  BY DEF Ledger
<1> QED
  BY <1>1 DEF Ledger

(***************************************************************************)
(* How a history goes on from h to g, in a reap or in an operation at time *)
(* now: a lease that is over stays as it is, one that ends in a reap keeps *)
(* its end, one that ends in the operation ends now, and one that begins   *)
(* does so now, under a token nobody had, and is held.                     *)
(***************************************************************************)
Onward(h, jobs, g, new, top, reaped) ==
  /\ \A i \in Leases(h) :
       /\ i \in Leases(g) /\ g[i] = h[i]
       /\ ~Holds(h, jobs, i) => ~Holds(g, new, i)
       /\ reaped \/ ~Holds(h, jobs, i) => GrantEnd(g, i) = GrantEnd(h, i)
       /\ ~reaped /\ Holds(h, jobs, i) /\ ~Holds(g, new, i) => GrantEnd(g, i) = now
  /\ \A i \in Leases(g) \ Leases(h) :
       /\ ~reaped /\ Holds(g, new, i)
       /\ g[i].at = now /\ g[i].token \notin 1..top

\* A reap writes expiries, an operation none, and it writes at the present time.
Timely(rec, reaped) ==
  IF reaped THEN Expiry(rec)
  ELSE ~Expiry(rec) /\ (rec.type \in EndTypes \cup {"LEASE"} => rec.at = now)

LEMMA OnwardNone ==
  ASSUME NEW h, NEW jobs, NEW top, NEW reaped
  PROVE  Onward(h, jobs, h, jobs, top, reaped)
BY DEF Onward

LEMMA OnwardMore ==
  ASSUME NEW h, NEW jobs, NEW top \in Nat, NEW reaped \in BOOLEAN,
         NEW g, NEW read \in Indexes, Onward(h, jobs, g, read.jobs, top, reaped),
         NEW drawn \in Nat, top <= drawn, Ledger(g, read.jobs, drawn),
         NEW rec \in Record, Writable(read.jobs, rec, drawn), Timely(rec, reaped),
         Leases(g) \subseteq Leases(h) \/ rec.type \in {"ENQUEUE", "LEASE", "REQUEUE"},
         NEW f, Extends(f, g, rec), NEW new, new = Apply(read, rec).jobs
  PROVE  Onward(h, jobs, f, new, top, reaped)
<1> DEFINE n == Len(g) + 1  old == read.jobs
<1>1. /\ Len(g) \in Nat /\ DOMAIN g = 1..Len(g) /\ DOMAIN f = 1..n /\ f[n] = rec
      /\ \A i \in 1..Len(g) : f[i] = g[i]
  BY DEF Extends
<1>2. /\ \A i \in Leases(g) : i \in Leases(f) /\ i \in 1..Len(g) /\ f[i] = g[i]
      /\ \A i \in Leases(f) : i \in Leases(g) \/ (i = n /\ rec.type = "LEASE")
  BY <1>1 DEF Leases
<1>3. ASSUME NEW i \in Leases(g), NEW id, id = g[i].id
      PROVE  /\ IF Holds(g, old, i) THEN EndsOf(g, i) = {} ELSE EndsOf(g, i) # {}
             /\ ~Holds(g, old, i) => ~Holds(f, new, i)
             /\ Holds(g, old, i) => (About(rec, EndTypes, id) <=> ~Holds(f, new, i))
             /\ EndsOf(g, i) # {} => GrantEnd(f, i) = GrantEnd(g, i)
             /\ EndsOf(g, i) = {} =>
                  /\ About(rec, EndTypes, id) =>
                       GrantEnd(f, i) = IF Expiry(rec) THEN GrantEnd(g, i) ELSE rec.at
                  /\ ~About(rec, EndTypes, id) /\ ~About(rec, {"EXTEND"}, id) =>
                       GrantEnd(f, i) = GrantEnd(g, i)
  <2>1. i \in 1..Len(g) /\ g[i].token \in 1..drawn
    BY <1>2 DEF Ledger
  <2>2. /\ ~Holds(g, old, i) => ~Holds(f, new, i)
        /\ Holds(g, old, i) /\ About(rec, EndTypes, id) => ~Holds(f, new, i)
        /\ Holds(g, old, i) /\ ~About(rec, EndTypes, id) => Holds(f, new, i)
    BY <1>3, <2>1, HoldsMore
  <2>3. /\ EndsOf(g, i) # {} => GrantEnd(f, i) = GrantEnd(g, i)
        /\ EndsOf(g, i) = {} =>
             /\ About(rec, EndTypes, id) =>
                  GrantEnd(f, i) = IF Expiry(rec) THEN GrantEnd(g, i) ELSE rec.at
             /\ ~About(rec, EndTypes, id) /\ ~About(rec, {"EXTEND"}, id) =>
                  GrantEnd(f, i) = GrantEnd(g, i)
    BY <1>3, <2>1, GrantMore
  <2>4. IF Holds(g, old, i) THEN EndsOf(g, i) = {} ELSE EndsOf(g, i) # {}
    BY DEF Ledger
  <2> QED
    BY <2>2, <2>3, <2>4
<1>4. /\ reaped => Expiry(rec)
      /\ ~reaped => ~Expiry(rec) /\ (rec.type \in EndTypes \cup {"LEASE"} => rec.at = now)
  BY DEF Timely
<1>5. ASSUME NEW id
      PROVE  /\ About(rec, EndTypes, id) => rec.type \in EndTypes
             /\ Expiry(rec) => rec.type \in EndTypes /\ ~About(rec, {"EXTEND"}, id)
  BY AboutEnd DEF Expiry, EndTypes
<1>6. ASSUME NEW i \in Leases(h)
      PROVE  /\ i \in Leases(f) /\ f[i] = h[i]
             /\ ~Holds(h, jobs, i) => ~Holds(f, new, i)
             /\ reaped \/ ~Holds(h, jobs, i) => GrantEnd(f, i) = GrantEnd(h, i)
             /\ ~reaped /\ Holds(h, jobs, i) /\ ~Holds(f, new, i) => GrantEnd(f, i) = now
  <2>1. /\ i \in Leases(g) /\ g[i] = h[i]
        /\ ~Holds(h, jobs, i) => ~Holds(g, old, i)
        /\ reaped \/ ~Holds(h, jobs, i) => GrantEnd(g, i) = GrantEnd(h, i)
        /\ ~reaped /\ Holds(h, jobs, i) /\ ~Holds(g, old, i) => GrantEnd(g, i) = now
    BY DEF Onward
  <2> HIDE DEF old
  <2>2. i \in Leases(f) /\ f[i] = h[i]
    BY <1>2, <2>1
  <2>3. CASE ~Holds(g, old, i)
    BY <1>3, <2>1, <2>2, <2>3
  <2>4. CASE Holds(g, old, i) /\ reaped
    <3>1. GrantEnd(f, i) = GrantEnd(g, i)
      BY <1>3, <1>4, <1>5, <2>1, <2>4
    <3> QED
      BY <2>1, <2>2, <2>4, <3>1
  <2>5. CASE Holds(g, old, i) /\ ~reaped
    <3>1. ~Holds(f, new, i) => GrantEnd(f, i) = now
      BY <1>3, <1>4, <1>5, <2>1, <2>5
    <3> QED
      BY <2>1, <2>2, <2>5, <3>1
  <2> QED
    BY <2>3, <2>4, <2>5
<1>7. ASSUME NEW i \in Leases(f) \ Leases(h)
      PROVE  /\ ~reaped /\ Holds(f, new, i)
             /\ f[i].at = now /\ f[i].token \notin 1..top
  <2>1. CASE i \in Leases(g)
    <3>1. /\ ~reaped /\ Holds(g, old, i)
          /\ g[i].at = now /\ g[i].token \notin 1..top
      BY <1>7, <2>1 DEF Onward
    <3>2. rec.type \notin EndTypes
      BY <1>7, <2>1 DEF EndTypes
    <3> HIDE DEF old
    <3>3. Holds(f, new, i)
      BY <1>3, <1>5, <2>1, <3>1, <3>2
    <3> QED
      BY <1>2, <2>1, <3>1, <3>3
  <2>2. CASE i = n /\ rec.type = "LEASE"
    <3>1. ~reaped /\ rec.at = now
      BY <1>4, <1>5, <2>2 DEF EndTypes
    <3>2. rec.id \in DOMAIN new /\ new[rec.id].lease_token = rec.token
      BY <2>2, JustLeased
    <3>3. rec.token = drawn + 1
      BY <2>2 DEF Writable
    <3>4. rec.token \notin 1..top
      BY <3>3
    <3> QED
      BY <1>1, <2>2, <3>1, <3>2, <3>4 DEF Holds
  <2> QED
    BY <1>2, <1>7, <2>1, <2>2
<1> QED
  BY <1>6, <1>7 DEF Onward

\* The tokens drawn when n records of a batch are written.
Drawn(recs, top, n) ==
  IF \E k \in 1..Len(recs) : recs[k].type = "LEASE" THEN top + n ELSE top

\* A batch the queue may write, record by record.
Written(read, recs, top, reaped) ==
  /\ \A n \in 0..Len(recs) - 1 :
       /\ Writable(After(read, recs, n).jobs, recs[n + 1], Drawn(recs, top, n))
       /\ Timely(recs[n + 1], reaped)
  /\ \A j, k \in 1..Len(recs) : recs[j].type = "LEASE" => recs[k].type = "LEASE"
  /\ \/ reaped \/ Len(recs) <= 1
     \/ \A k \in 1..Len(recs) : recs[k].type \in {"ENQUEUE", "LEASE", "REQUEUE"}

LEMMA BatchOnward ==
  ASSUME NEW read \in Indexes, NEW recs \in Seq(Record), NEW top \in Nat, NEW reaped \in BOOLEAN,
         Written(read, recs, top, reaped), NEW h \in Seq(Record), Ledger(h, read.jobs, top)
  PROVE  \A n \in 0..Len(recs) : LET g == h \o SubSeq(recs, 1, n)  new == After(read, recs, n).jobs IN
           Ledger(g, new, Drawn(recs, top, n)) /\ Onward(h, read.jobs, g, new, top, reaped)
<1> DEFINE G(n) == h \o SubSeq(recs, 1, n)  R(n) == After(read, recs, n)  top_(n) == Drawn(recs, top, n)
           T == {n \in 0..Len(recs) : Ledger(G(n), R(n).jobs, top_(n)) /\
                                      Onward(h, read.jobs, G(n), R(n).jobs, top, reaped)}
<1>1. /\ Len(recs) \in Nat /\ R(0) = read
      /\ \A n \in 0..Len(recs) : R(n) \in Indexes
      /\ \A n \in 0..Len(recs) - 1 : /\ R(n + 1) = Apply(R(n), recs[n + 1])
                                     /\ recs[n + 1] \in Record /\ n \in 0..Len(recs)
                                     /\ n + 1 \in 1..Len(recs)
  BY AfterFacts
<1>2. G(0) = h
  <2>1. SubSeq(recs, 1, 0) = <<>>
    BY PrefixFacts, Zenon
  <2> QED
    BY <2>1, ConcatEmptySeq
<1>3. \A n \in 0..Len(recs) - 1 : Extends(G(n + 1), G(n), recs[n + 1])
  BY ConcatExtends
<1>4. /\ \A n \in 0..Len(recs) - 1 :
           /\ Writable(R(n).jobs, recs[n + 1], top_(n))
           /\ Timely(recs[n + 1], reaped)
      /\ \A j, k \in 1..Len(recs) : recs[j].type = "LEASE" => recs[k].type = "LEASE"
      /\ \/ reaped \/ Len(recs) <= 1
         \/ \A k \in 1..Len(recs) : recs[k].type \in {"ENQUEUE", "LEASE", "REQUEUE"}
  BY DEF Written
<1>5. /\ top_(0) = top
      /\ \A n \in 0..Len(recs) : top_(n) \in Nat /\ top <= top_(n)
  BY <1>1 DEF Drawn
<1>6. \A n \in 0..Len(recs) - 1 :
        top_(n + 1) = IF recs[n + 1].type = "LEASE" THEN top_(n) + 1 ELSE top_(n)
  <2> SUFFICES ASSUME NEW n \in 0..Len(recs) - 1
               PROVE  top_(n + 1) = IF recs[n + 1].type = "LEASE" THEN top_(n) + 1 ELSE top_(n)
    OBVIOUS
  <2> DEFINE some == \E k \in 1..Len(recs) : recs[k].type = "LEASE"
  <2>1. recs[n + 1].type = "LEASE" <=> some
    BY <1>1, <1>4
  <2>2. top_(n + 1) = (IF some THEN top + (n + 1) ELSE top) /\ top_(n) = (IF some THEN top + n ELSE top)
    BY DEF Drawn
  <2> HIDE DEF some, top_
  <2>3. n \in Nat
    BY <1>1
  <2> QED
    BY <2>1, <2>2, <2>3
<1>7. 0 \in T
  <2>1. Onward(h, read.jobs, h, read.jobs, top, reaped)
    BY OnwardNone
  <2> HIDE DEF G, R, top_
  <2> QED
    BY <1>1, <1>2, <1>5, <2>1
<1> HIDE DEF G, R, top_
<1>8. ASSUME NEW n \in 0..(Len(recs) - 1), n \in T PROVE n + 1 \in T
  <2> DEFINE g == G(n)  f == G(n + 1)  rec == recs[n + 1]  at == R(n)  new == R(n + 1)
             t == top_(n)  u == top_(n + 1)
  <2>1. /\ at \in Indexes /\ rec \in Record /\ new = Apply(at, rec) /\ Extends(f, g, rec)
        /\ t \in Nat /\ top <= t /\ u = IF rec.type = "LEASE" THEN t + 1 ELSE t
        /\ Writable(at.jobs, rec, t) /\ Timely(rec, reaped)
        /\ Ledger(g, at.jobs, t) /\ Onward(h, read.jobs, g, at.jobs, top, reaped)
        /\ n + 1 \in 0..Len(recs)
    BY <1>1, <1>3, <1>4, <1>5, <1>6, <1>8
  <2>2. Leases(g) \subseteq Leases(h) \/ rec.type \in {"ENQUEUE", "LEASE", "REQUEUE"}
    <3>1. reaped => Leases(g) \subseteq Leases(h)
      BY <2>1 DEF Onward
    <3>2. Len(recs) <= 1 => g = h
      BY <1>1, <1>2
    <3>3. Len(recs) <= 1 => Leases(g) \subseteq Leases(h)
      BY <3>2
    <3> QED
      BY <1>1, <1>4, <3>1, <3>3
  <2> HIDE DEF g, f, rec, at, new, t, u
  <2>3. Ledger(f, new.jobs, u)
    BY <2>1, LedgerMore
  <2>4. Onward(h, read.jobs, f, new.jobs, top, reaped)
    BY <2>1, <2>2, OnwardMore
  <2> QED
    BY <2>1, <2>3, <2>4 DEF f, new, u
<1>9. 0..Len(recs) \subseteq T
  <2> HIDE DEF T
  <2> QED
    BY <1>1, <1>7, <1>8, UpToInduction
<1> QED
  BY <1>9 DEF G, R, top_

-----------------------------------------------------------------------------
(***************************************************************************)
(* One job of the contract, and its moves.                                 *)
(***************************************************************************)
Delivered(state, attempts, limit, available, deadline, token) ==
  [state |-> state, attempts |-> attempts, limit |-> limit, available |-> available,
   deadline |-> deadline, token |-> token]

Nobodys == Delivered("absent", 0, 0, 0, 0, None)

\* A job of the log as the contract sees it.
Seen(job) ==
  Delivered(Lowercase[job.state], job.attempts, job.max_attempts, job.available_at,
            IF job.state = "LEASED" THEN job.lease_deadline ELSE 0, job.lease_token)

SeenIn(jobs, id) == IF id \in DOMAIN jobs THEN Seen(jobs[id]) ELSE Nobodys

LEMMA DeliveryJobsIs ==
  ASSUME NEW jobs PROVE DeliveryJobs(jobs) = [id \in JobId |-> SeenIn(jobs, id)]
BY DEF DeliveryJobs, SeenIn, Seen, Delivered, Nobodys

LEMMA LowercaseIs ==
  /\ Lowercase["READY"] = "ready" /\ Lowercase["LEASED"] = "leased"
  /\ Lowercase["DONE"] = "done" /\ Lowercase["DEAD"] = "dead"
BY DEF Lowercase, States

LEMMA DeliveredFields ==
  ASSUME NEW s, NEW a, NEW l, NEW v, NEW d, NEW t, NEW j, j = Delivered(s, a, l, v, d, t)
  PROVE  /\ j.state = s /\ j.attempts = a /\ j.limit = l /\ j.available = v
         /\ j.deadline = d /\ j.token = t
BY DEF Delivered

\* What the contract's operators make of a job.
Obeys(j, s, a, l, v, d, t) ==
  /\ D!Absent = Nobodys
  /\ \A x : D!Released(j, x) = Delivered(x, a, l, v, 0, None)
  /\ \A w : D!Retried(j, w) = Delivered("ready", a, l, now + w, 0, None)
  /\ \A w, u : D!Leased(j, w, u) = Delivered("leased", a + 1, l, v, now + w, u)
  /\ \A w : [j EXCEPT !.deadline = @ + w] = Delivered(s, a, l, v, d + w, t)
  /\ D!Revived(j) = Delivered("ready", 0, l, now + 0, 0, None)

LEMMA ContractMoves ==
  ASSUME NEW s, NEW a, NEW l, NEW v, NEW d, NEW t, NEW j, j = Delivered(s, a, l, v, d, t)
  PROVE  Obeys(j, s, a, l, v, d, t)
<1>1. D!Absent = Nobodys
  BY DEF D!Absent, Nobodys, Delivered
<1>2. ASSUME NEW x PROVE D!Released(j, x) = Delivered(x, a, l, v, 0, None)
  <2>0. [j EXCEPT !.state = x] = [Delivered(s, a, l, v, d, t) EXCEPT !.state = x]
    OBVIOUS
  <2>1. [j EXCEPT !.state = x] = Delivered(x, a, l, v, d, t)
    BY <2>0 DEF Delivered
  <2>2. [Delivered(x, a, l, v, d, t) EXCEPT !.deadline = 0] = Delivered(x, a, l, v, 0, t)
    BY DEF Delivered
  <2>3. [Delivered(x, a, l, v, 0, t) EXCEPT !.token = None] = Delivered(x, a, l, v, 0, None)
    BY DEF Delivered
  <2> QED
    BY <2>1, <2>2, <2>3, Zenon DEF D!Released
<1>3. ASSUME NEW w PROVE D!Retried(j, w) = Delivered("ready", a, l, now + w, 0, None)
  <2>1. D!Released(j, "ready") = Delivered("ready", a, l, v, 0, None)
    BY <1>2
  <2>2. [Delivered("ready", a, l, v, 0, None) EXCEPT !.available = now + w] =
          Delivered("ready", a, l, now + w, 0, None)
    BY DEF Delivered
  <2> QED
    BY <2>1, <2>2, Zenon DEF D!Retried
<1>4. ASSUME NEW w, NEW u
      PROVE  D!Leased(j, w, u) = Delivered("leased", a + 1, l, v, now + w, u)
  <2>0. [j EXCEPT !.state = "leased"] = [Delivered(s, a, l, v, d, t) EXCEPT !.state = "leased"]
    OBVIOUS
  <2>1. [j EXCEPT !.state = "leased"] = Delivered("leased", a, l, v, d, t)
    BY <2>0 DEF Delivered
  <2>2. [Delivered("leased", a, l, v, d, t) EXCEPT !.attempts = j.attempts + 1] =
          Delivered("leased", a + 1, l, v, d, t)
    BY DEF Delivered
  <2>3. [Delivered("leased", a + 1, l, v, d, t) EXCEPT !.deadline = now + w] =
          Delivered("leased", a + 1, l, v, now + w, t)
    BY DEF Delivered
  <2>4. [Delivered("leased", a + 1, l, v, now + w, t) EXCEPT !.token = u] =
          Delivered("leased", a + 1, l, v, now + w, u)
    BY DEF Delivered
  <2> QED
    BY <2>1, <2>2, <2>3, <2>4, Zenon DEF D!Leased
<1>5. ASSUME NEW w PROVE [j EXCEPT !.deadline = @ + w] = Delivered(s, a, l, v, d + w, t)
  BY DEF Delivered
<1>6. D!Revived(j) = Delivered("ready", 0, l, now + 0, 0, None)
  <2>1. D!Retried(j, 0) = Delivered("ready", a, l, now + 0, 0, None)
    BY <1>3
  <2>2. [Delivered("ready", a, l, now + 0, 0, None) EXCEPT !.attempts = 0] =
          Delivered("ready", 0, l, now + 0, 0, None)
    BY DEF Delivered
  <2> QED
    BY <2>1, <2>2, Zenon DEF D!Revived
<1> QED
  BY <1>1, <1>2, <1>3, <1>4, <1>5, <1>6, Zenon DEF Obeys

LEMMA SeenFields ==
  ASSUME NEW job \in Job
  PROVE  LET j == Seen(job) IN
         /\ j = Delivered(j.state, job.attempts, job.max_attempts, job.available_at, j.deadline,
                          job.lease_token)
         /\ j.state = Lowercase[job.state] /\ j.attempts = job.attempts
         /\ j.limit = job.max_attempts /\ j.available = job.available_at
         /\ j.token = job.lease_token
         /\ job.state = "LEASED" => j.deadline = job.lease_deadline /\ j.deadline \in Nat
         /\ job.state # "LEASED" => j.deadline = 0 /\ j.token = None
         /\ j.state = "ready" <=> job.state = "READY"
         /\ j.state = "leased" <=> job.state = "LEASED"
         /\ j.state = "done" <=> job.state = "DONE"
         /\ j.state = "dead" <=> job.state = "DEAD"
         /\ j.state # "absent"
<1> DEFINE j == Seen(job)  d == IF job.state = "LEASED" THEN job.lease_deadline ELSE 0
<1>1. /\ j.state = Lowercase[job.state] /\ j.attempts = job.attempts
      /\ j.limit = job.max_attempts /\ j.available = job.available_at
      /\ j.deadline = d /\ j.token = job.lease_token
  BY DEF Seen, Delivered
<1>2. j = Delivered(j.state, job.attempts, job.max_attempts, job.available_at, j.deadline,
                    job.lease_token)
  BY <1>1 DEF Seen
<1>3. job.state \in States /\ HeldWhenLeased(job) /\ job.lease_deadline \in Nat \cup {None}
  BY DEF Job
<1> HIDE DEF j
<1>4. /\ job.state = "LEASED" => j.deadline = job.lease_deadline /\ j.deadline \in Nat
      /\ job.state # "LEASED" => j.deadline = 0 /\ j.token = None
  BY <1>1, <1>3 DEF HeldWhenLeased
<1>5. /\ j.state = "ready" <=> job.state = "READY"
      /\ j.state = "leased" <=> job.state = "LEASED"
      /\ j.state = "done" <=> job.state = "DONE"
      /\ j.state = "dead" <=> job.state = "DEAD"
      /\ j.state # "absent"
  BY <1>1, <1>3, LowercaseIs DEF States
<1> QED
  BY <1>1, <1>2, <1>4, <1>5 DEF j

LEMMA SeenChanged ==
  ASSUME NEW job \in Job, NEW rec \in Record, NamesJob(rec), NEW a, a = job.attempts,
         NEW l, l = job.max_attempts, NEW v, v = job.available_at
  PROVE  LET j == Seen(Changed(job, rec)) IN
         /\ rec.type = "LEASE" => j = Delivered("leased", rec.attempts, l, v, rec.deadline, rec.token)
         /\ rec.type = "EXTEND" /\ job.state = "LEASED" =>
              j = Delivered("leased", a, l, v, rec.deadline, job.lease_token)
         /\ rec.type = "EXTEND" /\ job.state # "LEASED" => j = Seen(job)
         /\ rec.type = "ACK" => j = Delivered("done", a, l, v, 0, None)
         /\ rec.type = "NACK" => j = Delivered("ready", rec.attempts, l, rec.available_at, 0, None)
         /\ rec.type = "RECLAIM" => j = Delivered("ready", a, l, rec.available_at, 0, None)
         /\ rec.type = "DEAD" => j = Delivered("dead", a, l, v, 0, None)
         /\ rec.type = "REQUEUE" => j = Delivered("ready", 0, l, rec.available_at, 0, None)
<1> DEFINE new == Changed(job, rec)
<1>1. /\ new.max_attempts = l
      /\ rec.type = "LEASE" => Has(new, "LEASED", rec.attempts, v, rec.deadline, rec.token)
      /\ rec.type = "EXTEND" /\ job.state = "LEASED" =>
           Has(new, "LEASED", a, v, rec.deadline, job.lease_token)
      /\ rec.type = "ACK" => Has(new, "DONE", a, v, None, None)
      /\ rec.type = "NACK" => Has(new, "READY", rec.attempts, rec.available_at, None, None)
      /\ rec.type = "RECLAIM" => Has(new, "READY", a, rec.available_at, None, None)
      /\ rec.type = "DEAD" => Has(new, "DEAD", a, v, None, None)
      /\ rec.type = "REQUEUE" => Has(new, "READY", 0, rec.available_at, None, None)
      /\ rec.type = "EXTEND" /\ job.state # "LEASED" => new = job
  BY ChangedFields
<1> HIDE DEF new
<1>2. ASSUME NEW s, NEW n, NEW w, NEW d, NEW t, Has(new, s, n, w, d, t)
      PROVE  Seen(new) = Delivered(Lowercase[s], n, l, w, IF s = "LEASED" THEN d ELSE 0, t)
  BY <1>1, <1>2 DEF Has, Seen
<1>3. rec.type = "LEASE" =>
        Seen(new) = Delivered("leased", rec.attempts, l, v, rec.deadline, rec.token)
  BY <1>1, <1>2, LowercaseIs
<1>4. rec.type = "EXTEND" /\ job.state = "LEASED" =>
        Seen(new) = Delivered("leased", a, l, v, rec.deadline, job.lease_token)
  BY <1>1, <1>2, LowercaseIs
<1>5. /\ rec.type = "ACK" => Seen(new) = Delivered("done", a, l, v, 0, None)
      /\ rec.type = "DEAD" => Seen(new) = Delivered("dead", a, l, v, 0, None)
  BY <1>1, <1>2, LowercaseIs
<1>6. /\ rec.type = "NACK" => Seen(new) = Delivered("ready", rec.attempts, l, rec.available_at, 0, None)
      /\ rec.type = "RECLAIM" => Seen(new) = Delivered("ready", a, l, rec.available_at, 0, None)
      /\ rec.type = "REQUEUE" => Seen(new) = Delivered("ready", 0, l, rec.available_at, 0, None)
  BY <1>1, <1>2, LowercaseIs
<1> QED
  BY <1>1, <1>3, <1>4, <1>5, <1>6 DEF new

\* What a record makes of the job it is about, and of the others, in the contract.
SeenOutcome(old, new, rec, id) ==
  /\ rec.type = "PURGE" => SeenIn(new, id) = Nobodys
  /\ rec.type # "PURGE" /\ rec.id # id => SeenIn(new, id) = SeenIn(old, id)
  /\ rec.type = "ENQUEUE" /\ rec.id = id =>
       /\ SeenIn(old, id) = Nobodys
       /\ SeenIn(new, id) =
            Delivered("ready", rec.attempts, rec.max_attempts, rec.available_at, 0, None)
  /\ NamesJob(rec) /\ rec.id = id =>
       /\ id \in DOMAIN old /\ old[id] \in Job
       /\ SeenIn(old, id) = Seen(old[id]) /\ SeenIn(new, id) = Seen(Changed(old[id], rec))

LEMMA SeenMore ==
  ASSUME NEW read \in Indexes, NEW rec \in Record, NEW top, Writable(read.jobs, rec, top),
         NEW id, NEW old, old = read.jobs, NEW new, new = Apply(read, rec).jobs
  PROVE  SeenOutcome(old, new, rec, id)
<1>1. /\ rec.type = "PURGE" => id \notin DOMAIN new
      /\ rec.type # "PURGE" /\ rec.id # id =>
           /\ id \in DOMAIN new <=> id \in DOMAIN old
           /\ id \in DOMAIN old => new[id] = old[id]
      /\ rec.type = "ENQUEUE" /\ rec.id = id =>
           id \notin DOMAIN old /\ id \in DOMAIN new /\ new[id] = FromDict(rec)
      /\ NamesJob(rec) /\ rec.id = id =>
           id \in DOMAIN old /\ id \in DOMAIN new /\ new[id] = Changed(old[id], rec)
      /\ id \in DOMAIN old => old[id] \in Job
      /\ id \in DOMAIN new => new[id] \in Job
  <2>1. Outcome(old, new, rec, id)
    BY JobMore
  <2> QED
    BY <2>1 DEF Outcome
<1>2. ASSUME rec.type = "ENQUEUE", rec.id = id
      PROVE  Seen(FromDict(rec)) =
               Delivered("ready", rec.attempts, rec.max_attempts, rec.available_at, 0, None)
  <2>1. /\ new[id] \in Job /\ new[id].state = "READY" /\ new[id].attempts = rec.attempts
        /\ new[id].max_attempts = rec.max_attempts /\ new[id].available_at = rec.available_at
    BY <1>1, <1>2 DEF FromDict, Writable
  <2>2. new[id].lease_token = None
    BY <2>1 DEF Job, HeldWhenLeased
  <2> QED
    BY <1>1, <1>2, <2>1, <2>2, LowercaseIs DEF Seen
<1> QED
  BY <1>1, <1>2 DEF SeenIn, SeenOutcome

-----------------------------------------------------------------------------
(***************************************************************************)
(* The reap: every job the batch is about is swept, however much of the    *)
(* batch is written.                                                       *)
(***************************************************************************)
Expires(jobs, rec) ==
  /\ rec.id \in DOMAIN jobs /\ jobs[rec.id].state = "LEASED"
  /\ jobs[rec.id].lease_deadline <= now
  /\ \/ /\ rec.type = "DEAD" /\ rec.error = "expired"
        /\ jobs[rec.id].attempts >= jobs[rec.id].max_attempts
     \/ /\ rec.type = "RECLAIM" /\ jobs[rec.id].attempts < jobs[rec.id].max_attempts
        /\ \E delay \in 0..MaxDelay : rec.available_at = now + delay

LEMMA ExpiresNames ==
  ASSUME NEW jobs, NEW rec, Expires(jobs, rec)
  PROVE  NamesJob(rec) /\ Expiry(rec) /\ rec.type \in {"RECLAIM", "DEAD"}
BY DEF Expires, NamesJob, Expiry

LEMMA SweptMore ==
  ASSUME NEW first \in Job, NEW job \in Job, Seen(job) \in D!Swept(Seen(first)),
         NEW rec \in Record, NEW jobs, jobs[rec.id] = first, Expires(jobs, rec)
  PROVE  Seen(Changed(job, rec)) \in D!Swept(Seen(first))
<1> DEFINE j == Seen(first)  x == Seen(job)  y == Seen(Changed(job, rec))
           a == first.attempts  l == first.max_attempts  v == first.available_at
<1>1. /\ j = Delivered(j.state, a, l, v, j.deadline, first.lease_token)
      /\ j.state = "leased" /\ j.attempts = a /\ j.limit = l /\ j.deadline <= now
      /\ j.available = v
  BY SeenFields DEF Expires
<1>2. x.attempts = job.attempts /\ x.limit = job.max_attempts /\ x.available = job.available_at
  BY SeenFields
<1>3. /\ \A s : D!Released(j, s) = Delivered(s, a, l, v, 0, None)
      /\ \A w : D!Retried(j, w) = Delivered("ready", a, l, now + w, 0, None)
  <2>1. Obeys(j, j.state, a, l, v, j.deadline, first.lease_token)
    BY <1>1, ContractMoves
  <2> QED
    BY <2>1, Zenon DEF Obeys
<1>4. D!Reaped(j) = IF a >= l THEN {D!Released(j, "dead")}
                    ELSE {D!Retried(j, w) : w \in 0..MaxDelay \cup NackDelays \cup {b.delay : b \in Batches}}
  BY <1>1 DEF D!Reaped, D!Lapsed
<1>5. NamesJob(rec) /\ rec.type \in {"RECLAIM", "DEAD"}
  BY ExpiresNames
<1>6. /\ rec.type = "RECLAIM" => y = Delivered("ready", job.attempts, job.max_attempts, rec.available_at, 0, None)
      /\ rec.type = "DEAD" => y = Delivered("dead", job.attempts, job.max_attempts, job.available_at, 0, None)
  BY <1>5, SeenChanged
<1>7. x = j \/ x \in D!Reaped(j)
  BY DEF D!Swept
<1> HIDE DEF j, x, y
<1>8. /\ x.attempts = a /\ x.limit = l
      /\ a >= l => x.available = v
  BY <1>1, <1>3, <1>4, <1>7, DeliveredFields
<1>9. /\ rec.type = "DEAD" /\ a >= l
      \/ /\ rec.type = "RECLAIM" /\ ~(a >= l)
         /\ \E delay \in 0..MaxDelay : rec.available_at = now + delay
  <2>1. a \in Nat /\ l \in Nat
    BY DEF Job
  <2> QED
    BY <2>1 DEF Expires
<1>10. y \in D!Reaped(j)
  <2>1. CASE rec.type = "DEAD" /\ a >= l
    BY <1>2, <1>3, <1>4, <1>6, <1>8, <2>1
  <2>2. CASE rec.type = "RECLAIM" /\ ~(a >= l) /\ \E delay \in 0..MaxDelay : rec.available_at = now + delay
    <3>1. PICK delay \in 0..MaxDelay : rec.available_at = now + delay
      BY <2>2
    <3>2. y = D!Retried(j, delay)
      BY <1>2, <1>3, <1>6, <1>8, <2>2, <3>1
    <3> QED
      BY <1>4, <2>2, <3>2
  <2> QED
    BY <1>9, <2>1, <2>2
<1> QED
  BY <1>10 DEF D!Swept, j, y

LEMMA ReapWritten ==
  ASSUME NEW read \in Indexes, NEW recs \in Seq(Record), Lawfully(read.jobs, recs),
         \A k \in 1..Len(recs) : Expires(read.jobs, recs[k]), NEW top
  PROVE  Written(read, recs, top, TRUE)
<1>1. \A n \in 0..Len(recs) - 1 : Lawful(After(read, recs, n).jobs, recs[n + 1])
  BY BatchLawful
<1>2. \A k \in 1..Len(recs) :
        NamesJob(recs[k]) /\ Expiry(recs[k]) /\ recs[k].type \in {"RECLAIM", "DEAD"}
  BY ExpiresNames
<1>3. Len(recs) \in Nat
  BY PrefixFacts
<1>4. ASSUME NEW n \in 0..Len(recs) - 1
      PROVE  /\ Writable(After(read, recs, n).jobs, recs[n + 1], Drawn(recs, top, n))
             /\ Timely(recs[n + 1], TRUE)
  <2>1. n + 1 \in 1..Len(recs)
    BY <1>3
  <2>2. recs[n + 1].id \in DOMAIN After(read, recs, n).jobs
    BY <1>1, <1>2, <2>1 DEF Lawful, NamesJob
  <2> QED
    BY <1>2, <2>1, <2>2 DEF Writable, Timely
<1> QED
  BY <1>2, <1>4 DEF Written

LEMMA ReapSweeps ==
  ASSUME NEW read \in Indexes, NEW recs \in Seq(Record), Lawfully(read.jobs, recs),
         \A k \in 1..Len(recs) : Expires(read.jobs, recs[k])
  PROVE  \A n \in 0..Len(recs) : \A id \in JobId :
           SeenIn(After(read, recs, n).jobs, id) \in D!Swept(SeenIn(read.jobs, id))
<1> DEFINE R(n) == After(read, recs, n)
           T == {n \in 0..Len(recs) : \A id \in JobId :
                   SeenIn(R(n).jobs, id) \in D!Swept(SeenIn(read.jobs, id))}
<1>1. /\ Len(recs) \in Nat /\ R(0) = read
      /\ \A n \in 0..Len(recs) : R(n) \in Indexes
      /\ \A n \in 0..Len(recs) - 1 : /\ R(n + 1) = Apply(R(n), recs[n + 1])
                                     /\ recs[n + 1] \in Record /\ n \in 0..Len(recs)
                                     /\ n + 1 \in 1..Len(recs)
  BY AfterFacts
<1>2. \A n \in 0..Len(recs) - 1 : Writable(R(n).jobs, recs[n + 1], Drawn(recs, 0, n))
  BY ReapWritten DEF Written
<1>3. 0 \in T
  BY <1>1 DEF D!Swept
<1> HIDE DEF R
<1>4. ASSUME NEW n \in 0..(Len(recs) - 1), n \in T PROVE n + 1 \in T
  <2> DEFINE rec == recs[n + 1]
  <2>1. /\ R(n) \in Indexes /\ rec \in Record /\ R(n + 1) = Apply(R(n), rec)
        /\ Writable(R(n).jobs, rec, Drawn(recs, 0, n)) /\ Expires(read.jobs, rec)
        /\ NamesJob(rec)
    BY <1>1, <1>2, ExpiresNames
  <2> HIDE DEF rec
  <2>2. ASSUME NEW id \in JobId
        PROVE  SeenIn(R(n + 1).jobs, id) \in D!Swept(SeenIn(read.jobs, id))
    <3>1. SeenIn(R(n).jobs, id) \in D!Swept(SeenIn(read.jobs, id))
      BY <1>4
    <3>2. /\ rec.id # id => SeenIn(R(n + 1).jobs, id) = SeenIn(R(n).jobs, id)
          /\ rec.id = id =>
               /\ R(n).jobs[id] \in Job /\ SeenIn(R(n).jobs, id) = Seen(R(n).jobs[id])
               /\ SeenIn(R(n + 1).jobs, id) = Seen(Changed(R(n).jobs[id], rec))
      <4>1. SeenOutcome(R(n).jobs, R(n + 1).jobs, rec, id)
        BY <2>1, SeenMore
      <4> QED
        BY <2>1, <4>1 DEF SeenOutcome, NamesJob
    <3>3. CASE rec.id = id
      <4>1. read.jobs[id] \in Job /\ SeenIn(read.jobs, id) = Seen(read.jobs[id])
        BY <2>1, <3>3, JobsType DEF Expires, SeenIn
      <4> QED
        BY <2>1, <3>1, <3>2, <3>3, <4>1, SweptMore
    <3> QED
      BY <3>1, <3>2, <3>3
  <2> QED
    BY <1>1, <1>4, <2>2
<1>5. 0..Len(recs) \subseteq T
  <2> HIDE DEF T
  <2> QED
    BY <1>1, <1>3, <1>4, UpToInduction
<1> QED
  BY <1>5 DEF R

-----------------------------------------------------------------------------
(***************************************************************************)
(* The operation: every job it is about makes one move.                    *)
(***************************************************************************)
LEMMA DelaysBounded ==
  ASSUME NEW attempts \in Nat PROVE DelaysFor(attempts) \subseteq 0..MaxDelay
<1>1. CASE attempts <= 0
  BY <1>1, Bounds DEF DelaysFor
<1>2. CASE ~(attempts <= 0)
  <2> DEFINE b == Base * Factor ^ (attempts - 1)  raw == Min({b, MaxDelay})
  <2>1. b \in Int
    <3>1. Factor ^ (attempts - 1) \in Int
      BY <1>2, BackoffAssumption
    <3> QED
      BY <3>1, BackoffAssumption
  <2> HIDE DEF b
  <2>2. raw \in {b, MaxDelay} /\ raw <= MaxDelay
    <3>1. \E x \in {b, MaxDelay} : \A y \in {b, MaxDelay} : x <= y
      BY <2>1, Bounds
    <3> QED
      BY <3>1 DEF Min
  <2>3. DelaysFor(attempts) \subseteq 0..raw
    BY <1>2 DEF DelaysFor, b
  <2> HIDE DEF raw
  <2> QED
    BY <2>1, <2>2, <2>3, Bounds
<1> QED
  BY <1>1, <1>2

LEMMA HeldMoves ==
  ASSUME now \in Nat, NEW job \in Job, job.state = "LEASED", job.lease_deadline > now,
         NEW rec \in Record, NamesJob(rec), Suits(job, rec)
  PROVE  Seen(Changed(job, rec)) \in D!Moves(Seen(job))
<1> DEFINE j == Seen(job)  y == Seen(Changed(job, rec))
           a == job.attempts  l == job.max_attempts  v == job.available_at
           d == job.lease_deadline  t == job.lease_token
           delays == 0..MaxDelay \cup NackDelays \cup {b.delay : b \in Batches}
<1>1. /\ j = Delivered("leased", a, l, v, d, t)
      /\ j.state = "leased" /\ j.attempts = a /\ j.limit = l /\ j.deadline = d /\ d \in Nat
  BY SeenFields
<1>2. a \in Nat /\ l \in Nat
  BY DEF Job
<1>3. /\ \A s : D!Released(j, s) = Delivered(s, a, l, v, 0, None)
      /\ \A w : D!Retried(j, w) = Delivered("ready", a, l, now + w, 0, None)
      /\ \A w : [j EXCEPT !.deadline = @ + w] = Delivered("leased", a, l, v, d + w, t)
  <2>1. Obeys(j, "leased", a, l, v, d, t)
    BY <1>1, ContractMoves
  <2> QED
    BY <2>1, Zenon DEF Obeys
<1>4. /\ rec.type = "EXTEND" => y = Delivered("leased", a, l, v, rec.deadline, t)
      /\ rec.type = "ACK" => y = Delivered("done", a, l, v, 0, None)
      /\ rec.type = "NACK" => y = Delivered("ready", rec.attempts, l, rec.available_at, 0, None)
      /\ rec.type = "DEAD" => y = Delivered("dead", a, l, v, 0, None)
  BY SeenChanged
<1>5. ~D!Lapsed(j)
  <2>1. ~(d <= now)
    BY <1>1
  <2> QED
    BY <1>1, <2>1 DEF D!Lapsed
<1>6. D!Failed(j) = IF a >= l THEN {D!Released(j, "dead")} ELSE {D!Retried(j, w) : w \in delays}
  BY <1>1 DEF D!Failed
<1>7. D!Extended(j) = {[j EXCEPT !.deadline = @ + w] : w \in Timeouts \cup Extensions}
  BY DEF D!Extended
<1>8. D!Moves(j) = {D!Absent, D!Released(j, "done")} \cup D!Failed(j) \cup D!Extended(j)
  BY <1>1, <1>5 DEF D!Moves
<1> HIDE DEF j, y
<1>9. CASE rec.type = "ACK"
  BY <1>3, <1>4, <1>8, <1>9 DEF j, y
<1>10. CASE rec.type = "DEAD"
  <2>1. a >= l
    BY <1>10 DEF Suits
  <2> QED
    BY <1>3, <1>4, <1>6, <1>8, <1>10, <2>1 DEF j, y
<1>11. CASE rec.type = "NACK"
  <2>1. /\ rec.attempts = a /\ a < l
        /\ \E wait \in DelaysFor(a) \cup NackDelays : rec.available_at = now + wait
    BY <1>11 DEF Suits
  <2>2. PICK wait \in delays : rec.available_at = now + wait
    BY <1>2, <2>1, DelaysBounded
  <2>3. y = D!Retried(j, wait) /\ ~(a >= l)
    BY <1>2, <1>3, <1>4, <1>11, <2>1, <2>2
  <2> QED
    BY <1>6, <1>8, <2>2, <2>3 DEF j, y
<1>12. CASE rec.type = "EXTEND"
  <2>1. PICK seconds \in Extensions : rec.deadline = Max({d, now}) + seconds
    BY <1>12 DEF Suits
  <2>2. Max({d, now}) = d
    <3>1. d > now
      OBVIOUS
    <3> HIDE DEF d
    <3> QED
      BY <1>1, <3>1 DEF Max
  <2>3. y = Delivered("leased", a, l, v, d + seconds, t)
    BY <1>4, <1>12, <2>1, <2>2
  <2>4. y = [j EXCEPT !.deadline = @ + seconds]
    BY <1>3, <2>3, Zenon
  <2> QED
    BY <1>7, <1>8, <2>4 DEF j, y
<1> QED
  BY <1>9, <1>10, <1>11, <1>12 DEF Suits

\* A job that was revived already is revived to the same.
LEMMA ReviveMoves ==
  ASSUME now \in Nat, NEW first \in Job, first.state = "DEAD", NEW job \in Job,
         Seen(job) \in D!Moved(Seen(first)),
         NEW rec \in Record, rec.type = "REQUEUE", rec.available_at = now
  PROVE  Seen(Changed(job, rec)) \in D!Moves(Seen(first))
<1> DEFINE j == Seen(first)  x == Seen(job)  y == Seen(Changed(job, rec))  l == first.max_attempts
<1>1. /\ j = Delivered(j.state, first.attempts, l, first.available_at, j.deadline, first.lease_token)
      /\ j.state = "dead" /\ j.limit = l
  BY SeenFields
<1>2. x.limit = job.max_attempts /\ x.state # "absent"
  BY SeenFields
<1>3. D!Absent = Nobodys /\ D!Revived(j) = Delivered("ready", 0, l, now + 0, 0, None)
  <2>1. Obeys(j, j.state, first.attempts, l, first.available_at, j.deadline, first.lease_token)
    BY <1>1, ContractMoves
  <2> QED
    BY <2>1, Zenon DEF Obeys
<1>4. D!Moves(j) = {D!Absent, D!Revived(j)}
  BY <1>1 DEF D!Moves
<1>5. y = Delivered("ready", 0, job.max_attempts, now, 0, None)
  BY SeenChanged DEF NamesJob
<1>6. x \in {j} \cup D!Moves(j)
  BY DEF D!Moved
<1> HIDE DEF j, x, y
<1>7. Nobodys.state = "absent"
  BY DEF Nobodys, Delivered
<1>8. x.limit = l
  BY <1>1, <1>2, <1>3, <1>4, <1>6, <1>7, DeliveredFields
<1>9. now + 0 = now
  OBVIOUS
<1> QED
  BY <1>2, <1>3, <1>4, <1>5, <1>8, <1>9 DEF j, y

LEMMA LeaseMoves ==
  ASSUME now \in Nat, NEW first \in Job, first.state = "READY", first.available_at <= now,
         NEW job \in Job, job.state = "READY", Seen(job) \in D!Moved(Seen(first)),
         NEW rec \in Record, rec.type = "LEASE", rec.attempts = job.attempts + 1,
         NEW timeout \in Timeouts, rec.deadline = now + timeout, rec.token \in D!Unused
  PROVE  Seen(Changed(job, rec)) \in D!Moves(Seen(first))
<1> DEFINE j == Seen(first)  x == Seen(job)  y == Seen(Changed(job, rec))
           a == first.attempts  l == first.max_attempts  v == first.available_at
<1>1. /\ j = Delivered(j.state, a, l, v, j.deadline, first.lease_token)
      /\ j.state = "ready" /\ j.attempts = a /\ j.limit = l /\ j.available = v
  BY SeenFields
<1>2. /\ x.state = "ready" /\ x.attempts = job.attempts /\ x.limit = job.max_attempts
      /\ x.available = job.available_at
  BY SeenFields
<1>3. /\ D!Absent = Nobodys
      /\ \A w, u : D!Leased(j, w, u) = Delivered("leased", a + 1, l, v, now + w, u)
  <2>1. Obeys(j, j.state, a, l, v, j.deadline, first.lease_token)
    BY <1>1, ContractMoves
  <2> QED
    BY <2>1, Zenon DEF Obeys
<1>4. D!Moves(j) = {D!Absent} \cup (IF v <= now THEN D!Granted(j) ELSE {})
  BY <1>1 DEF D!Moves
<1>5. D!Granted(j) = {D!Leased(j, w, u) : w \in Timeouts \cup Extensions, u \in D!Unused}
  BY DEF D!Granted
<1>6. y = Delivered("leased", job.attempts + 1, job.max_attempts, job.available_at, now + timeout, rec.token)
  BY SeenChanged DEF NamesJob
<1>7. x \in {j} \cup D!Moves(j)
  BY DEF D!Moved
<1> HIDE DEF j, x, y
<1>8. Nobodys.state = "absent"
  BY DEF Nobodys, Delivered
<1>9. ASSUME x \in D!Granted(j) PROVE FALSE
  <2>1. PICK w, u : x = D!Leased(j, w, u)
    BY <1>5, <1>9
  <2>2. x.state = "leased"
    BY <1>3, <2>1, DeliveredFields
  <2> QED
    BY <1>2, <2>2
<1>10. x = j
  BY <1>2, <1>3, <1>4, <1>7, <1>8, <1>9
<1>11. y = D!Leased(j, timeout, rec.token)
  BY <1>1, <1>2, <1>3, <1>6, <1>10
<1>12. y \in D!Granted(j)
  BY <1>5, <1>11
<1> QED
  BY <1>4, <1>12 DEF j, y

LEMMA CreateMoves ==
  ASSUME NEW call \in Batches, NEW l, l = call.limit, NEW v, v = now + call.delay
  PROVE  Delivered("ready", 0, l, v, 0, None) \in D!Moves(Nobodys)
<1> DEFINE limits == {b.limit : b \in Batches}
           delays == 0..MaxDelay \cup NackDelays \cup {b.delay : b \in Batches}
<1>1. D!Created = {[state |-> "ready", attempts |-> 0, limit |-> m, available |-> now + w,
                    deadline |-> 0, token |-> None] : m \in limits, w \in delays}
  BY DEF D!Created
<1>2. Nobodys.state = "absent"
  BY DEF Nobodys, Delivered
<1>3. D!Moves(Nobodys) = D!Created
  BY <1>2 DEF D!Moves
<1>4. l \in limits /\ call.delay \in delays
  OBVIOUS
<1> DEFINE made(m, w) == [state |-> "ready", attempts |-> 0, limit |-> m, available |-> now + w,
                          deadline |-> 0, token |-> None]
<1>5. made(l, call.delay) = Delivered("ready", 0, l, v, 0, None)
  BY DEF Delivered
<1>6. D!Created = {made(m, w) : m \in limits, w \in delays}
  BY <1>1
<1> HIDE DEF made, limits, delays
<1> QED
  BY <1>3, <1>4, <1>5, <1>6

LEMMA PurgeMoves ==
  ASSUME now \in Nat, NEW jobs, NEW id, id \in DOMAIN jobs => jobs[id] \in Job,
         id \in DOMAIN jobs /\ jobs[id].state = "LEASED" => jobs[id].lease_deadline > now
  PROVE  Nobodys \in D!Moved(SeenIn(jobs, id))
<1> DEFINE j == SeenIn(jobs, id)
<1>1. D!Absent = Nobodys
  BY DEF D!Absent, Nobodys, Delivered
<1>2. CASE id \notin DOMAIN jobs
  BY <1>2 DEF D!Moved, SeenIn
<1>3. CASE id \in DOMAIN jobs
  <2>1. /\ j = Seen(jobs[id]) /\ jobs[id].state \in States
        /\ j.state = "ready" <=> jobs[id].state = "READY"
        /\ j.state = "leased" <=> jobs[id].state = "LEASED"
        /\ j.state = "done" <=> jobs[id].state = "DONE"
        /\ j.state = "dead" <=> jobs[id].state = "DEAD"
        /\ jobs[id].state = "LEASED" => j.deadline = jobs[id].lease_deadline /\ j.deadline \in Nat
    BY <1>3, SeenFields DEF SeenIn, Job
  <2> HIDE DEF j
  <2>2. j.state \in {"ready", "leased", "done", "dead"}
    BY <2>1 DEF States
  <2>3. ~D!Lapsed(j)
    BY <1>3, <2>1 DEF D!Lapsed
  <2>4. Nobodys \in D!Moves(j)
    BY <1>1, <2>2, <2>3 DEF D!Moves
  <2> QED
    BY <2>4 DEF D!Moved, j
<1> QED
  BY <1>2, <1>3

\* What a record of an operation is to the jobs the operation finds.
Suitable(jobs, rec) ==
  \/ rec.type = "PURGE"
  \/ /\ rec.type = "ENQUEUE" /\ rec.attempts = 0 /\ rec.id \notin DOMAIN jobs
     /\ \E call \in Batches : rec.max_attempts = call.limit /\ rec.available_at = now + call.delay
  \/ /\ rec.type = "LEASE" /\ rec.id \in DOMAIN jobs
     /\ jobs[rec.id].state = "READY" /\ jobs[rec.id].available_at <= now
     /\ \E timeout \in Timeouts : rec.deadline = now + timeout
  \/ NamesJob(rec) /\ rec.id \in DOMAIN jobs /\ Suits(jobs[rec.id], rec)

\* No lease is left that should have been reaped.
AllRunning(jobs) ==
  \A id \in DOMAIN jobs : jobs[id].state = "LEASED" => jobs[id].lease_deadline > now

LEMMA SuitsTypes ==
  ASSUME NEW job, NEW rec, Suits(job, rec)
  PROVE  /\ rec.type \in {"REQUEUE", "ACK", "NACK", "DEAD", "EXTEND"}
         /\ rec.type = "REQUEUE" => job.state = "DEAD" /\ rec.available_at = now
         /\ rec.type # "REQUEUE" => job.state = "LEASED"
         /\ ~Expiry(rec)
BY DEF Suits, Expiry

LEMMA FreshToken ==
  ASSUME Nat \ {0} \subseteq Tokens, NEW top \in Nat, \A g \in view.grants : g.token \in 1..top,
         NEW t \in Nat, t > top
  PROVE  t \in D!Unused
<1>1. t \in Tokens
  OBVIOUS
<1>2. \A g \in view.grants : g.token # t
  OBVIOUS
<1> QED
  BY <1>1, <1>2 DEF D!Unused

LEMMA OneMoves ==
  ASSUME now \in Nat, Nat \ {0} \subseteq Tokens, NEW top \in Nat,
         \A g \in view.grants : g.token \in 1..top,
         NEW jobs, AllRunning(jobs), \A k \in DOMAIN jobs : jobs[k] \in Job,
         NEW at \in Indexes, NEW rec \in Record, Lawful(at.jobs, rec),
         NEW drawn \in Nat, top <= drawn, Writable(at.jobs, rec, drawn), Suitable(jobs, rec),
         rec.type \in {"ENQUEUE", "LEASE", "REQUEUE"} \/ at.jobs = jobs,
         NEW id, SeenIn(at.jobs, id) \in D!Moved(SeenIn(jobs, id))
  PROVE  SeenIn(Apply(at, rec).jobs, id) \in D!Moved(SeenIn(jobs, id))
<1> DEFINE new == Apply(at, rec).jobs  old == at.jobs
<1>1. /\ rec.type = "PURGE" => SeenIn(new, id) = Nobodys
      /\ rec.type # "PURGE" /\ rec.id # id => SeenIn(new, id) = SeenIn(old, id)
      /\ rec.type = "ENQUEUE" /\ rec.id = id =>
           SeenIn(new, id) =
             Delivered("ready", rec.attempts, rec.max_attempts, rec.available_at, 0, None)
      /\ NamesJob(rec) /\ rec.id = id =>
           /\ id \in DOMAIN old /\ old[id] \in Job
           /\ SeenIn(old, id) = Seen(old[id]) /\ SeenIn(new, id) = Seen(Changed(old[id], rec))
  <2>1. SeenOutcome(old, new, rec, id)
    BY SeenMore
  <2> HIDE DEF new, old
  <2> QED
    BY <2>1 DEF SeenOutcome
<1> HIDE DEF new, old
<1>2. CASE rec.type = "PURGE"
  <2>1. Nobodys \in D!Moved(SeenIn(jobs, id))
    BY PurgeMoves DEF AllRunning
  <2> QED
    BY <1>1, <1>2, <2>1 DEF new
<1>3. CASE rec.type # "PURGE" /\ rec.id # id
  BY <1>1, <1>3 DEF new, old
<1>4. CASE rec.type = "ENQUEUE" /\ rec.id = id
  <2>1. /\ rec.attempts = 0 /\ id \notin DOMAIN jobs
        /\ \E call \in Batches : rec.max_attempts = call.limit /\ rec.available_at = now + call.delay
    BY <1>4 DEF Suitable, NamesJob
  <2>2. SeenIn(jobs, id) = Nobodys
    BY <2>1 DEF SeenIn
  <2>3. SeenIn(new, id) \in D!Moves(Nobodys)
    BY <1>1, <1>4, <2>1, CreateMoves
  <2> QED
    BY <2>2, <2>3 DEF D!Moved, new
<1>5. CASE NamesJob(rec) /\ rec.id = id
  <2>1. /\ id \in DOMAIN old /\ old[id] \in Job
        /\ SeenIn(old, id) = Seen(old[id]) /\ SeenIn(new, id) = Seen(Changed(old[id], rec))
    BY <1>1, <1>5
  <2>2. id \in DOMAIN jobs /\ jobs[id] \in Job /\ SeenIn(jobs, id) = Seen(jobs[id])
    BY <1>5 DEF Suitable, NamesJob, SeenIn
  <2>3. Seen(old[id]) \in D!Moved(Seen(jobs[id]))
    BY <2>1, <2>2 DEF old
  <2>4. CASE rec.type = "LEASE"
    <3>1. /\ jobs[id].state = "READY" /\ jobs[id].available_at <= now
          /\ \E timeout \in Timeouts : rec.deadline = now + timeout
      BY <1>5, <2>4, SuitsTypes DEF Suitable
    <3>2. old[id].state = "READY" /\ rec.attempts = old[id].attempts + 1
      BY <1>5, <2>4 DEF Lawful, NamesJob, old
    <3>3. rec.token = drawn + 1
      BY <1>5, <2>4 DEF Writable
    <3>4. drawn + 1 \in Nat /\ drawn + 1 > top
      OBVIOUS
    <3>5. rec.token \in D!Unused
      BY <3>3, <3>4, FreshToken
    <3>6. Seen(Changed(old[id], rec)) \in D!Moves(Seen(jobs[id]))
      BY <2>1, <2>2, <2>3, <2>4, <3>1, <3>2, <3>5, LeaseMoves
    <3> QED
      BY <2>1, <2>2, <3>6 DEF D!Moved, new
  <2>5. CASE rec.type = "REQUEUE"
    <3>1. jobs[id].state = "DEAD" /\ rec.available_at = now
      BY <1>5, <2>5, SuitsTypes DEF Suitable
    <3>2. Seen(Changed(old[id], rec)) \in D!Moves(Seen(jobs[id]))
      BY <2>1, <2>2, <2>3, <2>5, <3>1, ReviveMoves
    <3> QED
      BY <2>1, <2>2, <3>2 DEF D!Moved, new
  <2>6. CASE rec.type \notin {"LEASE", "REQUEUE"}
    <3>1. old[id] = jobs[id] /\ Suits(jobs[id], rec)
      BY <1>5, <2>6 DEF Suitable, NamesJob, old
    <3>2. jobs[id].state = "LEASED" /\ jobs[id].lease_deadline > now
      BY <2>2, <2>6, <3>1, SuitsTypes DEF AllRunning
    <3>3. Seen(Changed(jobs[id], rec)) \in D!Moves(Seen(jobs[id]))
      BY <1>5, <2>2, <3>1, <3>2, HeldMoves
    <3> QED
      BY <2>1, <2>2, <3>1, <3>3 DEF D!Moved, new
  <2> QED
    BY <2>4, <2>5, <2>6
<1> QED
  BY <1>2, <1>3, <1>4, <1>5 DEF NamesJob

LEMMA OperationMoves ==
  ASSUME now \in Nat, Nat \ {0} \subseteq Tokens, NEW top \in Nat,
         \A g \in view.grants : g.token \in 1..top,
         NEW read \in Indexes, AllRunning(read.jobs), NEW recs \in Seq(Record),
         Lawfully(read.jobs, recs), Written(read, recs, top, FALSE),
         \A k \in 1..Len(recs) : Suitable(read.jobs, recs[k])
  PROVE  \A n \in 0..Len(recs) : \A id \in JobId :
           SeenIn(After(read, recs, n).jobs, id) \in D!Moved(SeenIn(read.jobs, id))
<1> DEFINE R(n) == After(read, recs, n)
           T == {n \in 0..Len(recs) : \A id \in JobId :
                   SeenIn(R(n).jobs, id) \in D!Moved(SeenIn(read.jobs, id))}
<1>1. /\ Len(recs) \in Nat /\ R(0) = read
      /\ \A n \in 0..Len(recs) : R(n) \in Indexes
      /\ \A n \in 0..Len(recs) - 1 : /\ R(n + 1) = Apply(R(n), recs[n + 1])
                                     /\ recs[n + 1] \in Record /\ n \in 0..Len(recs)
                                     /\ n + 1 \in 1..Len(recs)
  BY AfterFacts
<1>2. /\ \A n \in 0..Len(recs) - 1 : Writable(R(n).jobs, recs[n + 1], Drawn(recs, top, n))
      /\ Len(recs) <= 1 \/ \A k \in 1..Len(recs) : recs[k].type \in {"ENQUEUE", "LEASE", "REQUEUE"}
  BY DEF Written
<1>3. \A n \in 0..Len(recs) - 1 : Lawful(R(n).jobs, recs[n + 1])
  BY BatchLawful
<1>4. \A k \in DOMAIN read.jobs : read.jobs[k] \in Job
  BY JobsType
<1>5. \A n \in 0..Len(recs) : Drawn(recs, top, n) \in Nat /\ top <= Drawn(recs, top, n)
  BY <1>1 DEF Drawn
<1>6. 0 \in T
  BY <1>1 DEF D!Moved
<1> HIDE DEF R
<1>7. ASSUME NEW n \in 0..(Len(recs) - 1), n \in T PROVE n + 1 \in T
  <2> DEFINE rec == recs[n + 1]
  <2>1. /\ R(n) \in Indexes /\ rec \in Record /\ R(n + 1) = Apply(R(n), rec)
        /\ Writable(R(n).jobs, rec, Drawn(recs, top, n)) /\ Suitable(read.jobs, rec)
        /\ Lawful(R(n).jobs, rec)
        /\ Drawn(recs, top, n) \in Nat /\ top <= Drawn(recs, top, n)
    BY <1>1, <1>2, <1>3, <1>5
  <2>2. rec.type \in {"ENQUEUE", "LEASE", "REQUEUE"} \/ R(n).jobs = read.jobs
    <3>1. CASE Len(recs) <= 1
      <4>1. n = 0
        BY <1>1, <3>1
      <4> QED
        BY <1>1, <4>1
    <3>2. CASE \A k \in 1..Len(recs) : recs[k].type \in {"ENQUEUE", "LEASE", "REQUEUE"}
      BY <1>1, <3>2
    <3> QED
      BY <1>2, <3>1, <3>2
  <2> HIDE DEF rec
  <2>3. ASSUME NEW id \in JobId
        PROVE  SeenIn(R(n + 1).jobs, id) \in D!Moved(SeenIn(read.jobs, id))
    <3>1. SeenIn(R(n).jobs, id) \in D!Moved(SeenIn(read.jobs, id))
      BY <1>7
    <3>2. SeenIn(Apply(R(n), rec).jobs, id) \in D!Moved(SeenIn(read.jobs, id))
      BY <1>4, <2>1, <2>2, <3>1, OneMoves
    <3> QED
      BY <2>1, <3>2
  <2> QED
    BY <1>1, <1>7, <2>3
<1>8. 0..Len(recs) \subseteq T
  <2> HIDE DEF T
  <2> QED
    BY <1>1, <1>6, <1>7, UpToInduction
<1> QED
  BY <1>8 DEF R

-----------------------------------------------------------------------------
(***************************************************************************)
(* Grants.                                                                 *)
(***************************************************************************)
GrantOf(h, i) ==
  [id |-> h[i].id, token |-> h[i].token, from |-> h[i].at, until |-> GrantEnd(h, i)]

LEMMA GrantsAre ==
  ASSUME NEW h PROVE DeliveryGrants(h) = {GrantOf(h, i) : i \in Leases(h)}
BY DEF DeliveryGrants, GrantOf, Leases

\* A reap leaves the grants as they are.
LEMMA ReapGrants ==
  ASSUME NEW h, NEW jobs, NEW g, NEW new, NEW top, Onward(h, jobs, g, new, top, TRUE)
  PROVE  DeliveryGrants(g) = DeliveryGrants(h)
<1>1. Leases(g) = Leases(h)
  BY DEF Onward
<1>2. \A i \in Leases(h) : GrantOf(g, i) = GrantOf(h, i)
  BY DEF Onward, GrantOf
<1> QED
  BY <1>1, <1>2, GrantsAre

\* The token in a job as the contract sees it, and who holds the job by it.
HeldBy(jobs, id, token, j) ==
  /\ j.token = token <=> id \in DOMAIN jobs /\ jobs[id].lease_token = token
  /\ j.token = token => jobs[id].state = "LEASED" /\ j.deadline = jobs[id].lease_deadline
  /\ j.token # None => /\ id \in DOMAIN jobs /\ jobs[id].state = "LEASED"
                       /\ j.token = jobs[id].lease_token
  /\ j.deadline \in Nat

LEMMA SeenToken ==
  ASSUME NEW jobs \in Tables, NEW id, NEW token, token # None
  PROVE  HeldBy(jobs, id, token, SeenIn(jobs, id))
<1> DEFINE j == SeenIn(jobs, id)
<1> SUFFICES HeldBy(jobs, id, token, j)
  OBVIOUS
<1>1. CASE id \in DOMAIN jobs
  <2>1. jobs[id] \in Job
    BY <1>1, TableFacts
  <2>2. /\ j.token = jobs[id].lease_token
        /\ jobs[id].state = "LEASED" => j.deadline = jobs[id].lease_deadline /\ j.deadline \in Nat
        /\ jobs[id].state # "LEASED" => j.deadline = 0 /\ j.token = None
    BY <1>1, <2>1, SeenFields DEF SeenIn
  <2> HIDE DEF j
  <2> QED
    BY <1>1, <2>1, <2>2 DEF HeldBy
<1>2. CASE id \notin DOMAIN jobs
  BY <1>2 DEF SeenIn, Nobodys, Delivered, HeldBy
<1> QED
  BY <1>1, <1>2

\* What StepThrough says of the grants and of the tokens.
Regranted(old, new, mid) ==
  /\ new = {[e EXCEPT !.until = D!Until(e, mid)] : e \in old} \cup
           {[id |-> i, token |-> view'.jobs[i].token, from |-> now,
             until |-> view'.jobs[i].deadline] : i \in D!NewlyHeld(mid)}
  /\ \A i, k \in D!NewlyHeld(mid) : view'.jobs[i].token = view'.jobs[k].token => i = k

\* What happens to the grants of h when an operation takes it on to g.
LEMMA GrantsStep ==
  ASSUME NEW h \in Seq(Record), NEW jobs \in Tables, NEW g \in Seq(Record), NEW new \in Tables,
         NEW top \in Nat, NEW drawn \in Nat, Ledger(h, jobs, top), Ledger(g, new, drawn),
         Onward(h, jobs, g, new, top, FALSE),
         NEW mid, mid = DeliveryJobs(jobs), view'.jobs = DeliveryJobs(new)
  PROVE  Regranted(DeliveryGrants(h), DeliveryGrants(g), mid)
<1> DEFINE next == view'.jobs
           begun(i) == [id |-> i, token |-> next[i].token, from |-> now, until |-> next[i].deadline]
<1>1. \A id \in JobId : mid[id] = SeenIn(jobs, id) /\ next[id] = SeenIn(new, id)
  BY DeliveryJobsIs
<1>2. /\ \A i \in Leases(h) : h[i].token \in Nat /\ h[i].token # None /\ h[i].id \in JobId
      /\ \A i \in Leases(g) : g[i].token \in Nat /\ g[i].token # None /\ g[i].id \in JobId
  <2>1. ASSUME NEW f \in Seq(Record), NEW i \in Leases(f)
        PROVE  f[i].token \in Nat /\ f[i].token # None /\ f[i].id \in JobId
    <3>1. f[i] \in Record /\ f[i].type = "LEASE"
      BY DEF Leases
    <3> QED
      BY <3>1, RecordFacts, NoneAssumption
  <2> QED
    BY <2>1
<1>3. ASSUME NEW i \in Leases(h), NEW id, id = h[i].id
      PROVE  Holds(h, jobs, i) <=> mid[id].token = h[i].token
  <2>1. HeldBy(jobs, id, h[i].token, SeenIn(jobs, id))
    BY <1>2, SeenToken
  <2>2. mid[id] = SeenIn(jobs, id)
    BY <1>1, <1>2, <1>3
  <2> QED
    BY <1>3, <2>1, <2>2 DEF Holds, HeldBy
<1>4. ASSUME NEW i \in Leases(g), NEW id, id = g[i].id
      PROVE  /\ Holds(g, new, i) <=> next[id].token = g[i].token
             /\ Holds(g, new, i) => next[id].deadline = new[id].lease_deadline
  <2>1. HeldBy(new, id, g[i].token, SeenIn(new, id))
    BY <1>2, SeenToken
  <2>2. next[id] = SeenIn(new, id)
    BY <1>1, <1>2, <1>4
  <2> HIDE DEF next
  <2> QED
    BY <1>4, <2>1, <2>2 DEF Holds, HeldBy
<1>5. ASSUME NEW i \in Leases(g), Holds(g, new, i)
      PROVE  GrantEnd(g, i) = next[g[i].id].deadline
  <2>1. GrantEnd(g, i) = new[g[i].id].lease_deadline
    BY <1>5 DEF Ledger
  <2> QED
    BY <1>4, <1>5, <2>1
<1>6. \A e : D!Until(e, mid) =
        IF mid[e.id].token # e.token THEN e.until
        ELSE IF next[e.id].token = e.token THEN next[e.id].deadline
        ELSE now
  BY DEF D!Until
<1>7. D!NewlyHeld(mid) = {id \in JobId : next[id].token # None /\ next[id].token # mid[id].token}
  BY DEF D!NewlyHeld
<1> HIDE DEF next
<1>8. ASSUME NEW i \in Leases(h), NEW e, e = GrantOf(h, i)
      PROVE  GrantOf(g, i) = [e EXCEPT !.until = D!Until(e, mid)] /\ i \in Leases(g)
  <2>1. e.id = h[i].id /\ e.token = h[i].token /\ e.until = GrantEnd(h, i)
    BY <1>8 DEF GrantOf
  <2>2. /\ i \in Leases(g) /\ g[i] = h[i]
        /\ ~Holds(h, jobs, i) => ~Holds(g, new, i) /\ GrantEnd(g, i) = GrantEnd(h, i)
        /\ Holds(h, jobs, i) /\ ~Holds(g, new, i) => GrantEnd(g, i) = now
    BY DEF Onward
  <2>3. GrantEnd(g, i) = D!Until(e, mid)
    BY <1>3, <1>4, <1>5, <1>6, <2>1, <2>2
  <2> QED
    BY <1>8, <2>2, <2>3 DEF GrantOf
<1>9. ASSUME NEW i \in Leases(g) \ Leases(h), NEW id, id = g[i].id
      PROVE  id \in D!NewlyHeld(mid) /\ GrantOf(g, i) = begun(id)
  <2>1. Holds(g, new, i) /\ g[i].at = now /\ g[i].token \notin 1..top
    BY DEF Onward
  <2>2. next[id].token = g[i].token /\ GrantEnd(g, i) = next[id].deadline /\ id \in JobId
    BY <1>2, <1>4, <1>5, <1>9, <2>1
  <2>3. mid[id].token # g[i].token
    <3>1. SUFFICES ASSUME mid[id].token = g[i].token PROVE FALSE
      OBVIOUS
    <3>2. id \in DOMAIN jobs /\ jobs[id].state = "LEASED" /\ jobs[id].lease_token = g[i].token
      <4>1. HeldBy(jobs, id, g[i].token, SeenIn(jobs, id))
        BY <1>2, SeenToken
      <4> QED
        BY <1>1, <1>2, <1>9, <3>1, <4>1 DEF HeldBy
    <3>3. PICK k \in Leases(h) : h[k].token = jobs[id].lease_token
      BY <3>2 DEF Ledger
    <3>4. h[k].token \in 1..top
      BY DEF Ledger
    <3> QED
      BY <2>1, <3>2, <3>3, <3>4
  <2> QED
    BY <1>2, <1>7, <1>9, <2>1, <2>2, <2>3 DEF GrantOf
<1>10. ASSUME NEW id \in D!NewlyHeld(mid)
       PROVE  \E i \in Leases(g) \ Leases(h) : g[i].id = id /\ g[i].token = next[id].token
  <2>1. id \in JobId /\ next[id].token # None /\ next[id].token # mid[id].token
    BY <1>7
  <2>2. id \in DOMAIN new /\ new[id].state = "LEASED" /\ next[id].token = new[id].lease_token
    <3>1. HeldBy(new, id, 0, SeenIn(new, id))
      BY NoneAssumption, SeenToken
    <3> QED
      BY <1>1, <2>1, <3>1 DEF HeldBy
  <2>3. PICK i \in Leases(g) : g[i].id = id /\ g[i].token = new[id].lease_token
    BY <2>2 DEF Ledger
  <2>4. Holds(g, new, i)
    BY <2>2, <2>3 DEF Holds
  <2>5. ASSUME i \in Leases(h) PROVE FALSE
    <3>1. g[i] = h[i] /\ Holds(h, jobs, i)
      BY <2>4, <2>5 DEF Onward
    <3> QED
      BY <1>3, <2>1, <2>2, <2>3, <2>5, <3>1
  <2> QED
    BY <2>2, <2>3, <2>5
<1>11. DeliveryGrants(g) =
         {[e EXCEPT !.until = D!Until(e, mid)] : e \in DeliveryGrants(h)} \cup
         {begun(i) : i \in D!NewlyHeld(mid)}
  <2> DEFINE moved(e) == [e EXCEPT !.until = D!Until(e, mid)]
             Old == {moved(e) : e \in DeliveryGrants(h)}  New == {begun(i) : i \in D!NewlyHeld(mid)}
  <2>1. DeliveryGrants(h) = {GrantOf(h, i) : i \in Leases(h)}
    BY GrantsAre
  <2>2. DeliveryGrants(g) = {GrantOf(g, i) : i \in Leases(g)}
    BY GrantsAre
  <2>3. \A i \in Leases(h) : i \in Leases(g) /\ GrantOf(g, i) = moved(GrantOf(h, i))
    BY <1>8
  <2>4. \A i \in Leases(g) \ Leases(h) :
          g[i].id \in D!NewlyHeld(mid) /\ GrantOf(g, i) = begun(g[i].id)
    BY <1>9
  <2>5. \A id \in D!NewlyHeld(mid) : \E i \in Leases(g) \ Leases(h) : g[i].id = id
    BY <1>10
  <2> HIDE DEF moved, begun
  <2>6. \A x \in DeliveryGrants(g) : x \in Old \cup New
    BY <2>1, <2>2, <2>3, <2>4
  <2>7. \A x \in Old : x \in DeliveryGrants(g)
    BY <2>1, <2>2, <2>3
  <2>8. \A x \in New : x \in DeliveryGrants(g)
    BY <2>2, <2>4, <2>5
  <2>9. DeliveryGrants(g) = Old \cup New
    BY <2>6, <2>7, <2>8
  <2> QED
    BY <2>9 DEF moved
<1>12. ASSUME NEW i \in D!NewlyHeld(mid), NEW k \in D!NewlyHeld(mid),
              next[i].token = next[k].token
       PROVE  i = k
  <2>1. PICK a \in Leases(g) : g[a].id = i /\ g[a].token = next[i].token
    BY <1>10
  <2>2. PICK b \in Leases(g) : g[b].id = k /\ g[b].token = next[k].token
    BY <1>10
  <2>3. a = b
    BY <1>12, <2>1, <2>2 DEF Ledger
  <2> QED
    BY <2>1, <2>2, <2>3
<1> QED
  BY <1>11, <1>12 DEF next, Regranted

\* One step of the contract: h, the history before, is taken on by a reap to mid and by
\* the operation to g.
LEMMA ContractStep ==
  ASSUME NEW h, NEW jobs \in Tables, NEW mid \in Seq(Record), NEW swept \in Tables,
         NEW g \in Seq(Record), NEW new \in Tables,
         NEW top \in Nat, NEW drawn \in Nat, Ledger(mid, swept, top), Ledger(g, new, drawn),
         Onward(h, jobs, mid, swept, top, TRUE), Onward(mid, swept, g, new, top, FALSE),
         \A id \in JobId : SeenIn(swept, id) \in D!Swept(SeenIn(jobs, id)),
         \A id \in JobId : SeenIn(new, id) \in D!Moved(SeenIn(swept, id)),
         view.jobs = DeliveryJobs(jobs), view.grants = DeliveryGrants(h),
         view'.jobs = DeliveryJobs(new), view'.grants = DeliveryGrants(g), now' = now
  PROVE  D!Step
<1> DEFINE m == DeliveryJobs(swept)
<1>1. /\ view.jobs = [id \in JobId |-> SeenIn(jobs, id)]
      /\ m = [id \in JobId |-> SeenIn(swept, id)]
      /\ view'.jobs = [id \in JobId |-> SeenIn(new, id)]
  BY DeliveryJobsIs
<1>2. view'.grants = {[e EXCEPT !.until = D!Until(e, m)] : e \in view.grants} \cup
                     {[id |-> i, token |-> view'.jobs[i].token, from |-> now,
                       until |-> view'.jobs[i].deadline] : i \in D!NewlyHeld(m)}
      /\ \A i, k \in D!NewlyHeld(m) : view'.jobs[i].token = view'.jobs[k].token => i = k
  <2>1. DeliveryGrants(mid) = view.grants
    BY ReapGrants
  <2> HIDE DEF m
  <2>2. m = DeliveryJobs(swept)
    BY DEF m
  <2>3. Regranted(DeliveryGrants(mid), DeliveryGrants(g), m)
    BY <2>2, GrantsStep
  <2>4. Regranted(view.grants, view'.grants, m)
    BY <2>1, <2>3
  <2> QED
    BY <2>4 DEF Regranted
<1>3. \A i \in JobId : view'.jobs[i].deadline \in Nat
  <2>1. \A i : HeldBy(new, i, 0, SeenIn(new, i))
    BY NoneAssumption, SeenToken
  <2> QED
    BY <1>1, <2>1 DEF HeldBy
<1> HIDE DEF m
<1>4. D!StepThrough(m)
  <2>1. view'.jobs \in {f \in [JobId -> UNION {D!Moved(m[i]) : i \in JobId}] :
                          \A i \in JobId : f[i] \in D!Moved(m[i])}
    BY <1>1
  <2> QED
    BY <1>2, <1>3, <2>1 DEF D!StepThrough
<1>5. m \in {f \in [JobId -> UNION {D!Swept(view.jobs[i]) : i \in JobId}] :
               \A i \in JobId : f[i] \in D!Swept(view.jobs[i])}
  BY <1>1
<1> QED
  BY <1>4, <1>5 DEF D!Step

-----------------------------------------------------------------------------
(***************************************************************************)
(* The lease heap never misleads: an entry that is present says what its   *)
(* job says.  So who is reaped is past its deadline.                       *)
(***************************************************************************)
Truthful(idx) ==
  \A e \in idx.leases :
    Dated(idx, e) /\ (Current(idx, e, "LEASED") => e = LeaseEntry(e.id, idx.jobs[e.id]))

TimersTrue == \A p \in Proc : Truthful(proc[p].idx)

LEMMA EmptyTruthful == Truthful(EmptyIndex)
  BY DEF Truthful, EmptyIndex

LEMMA FewerTruthful ==
  ASSUME NEW a, NEW b, a.jobs = b.jobs, a.leases \subseteq b.leases, Truthful(b)
  PROVE  Truthful(a)
  BY DEF Truthful, Dated, Current

LEMMA BumpTruthful ==
  ASSUME NEW idx \in Indexes, Truthful(idx), NEW out, NEW id, NEW job, job.version \in Nat,
         out.jobs = Put(idx.jobs, id, job),
         \/ out.leases = idx.leases
         \/ out.leases = idx.leases \cup {LeaseEntry(id, job)},
         id \in DOMAIN idx.jobs => job.version > idx.jobs[id].version
  PROVE  Truthful(out)
<1>1. /\ DOMAIN out.jobs = DOMAIN idx.jobs \cup {id} /\ out.jobs[id] = job
      /\ \A j \in DOMAIN idx.jobs : j # id => out.jobs[j] = idx.jobs[j]
  BY DEF Put
<1>2. /\ \A e \in idx.leases : e.version \in Nat
      /\ \A j \in DOMAIN idx.jobs : idx.jobs[j].version \in Nat
  BY JobsType DEF Indexes, Finite, LeaseEntries, Job
<1>3. ASSUME NEW e, e.version \in Nat, Dated(idx, e)
      PROVE  /\ Dated(out, e)
             /\ e.id = id => e.version < job.version /\ ~Current(out, e, "LEASED")
             /\ e.id # id => out.jobs[e.id] = idx.jobs[e.id]
             /\ e.id # id => (Current(out, e, "LEASED") <=> Current(idx, e, "LEASED"))
  BY <1>1, <1>2, <1>3 DEF Dated, Current
<1>4. LeaseEntry(id, job).id = id /\ LeaseEntry(id, job).version = job.version
  BY DEF LeaseEntry
<1>5. ASSUME NEW e \in out.leases
      PROVE  Dated(out, e) /\ (Current(out, e, "LEASED") => e = LeaseEntry(e.id, out.jobs[e.id]))
  <2>1. CASE e \in idx.leases
    BY <1>2, <1>3, <2>1 DEF Truthful
  <2>2. CASE e = LeaseEntry(id, job)
    BY <1>1, <1>4, <2>2 DEF Dated
  <2> QED
    BY <2>1, <2>2
<1> QED
  BY <1>5 DEF Truthful

LEMMA ApplyTruthful ==
  ASSUME NEW idx \in Indexes, Truthful(idx), NEW rec \in Record, Anew(idx, rec)
  PROVE  Truthful(Apply(idx, rec))
<1> DEFINE out == Apply(idx, rec)
<1>1. CASE rec.type = "ENQUEUE"
  <2> DEFINE job == FromDict(rec)
  <2>1. job \in Job /\ job.version \in Nat
    BY <1>1, RecordFacts DEF Job
  <2>2. /\ out.jobs = Put(idx.jobs, rec.id, job)
        /\ \/ out.leases = idx.leases
           \/ out.leases = idx.leases \cup {LeaseEntry(rec.id, job)}
    <3>1. /\ out.jobs = Put(idx.jobs, rec.id, job)
          /\ out.leases = idx.leases \cup IF TimesOut(job) THEN {LeaseEntry(rec.id, job)} ELSE {}
      BY <1>1, ApplyEnqueueIs
    <3> HIDE DEF out, job
    <3> QED
      BY <3>1
  <2> HIDE DEF out, job
  <2>3. Truthful(out)
    BY <1>1, <2>1, <2>2, BumpTruthful DEF Anew
  <2> QED
    BY <2>3 DEF out
<1>2. CASE rec.type = "PURGE"
  <2>1. out.leases = {}
    BY <1>2, ApplyPurgeIs
  <2> HIDE DEF out
  <2>2. Truthful(out)
    BY <2>1 DEF Truthful
  <2> QED
    BY <2>2 DEF out
<1>3. CASE NamesJob(rec) /\ rec.id \in DOMAIN idx.jobs
  <2> DEFINE job == Changed(idx.jobs[rec.id], rec)
  <2>1. idx.jobs[rec.id] \in Job /\ job \in Job /\ job.version \in Nat
    BY <1>3, JobsType, ChangedType DEF Job
  <2>2. /\ out.jobs = Put(idx.jobs, rec.id, job)
        /\ out.leases = idx.leases \cup PushedLease(rec.id, job, rec)
    BY <1>3, ApplyNamed
  <2>3. CASE rec.type = "EXTEND" /\ idx.jobs[rec.id].state # "LEASED"
    <3>1. job = idx.jobs[rec.id] /\ PushedLease(rec.id, job, rec) = {}
      BY <1>3, <2>1, <2>3, ChangedFields DEF PushedLease
    <3>2. idx.jobs = Put(idx.jobs, rec.id, job)
      <4>1. idx.jobs \in [DOMAIN idx.jobs -> Job]
        BY JobsType
      <4> QED
        BY <1>3, <3>1, <4>1 DEF Put
    <3>3. out.jobs = idx.jobs /\ out.leases \subseteq idx.leases
      BY <2>2, <3>1, <3>2
    <3> HIDE DEF out
    <3>4. Truthful(out)
      BY <3>3, FewerTruthful
    <3> QED
      BY <3>4 DEF out
  <2>4. CASE ~(rec.type = "EXTEND" /\ idx.jobs[rec.id].state # "LEASED")
    <3>1. job.version = idx.jobs[rec.id].version + 1 /\ idx.jobs[rec.id].version \in Nat
      BY <1>3, <2>1, <2>4, ChangedFields DEF Job
    <3>2. \/ out.leases = idx.leases
          \/ out.leases = idx.leases \cup {LeaseEntry(rec.id, job)}
      BY <2>2 DEF PushedLease
    <3>3. job.version > idx.jobs[rec.id].version
      BY <3>1
    <3> HIDE DEF out, job
    <3>4. Truthful(out)
      BY <2>1, <2>2, <3>2, <3>3, BumpTruthful
    <3> QED
      BY <3>4 DEF out
  <2> QED
    BY <2>3, <2>4
<1>4. CASE NamesJob(rec) /\ rec.id \notin DOMAIN idx.jobs
  <2>1. out.jobs = idx.jobs /\ out.leases \subseteq idx.leases
    BY <1>4, ApplyOrphan DEF Indexes
  <2> HIDE DEF out
  <2>2. Truthful(out)
    BY <2>1, FewerTruthful
  <2> QED
    BY <2>2 DEF out
<1> QED
  BY <1>1, <1>2, <1>3, <1>4 DEF NamesJob

LEMMA ReplayTruthful ==
  ASSUME NEW idx \in Indexes, Truthful(idx), NEW recs \in Seq(Record), News(idx, recs)
  PROVE  Truthful(Replay(idx, recs))
<1> DEFINE T == {n \in 0..Len(recs) : Truthful(After(idx, recs, n))}
<1>0. Len(recs) \in Nat
  BY AfterFacts
<1>1. 0 \in T
  BY <1>0, AfterFacts
<1>2. ASSUME NEW n \in 0..Len(recs) - 1, n \in T PROVE n + 1 \in T
  <2>1. /\ After(idx, recs, n + 1) = Apply(After(idx, recs, n), recs[n + 1])
        /\ After(idx, recs, n) \in Indexes /\ recs[n + 1] \in Record
        /\ Anew(After(idx, recs, n), recs[n + 1])
    BY AfterFacts DEF News
  <2>2. Truthful(After(idx, recs, n + 1))
    BY <1>2, <2>1, ApplyTruthful
  <2> QED
    BY <1>0, <2>2
<1> HIDE DEF T
<1>3. 0..Len(recs) \subseteq T
  BY <1>0, <1>1, <1>2, UpToInduction
<1>4. Len(recs) \in T
  BY <1>0, <1>3
<1> QED
  BY <1>4, AfterFacts DEF T

LEMMA RetainTruthful ==
  ASSUME NEW idx \in Indexes, NEW live \in LiveJobs(idx)
  PROVE  Truthful(Retain(idx, live))
<1> DEFINE out == Retain(idx, live)
<1>1. live \in Seq(DOMAIN idx.jobs)
  BY LiveFacts
<1>2. out \in Indexes /\ out.leases =
        {LeaseEntry(id, out.jobs[id]) : id \in {i \in DOMAIN out.jobs : TimesOut(out.jobs[i])}}
  <2> DEFINE jobs == [id \in ToSet(live) |-> idx.jobs[id]]
  <2>1. /\ out \in Indexes /\ out.jobs = jobs
        /\ out.leases = {LeaseEntry(id, jobs[id]) : id \in {i \in DOMAIN jobs : TimesOut(jobs[i])}}
    BY <1>1, RetainFacts
  <2> HIDE DEF out, jobs
  <2> QED
    BY <2>1
<1>3. \A id \in DOMAIN out.jobs : out.jobs[id].version \in Nat
  BY <1>2, JobsType DEF Job
<1> HIDE DEF out
<1>4. \A id, job : LeaseEntry(id, job).id = id /\ LeaseEntry(id, job).version = job.version
  BY DEF LeaseEntry
<1>5. Truthful(out)
  BY <1>2, <1>3, <1>4 DEF Truthful, Dated
<1> QED
  BY <1>5 DEF out

\* To catch up is to read on, from what one has or from nothing.
LEMMA CaughtUpReads ==
  ASSUME IInv, HeapsInOrder, NEW p \in Proc, proc[p].up
  PROVE  \E from \in {EmptyIndex, proc[p].idx}, recs \in Seq(Record) :
           CaughtUp(p).idx = Replay(from, recs) /\ News(from, recs)
<1> DEFINE q == proc[p]  recs == log.recs  head == SubSeq(recs, 1, q.pos)
           rest == SubSeq(recs, q.pos + 1, Len(recs))  idx == CaughtUp(p).idx
<1>1. recs \in Seq(Record) /\ Agrees(q, log) /\ SoundUpTo(recs) /\ q.up /\ EmptyIndex \in Indexes
  BY Parts, EmptyFacts DEF Logs
<1>2. News(EmptyIndex, recs)
  BY DEF HeapsInOrder
<1>3. CASE q.gen # log.gen
  <2>1. idx = Replay(EmptyIndex, recs)
    BY <1>3 DEF CaughtUp
  <2> QED
    BY <1>1, <1>2, <2>1
<1>4. CASE q.gen = log.gen
  <2>1. idx = Replay(q.idx, rest)
    BY <1>4 DEF CaughtUp
  <2>2. /\ q.pos \in Nat /\ q.pos <= Len(recs) /\ q.idx \in Indexes /\ q.idx.orphans = 0
        /\ Mirrors(q.idx, ReadingOf(recs, q.pos)) /\ Len(recs) \in Nat
    BY <1>1, <1>4, LenProperties DEF Agrees, Process
  <2>3. rest \in Seq(Record) /\ head \in Seq(Record) /\ recs = head \o rest
    BY <1>1, <2>2, SplitAt
  <2>4. ReadingOf(recs, q.pos) = Replay(EmptyIndex, head)
    BY DEF ReadingOf
  <2>5. q.pos \in 0..Len(recs)
    BY <2>2
  <2>6. ReadingOf(recs, q.pos).orphans = 0
    BY <1>1, <2>5 DEF SoundUpTo, Sound
  <2> DEFINE read == Replay(EmptyIndex, head)
  <2> HIDE DEF idx, recs, head, rest, q
  <2>7. read \in Indexes
    BY <1>1, <2>3, ReplayType
  <2>8. News(read, rest)
    <3>1. News(EmptyIndex, head \o rest)
      BY <1>2, <2>3
    <3> QED
      BY <2>3, <3>1, NewsConcat
  <2>9. Mirrors(q.idx, read) /\ q.idx.orphans = read.orphans
    BY <2>2, <2>4, <2>6
  <2> HIDE DEF read
  <2>10. News(q.idx, rest)
    BY <2>2, <2>3, <2>7, <2>8, <2>9, NewsMirrors
  <2>11. idx = Replay(q.idx, rest) /\ News(q.idx, rest) /\ rest \in Seq(Record)
    BY <2>1, <2>3, <2>10
  <2> QED
    BY <2>11 DEF q, idx
<1> QED
  BY <1>3, <1>4

LEMMA CaughtUpTruthful ==
  ASSUME IInv, HeapsInOrder, TimersTrue, NEW p \in Proc, proc[p].up
  PROVE  Truthful(CaughtUp(p).idx)
<1>1. PICK from \in {EmptyIndex, proc[p].idx}, recs \in Seq(Record) :
        CaughtUp(p).idx = Replay(from, recs) /\ News(from, recs)
  BY CaughtUpReads
<1>2. Agrees(proc[p], log)
  BY Parts
<1>3. from \in Indexes /\ Truthful(from)
  BY <1>2, EmptyFacts, EmptyTruthful DEF TimersTrue, Agrees, Process
<1> QED
  BY <1>1, <1>3, ReplayTruthful

LEMMA BegunTruthful ==
  ASSUME IInv, HeapsInOrder, TimersTrue, NEW p \in Proc, proc[p].up,
         NEW batch \in ReapBatches(CaughtUp(p).idx)
  PROVE  Truthful(Popped(p).idx) /\ Truthful(Begun(p, batch).idx)
<1> DEFINE c == CaughtUp(p)  idx == WithoutLapsed(c.idx, now)  t == Popped(p)
<1>1. Session(c) /\ Truthful(c.idx) /\ c.idx \in Indexes /\ Session(t) /\ t.idx \in Indexes
  BY CaughtUpFacts, CaughtUpTruthful, PoppedFacts DEF Session
<1>2. t.idx = idx
  <2>1. c = [log |-> c.log, idx |-> c.idx]
    BY DEF CaughtUp
  <2>2. t = [c EXCEPT !.idx = idx]
    BY DEF Popped
  <2> HIDE DEF c, t, idx
  <2> QED
    BY <2>1, <2>2
<1>3. batch \in Seq(Record)
  BY ReapFacts
<1>4. \A k \in 1..Len(batch) : batch[k].type # "ENQUEUE"
  BY <1>3, ReapTypes
<1>5. Begun(p, batch).idx = Replay(t.idx, batch)
  BY DEF Begun, Committed
<1> HIDE DEF c, t
<1>6. Truthful(t.idx)
  <2>1. idx.jobs = c.idx.jobs /\ idx.leases \subseteq c.idx.leases
    BY <1>1, WithoutLapsedFacts DEF SameJobs
  <2> HIDE DEF idx
  <2> QED
    BY <1>1, <1>2, <2>1, FewerTruthful
<1>7. News(t.idx, batch)
  BY <1>3, <1>4, NewsNone
<1>8. Truthful(Replay(t.idx, batch))
  BY <1>1, <1>3, <1>6, <1>7, ReplayTruthful
<1> QED
  BY <1>5, <1>6, <1>8 DEF t

LEMMA PutTruthful ==
  ASSUME TimersTrue, DOMAIN proc = Proc, NEW p \in Proc, NEW q, Truthful(q.idx),
         proc' = [proc EXCEPT ![p] = q]
  PROVE  TimersTrue'
<1>1. \A r \in Proc : Truthful(proc'[r].idx)
  BY DEF TimersTrue
<1> QED
  BY <1>1 DEF TimersTrue

LEMMA BreaksTruthful ==
  ASSUME TimersTrue, DOMAIN proc = Proc, NEW p \in Proc, NEW s, Truthful(s.idx), Breaks(p, s)
  PROVE  TimersTrue'
<1>1. Truthful(Down.idx) /\ Truthful(Attached(s).idx)
  BY EmptyTruthful DEF Down, Attached
<1> QED
  BY <1>1, PutTruthful DEF Breaks

LEMMA OperatesTruthful ==
  ASSUME DistinctKeys, IInv, HeapsInOrder, TimersTrue, NEW p \in Proc, Operates(p)
  PROVE  TimersTrue'
<1>1. DOMAIN proc = Proc /\ proc[p].up
  BY Parts DEF Operates
<1>2. PICK batch \in ReapBatches(CaughtUp(p).idx) : Ends(p, batch)
  BY DEF Operates
<1> DEFINE s == Begun(p, batch)  t == Popped(p)
<1>3. Session(s) /\ s.idx \in Indexes /\ InOrder(s.idx) /\ Truthful(s.idx) /\ Truthful(t.idx)
  BY <1>1, BegunFacts, BegunInOrder, BegunTruthful
<1>4. \/ Interrupted(p, t, batch)
      \/ \E replies : Returns(p, s, replies)
      \/ \E u, recs, replies : Proper(s, u, recs) /\ Commit(p, u, recs, replies)
      \/ \E u : Prepares(s, u) /\ proc' = [proc EXCEPT ![p] = Attached(u)]
      \/ Breaks(p, s)
      \/ \E live \in LiveJobs(s.idx) :
           \E q : q.idx = Retain(s.idx, live) /\ proc' = [proc EXCEPT ![p] = q]
  BY <1>2 DEF Ends
<1> HIDE DEF s, t
<1>5. ASSUME NEW u, Prepares(s, u) PROVE Truthful(u.idx) /\ u.idx \in Indexes
  BY <1>3, <1>5, FewerTruthful DEF Prepares, Session
<1>6. ASSUME NEW u PROVE Attached(u).idx = u.idx
  BY DEF Attached
<1>7. CASE Interrupted(p, t, batch)
  BY <1>1, <1>3, <1>7, BreaksTruthful DEF Interrupted
<1>8. CASE \E replies : Returns(p, s, replies)
  <2>1. proc' = [proc EXCEPT ![p] = Attached(s)]
    BY <1>8 DEF Returns
  <2> QED
    BY <1>1, <1>3, <1>6, <2>1, PutTruthful
<1>9. CASE \E u, recs, replies : Proper(s, u, recs) /\ Commit(p, u, recs, replies)
  <2>1. PICK u, recs, replies : Proper(s, u, recs) /\ Commit(p, u, recs, replies)
    BY <1>9
  <2>2. recs \in Seq(Record) /\ Truthful(u.idx) /\ u.idx \in Indexes /\ News(u.idx, recs)
    BY <1>3, <1>5, <2>1, ProperInOrder DEF Proper
  <2> DEFINE q == Attached(Committed(u, recs))
  <2>3. Truthful(q.idx)
    BY <1>6, <2>2, ReplayTruthful DEF Committed
  <2>4. CASE proc' = [proc EXCEPT ![p] = q]
    BY <1>1, <2>3, <2>4, PutTruthful
  <2>5. CASE Breaks(p, u)
    BY <1>1, <2>2, <2>5, BreaksTruthful
  <2> QED
    BY <2>1, <2>4, <2>5 DEF Commit, Returns, Interrupted
<1>10. CASE \E u : Prepares(s, u) /\ proc' = [proc EXCEPT ![p] = Attached(u)]
  BY <1>1, <1>5, <1>6, <1>10, PutTruthful
<1>11. CASE Breaks(p, s)
  BY <1>1, <1>3, <1>11, BreaksTruthful
<1>12. CASE \E live \in LiveJobs(s.idx) :
              \E q : q.idx = Retain(s.idx, live) /\ proc' = [proc EXCEPT ![p] = q]
  BY <1>1, <1>3, <1>12, RetainTruthful, PutTruthful
<1> QED
  BY <1>4, <1>7, <1>8, <1>9, <1>10, <1>11, <1>12

LEMMA InitTruthful == Init => TimersTrue
<1> SUFFICES ASSUME Init PROVE TimersTrue
  OBVIOUS
<1>1. \A p \in Proc : proc[p].idx = EmptyIndex
  BY DEF Init, Down
<1> QED
  BY <1>1, EmptyTruthful DEF TimersTrue

LEMMA StepTruthful ==
  ASSUME DistinctKeys, IInv, HeapsInOrder, TimersTrue, [Next]_vars
  PROVE  TimersTrue'
<1>1. DOMAIN proc = Proc /\ log.recs \in Seq(Record)
  BY Parts DEF Logs
<1>2. CASE \E p \in Proc : Operates(p)
  BY <1>2, OperatesTruthful
<1>3. CASE \E p \in Proc : Open(p)
  <2>1. PICK p \in Proc : Open(p)
    BY <1>3
  <2> DEFINE q == Attached([log |-> Repaired(log), idx |-> Replay(EmptyIndex, log.recs)])
  <2>2. proc' = [proc EXCEPT ![p] = q]
    BY <2>1 DEF Open
  <2>3. Truthful(q.idx)
    BY <1>1, EmptyFacts, EmptyTruthful, ReplayTruthful DEF Attached, HeapsInOrder
  <2> HIDE DEF q
  <2> QED
    BY <1>1, <2>2, <2>3, PutTruthful
<1>4. CASE \E p \in Proc : Stop(p)
  <2>1. PICK p \in Proc : proc' = [proc EXCEPT ![p] = Down]
    BY <1>4 DEF Stop
  <2>2. Truthful(Down.idx)
    BY EmptyTruthful DEF Down
  <2> QED
    BY <1>1, <2>1, <2>2, PutTruthful
<1>5. CASE PowerLoss
  <2>1. \A p \in Proc : proc'[p].idx = EmptyIndex
    BY <1>5 DEF PowerLoss, Down
  <2> QED
    BY <2>1, EmptyTruthful DEF TimersTrue
<1>6. CASE UNCHANGED <<log, proc, past>>
  BY <1>6 DEF TimersTrue
<1> QED
  BY <1>2, <1>3, <1>4, <1>5, <1>6, StepIs

-----------------------------------------------------------------------------
(***************************************************************************)
(* A reap writes of leases past their deadline and leaves none behind.     *)
(***************************************************************************)
LEMMA ExpiredDue ==
  ASSUME NEW idx \in Indexes, Truthful(idx), NEW time, NEW ids \in ExpiredLeases(idx, time),
         NEW k \in DOMAIN ids
  PROVE  /\ ids[k] \in LeasedIds(idx)
         /\ idx.jobs[ids[k]].lease_deadline <= time
<1> DEFINE entries == {e \in Lapsed(idx, time) : Current(idx, e, "LEASED")}
<1>1. PICK s \in Bijection(1..Cardinality(entries), entries) : ids = [i \in DOMAIN s |-> s[i].id]
  BY DEF ExpiredLeases, Orders
<1>2. IsFiniteSet(entries)
  <2>1. entries \subseteq idx.leases /\ IsFiniteSet(idx.leases)
    BY DEF Lapsed, Indexes, Finite
  <2> QED
    BY <2>1, FS_Subset
<1>3. \A e \in entries : /\ e.id \in LeasedIds(idx) /\ e.deadline <= time
                         /\ e = LeaseEntry(e.id, idx.jobs[e.id])
  BY DEF Truthful, Current, LeasedIds, Lapsed
<1>4. \A id, job : LeaseEntry(id, job).deadline = job.lease_deadline
  BY DEF LeaseEntry
<1> HIDE DEF entries
<1>5. s \in Seq(entries)
  BY <1>1, <1>2, Arranged
<1>6. k \in DOMAIN s /\ s[k] \in entries /\ ids[k] = s[k].id
  BY <1>1, <1>5
<1> DEFINE e == s[k]
<1>7. e.id \in LeasedIds(idx) /\ e.deadline <= time /\ e = LeaseEntry(e.id, idx.jobs[e.id])
  BY <1>3, <1>6
<1>8. e.deadline = idx.jobs[e.id].lease_deadline
  BY <1>4, <1>7
<1> QED
  BY <1>6, <1>7, <1>8

LEMMA ReapExpires ==
  ASSUME IInv, HeapsInOrder, TimersTrue, NEW p \in Proc, proc[p].up,
         NEW batch \in ReapBatches(CaughtUp(p).idx)
  PROVE  \A k \in 1..Len(batch) : Expires(Whole(Popped(p).log).jobs, batch[k])
<1> DEFINE idx == CaughtUp(p).idx  read == Whole(Popped(p).log)
<1>0. PICK ids \in ExpiredLeases(idx, now) :
        \E delay \in [DOMAIN ids -> 0..MaxDelay] :
          batch = [i \in DOMAIN ids |-> ReapRecord(idx, ids[i], delay[i])]
  BY DEF ReapBatches
<1>1. PICK delay \in [DOMAIN ids -> 0..MaxDelay] :
        batch = [i \in DOMAIN ids |-> ReapRecord(idx, ids[i], delay[i])]
  BY <1>0
<1>2. /\ idx \in Indexes /\ Truthful(idx) /\ DOMAIN read.jobs = DOMAIN idx.jobs
      /\ \A id \in DOMAIN idx.jobs : SameJob(idx.jobs[id], read.jobs[id])
  <2>1. Session(CaughtUp(p)) /\ Popped(p).log = CaughtUp(p).log
    BY CaughtUpFacts, PoppedFacts
  <2> QED
    BY <2>1, CaughtUpTruthful, SessionSame DEF Session
<1>3. batch \in Seq(Record)
  BY ReapFacts
<1>4. DOMAIN batch = DOMAIN ids /\ DOMAIN batch = 1..Len(batch)
  BY <1>1, <1>3, LenProperties
<1> HIDE DEF idx, read
<1> SUFFICES ASSUME NEW k \in 1..Len(batch) PROVE Expires(read.jobs, batch[k])
  BY DEF read
<1> DEFINE id == ids[k]  job == idx.jobs[id]  rec == batch[k]
<1>5. k \in DOMAIN ids /\ rec = ReapRecord(idx, id, delay[k]) /\ delay[k] \in 0..MaxDelay
  BY <1>1, <1>4
<1>6. id \in DOMAIN idx.jobs /\ job.state = "LEASED" /\ job.lease_deadline <= now
  BY <1>2, <1>5, ExpiredDue DEF LeasedIds
<1>7. job \in Job /\ SameJob(job, read.jobs[id]) /\ id \in DOMAIN read.jobs
  BY <1>2, <1>6, JobsType
<1>8. job.attempts \in Nat /\ job.max_attempts \in Nat
  BY <1>7 DEF Job
<1>9. /\ rec.id = id
      /\ \/ job.attempts >= job.max_attempts /\ rec.type = "DEAD" /\ rec.error = "expired"
         \/ /\ ~(job.attempts >= job.max_attempts)
            /\ rec.type = "RECLAIM" /\ rec.available_at = now + delay[k]
  BY <1>5 DEF ReapRecord
<1> HIDE DEF id, rec, job
<1>10. ~(job.attempts >= job.max_attempts) => job.attempts < job.max_attempts
  BY <1>8
<1>11. /\ read.jobs[id].state = "LEASED" /\ read.jobs[id].lease_deadline <= now
       /\ read.jobs[id].attempts = job.attempts /\ read.jobs[id].max_attempts = job.max_attempts
  BY <1>6, <1>7 DEF SameJob
<1>12. Expires(read.jobs, rec)
  BY <1>5, <1>7, <1>9, <1>10, <1>11 DEF Expires
<1> QED
  BY <1>12 DEF rec

\* A batch of reclaims and burials starts no lease.
LEMMA ReapLeasesNothing ==
  ASSUME NEW idx \in Indexes, NEW recs \in Seq(Record),
         \A k \in 1..Len(recs) : recs[k].type \in {"DEAD", "RECLAIM"}
  PROVE  Replay(idx, recs).leases \subseteq idx.leases
<1> DEFINE T == {n \in 0..Len(recs) : After(idx, recs, n).leases \subseteq idx.leases}
<1>0. Len(recs) \in Nat
  BY AfterFacts
<1>1. 0 \in T
  BY <1>0, AfterFacts
<1>2. ASSUME NEW n \in 0..Len(recs) - 1, n \in T PROVE n + 1 \in T
  <2> DEFINE at == After(idx, recs, n)  rec == recs[n + 1]
  <2>1. /\ After(idx, recs, n + 1) = Apply(at, rec) /\ at \in Indexes /\ rec \in Record
        /\ n + 1 \in 1..Len(recs) /\ n + 1 \in 0..Len(recs)
    BY <1>0, AfterFacts
  <2>2. NamesJob(rec) /\ rec.type \in {"DEAD", "RECLAIM"}
    BY <2>1 DEF NamesJob
  <2> HIDE DEF at, rec
  <2>3. Apply(at, rec).leases = at.leases
    <3>1. CASE rec.id \in DOMAIN at.jobs
      <4>1. PushedLease(rec.id, Changed(at.jobs[rec.id], rec), rec) = {}
        BY <2>2 DEF PushedLease
      <4>2. Apply(at, rec).leases =
              at.leases \cup PushedLease(rec.id, Changed(at.jobs[rec.id], rec), rec)
        BY <2>1, <2>2, <3>1, ApplyNamed
      <4> QED
        BY <4>1, <4>2
    <3>2. CASE rec.id \notin DOMAIN at.jobs
      BY <2>1, <2>2, <3>2, ApplyOrphan DEF Indexes
    <3> QED
      BY <3>1, <3>2
  <2> QED
    BY <1>2, <2>1, <2>3 DEF at
<1> HIDE DEF T
<1>3. 0..Len(recs) \subseteq T
  BY <1>0, <1>1, <1>2, UpToInduction
<1>4. Len(recs) \in T
  BY <1>0, <1>3
<1> QED
  BY <1>4, AfterFacts DEF T

LEMMA BegunRunning ==
  ASSUME IInv, LeaseCovered, NEW p \in Proc, proc[p].up,
         NEW batch \in ReapBatches(CaughtUp(p).idx)
  PROVE  AllRunning(Whole(Begun(p, batch).log).jobs)
<1> DEFINE c == CaughtUp(p)  s == Begun(p, batch)  t == Popped(p)
<1>1. /\ Session(c) /\ c.idx \in Indexes /\ Session(s) /\ s.idx \in Indexes
      /\ Session(t) /\ t.idx \in Indexes /\ batch \in Seq(Record)
  BY CaughtUpFacts, BegunFacts, PoppedFacts, ReapFacts DEF Session
<1>2. t.idx = WithoutLapsed(c.idx, now)
  <2>1. c = [log |-> c.log, idx |-> c.idx]
    BY DEF CaughtUp
  <2>2. t = [c EXCEPT !.idx = WithoutLapsed(c.idx, now)]
    BY DEF Popped
  <2> HIDE DEF c, t
  <2> QED
    BY <2>1, <2>2
<1>3. s.idx = Replay(t.idx, batch)
  BY DEF Begun, Committed
<1>4. Untimed(s.idx) = {}
  BY BegunTimes
<1>5. \A k \in 1..Len(batch) : batch[k].type \in {"DEAD", "RECLAIM"}
  BY <1>1, ReapTypes
<1>6. now \in Nat
  BY NowType
<1> HIDE DEF c, s, t
<1>7. s.idx.leases \subseteq c.idx.leases \ Lapsed(c.idx, now)
  <2>1. t.idx.leases = c.idx.leases \ Lapsed(c.idx, now)
    BY <1>1, <1>2, WithoutLapsedFacts
  <2>2. Replay(t.idx, batch).leases \subseteq t.idx.leases
    BY <1>1, <1>5, ReapLeasesNothing
  <2> QED
    BY <1>3, <2>1, <2>2
<1>8. \A e \in s.idx.leases : e.deadline \in Nat /\ e.deadline > now
  <2>1. \A e \in s.idx.leases : e.deadline \in Nat
    BY <1>1 DEF Indexes, Finite, LeaseEntries
  <2>2. \A e \in s.idx.leases : ~(e.deadline <= now)
    BY <1>7 DEF Lapsed
  <2> QED
    BY <1>6, <2>1, <2>2
<1>9. /\ DOMAIN Whole(s.log).jobs = DOMAIN s.idx.jobs
      /\ \A id \in DOMAIN s.idx.jobs : SameJob(s.idx.jobs[id], Whole(s.log).jobs[id])
  BY <1>1, SessionSame
<1>10. ASSUME NEW id \in DOMAIN s.idx.jobs, s.idx.jobs[id].state = "LEASED"
       PROVE  s.idx.jobs[id].lease_deadline > now
  <2>1. LeaseEntry(id, s.idx.jobs[id]) \in s.idx.leases
    BY <1>4, <1>10 DEF Untimed, LeasedIds
  <2>2. LeaseEntry(id, s.idx.jobs[id]).deadline = s.idx.jobs[id].lease_deadline
    BY DEF LeaseEntry
  <2> QED
    BY <1>8, <2>1, <2>2
<1>11. AllRunning(Whole(s.log).jobs)
  BY <1>9, <1>10 DEF AllRunning, SameJob
<1> QED
  BY <1>11 DEF s

\* The jobs a lease call takes are due.
LEMMA TakenDue ==
  ASSUME NEW idx \in Indexes, NEW count \in Nat
  PROVE  LET ids == Taken(idx, count).ids IN
         \A i \in 1..Len(ids) : idx.jobs[ids[i]].available_at <= now
<1>1. PICK f : IsTaking(f, idx, count) /\ Taken(idx, count) = f[count]
  BY TakenIs
<1> DEFINE Due(ids) == \A i \in 1..Len(ids) : idx.jobs[ids[i]].available_at <= now
           T == {n \in Nat : f[n] \in Takings(idx) /\ Due(f[n].ids)}
<1>2. 0 \in T
  <2>1. f[0] = [ids |-> <<>>, idx |-> idx]
    BY <1>1 DEF IsTaking
  <2>2. <<>> \in Seq(WaitingIds(idx)) /\ Len(<<>>) = 0 /\ 1..0 = {}
    OBVIOUS
  <2>3. f[0].idx = idx /\ f[0].ids = <<>> /\ f[0] \in [ids : Seq(WaitingIds(idx)), idx : Indexes]
    BY <2>1, <2>2
  <2> QED
    BY <2>2, <2>3 DEF Takings, SameJobs
<1>3. ASSUME NEW n \in 0..(count - 1), n \in T PROVE n + 1 \in T
  <2>1. n + 1 \in 0..count /\ n + 1 # 0 /\ (n + 1) - 1 = n /\ n + 1 \in Nat
    OBVIOUS
  <2>2. f[n + 1] = TakeOne(f[(n + 1) - 1])
    BY <1>1, <2>1 DEF IsTaking
  <2>3. f[n + 1] = TakeOne(f[n])
    BY <2>1, <2>2
  <2> DEFINE so == f[n]  next == NextReady(so.idx, now)  out == f[n + 1]  ids == so.ids
  <2>4. so \in Takings(idx) /\ Due(ids)
    BY <1>3
  <2>5. so.idx \in Indexes /\ ids \in Seq(WaitingIds(idx)) /\ so.idx.jobs = idx.jobs
    BY <2>4 DEF Takings, SameJobs
  <2>6. out \in Takings(idx)
    BY <2>3, <2>4, TakeOneFacts
  <2>7. out = [ids |-> ids \o next.ids, idx |-> next.idx]
    <3>1. {[ids |-> so.ids \o m.ids, idx |-> m.idx] : m \in {next}} =
            {[ids |-> so.ids \o next.ids, idx |-> next.idx]}
      OBVIOUS
    <3> QED
      BY <2>3, <3>1, TheSingleton DEF TakeOne
  <2>8. \/ next.ids = <<>>
        \/ \E id : next.ids = <<id>> /\ idx.jobs[id].available_at <= now
    <3>1. \/ next.ids = <<>>
          \/ \E id \in DOMAIN so.idx.jobs : 
               next.ids = <<id>> /\ so.idx.jobs[id].state = "READY" /\ so.idx.jobs[id].available_at <= now
      <4> HIDE DEF next
      <4> QED
        BY <2>5, NextReadyFacts DEF next
    <3> HIDE DEF next
    <3> QED
      BY <2>5, <3>1
  <2> HIDE DEF so, next, out, ids
  <2>9. out.ids = ids \o next.ids
    BY <2>7
  <2>10. CASE next.ids = <<>>
    <3>1. out.ids = ids
      BY <2>5, <2>9, <2>10
    <3> QED
      BY <2>1, <2>4, <2>6, <3>1 DEF out
  <2>11. CASE \E id : next.ids = <<id>> /\ idx.jobs[id].available_at <= now
    <3>1. PICK id : next.ids = <<id>> /\ idx.jobs[id].available_at <= now
      BY <2>11
    <3> DEFINE all == out.ids  m == Len(ids)
    <3>2. /\ m \in Nat /\ Len(all) = m + 1 /\ all[m + 1] = id
          /\ \A i \in 1..m : all[i] = ids[i]
      BY <2>5, <2>9, <3>1
    <3>3. \A i \in 1..m + 1 : i \in 1..m \/ i = m + 1
      BY <3>2
    <3> HIDE DEF all, m
    <3>4. \A i \in 1..Len(all) : idx.jobs[all[i]].available_at <= now
      BY <2>4, <3>1, <3>2, <3>3 DEF m
    <3> QED
      BY <2>1, <2>6, <3>4 DEF out, all
  <2> QED
    BY <2>8, <2>10, <2>11
<1> HIDE DEF T
<1>4. 0..count \subseteq T
  BY <1>2, <1>3, UpToInduction
<1>5. count \in T
  BY <1>4
<1> QED
  BY <1>1, <1>5 DEF T

-----------------------------------------------------------------------------
(***************************************************************************)
(* What an operation writes, once the lapsed leases are reaped, is a move  *)
(* of each job it names.                                                   *)
(***************************************************************************)
Proceeds(read, recs) ==
  /\ Lawfully(read.jobs, recs) /\ Written(read, recs, issued, FALSE)
  /\ \A k \in 1..Len(recs) : Suitable(read.jobs, recs[k])

LEMMA SuitsSame ==
  ASSUME NEW a, NEW b, SameJob(a, b), NEW rec, Suits(a, rec)
  PROVE  Suits(b, rec)
<1>1. /\ a.state = b.state /\ a.attempts = b.attempts /\ a.max_attempts = b.max_attempts
      /\ a.lease_deadline = b.lease_deadline
  BY DEF SameJob
<1> QED
  BY <1>1 DEF Suits

LEMMA HandsProceeds ==
  ASSUME IInv, NEW s, Session(s), Tidy(s.idx), NEW t, NEW recs \in Seq(Record), Hands(s, t, recs)
  PROVE  Proceeds(Whole(s.log), recs)
<1> DEFINE read == Whole(s.log)
<1>1. /\ s.idx \in Indexes /\ DOMAIN read.jobs = DOMAIN s.idx.jobs /\ read \in Indexes
      /\ \A id \in DOMAIN s.idx.jobs : SameJob(s.idx.jobs[id], read.jobs[id])
  BY SessionSame DEF Session
<1>2. PICK n \in Nat, timeout \in Timeouts : recs = LeaseRecords(s, Taken(s.idx, n).ids, timeout)
  BY DEF Hands
<1> DEFINE ids == Taken(s.idx, n).ids
<1>3. ids \in Seq(WaitingIds(s.idx)) /\ \A i \in 1..Len(ids) : s.idx.jobs[ids[i]].available_at <= now
  BY <1>1, TakenSession, TakenDue
<1>4. Lawfully(s.idx.jobs, recs)
  BY HandsLawful
<1>5. Lawfully(read.jobs, recs)
  BY <1>4, SessionLawful
<1>6. issued \in Nat /\ now \in Nat
  BY NowType
<1> HIDE DEF read, ids
<1>7. /\ DOMAIN recs = DOMAIN ids /\ DOMAIN recs = 1..Len(recs) /\ Len(recs) \in Nat
      /\ DOMAIN ids = 1..Len(ids) /\ Len(ids) = Len(recs)
  <2>1. DOMAIN recs = DOMAIN ids
    BY <1>2 DEF LeaseRecords, ids
  <2>2. /\ DOMAIN recs = 1..Len(recs) /\ Len(recs) \in Nat
        /\ DOMAIN ids = 1..Len(ids) /\ Len(ids) \in Nat
    BY <1>3
  <2> DEFINE asked == Len(ids)  made == Len(recs)
  <2>3. 1..asked = 1..made /\ asked \in Nat /\ made \in Nat
    BY <2>1, <2>2
  <2> HIDE DEF asked, made
  <2>4. /\ asked > 0 => asked \in 1..asked
        /\ made > 0 => made \in 1..made
        /\ \A i \in 1..asked : i <= asked
        /\ \A i \in 1..made : i <= made
    BY <2>3
  <2>5. asked = made
    BY <2>3, <2>4
  <2>6. Len(ids) = Len(recs)
    BY <2>5 DEF asked, made
  <2> QED
    BY <2>1, <2>2, <2>6
<1>8. \A i \in 1..Len(recs) :
        /\ recs[i].type = "LEASE" /\ recs[i].id = ids[i] /\ recs[i].at = now
        /\ recs[i].deadline = now + timeout /\ recs[i].token = issued + i
  <2>1. \A i \in DOMAIN ids :
          recs[i] = [type |-> "LEASE", id |-> ids[i], at |-> now, deadline |-> now + timeout,
                     attempts |-> s.idx.jobs[ids[i]].attempts + 1, token |-> issued + i]
    BY <1>2 DEF LeaseRecords, ids
  <2> QED
    BY <1>7, <2>1
<1>9. ASSUME NEW k \in 1..Len(recs) PROVE Suitable(read.jobs, recs[k])
  <2> DEFINE id == ids[k]  rec == recs[k]
  <2>1. id \in WaitingIds(s.idx) /\ s.idx.jobs[id].available_at <= now
    BY <1>3, <1>7
  <2>2. id \in DOMAIN read.jobs /\ read.jobs[id].state = "READY" /\ read.jobs[id].available_at <= now
    BY <1>1, <2>1 DEF WaitingIds, SameJob
  <2>3. rec.type = "LEASE" /\ rec.id = id /\ rec.deadline = now + timeout
    BY <1>8
  <2> HIDE DEF id, rec
  <2>4. Suitable(read.jobs, rec)
    BY <2>2, <2>3 DEF Suitable
  <2> QED
    BY <2>4 DEF rec
<1>10. ASSUME NEW n1 \in 0..Len(recs) - 1
       PROVE  /\ Writable(After(read, recs, n1).jobs, recs[n1 + 1], Drawn(recs, issued, n1))
              /\ Timely(recs[n1 + 1], FALSE)
  <2> DEFINE m == n1 + 1  jobs == After(read, recs, n1).jobs  rec == recs[m]
  <2>1. m \in 1..Len(recs) /\ n1 \in Nat
    BY <1>7
  <2>2. Lawful(jobs, rec)
    BY <1>1, <1>5, BatchLawful
  <2>3. rec.type = "LEASE" /\ rec.at = now /\ rec.token = issued + m
    BY <1>8, <2>1
  <2>4. Drawn(recs, issued, n1) = issued + n1
    BY <1>8, <2>1 DEF Drawn
  <2>5. rec.token = Drawn(recs, issued, n1) + 1
    BY <1>6, <2>1, <2>3, <2>4
  <2> HIDE DEF rec, jobs, m
  <2>6. rec.id \in DOMAIN jobs /\ jobs[rec.id].state = "READY"
    BY <2>2, <2>3 DEF Lawful, NamesJob
  <2>7. Writable(jobs, rec, Drawn(recs, issued, n1))
    BY <2>3, <2>5, <2>6 DEF Writable
  <2>8. Timely(rec, FALSE)
    BY <2>3 DEF Timely, Expiry
  <2> QED
    BY <2>7, <2>8 DEF rec, jobs, m
<1>11. Written(read, recs, issued, FALSE)
  BY <1>8, <1>10 DEF Written
<1> QED
  BY <1>5, <1>9, <1>11 DEF Proceeds, read

LEMMA CreatesProceeds ==
  ASSUME IInv, NEW s, Session(s), NEW recs \in Seq(Record), Creates(s.idx, recs),
         Lawfully(Whole(s.log).jobs, recs), News(s.idx, recs)
  PROVE  Proceeds(Whole(s.log), recs)
<1> DEFINE read == Whole(s.log)
<1>1. /\ s.idx \in Indexes /\ DOMAIN read.jobs = DOMAIN s.idx.jobs /\ read \in Indexes
      /\ s.idx.orphans = 0 /\ Mirrors(s.idx, read) /\ read.orphans = 0
  BY SessionSame, WholeFacts DEF Session
<1> HIDE DEF read
<1>2. News(read, recs)
  BY <1>1, NewsMirrors
<1>3. Len(recs) \in Nat
  OBVIOUS
<1>4. ASSUME NEW k \in 1..Len(recs) PROVE Suitable(read.jobs, recs[k]) /\ recs[k].type = "ENQUEUE"
  BY <1>1 DEF Creates, Suitable
<1>5. ASSUME NEW n \in 0..Len(recs) - 1
      PROVE  /\ Writable(After(read, recs, n).jobs, recs[n + 1], Drawn(recs, issued, n))
             /\ Timely(recs[n + 1], FALSE)
  <2> DEFINE m == n + 1  jobs == After(read, recs, n).jobs  rec == recs[m]
  <2>1. m \in 1..Len(recs)
    BY <1>3
  <2>2. rec.type = "ENQUEUE" /\ rec.state = "READY"
    BY <2>1 DEF Creates
  <2>3. rec.id \notin DOMAIN jobs
    BY <1>2, <2>2 DEF News, Anew
  <2> HIDE DEF rec, jobs, m
  <2>4. Writable(jobs, rec, Drawn(recs, issued, n))
    BY <2>2, <2>3 DEF Writable, NamesJob
  <2>5. Timely(rec, FALSE)
    BY <2>2 DEF Timely, Expiry, EndTypes
  <2> QED
    BY <2>4, <2>5 DEF rec, jobs, m
<1>6. Written(read, recs, issued, FALSE)
  BY <1>4, <1>5 DEF Written
<1> QED
  BY <1>4, <1>6 DEF Proceeds, read

\* Reviving jobs leases none.
LEMMA RevivesUnheld ==
  ASSUME NEW read \in Indexes, NEW recs \in Seq(Record),
         Len(recs) <= 1 \/ \A k \in 1..Len(recs) : recs[k].type = "REQUEUE",
         NEW id \in DOMAIN read.jobs, read.jobs[id].state # "LEASED"
  PROVE  \A n \in 0..Len(recs) - 1 : LET jobs == After(read, recs, n).jobs IN
           id \in DOMAIN jobs /\ jobs[id].state # "LEASED"
<1> DEFINE good(n) == LET jobs == After(read, recs, n).jobs IN
                        id \in DOMAIN jobs /\ jobs[id].state # "LEASED"
           N == Len(recs)
<1>0. N \in Nat
  BY AfterFacts
<1>1. good(0)
  BY AfterFacts
<1>2. CASE N <= 1
  <2>1. \A n \in 0..N - 1 : n = 0
    BY <1>0, <1>2
  <2> QED
    BY <1>1, <2>1
<1>3. CASE \A k \in 1..N : recs[k].type = "REQUEUE"
  <2> DEFINE T == {n \in 0..N : good(n)}
  <2>1. 0 \in T
    BY <1>0, <1>1
  <2>2. ASSUME NEW n \in 0..N - 1, n \in T PROVE n + 1 \in T
    <3> DEFINE at == After(read, recs, n)  rec == recs[n + 1]  out == Apply(at, rec)
    <3>1. /\ After(read, recs, n + 1) = out /\ at \in Indexes /\ rec \in Record
          /\ n + 1 \in 1..N /\ n + 1 \in 0..N
      BY <1>0, AfterFacts
    <3>2. rec.type = "REQUEUE" /\ NamesJob(rec)
      BY <1>3, <3>1 DEF NamesJob
    <3>3. id \in DOMAIN at.jobs /\ at.jobs[id].state # "LEASED"
      BY <2>2
    <3> HIDE DEF at, rec, out
    <3>4. id \in DOMAIN out.jobs /\ out.jobs[id].state # "LEASED"
      <4>1. CASE rec.id \in DOMAIN at.jobs
        <5>1. out.jobs = Put(at.jobs, rec.id, Changed(at.jobs[rec.id], rec))
          BY <3>1, <3>2, <4>1, ApplyJobs DEF out
        <5>2. Changed(at.jobs[rec.id], rec).state = "READY"
          BY <3>1, <3>2, <4>1, JobsType, ChangedFields DEF Has
        <5> QED
          BY <3>3, <5>1, <5>2 DEF Put
      <4>2. CASE rec.id \notin DOMAIN at.jobs
        BY <3>1, <3>2, <3>3, <4>2, ApplyJobs DEF out
      <4> QED
        BY <4>1, <4>2
    <3> QED
      BY <3>1, <3>4
  <2> HIDE DEF T
  <2>3. 0..N \subseteq T
    BY <1>0, <2>1, <2>2, UpToInduction
  <2>4. \A n \in 0..N - 1 : n \in 0..N
    BY <1>0
  <2> QED
    BY <2>3, <2>4 DEF T
<1> QED
  BY <1>2, <1>3

LEMMA MarksProceeds ==
  ASSUME IInv, NEW s, Session(s), NEW recs \in Seq(Record),
         \A k \in 1..Len(recs) : Marks(s.idx, recs[k]),
         Len(recs) <= 1 \/ \A k \in 1..Len(recs) : recs[k].type = "REQUEUE",
         Lawfully(Whole(s.log).jobs, recs)
  PROVE  Proceeds(Whole(s.log), recs)
<1> DEFINE read == Whole(s.log)
<1>1. /\ DOMAIN read.jobs = DOMAIN s.idx.jobs /\ read \in Indexes
      /\ \A id \in DOMAIN s.idx.jobs : SameJob(s.idx.jobs[id], read.jobs[id])
  BY SessionSame
<1> HIDE DEF read
<1>2. Lawfully(read.jobs, recs) /\ Len(recs) \in Nat
  BY DEF read
<1>3. ASSUME NEW k \in 1..Len(recs)
      PROVE  LET rec == recs[k] IN
             /\ rec.at = now /\ rec.type \notin {"LEASE", "RECLAIM", "ENQUEUE"}
             /\ \/ rec.type = "PURGE"
                \/ /\ NamesJob(rec) /\ rec.id \in DOMAIN read.jobs
                   /\ Suits(read.jobs[rec.id], rec)
  <2> DEFINE rec == recs[k]
  <2>1. Marks(s.idx, rec)
    OBVIOUS
  <2> HIDE DEF rec
  <2>2. rec.at = now /\ rec.type \notin {"LEASE", "RECLAIM", "ENQUEUE"}
    BY <2>1, MarkFacts DEF Marks
  <2>3. \/ rec.type = "PURGE"
        \/ NamesJob(rec) /\ rec.id \in DOMAIN s.idx.jobs /\ Suits(s.idx.jobs[rec.id], rec)
    BY <2>1 DEF Marks
  <2>4. \/ rec.type = "PURGE"
        \/ NamesJob(rec) /\ rec.id \in DOMAIN read.jobs /\ Suits(read.jobs[rec.id], rec)
    BY <1>1, <2>3, SuitsSame
  <2> QED
    BY <2>2, <2>4 DEF rec
<1>4. ASSUME NEW k \in 1..Len(recs) PROVE Suitable(read.jobs, recs[k])
  BY <1>3 DEF Suitable
<1>5. ASSUME NEW n \in 0..Len(recs) - 1
      PROVE  /\ Writable(After(read, recs, n).jobs, recs[n + 1], Drawn(recs, issued, n))
             /\ Timely(recs[n + 1], FALSE)
  <2> DEFINE m == n + 1  jobs == After(read, recs, n).jobs  rec == recs[m]
  <2>1. m \in 1..Len(recs)
    BY <1>2
  <2>2. Lawful(jobs, rec)
    BY <1>1, <1>2, BatchLawful
  <2>3. /\ rec.at = now /\ rec.type \notin {"LEASE", "RECLAIM", "ENQUEUE"}
        /\ \/ rec.type = "PURGE"
           \/ NamesJob(rec) /\ rec.id \in DOMAIN read.jobs /\ Suits(read.jobs[rec.id], rec)
    BY <1>3, <2>1
  <2>4. rec.type = "REQUEUE" => jobs[rec.id].state # "LEASED"
    <3> SUFFICES ASSUME rec.type = "REQUEUE" PROVE jobs[rec.id].state # "LEASED"
      OBVIOUS
    <3>1. rec.id \in DOMAIN read.jobs /\ read.jobs[rec.id].state = "DEAD"
      <4> HIDE DEF rec
      <4> QED
        BY <2>3, SuitsTypes
    <3> QED
      BY <1>1, <3>1, RevivesUnheld
  <2> HIDE DEF rec, jobs, m
  <2>5. NamesJob(rec) => rec.id \in DOMAIN jobs
    BY <2>2 DEF Lawful, NamesJob
  <2>6. Writable(jobs, rec, Drawn(recs, issued, n))
    BY <2>3, <2>4, <2>5 DEF Writable
  <2>7. ~Expiry(rec)
    <3>1. CASE rec.type = "PURGE"
      BY <3>1 DEF Expiry
    <3>2. CASE Suits(read.jobs[rec.id], rec)
      BY <3>2, SuitsTypes
    <3> QED
      BY <2>3, <3>1, <3>2
  <2>8. Timely(rec, FALSE)
    BY <2>3, <2>7 DEF Timely
  <2> QED
    BY <2>6, <2>8 DEF rec, jobs, m
<1>6. \A k \in 1..Len(recs) : recs[k].type # "LEASE"
  BY <1>3
<1>7. Written(read, recs, issued, FALSE)
  BY <1>5, <1>6 DEF Written
<1> QED
  BY <1>2, <1>4, <1>7 DEF Proceeds, read

LEMMA ProperProceeds ==
  ASSUME DistinctKeys, LimitsPositive, IInv, NEW s, Session(s), InOrder(s.idx),
         NEW t, NEW recs, Proper(s, t, recs)
  PROVE  Proceeds(Whole(s.log), recs)
<1>1. t.log = s.log /\ recs \in Seq(Record) /\ Tidy(s.idx)
  BY DEF Proper, Prepares, InOrder
<1>2. Lawfully(Whole(s.log).jobs, recs)
  BY <1>1, ProperLawful
<1>3. CASE Hands(s, t, recs)
  BY <1>1, <1>3, HandsProceeds
<1>4. CASE Creates(s.idx, recs)
  <2>1. News(s.idx, recs)
    <3>1. \A k \in 1..Len(recs) : recs[k].type = "ENQUEUE" /\ recs[k].id \notin DOMAIN s.idx.jobs
      BY <1>4 DEF Creates
    <3>2. \A j, k \in 1..Len(recs) : j # k => recs[j].id # recs[k].id
      BY <1>4 DEF Creates
    <3> QED
      BY <1>1, <3>1, <3>2, NewsFresh DEF Session
  <2> QED
    BY <1>1, <1>2, <1>4, <2>1, CreatesProceeds
<1>5. CASE /\ \A k \in 1..Len(recs) : Marks(s.idx, recs[k])
           /\ Len(recs) <= 1 \/ \A k \in 1..Len(recs) : recs[k].type = "REQUEUE"
  BY <1>1, <1>2, <1>5, MarksProceeds
<1> QED
  BY <1>3, <1>4, <1>5 DEF Proper

-----------------------------------------------------------------------------
(***************************************************************************)
(* A step of a queue that writes, in two parts: the lapsed leases that are *)
(* reaped, then the operation itself.  Story is the history with the log   *)
(* as an operation has it.                                                 *)
(***************************************************************************)
Story(l) == HistoryOf(l, Len(l.recs))

Sweeping(h, jobs, mid, swept, top) ==
  /\ mid \in Seq(Record) /\ swept \in Tables
  /\ Ledger(mid, swept, top) /\ Onward(h, jobs, mid, swept, top, TRUE)
  /\ \A id \in JobId : SeenIn(swept, id) \in D!Swept(SeenIn(jobs, id))

Working(mid, swept, g, new, top, drawn) ==
  /\ g \in Seq(Record) /\ new \in Tables /\ drawn \in Nat
  /\ Ledger(g, new, drawn) /\ Onward(mid, swept, g, new, top, FALSE)
  /\ \A id \in JobId : SeenIn(new, id) \in D!Moved(SeenIn(swept, id))

LEMMA StoryFacts ==
  ASSUME IInv, NEW l, Follows(l)
  PROVE  /\ Story(l) \in Seq(Record) /\ Whole(l) \in Indexes /\ Whole(l).jobs \in Tables
         /\ \A m : m.recs = l.recs => Story(m) = Story(l) /\ Whole(m) = Whole(l)
<1>1. Story(l) \in Seq(Record)
  BY WholeCut DEF Story
<1>2. Whole(l) \in Indexes /\ Whole(l).jobs \in Tables
  BY WholeFacts DEF Indexes
<1>3. \A m : m.recs = l.recs => Story(m) = Story(l) /\ Whole(m) = Whole(l)
  BY DEF Story, HistoryOf, Whole
<1> QED
  BY <1>1, <1>2, <1>3

LEMMA StoryGrows ==
  ASSUME IInv, NEW l, Follows(l), NEW recs \in Seq(Record), NEW k \in 0..Len(recs),
         NEW m, m.recs = l.recs \o SubSeq(recs, 1, k)
  PROVE  Story(m) = Story(l) \o SubSeq(recs, 1, k) /\ Whole(m) = After(Whole(l), recs, k)
<1> DEFINE part == SubSeq(recs, 1, k)  N == Len(l.recs)
<1>1. part \in Seq(Record) /\ Len(part) = k /\ k \in Nat /\ SubSeq(part, 1, k) = part
  <2>1. part \in Seq(Record) /\ Len(part) = k /\ k \in Nat
    BY PrefixFacts
  <2> HIDE DEF part
  <2> QED
    BY <2>1, PrefixFacts
<1>2. /\ Len(m.recs) = N + k /\ m.recs \in Seq(Record)
      /\ HistoryOf(m, N + k) = HistoryOf(l, N) \o SubSeq(part, 1, k)
      /\ ReadingOf(m.recs, N + k) = After(Whole(l), part, k)
  <2>1. m.recs = l.recs \o part /\ k \in 0..Len(part)
    BY <1>1
  <2> HIDE DEF part
  <2>2. /\ Len(m.recs) = N + Len(part) /\ m.recs \in Seq(Record)
        /\ \A j \in 0..Len(part) :
              /\ HistoryOf(m, N + j) = HistoryOf(l, N) \o SubSeq(part, 1, j)
              /\ ReadingOf(m.recs, N + j) = After(Whole(l), part, j)
    BY <1>1, <2>1, GrownLog, Zenon
  <2> QED
    BY <1>1, <2>1, <2>2
<1>3. Story(m) = Story(l) \o part
  BY <1>1, <1>2 DEF Story
<1>4. Whole(m) = ReadingOf(m.recs, N + k)
  BY <1>2, WholeReading DEF Whole
<1>5. After(Whole(l), part, k) = After(Whole(l), recs, k)
  BY <1>1 DEF After
<1> QED
  BY <1>2, <1>3, <1>4, <1>5

LEMMA LedgerTokens ==
  ASSUME NEW h, NEW jobs, NEW top, Ledger(h, jobs, top), view.grants = DeliveryGrants(h)
  PROVE  \A g \in view.grants : g.token \in 1..top
<1>1. view.grants = {GrantOf(h, i) : i \in Leases(h)}
  BY GrantsAre
<1>2. \A i \in Leases(h) : GrantOf(h, i).token = h[i].token
  BY DEF GrantOf
<1>3. \A i \in Leases(h) : h[i].token \in 1..top
  BY DEF Ledger
<1> QED
  BY <1>1, <1>2, <1>3

LEMMA ReapPart ==
  ASSUME IInv, HeapsInOrder, TimersTrue, NEW p \in Proc, proc[p].up,
         NEW batch \in ReapBatches(CaughtUp(p).idx), NEW k \in 0..Len(batch),
         NEW l, l = Popped(p).log, Ledger(Story(l), Whole(l).jobs, issued)
  PROVE  Sweeping(Story(l), Whole(l).jobs,
                  Story(l) \o SubSeq(batch, 1, k), After(Whole(l), batch, k).jobs, issued)
<1> DEFINE h == Story(l)  read == Whole(l)  g == h \o SubSeq(batch, 1, k)
           new == After(read, batch, k).jobs
<1>1. batch \in Seq(Record) /\ Session(Popped(p)) /\ Follows(l)
  BY ReapFacts DEF Session
<1>2. h \in Seq(Record) /\ read \in Indexes /\ issued \in Nat
  BY <1>1, StoryFacts, NowType
<1>3. /\ Lawfully(read.jobs, batch)
      /\ \A j \in 1..Len(batch) : Expires(read.jobs, batch[j])
  BY ReapLawful, ReapExpires
<1>4. \A j \in 1..Len(batch) : batch[j].type \in {"DEAD", "RECLAIM"}
  BY <1>1, ReapTypes
<1> HIDE DEF h, read
<1>5. Written(read, batch, issued, TRUE)
  BY <1>1, <1>2, <1>3, ReapWritten
<1>6. Ledger(h, read.jobs, issued)
  BY DEF h, read
<1>7. Ledger(g, new, Drawn(batch, issued, k)) /\ Onward(h, read.jobs, g, new, issued, TRUE)
  BY <1>1, <1>2, <1>5, <1>6, BatchOnward
<1>8. Drawn(batch, issued, k) = issued
  BY <1>4 DEF Drawn
<1>9. \A id \in JobId : SeenIn(new, id) \in D!Swept(SeenIn(read.jobs, id))
  BY <1>1, <1>2, <1>3, ReapSweeps
<1>10. g \in Seq(Record)
  <2>1. SubSeq(batch, 1, k) \in Seq(Record)
    BY <1>1, PrefixFacts
  <2> QED
    BY <1>2, <2>1
<1>11. new \in Tables
  BY <1>1, <1>2, AfterFacts DEF Indexes
<1> HIDE DEF g, new
<1>12. Sweeping(h, read.jobs, g, new, issued)
  BY <1>7, <1>8, <1>9, <1>10, <1>11 DEF Sweeping
<1> QED
  BY <1>12 DEF g, new, h, read

LEMMA WorkPart ==
  ASSUME IInv, Nat \ {0} \subseteq Tokens, NEW l, Follows(l), AllRunning(Whole(l).jobs),
         Ledger(Story(l), Whole(l).jobs, issued), \A g \in view.grants : g.token \in 1..issued,
         NEW recs \in Seq(Record), Proceeds(Whole(l), recs), NEW k \in 0..Len(recs),
         NEW drawn \in Nat, issued <= drawn, Drawn(recs, issued, k) <= drawn
  PROVE  Working(Story(l), Whole(l).jobs,
                 Story(l) \o SubSeq(recs, 1, k), After(Whole(l), recs, k).jobs, issued, drawn)
<1> DEFINE h == Story(l)  read == Whole(l)  g == h \o SubSeq(recs, 1, k)
           new == After(read, recs, k).jobs  top == Drawn(recs, issued, k)
<1>1. h \in Seq(Record) /\ read \in Indexes /\ issued \in Nat /\ now \in Nat
  BY StoryFacts, NowType
<1>2. /\ Lawfully(read.jobs, recs) /\ Written(read, recs, issued, FALSE)
      /\ \A j \in 1..Len(recs) : Suitable(read.jobs, recs[j])
  BY DEF Proceeds
<1>3. AllRunning(read.jobs) /\ Ledger(h, read.jobs, issued)
  OBVIOUS
<1> HIDE DEF h, read
<1>4. Ledger(g, new, top) /\ Onward(h, read.jobs, g, new, issued, FALSE)
  BY <1>1, <1>2, <1>3, BatchOnward
<1>5. \A id \in JobId : SeenIn(new, id) \in D!Moved(SeenIn(read.jobs, id))
  BY <1>1, <1>2, <1>3, OperationMoves
<1>6. g \in Seq(Record)
  <2>1. SubSeq(recs, 1, k) \in Seq(Record)
    BY PrefixFacts
  <2> QED
    BY <1>1, <2>1
<1>7. new \in Tables /\ top \in Nat
  <2>1. After(read, recs, k) \in Indexes /\ k \in Nat
    BY <1>1, AfterFacts
  <2>2. new \in Tables
    BY <2>1 DEF Indexes
  <2>3. top \in Nat
    BY <1>1, <2>1 DEF Drawn
  <2> QED
    BY <2>2, <2>3
<1> HIDE DEF g, new, top
<1>8. Ledger(g, new, drawn)
  BY <1>4, <1>7, LedgerLater DEF top
<1>9. Working(h, read.jobs, g, new, issued, drawn)
  BY <1>4, <1>5, <1>6, <1>7, <1>8 DEF Working
<1> QED
  BY <1>9 DEF g, new, h, read

LEMMA CompactedSame ==
  ASSUME IInv, NEW s, Session(s), s.idx \in Indexes, NEW live \in LiveJobs(s.idx),
         NEW old, old = Whole(s.log).jobs, NEW new, new = Whole(Compacted(s.log, s.idx, live)).jobs
  PROVE  /\ new \in Tables /\ old \in Tables
         /\ \A id \in DOMAIN new : id \in DOMAIN old /\ SameJob(old[id], new[id])
         /\ \A id \in DOMAIN old : id \in DOMAIN new \/ old[id].state = "DONE"
<1> DEFINE l == Compacted(s.log, s.idx, live)
<1>1. /\ l \in Logs({log.gen + 1}) /\ Len(l.recs) = Len(live) /\ l.recs \in Seq(Record)
  BY CompactedFacts DEF Logs
<1>2. ReadingOf(l.recs, Len(live)) = Whole(l) /\ Whole(l) \in Indexes
  <2> HIDE DEF l
  <2> QED
    BY <1>1, WholeReading DEF Whole
<1>3. Whole(s.log) \in Indexes
  BY WholeFacts DEF Session
<1>4. new \in Tables /\ old \in Tables
  BY <1>2, <1>3 DEF Indexes
<1>5. Tally(old, old)
  BY DEF Tally
<1>6. Tally(old, ReadingOf(l.recs, Len(live)).jobs)
  <2>1. Tally(Whole(s.log).jobs, Whole(s.log).jobs)
    BY <1>5
  <2>2. Tally(Whole(s.log).jobs, ReadingOf(Compacted(s.log, s.idx, live).recs, Len(live)).jobs)
    BY <1>3, <2>1, CompactedTally
  <2> QED
    BY <2>2
<1>7. Tally(old, new)
  BY <1>2, <1>6
<1> HIDE DEF l
<1>8. /\ \A id \in DOMAIN old : old[id] \in Job
      /\ \A id \in DOMAIN new : new[id] \in Job
  BY <1>2, <1>3, JobsType DEF l
<1>9. Job \subseteq JobFields
  BY DEF Job, JobFields
<1>10. ASSUME NEW id \in DOMAIN new PROVE id \in DOMAIN old /\ SameJob(old[id], new[id])
  <2>1. id \in DOMAIN old /\ Unversioned(old[id]) = Unversioned(new[id])
    BY <1>7 DEF Tally
  <2>2. old[id] \in JobFields /\ new[id] \in JobFields
    BY <1>8, <1>9, <2>1
  <2> QED
    BY <2>1, <2>2, UnversionedIs
<1>11. \A id \in DOMAIN old : id \in DOMAIN new \/ old[id].state = "DONE"
  BY <1>7 DEF Tally
<1> QED
  BY <1>4, <1>10, <1>11

LEMMA CompactPart ==
  ASSUME IInv, NEW h \in Seq(Record), NEW old \in Tables, Ledger(h, old, issued),
         NEW new \in Tables,
         \A id \in DOMAIN new : id \in DOMAIN old /\ SameJob(old[id], new[id]),
         \A id \in DOMAIN old : id \in DOMAIN new \/ old[id].state = "DONE"
  PROVE  Working(h, old, h, new, issued, issued)
<1>1. \A id \in DOMAIN old : old[id] \in Job
  BY TableFacts
<1>2. issued \in Nat /\ now \in Nat
  BY NowType
<1>3. \A id \in DOMAIN old : old[id].state # "LEASED" => old[id].lease_token = None
  BY <1>1 DEF Job, HeldWhenLeased
<1>4. \A id \in DOMAIN new :
        /\ new[id].state = old[id].state /\ new[id].lease_token = old[id].lease_token
        /\ new[id].lease_deadline = old[id].lease_deadline
        /\ new[id].attempts = old[id].attempts /\ new[id].max_attempts = old[id].max_attempts
        /\ new[id].available_at = old[id].available_at
  BY DEF SameJob
<1>5. \A i \in Leases(h) : h[i].token \in 1..issued
  BY DEF Ledger
<1>6. \A i \in Leases(h) : h[i].token # None
  BY <1>2, <1>5, NoneAssumption
<1>7. ASSUME NEW i \in Leases(h) PROVE Holds(h, new, i) <=> Holds(h, old, i)
  <2>1. CASE h[i].id \in DOMAIN new
    BY <1>4, <2>1 DEF Holds
  <2>2. CASE h[i].id \in DOMAIN old /\ h[i].id \notin DOMAIN new
    <3>1. old[h[i].id].lease_token = None
      BY <1>3, <2>2
    <3> QED
      BY <1>6, <2>2, <3>1 DEF Holds
  <2>3. CASE h[i].id \notin DOMAIN old
    BY <2>3 DEF Holds
  <2> QED
    BY <2>1, <2>2, <2>3
<1>8. Ledger(h, new, issued)
  <2>1. ASSUME NEW i \in Leases(h)
        PROVE  IF Holds(h, new, i)
               THEN EndsOf(h, i) = {} /\ GrantEnd(h, i) = new[h[i].id].lease_deadline
               ELSE EndsOf(h, i) # {}
    <3>1. CASE Holds(h, new, i)
      <4>1. Holds(h, old, i) /\ h[i].id \in DOMAIN new
        BY <1>7, <3>1 DEF Holds
      <4>2. EndsOf(h, i) = {} /\ GrantEnd(h, i) = old[h[i].id].lease_deadline
        BY <4>1 DEF Ledger
      <4> QED
        BY <1>4, <3>1, <4>1, <4>2
    <3>2. CASE ~Holds(h, new, i)
      <4>1. ~Holds(h, old, i)
        BY <1>7, <3>2
      <4>2. EndsOf(h, i) # {}
        BY <4>1 DEF Ledger
      <4> QED
        BY <3>2, <4>2
    <3> QED
      BY <3>1, <3>2
  <2>2. \A i, j \in Leases(h) : h[i].token = h[j].token => i = j
    BY DEF Ledger
  <2>3. \A id \in DOMAIN new : new[id].state = "LEASED" =>
          \E i \in Leases(h) : h[i].id = id /\ h[i].token = new[id].lease_token
    BY <1>4 DEF Ledger
  <2> QED
    BY <1>5, <2>1, <2>2, <2>3 DEF Ledger
<1>9. Onward(h, old, h, new, issued, FALSE)
  BY <1>7 DEF Onward
<1>10. ASSUME NEW id \in JobId PROVE SeenIn(new, id) \in D!Moved(SeenIn(old, id))
  <2>1. CASE id \in DOMAIN new
    <3>1. Seen(new[id]) = Seen(old[id])
      BY <1>4, <2>1 DEF Seen
    <3>2. SeenIn(new, id) = SeenIn(old, id)
      BY <2>1, <3>1 DEF SeenIn
    <3> QED
      BY <3>2 DEF D!Moved
  <2>2. CASE id \in DOMAIN old /\ id \notin DOMAIN new
    <3>1. old[id].state # "LEASED" /\ old[id] \in Job
      BY <1>1, <2>2
    <3>2. Nobodys \in D!Moved(SeenIn(old, id))
      BY <1>2, <3>1, PurgeMoves
    <3> QED
      BY <2>2, <3>2 DEF SeenIn
  <2>3. CASE id \notin DOMAIN old
    <3>1. SeenIn(new, id) = SeenIn(old, id)
      BY <2>3 DEF SeenIn
    <3> QED
      BY <3>1 DEF D!Moved
  <2> QED
    BY <2>1, <2>2, <2>3
<1> QED
  BY <1>2, <1>8, <1>9, <1>10 DEF Working

-----------------------------------------------------------------------------
(***************************************************************************)
(* The three ways an operation can end, as far as the log shows: it only   *)
(* reaps, and perhaps not all; it reaps, then writes, and perhaps not all; *)
(* it reaps and moves to a new log.                                        *)
(***************************************************************************)
ReapsOnly(p, batch) ==
  /\ UNCHANGED <<issued, past>>
  /\ \E k \in 0..Len(batch) : log'.recs = Popped(p).log.recs \o SubSeq(batch, 1, k)

Works(s) ==
  /\ past' = past
  /\ \E recs \in Seq(Record) :
       /\ Proceeds(Whole(s.log), recs) /\ Draws(recs)
       /\ \E k \in 0..Len(recs) : log'.recs = s.log.recs \o SubSeq(recs, 1, k)

Compacts(s) == issued' = issued /\ \E live \in LiveJobs(s.idx) : Flip(s, live)

LEMMA CommittedLog ==
  ASSUME NEW s, Session(s), NEW recs \in Seq(Record)
  PROVE  Committed(s, recs).log.recs = s.log.recs \o recs
  BY WrittenLog, Zenon

LEMMA CommitWrites ==
  ASSUME NEW p, NEW s, Session(s), NEW recs \in Seq(Record), NEW replies,
         Commit(p, s, recs, replies)
  PROVE  \E k \in 0..Len(recs) : log'.recs = s.log.recs \o SubSeq(recs, 1, k)
<1>1. CASE Interrupted(p, s, recs)
  BY <1>1, WrittenLog
<1>2. CASE \E t \in {Committed(s, recs)} : Returns(p, t, replies)
  <2>1. log'.recs = s.log.recs \o recs
    <3>1. log' = Committed(s, recs).log
      BY <1>2 DEF Returns
    <3>2. Committed(s, recs).log.recs = s.log.recs \o recs
      BY CommittedLog
    <3> QED
      BY <3>1, <3>2, Zenon
  <2>2. SubSeq(recs, 1, Len(recs)) = recs /\ Len(recs) \in 0..Len(recs)
    BY PrefixFacts
  <2>3. log'.recs = s.log.recs \o SubSeq(recs, 1, Len(recs))
    BY <2>1, <2>2, Zenon
  <2> QED
    BY <2>2, <2>3, Zenon
<1> QED
  BY <1>1, <1>2 DEF Commit

LEMMA EndsIs ==
  ASSUME DistinctKeys, LimitsPositive, IInv, HeapsInOrder, NEW p \in Proc, proc[p].up,
         NEW batch \in ReapBatches(CaughtUp(p).idx), Ends(p, batch)
  PROVE  /\ now' = now
         /\ ReapsOnly(p, batch) \/ Works(Begun(p, batch)) \/ Compacts(Begun(p, batch))
<1> DEFINE s == Begun(p, batch)
<1>1. batch \in Seq(Record) /\ Session(Popped(p)) /\ Session(s)
  BY ReapFacts, BegunFacts
<1>2. /\ s.log.recs = Popped(p).log.recs \o batch
      /\ SubSeq(batch, 1, Len(batch)) = batch /\ Len(batch) \in 0..Len(batch)
  <2>1. s.log.recs = Popped(p).log.recs \o batch
    <3>1. Committed(Popped(p), batch).log.recs = Popped(p).log.recs \o batch
      BY <1>1, CommittedLog, Zenon
    <3> QED
      BY <3>1, Zenon DEF Begun
  <2>2. SubSeq(batch, 1, Len(batch)) = batch /\ Len(batch) \in 0..Len(batch)
    BY <1>1, PrefixFacts
  <2> QED
    BY <2>1, <2>2
<1>3. InOrder(s.idx)
  BY BegunInOrder
<1>4. now' = now
  BY DEF Ends
<1>5. ASSUME UNCHANGED <<issued, past>>, log' = s.log PROVE ReapsOnly(p, batch)
  BY <1>2, <1>5 DEF ReapsOnly
<1>6. CASE /\ UNCHANGED <<issued, past>>
           /\ \/ Interrupted(p, Popped(p), batch)
              \/ \E replies : Returns(p, s, replies)
              \/ \E t : /\ Prepares(s, t) /\ GivesBack(s.idx, t.idx)
                        /\ proc' = [proc EXCEPT ![p] = Attached(t)] /\ log' = s.log
              \/ Breaks(p, s) /\ log' = s.log
  <2>1. CASE Interrupted(p, Popped(p), batch)
    <3>1. \E k \in 0..Len(batch) : log'.recs = Popped(p).log.recs \o SubSeq(batch, 1, k)
      BY <1>1, <2>1, WrittenLog
    <3> QED
      BY <1>4, <1>6, <3>1 DEF ReapsOnly
  <2>2. CASE log' = s.log
    BY <1>4, <1>5, <1>6, <2>2
  <2>3. CASE \E replies : Returns(p, s, replies)
    <3>1. log' = s.log
      BY <2>3 DEF Returns
    <3> QED
      BY <2>2, <3>1
  <2> QED
    BY <1>6, <2>1, <2>2, <2>3
<1>7. CASE /\ past' = past
           /\ \E t, recs, replies : Proper(s, t, recs) /\ Commit(p, t, recs, replies) /\ Draws(recs)
  <2>1. PICK t, recs, replies : Proper(s, t, recs) /\ Commit(p, t, recs, replies) /\ Draws(recs)
    BY <1>7
  <2>2. recs \in Seq(Record) /\ Session(t) /\ t.log = s.log
    BY <2>1 DEF Proper, Prepares
  <2>3. Proceeds(Whole(s.log), recs)
    BY <1>1, <1>3, <2>1, ProperProceeds
  <2>4. \E k \in 0..Len(recs) : log'.recs = s.log.recs \o SubSeq(recs, 1, k)
    <3>1. \E k \in 0..Len(recs) : log'.recs = t.log.recs \o SubSeq(recs, 1, k)
      BY <2>1, <2>2, CommitWrites
    <3> QED
      BY <2>2, <3>1
  <2> HIDE DEF s
  <2>5. Works(s)
    BY <1>7, <2>1, <2>2, <2>3, <2>4 DEF Works
  <2> QED
    BY <1>4, <2>5 DEF s
<1>8. CASE /\ issued' = issued
           /\ \E live \in LiveJobs(s.idx) :
                /\ Flip(s, live)
                /\ \/ Breaks(p, s)
                   \/ \E q : q.idx = Retain(s.idx, live) /\ proc' = [proc EXCEPT ![p] = q]
  <2>1. Compacts(s)
    BY <1>8 DEF Compacts
  <2> QED
    BY <1>4, <2>1
<1> QED
  BY <1>6, <1>7, <1>8 DEF Ends

-----------------------------------------------------------------------------
(***************************************************************************)
(* The inductive invariant of the refinement: what view shows is what the  *)
(* log and its history say, and the history accounts for every lease.      *)
(***************************************************************************)
Picture(h, jobs) == [jobs |-> DeliveryJobs(jobs), grants |-> DeliveryGrants(h)]

RInv ==
  /\ IInv /\ HeapsInOrder /\ LeaseCovered /\ TimersTrue
  /\ Ledger(History, Jobs, issued) /\ view = Picture(History, Jobs)

Advances == D!Step /\ Ledger(History', Jobs', issued')

LEMMA ViewIs == ASSUME NEW l, NEW h PROVE ViewOf(l.recs, h) = Picture(h, Whole(l).jobs)
<1>1. {DeliveryJobs(jobs) : jobs \in {Whole(l).jobs}} = {DeliveryJobs(Whole(l).jobs)}
  OBVIOUS
<1>2. ViewOf(l.recs, h) =
        [jobs |-> The({DeliveryJobs(jobs) : jobs \in {Whole(l).jobs}}), grants |-> DeliveryGrants(h)]
  BY DEF ViewOf, Whole
<1>3. The({DeliveryJobs(jobs) : jobs \in {Whole(l).jobs}}) = DeliveryJobs(Whole(l).jobs)
  BY <1>1, TheSingleton
<1> QED
  BY <1>2, <1>3 DEF Picture

LEMMA StoryNow == History = Story(log) /\ Jobs = Whole(log).jobs
  BY DEF History, Story, HistoryOf, Jobs, Whole

LEMMA StoryNext ==
  ASSUME past' = past, NEW m, log' = m
  PROVE  History' = Story(m) /\ Jobs' = Whole(m).jobs
  BY DEF History, Story, HistoryOf, Jobs, Whole

LEMMA WorkNothing ==
  ASSUME issued \in Nat, NEW g \in Seq(Record), NEW new \in Tables, Ledger(g, new, issued)
  PROVE  Working(g, new, g, new, issued, issued)
  BY OnwardNone DEF Working, D!Moved

LEMMA StepAdvances ==
  ASSUME RInv, now' = now, NEW mid, NEW swept, NEW drawn,
         Sweeping(History, Jobs, mid, swept, issued), issued' = drawn,
         NEW g, NEW new, Working(mid, swept, g, new, issued, drawn),
         History' = g, Jobs' = new, view' = Picture(History', Jobs')
  PROVE  Advances
<1>1. /\ mid \in Seq(Record) /\ swept \in Tables /\ Ledger(mid, swept, issued)
      /\ Onward(History, Jobs, mid, swept, issued, TRUE)
      /\ \A id \in JobId : SeenIn(swept, id) \in D!Swept(SeenIn(Jobs, id))
  BY DEF Sweeping
<1>2. /\ g \in Seq(Record) /\ new \in Tables /\ drawn \in Nat
      /\ Ledger(g, new, drawn) /\ Onward(mid, swept, g, new, issued, FALSE)
      /\ \A id \in JobId : SeenIn(new, id) \in D!Moved(SeenIn(swept, id))
  BY DEF Working
<1>3. Jobs \in Tables /\ issued \in Nat
  <2>1. Follows(log)
    BY FollowsItself DEF RInv
  <2> QED
    BY <2>1, StoryFacts, StoryNow, NowType DEF RInv
<1>4. view.jobs = DeliveryJobs(Jobs) /\ view.grants = DeliveryGrants(History)
  BY DEF RInv, Picture
<1>5. view'.jobs = DeliveryJobs(new) /\ view'.grants = DeliveryGrants(g)
  <2>1. view' = Picture(g, new)
    OBVIOUS
  <2> QED
    BY <2>1 DEF Picture
<1>6. D!Step
  <2> DEFINE h == History  jobs == Jobs
  <2>1. /\ Onward(h, jobs, mid, swept, issued, TRUE) /\ jobs \in Tables
        /\ \A id \in JobId : SeenIn(swept, id) \in D!Swept(SeenIn(jobs, id))
        /\ view.jobs = DeliveryJobs(jobs) /\ view.grants = DeliveryGrants(h)
    BY <1>1, <1>3, <1>4
  <2> HIDE DEF h, jobs
  <2> QED
    BY <1>1, <1>2, <1>3, <1>5, <2>1, ContractStep
<1> QED
  BY <1>2, <1>6 DEF Advances

\* Where an operation stands once it has reaped.
Stands(s) ==
  /\ Session(s) /\ AllRunning(Whole(s.log).jobs)
  /\ Ledger(Story(s.log), Whole(s.log).jobs, issued)
  /\ Sweeping(History, Jobs, Story(s.log), Whole(s.log).jobs, issued)

LEMMA PoppedStory ==
  ASSUME RInv, NEW p \in Proc, proc[p].up
  PROVE  LET l == Popped(p).log IN
         /\ Follows(l) /\ Story(l) = History /\ Whole(l).jobs = Jobs
         /\ Ledger(Story(l), Whole(l).jobs, issued)
<1> DEFINE l == Popped(p).log
<1>1. IInv /\ Ledger(History, Jobs, issued)
  BY DEF RInv
<1>2. Follows(l)
  BY <1>1, PoppedFacts DEF Session
<1>3. l.recs = log.recs
  BY <1>1, PoppedFacts, RepairedFacts DEF CaughtUp
<1>4. Story(l) = Story(log) /\ Whole(l) = Whole(log)
  BY <1>3 DEF Story, HistoryOf, Whole
<1> QED
  BY <1>1, <1>2, <1>4, StoryNow

LEMMA ReapedTo ==
  ASSUME RInv, NEW p \in Proc, proc[p].up, NEW batch \in ReapBatches(CaughtUp(p).idx),
         NEW k \in 0..Len(batch), NEW m, m.recs = Popped(p).log.recs \o SubSeq(batch, 1, k)
  PROVE  Sweeping(History, Jobs, Story(m), Whole(m).jobs, issued)
<1> DEFINE l == Popped(p).log
<1>1. IInv /\ HeapsInOrder /\ TimersTrue
  BY DEF RInv
<1>2. /\ Follows(l) /\ Story(l) = History /\ Whole(l).jobs = Jobs
      /\ Ledger(Story(l), Whole(l).jobs, issued)
  BY PoppedStory
<1>3. batch \in Seq(Record)
  BY <1>1, ReapFacts
<1>4. Sweeping(Story(l), Whole(l).jobs,
               Story(l) \o SubSeq(batch, 1, k), After(Whole(l), batch, k).jobs, issued)
  BY <1>1, <1>2, ReapPart
<1> HIDE DEF l
<1>5. Story(m) = Story(l) \o SubSeq(batch, 1, k) /\ Whole(m) = After(Whole(l), batch, k)
  <2>1. m.recs = l.recs \o SubSeq(batch, 1, k)
    BY DEF l
  <2> QED
    BY <1>1, <1>2, <1>3, <2>1, StoryGrows, Zenon
<1> QED
  BY <1>2, <1>4, <1>5, Zenon

LEMMA BegunStands ==
  ASSUME RInv, NEW p \in Proc, proc[p].up, NEW batch \in ReapBatches(CaughtUp(p).idx)
  PROVE  Stands(Begun(p, batch))
<1> DEFINE s == Begun(p, batch)
<1>1. IInv /\ LeaseCovered
  BY DEF RInv
<1>2. batch \in Seq(Record) /\ Session(Popped(p)) /\ Session(s)
  BY <1>1, ReapFacts, BegunFacts
<1>3. AllRunning(Whole(s.log).jobs)
  BY <1>1, BegunRunning
<1>4. s.log.recs = Popped(p).log.recs \o batch
  <2>1. Committed(Popped(p), batch).log.recs = Popped(p).log.recs \o batch
    BY <1>2, CommittedLog, Zenon
  <2> QED
    BY <2>1, Zenon DEF Begun
<1>5. SubSeq(batch, 1, Len(batch)) = batch /\ Len(batch) \in 0..Len(batch)
  BY <1>2, PrefixFacts
<1>6. s.log.recs = Popped(p).log.recs \o SubSeq(batch, 1, Len(batch))
  BY <1>4, <1>5, Zenon
<1> HIDE DEF s
<1>7. Sweeping(History, Jobs, Story(s.log), Whole(s.log).jobs, issued)
  BY <1>5, <1>6, ReapedTo, Zenon
<1>8. Ledger(Story(s.log), Whole(s.log).jobs, issued)
  BY <1>7 DEF Sweeping
<1>9. Stands(s)
  BY <1>2, <1>3, <1>7, <1>8 DEF Stands
<1> QED
  BY <1>9 DEF s

LEMMA ReapsOnlyAdvances ==
  ASSUME RInv, NEW p \in Proc, proc[p].up, NEW batch \in ReapBatches(CaughtUp(p).idx),
         ReapsOnly(p, batch), now' = now, view' = Picture(History', Jobs')
  PROVE  Advances
<1>1. PICK k \in 0..Len(batch) : log'.recs = Popped(p).log.recs \o SubSeq(batch, 1, k)
  BY DEF ReapsOnly
<1>2. past' = past /\ issued' = issued /\ issued \in Nat
  BY NowType DEF ReapsOnly, RInv
<1>3. PICK m : m = log'
  OBVIOUS
<1>4. m.recs = Popped(p).log.recs \o SubSeq(batch, 1, k)
  BY <1>1, <1>3
<1> DEFINE g == Story(m)  new == Whole(m).jobs
<1>5. Sweeping(History, Jobs, g, new, issued)
  BY <1>4, ReapedTo
<1>6. History' = g /\ Jobs' = new
  BY <1>2, <1>3, StoryNext
<1> HIDE DEF g, new
<1>7. Working(g, new, g, new, issued, issued)
  BY <1>2, <1>5, WorkNothing DEF Sweeping
<1> QED
  BY <1>2, <1>5, <1>6, <1>7, StepAdvances

LEMMA WorksAdvances ==
  ASSUME RInv, Nat \ {0} \subseteq Tokens, NEW s, Stands(s), Works(s),
         now' = now, view' = Picture(History', Jobs')
  PROVE  Advances
<1>1. PICK recs \in Seq(Record) :
        /\ Proceeds(Whole(s.log), recs) /\ Draws(recs)
        /\ \E k \in 0..Len(recs) : log'.recs = s.log.recs \o SubSeq(recs, 1, k)
  BY DEF Works
<1>2. PICK k \in 0..Len(recs) : log'.recs = s.log.recs \o SubSeq(recs, 1, k)
  BY <1>1
<1>3. past' = past /\ issued \in Nat /\ IInv
  BY NowType DEF Works, RInv
<1>4. PICK m : m = log'
  OBVIOUS
<1>5. m.recs = s.log.recs \o SubSeq(recs, 1, k)
  BY <1>2, <1>4
<1>6. issued' \in Nat /\ issued <= issued' /\ Drawn(recs, issued, k) <= issued'
  <2>1. Len(recs) \in Nat /\ k \in Nat /\ k <= Len(recs)
    BY PrefixFacts
  <2>2. CASE \E j \in 1..Len(recs) : recs[j].type = "LEASE"
    <3>1. issued' = issued + Len(recs) /\ Drawn(recs, issued, k) = issued + k
      BY <1>1, <2>2 DEF Draws, Drawn
    <3> QED
      BY <1>3, <2>1, <3>1
  <2>3. CASE ~\E j \in 1..Len(recs) : recs[j].type = "LEASE"
    <3>1. issued' = issued /\ Drawn(recs, issued, k) = issued
      BY <1>1, <2>3 DEF Draws, Drawn
    <3> QED
      BY <1>3, <3>1
  <2> QED
    BY <2>2, <2>3
<1>7. PICK drawn : drawn = issued'
  OBVIOUS
<1> DEFINE l == s.log  mid == Story(l)  swept == Whole(l).jobs  g == Story(m)  new == Whole(m).jobs
<1>8. /\ Follows(l) /\ AllRunning(Whole(l).jobs) /\ Ledger(Story(l), Whole(l).jobs, issued)
      /\ Sweeping(History, Jobs, Story(l), Whole(l).jobs, issued)
  BY DEF Stands, Session
<1>9. \A e \in view.grants : e.token \in 1..issued
  <2>1. view.grants = DeliveryGrants(History) /\ Ledger(History, Jobs, issued)
    BY DEF RInv, Picture
  <2> QED
    BY <2>1, LedgerTokens
<1>10. History' = g /\ Jobs' = new
  BY <1>3, <1>4, StoryNext
<1>11. drawn \in Nat /\ issued <= drawn /\ Drawn(recs, issued, k) <= drawn /\ issued' = drawn
  BY <1>6, <1>7
<1> HIDE DEF l
<1>12. Story(m) = Story(l) \o SubSeq(recs, 1, k) /\ Whole(m) = After(Whole(l), recs, k)
  BY <1>3, <1>5, <1>8, StoryGrows DEF l
<1>13. Proceeds(Whole(l), recs)
  BY <1>1 DEF l
<1>14. Working(Story(l), Whole(l).jobs,
               Story(l) \o SubSeq(recs, 1, k), After(Whole(l), recs, k).jobs, issued, drawn)
  BY <1>3, <1>8, <1>9, <1>11, <1>13, WorkPart
<1>15. Working(mid, swept, g, new, issued, drawn)
  BY <1>12, <1>14, Zenon
<1>16. Sweeping(History, Jobs, mid, swept, issued)
  BY <1>8
<1> HIDE DEF mid, swept, g, new
<1> QED
  BY <1>10, <1>11, <1>15, <1>16, StepAdvances

LEMMA CompactsAdvances ==
  ASSUME RInv, NEW s, Stands(s), s.idx \in Indexes, Compacts(s),
         now' = now, view' = Picture(History', Jobs')
  PROVE  Advances
<1>1. PICK live \in LiveJobs(s.idx) : Flip(s, live)
  BY DEF Compacts
<1>2. issued' = issued /\ IInv /\ Session(s)
  BY DEF Compacts, RInv, Stands
<1> DEFINE l == Compacted(s.log, s.idx, live)  n == Len(live)
           mid == Story(s.log)  swept == Whole(s.log).jobs  new == Whole(l).jobs
<1>3. /\ n \in Nat /\ Len(l.recs) = n /\ log' = l /\ past'.kept = n
      /\ HistoryTo(n)' = HistoryOf(s.log, Len(s.log.recs)) /\ Reading(n)' = ReadingOf(l.recs, n)
  BY <1>1, <1>2, FlippedLog
<1>4. l.recs \in Seq(Record)
  BY <1>1, <1>2, CompactedFacts DEF Logs
<1>5. /\ new \in Tables /\ swept \in Tables
      /\ \A id \in DOMAIN new : id \in DOMAIN swept /\ SameJob(swept[id], new[id])
      /\ \A id \in DOMAIN swept : id \in DOMAIN new \/ swept[id].state = "DONE"
  BY <1>1, <1>2, CompactedSame
<1> HIDE DEF l
<1>6. History' = mid /\ Jobs' = new
  <2>1. Len(log'.recs) = n
    BY <1>3
  <2>2. History' = HistoryTo(n)'
    BY <2>1 DEF History, HistoryTo
  <2>3. Jobs' = new
    BY <1>3 DEF Jobs, Whole
  <2> QED
    BY <1>3, <2>2, <2>3 DEF Story
<1>7. Sweeping(History, Jobs, mid, swept, issued)
  BY DEF Stands
<1> HIDE DEF mid, swept, new
<1>8. mid \in Seq(Record) /\ Ledger(mid, swept, issued)
  BY <1>7 DEF Sweeping
<1>9. Working(mid, swept, mid, new, issued, issued)
  BY <1>2, <1>5, <1>8, CompactPart
<1> QED
  BY <1>2, <1>6, <1>7, <1>9, StepAdvances

LEMMA OperatesAdvances ==
  ASSUME DistinctKeys, LimitsPositive, Nat \ {0} \subseteq Tokens, RInv,
         NEW p \in Proc, Operates(p), view' = Picture(History', Jobs')
  PROVE  Advances
<1>1. proc[p].up
  BY DEF Operates
<1>2. PICK batch \in ReapBatches(CaughtUp(p).idx) : Ends(p, batch)
  BY DEF Operates
<1>3. IInv /\ HeapsInOrder
  BY DEF RInv
<1> DEFINE s == Begun(p, batch)
<1>4. now' = now /\ (ReapsOnly(p, batch) \/ Works(s) \/ Compacts(s))
  BY <1>1, <1>2, <1>3, EndsIs
<1>5. Stands(s) /\ s.idx \in Indexes
  BY <1>1, <1>3, BegunStands, BegunFacts
<1> HIDE DEF s
<1>6. CASE ReapsOnly(p, batch)
  BY <1>1, <1>4, <1>6, ReapsOnlyAdvances
<1>7. CASE Works(s)
  BY <1>4, <1>5, <1>7, WorksAdvances
<1>8. CASE Compacts(s)
  BY <1>4, <1>5, <1>8, CompactsAdvances
<1> QED
  BY <1>4, <1>6, <1>7, <1>8

-----------------------------------------------------------------------------
(***************************************************************************)
(* The refinement: the initial state is one of Delivery, and every step is *)
(* a step of Delivery or changes nothing that Delivery sees.               *)
(***************************************************************************)
LEMMA InitRefines == RInit => RInv /\ D!Init
<1> SUFFICES ASSUME RInit PROVE RInv /\ D!Init
  OBVIOUS
<1>1. Init /\ view = ViewOf(log.recs, History)
  BY DEF RInit
<1>2. IInv /\ HeapsInOrder /\ LeaseCovered /\ TimersTrue
  BY <1>1, InitInv, InitOrder, InitTimes, InitTruthful
<1>3. log.recs = <<>> /\ past.events = <<>> /\ past.kept = 0 /\ now = 0
  BY <1>1 DEF Init
<1>4. Len(History) = 0 /\ DOMAIN History = {}
  <2>1. past.events \in Seq(Record) /\ SubSeq(log.recs, past.kept + 1, Len(log.recs)) = <<>>
    BY <1>3
  <2>2. History = <<>> \o <<>>
    BY <1>3, <2>1 DEF History
  <2> QED
    BY <2>2
<1>5. Jobs = EmptyIndex.jobs /\ DOMAIN Jobs = {}
  BY <1>3, ReplayNothing, EmptyFacts DEF Jobs
<1>6. Leases(History) = {}
  BY <1>4 DEF Leases
<1>7. Ledger(History, Jobs, issued)
  BY <1>5, <1>6 DEF Ledger
<1>8. view = Picture(History, Jobs)
  BY <1>1, ViewIs, StoryNow
<1>9. view.grants = {}
  BY <1>6, <1>8, GrantsAre DEF Picture
<1>10. view.jobs = [id \in JobId |-> D!Absent]
  <2>1. view.jobs = [id \in JobId |-> SeenIn(Jobs, id)]
    BY <1>8, DeliveryJobsIs DEF Picture
  <2>2. \A id : SeenIn(Jobs, id) = Nobodys
    BY <1>5 DEF SeenIn
  <2>3. Nobodys = D!Absent
    BY DEF Nobodys, Delivered, D!Absent
  <2> QED
    BY <2>1, <2>2, <2>3
<1> QED
  BY <1>2, <1>3, <1>7, <1>8, <1>9, <1>10 DEF RInv, D!Init

LEMMA ViewNext ==
  ASSUME RInv, [RNext]_<<vars, view>>
  PROVE  [Next]_vars /\ view' = Picture(History', Jobs')
<1>1. CASE RNext
  <2>1. Next /\ view' = ViewOf(log.recs', History')
    BY <1>1 DEF RNext
  <2>2. PICK m, h : m = log' /\ h = History'
    OBVIOUS
  <2>3. view' = Picture(h, Whole(m).jobs)
    BY <2>1, <2>2, ViewIs
  <2>4. Jobs' = Whole(m).jobs
    BY <2>2 DEF Jobs, Whole
  <2> QED
    BY <2>1, <2>2, <2>3, <2>4
<1>2. CASE UNCHANGED <<vars, view>>
  <2>1. UNCHANGED <<log, past>> /\ view' = view
    BY <1>2 DEF vars
  <2>2. History' = History /\ Jobs' = Jobs
    BY <2>1 DEF History, Jobs
  <2> QED
    BY <1>2, <2>1, <2>2 DEF RInv
<1> QED
  BY <1>1, <1>2

LEMMA SameStory ==
  ASSUME RInv, past' = past, log'.recs = log.recs, issued' = issued,
         view' = Picture(History', Jobs')
  PROVE  view' = view /\ Ledger(History', Jobs', issued')
<1>1. History' = History /\ Jobs' = Jobs
  BY DEF History, Jobs
<1> QED
  BY <1>1 DEF RInv

\* What the environment may do without undoing what the log said: no power loss,
\* no clock that steps back, no write that fails in a process that lives on.
Steadfast == Faults \cap {"power", "clock", "raise"} = {}

LEMMA StepRefines ==
  ASSUME DistinctKeys, LimitsPositive, Nat \ {0} \subseteq Tokens, Steadfast,
         RInv, [Next]_vars, view' = Picture(History', Jobs')
  PROVE  [D!Next]_(D!vars) /\ Ledger(History', Jobs', issued')
<1>1. IInv
  BY DEF RInv
<1>2. \/ \E p \in Proc : Operates(p) \/ Open(p) \/ Stop(p)
      \/ PowerLoss
      \/ UNCHANGED <<log, proc, past>> /\ (Tick \/ ClockBack \/ UNCHANGED vars)
  BY <1>1, StepIs
<1>3. ~PowerLoss /\ ~ClockBack
  BY DEF Steadfast, PowerLoss, ClockBack
<1>4. ASSUME NEW p \in Proc, Operates(p)
      PROVE  [D!Next]_(D!vars) /\ Ledger(History', Jobs', issued')
  BY <1>4, OperatesAdvances DEF Advances, D!Next
<1>5. ASSUME NEW p \in Proc, Open(p)
      PROVE  [D!Next]_(D!vars) /\ Ledger(History', Jobs', issued')
  <2>1. past' = past /\ issued' = issued /\ now' = now /\ log' = Repaired(log)
    BY <1>5 DEF Open
  <2>2. log'.recs = log.recs
    BY <1>1, <2>1, RepairedFacts
  <2> QED
    BY <2>1, <2>2, SameStory DEF D!vars
<1>6. ASSUME NEW p \in Proc, Stop(p)
      PROVE  [D!Next]_(D!vars) /\ Ledger(History', Jobs', issued')
  BY <1>6, SameStory DEF Stop, D!vars
<1>7. CASE Tick /\ UNCHANGED <<log, past>>
  <2>1. issued' = issued /\ now < MaxTime /\ now' = now + 1
    BY <1>7 DEF Tick
  <2>2. view' = view /\ Ledger(History', Jobs', issued')
    BY <1>7, <2>1, SameStory
  <2> QED
    BY <2>1, <2>2 DEF D!Next, D!Tick
<1>8. CASE UNCHANGED vars
  BY <1>8, SameStory DEF vars, D!vars
<1> QED
  BY <1>2, <1>3, <1>4, <1>5, <1>6, <1>7, <1>8

LEMMA StepRInv ==
  ASSUME DistinctKeys, LimitsPositive, Nat \ {0} \subseteq Tokens, Steadfast,
         RInv, [RNext]_<<vars, view>>
  PROVE  RInv' /\ [D!Next]_(D!vars)
<1>1. [Next]_vars /\ view' = Picture(History', Jobs')
  BY ViewNext
<1>2. [D!Next]_(D!vars) /\ Ledger(History', Jobs', issued')
  BY <1>1, StepRefines
<1>3. IInv /\ HeapsInOrder /\ LeaseCovered /\ TimersTrue /\ "raise" \notin Faults
  BY DEF RInv, Steadfast
<1>4. IInv' /\ HeapsInOrder' /\ LeaseCovered' /\ TimersTrue'
  BY <1>1, <1>3, StepInv, StepOrder, StepTimes, StepTruthful
<1> QED
  BY <1>1, <1>2, <1>4 DEF RInv

\* A queue keeps the promise of Delivery: every operation, with the reaping before
\* it and whatever part of its write a kill leaves, is a step of Delivery.
THEOREM QueueDelivers ==
  ASSUME DistinctKeys, LimitsPositive, Tokens = Nat \ {0}, Steadfast
  PROVE  RSpec => ImplementsDelivery
<1>1. RInit => RInv /\ D!Init
  BY InitRefines
<1>2. RInv /\ [RNext]_<<vars, view>> => RInv' /\ [D!Next]_(D!vars)
  BY StepRInv
<1> QED
  BY <1>1, <1>2, PTL DEF RSpec, ImplementsDelivery, D!Spec
=============================================================================
