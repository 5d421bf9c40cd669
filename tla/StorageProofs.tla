---------------------------- MODULE StorageProofs ----------------------------
(***************************************************************************)
(* Theorems of Storage, proved with the inductive invariant IInv: at every *)
(* moment, and through every crash, the pointer leads to a log that holds  *)
(* what was promised; an operation works on that log, with all of it in    *)
(* its index; and a scan of a log is exact.                                *)
(*                                                                         *)
(* In this order: what a scan of a log returns; which records can be in a  *)
(* log that keeps the promises, however it is cut; what writing, repair,   *)
(* compaction and a power cut make of such a log; the invariant, whatever  *)
(* a power cut picks of the two directories; one lemma for each action;    *)
(* and the theorems.                                                       *)
(***************************************************************************)
EXTENDS Storage, Induction, SequenceTheorems

-----------------------------------------------------------------------------
(***************************************************************************)
(* Recursion with one call, of bounded depth: f[x] is given at the points  *)
(* of stop and follows elsewhere from f at the next point.                 *)
(***************************************************************************)
\* It is bounded: at most N steps lead from any point to one in stop.
Bounded(S, V, N, rank, stop, val, next, step) ==
  /\ N \in Nat /\ rank \in [S -> 0..N]
  /\ val \in [S -> V] /\ next \in [S -> S] /\ step \in [S \X V -> V]
  /\ \A x \in S \ stop : rank[next[x]] < rank[x]

LEMMA RecursionExists ==
  ASSUME NEW S, NEW V, NEW N, NEW rank, NEW stop, NEW val, NEW next, NEW step,
         Bounded(S, V, N, rank, stop, val, next, step)
  PROVE  \E f \in [S -> V] :
           \A x \in S : f[x] = IF x \in stop THEN val[x] ELSE step[<<x, f[next[x]]>>]
<1> USE DEF Bounded
<1> DEFINE Eq(f, x) == f[x] = IF x \in stop THEN val[x] ELSE step[<<x, f[next[x]]>>]
           T == {n \in Nat : \E f \in [S -> V] : \A x \in S : rank[x] < n => Eq(f, x)}
<1>1. 0 \in T
  <2>1. \A x \in S : ~(rank[x] < 0)
    OBVIOUS
  <2> QED
    BY <2>1
<1>2. ASSUME NEW n \in Nat, n \in T PROVE n + 1 \in T
  <2>1. PICK f \in [S -> V] : \A x \in S : rank[x] < n => Eq(f, x)
    BY <1>2
  <2> DEFINE g == [x \in S |-> IF x \in stop THEN val[x] ELSE step[<<x, f[next[x]]>>]]
  <2>2. g \in [S -> V]
    OBVIOUS
  <2>3. ASSUME NEW x \in S, rank[x] < n + 1 PROVE Eq(g, x)
    <3>1. CASE x \in stop
      BY <3>1
    <3>2. CASE x \notin stop
      <4>1. next[x] \in S /\ rank[next[x]] \in Int /\ rank[x] \in Int /\ rank[next[x]] < rank[x]
        BY <3>2
      <4>2. rank[next[x]] < n
        BY <2>3, <4>1
      <4>3. Eq(f, next[x])
        BY <2>1, <4>1, <4>2
      <4>4. g[next[x]] = f[next[x]]
        BY <4>1, <4>3
      <4> QED
        BY <3>2, <4>1, <4>4
    <3> QED
      BY <3>1, <3>2
  <2> HIDE DEF g
  <2> QED
    BY <2>2, <2>3
<1> HIDE DEF T
<1>3. N + 1 \in T
  BY <1>1, <1>2, NatSetInduction
<1>4. PICK f \in [S -> V] : \A x \in S : rank[x] < N + 1 => Eq(f, x)
  BY <1>3 DEF T
<1> QED
  BY <1>4

-----------------------------------------------------------------------------
(***************************************************************************)
(* Records in cells.                                                       *)
(***************************************************************************)
Size(r) == RecordHeaderSize + Body[r.type]

\* Record r is in these cells, after the first i of them.
Holds(cells, i, r) ==
  i + Size(r) <= Len(cells) /\ \A k \in 1..Size(r) : cells[i + k] = [of |-> r, at |-> k]

LEMMA RecordFacts ==
  /\ \A r \in Records : r.type \in Type /\ r.job \in Job
  /\ \A r \in Records : Size(r) \in Nat /\ Size(r) >= 2
  /\ \A r \in Records : r = Add(r.job) \/ r = Done(r.job)
  /\ \A r \in Records : r.type = "add" <=> r = Add(r.job)
  /\ \A j \in Job : Add(j) \in Records /\ Done(j) \in Records /\ Add(j) # Done(j)
  /\ \A i, j \in Job : Add(i) # Done(j)
<1>1. ASSUME NEW r \in Records
      PROVE  /\ r.type \in Type /\ r.job \in Job
             /\ r = Add(r.job) \/ r = Done(r.job)
             /\ r.type = "add" <=> r = Add(r.job)
  BY StorageAssumption DEF Records, Add, Done
<1>2. ASSUME NEW r \in Records PROVE Size(r) \in Nat /\ Size(r) >= 2
  <2>1. Body[r.type] \in Nat
    BY <1>1, BodyAssumption
  <2> QED
    BY <2>1 DEF Size, RecordHeaderSize
<1>3. \A i, j \in Job : Add(i) \in Records /\ Done(i) \in Records /\ Add(i) # Done(j)
  BY DEF Records, Add, Done
<1> QED
  BY <1>1, <1>2, <1>3

LEMMA EncodedFacts ==
  ASSUME NEW r \in Records
  PROVE  /\ Encoded(r) \in Seq(DataCell) /\ Len(Encoded(r)) = Size(r)
         /\ \A k \in 1..Size(r) : Encoded(r)[k] = [of |-> r, at |-> k]
<1>1. Size(r) \in Nat
  BY RecordFacts
<1>2. Encoded(r) = [k \in 1..Size(r) |-> [of |-> r, at |-> k]]
  BY DEF Encoded, Size
<1>3. Len(Encoded(r)) = Size(r) /\ DOMAIN Encoded(r) = 1..Size(r)
  BY <1>1, <1>2
<1>4. ASSUME NEW k \in 1..Size(r) PROVE Encoded(r)[k] \in DataCell
  <2>1. Encoded(r)[k] \in ToSet(Encoded(r))
    BY <1>3 DEF ToSet
  <2> QED
    BY <2>1 DEF DataCell
<1>5. Encoded(r) \in [1..Size(r) -> DataCell]
  BY <1>2, <1>4
<1>6. Encoded(r) \in Seq(DataCell)
  BY <1>1, <1>5
<1> QED
  BY <1>2, <1>3, <1>6

LEMMA CellFacts ==
  ASSUME NEW c \in DataCell
  PROVE  c = Hole \/ \E r \in Records : \E k \in 1..Size(r) : c = [of |-> r, at |-> k]
<1>1. CASE c # Hole
  <2>1. PICK r \in Records : c \in ToSet(Encoded(r))
    BY <1>1 DEF DataCell
  <2>2. PICK k \in DOMAIN Encoded(r) : c = Encoded(r)[k]
    BY <2>1 DEF ToSet
  <2> QED
    BY <2>1, <2>2, EncodedFacts DEF Encoded, Size
<1> QED
  BY <1>1

\* Cells of a log, of whatever generation.
Plain(cells) ==
  cells \in Seq(Cell) /\ Len(cells) >= 1 /\ \A i \in 2..Len(cells) : cells[i] \in DataCell

\* These records are in cells, one after the other, from the first i cells to the first e.
Laid(b, cells, i, rs, e) ==
  /\ b \in [0..Len(rs) -> Nat] /\ b[0] = i /\ b[Len(rs)] = e
  /\ \A k \in 1..Len(rs) : Holds(cells, b[k - 1], rs[k]) /\ b[k] = b[k - 1] + Size(rs[k])

Lays(cells, i, rs, e) == \E b : Laid(b, cells, i, rs, e)

LEMMA LaysNothing ==
  ASSUME NEW cells, NEW i \in Nat
  PROVE  Lays(cells, i, <<>>, i)
<1>1. Laid([k \in 0..0 |-> i], cells, i, <<>>, i)
  BY DEF Laid
<1> QED
  BY <1>1 DEF Lays

\* b increases, and stays within the cells.
LEMMA LaidWithin ==
  ASSUME NEW b, NEW cells, NEW i \in Nat, NEW rs \in Seq(Records), NEW e,
         Laid(b, cells, i, rs, e), Len(cells) \in Nat
  PROVE  /\ e \in Nat /\ \A k \in 0..Len(rs) : b[k] \in Nat /\ i <= b[k] /\ b[k] <= e
         /\ \A k \in 1..Len(rs) : b[k] <= Len(cells)
         /\ e > i => e <= Len(cells) /\ Len(rs) > 0
<1>1. Len(rs) \in Nat /\ \A k \in 1..Len(rs) : rs[k] \in Records
  BY LenProperties, ElementOfSeq
<1>2. \A k \in 0..Len(rs) : b[k] \in Nat
  BY DEF Laid
<1>3. ASSUME NEW k \in 1..Len(rs)
      PROVE  b[k - 1] \in Nat /\ b[k - 1] <= b[k] /\ b[k] <= Len(cells)
  <2>1. k - 1 \in 0..Len(rs) /\ k \in 0..Len(rs)
    BY <1>1
  <2>2. b[k - 1] \in Nat /\ b[k] \in Nat /\ Size(rs[k]) \in Nat
    BY <1>1, <1>2, <2>1, RecordFacts
  <2>3. b[k] = b[k - 1] + Size(rs[k]) /\ b[k - 1] + Size(rs[k]) <= Len(cells)
    BY DEF Laid, Holds
  <2> QED
    BY <2>2, <2>3
<1>4. 0..Len(rs) \subseteq {k \in Nat : k <= Len(rs) => i <= b[k]}
  <2> DEFINE T == {k \in Nat : k <= Len(rs) => i <= b[k]}
  <2>1. 0 \in T
    BY DEF Laid
  <2>2. ASSUME NEW k \in 0..(Len(rs) - 1), k \in T PROVE k + 1 \in T
    <3>1. i <= b[k] /\ k + 1 \in 1..Len(rs) /\ (k + 1) - 1 = k
      BY <1>1, <2>2
    <3>2. b[k] <= b[k + 1] /\ b[k] \in Nat /\ b[k + 1] \in Nat
      BY <1>1, <1>2, <1>3, <3>1
    <3> QED
      BY <3>1, <3>2
  <2> HIDE DEF T
  <2>3. 0..Len(rs) \subseteq T
    BY <1>1, <2>1, <2>2, UpToInduction
  <2> QED
    BY <2>3 DEF T
<1>5. 0..Len(rs) \subseteq {k \in Nat : k <= Len(rs) => b[Len(rs) - k] <= e}
  <2> DEFINE T == {k \in Nat : k <= Len(rs) => b[Len(rs) - k] <= e}
  <2>1. 0 \in T
    <3>1. b[Len(rs)] = e /\ e \in Nat /\ Len(rs) - 0 = Len(rs)
      BY <1>1, <1>2 DEF Laid
    <3> QED
      BY <3>1
  <2>2. ASSUME NEW k \in 0..(Len(rs) - 1), k \in T PROVE k + 1 \in T
    <3> DEFINE m == Len(rs) - k
    <3>1. m \in 1..Len(rs) /\ m - 1 = Len(rs) - (k + 1) /\ b[m] <= e
      BY <1>1, <2>2
    <3>2. b[m - 1] <= b[m] /\ b[m - 1] \in Nat /\ b[m] \in Nat /\ e \in Nat
      <4>1. m \in 0..Len(rs)
        BY <3>1, <1>1
      <4> HIDE DEF m
      <4> QED
        BY <1>1, <1>2, <1>3, <3>1, <4>1 DEF Laid
    <3>3. b[Len(rs) - (k + 1)] <= e
      BY <3>1, <3>2
    <3> QED
      BY <3>3
  <2> HIDE DEF T
  <2>3. 0..Len(rs) \subseteq T
    BY <1>1, <2>1, <2>2, UpToInduction
  <2> QED
    BY <2>3 DEF T
<1>6. \A k \in 0..Len(rs) : i <= b[k]
  BY <1>1, <1>4
<1>7. ASSUME NEW k \in 0..Len(rs) PROVE b[k] <= e
  <2>1. Len(rs) - k \in 0..Len(rs) /\ Len(rs) - (Len(rs) - k) = k
    BY <1>1
  <2>2. Len(rs) - k \in {n \in Nat : n <= Len(rs) => b[Len(rs) - n] <= e}
    BY <1>5, <2>1
  <2>3. b[Len(rs) - (Len(rs) - k)] <= e
    BY <1>1, <2>1, <2>2
  <2> QED
    BY <2>1, <2>3
<1>8. e = b[Len(rs)] /\ b[0] = i /\ Len(rs) \in 0..Len(rs)
  BY <1>1 DEF Laid
<1>9. ASSUME e > i PROVE e <= Len(cells) /\ Len(rs) > 0
  <2>1. Len(rs) # 0
    BY <1>8, <1>9
  <2>2. Len(rs) \in 1..Len(rs)
    BY <1>1, <2>1
  <2> QED
    BY <1>1, <1>3, <1>8, <2>1, <2>2
<1> QED
  BY <1>2, <1>3, <1>6, <1>7, <1>8, <1>9

LEMMA LaysWithin ==
  ASSUME NEW cells, NEW i \in Nat, NEW rs \in Seq(Records), NEW e, Lays(cells, i, rs, e),
         Len(cells) \in Nat
  PROVE  /\ e \in Nat /\ i <= e
         /\ i <= Len(cells) => e <= Len(cells)
         /\ rs = <<>> => e = i
<1>1. PICK b : Laid(b, cells, i, rs, e)
  BY DEF Lays
<1>2. Len(rs) \in Nat /\ 0 \in 0..Len(rs)
  BY LenProperties
<1>3. e \in Nat /\ i <= b[0] /\ b[0] <= e /\ b[0] = i
  BY <1>1, <1>2, LaidWithin DEF Laid
<1>4. e > i => e <= Len(cells)
  BY <1>1, LaidWithin
<1>5. rs = <<>> => e = i
  BY <1>1 DEF Laid
<1> QED
  BY <1>3, <1>4, <1>5

\* Cells that agree up to the end of the records have them too.
LEMMA LaysElsewhere ==
  ASSUME NEW cells, NEW i \in Nat, NEW rs \in Seq(Records), NEW e, Lays(cells, i, rs, e),
         Len(cells) \in Nat,
         NEW other, Len(other) \in Nat, e <= Len(other), \A n \in i + 1..e : other[n] = cells[n]
  PROVE  Lays(other, i, rs, e)
<1>1. PICK b : Laid(b, cells, i, rs, e)
  BY DEF Lays
<1>2. ASSUME NEW k \in 1..Len(rs) PROVE Holds(other, b[k - 1], rs[k])
  <2>0. Len(rs) \in Nat /\ rs[k] \in Records /\ e \in Nat
    BY <1>1, LenProperties, ElementOfSeq, LaidWithin
  <2>1. /\ Len(rs) \in Nat /\ rs[k] \in Records /\ k - 1 \in 0..Len(rs) /\ k \in 0..Len(rs)
        /\ Size(rs[k]) \in Nat /\ e \in Nat
    BY <2>0, RecordFacts
  <2>2. /\ Holds(cells, b[k - 1], rs[k]) /\ b[k] = b[k - 1] + Size(rs[k])
        /\ b[k - 1] \in Nat /\ i <= b[k - 1] /\ b[k] <= e
    BY <1>1, <2>1, LaidWithin DEF Laid
  <2>3. ASSUME NEW m \in 1..Size(rs[k]) PROVE other[b[k - 1] + m] = cells[b[k - 1] + m]
    <3> DEFINE x == b[k - 1]  y == b[k]  z == Size(rs[k])
    <3>1. x \in Nat /\ z \in Nat /\ y = x + z /\ i <= x /\ y <= e /\ m \in 1..z /\ e \in Nat
      BY <2>1, <2>2
    <3> HIDE DEF x, y, z
    <3>2. x + m \in i + 1..e
      BY <3>1
    <3> QED
      BY <3>2 DEF x
  <2>4. b[k - 1] + Size(rs[k]) <= Len(other)
    BY <2>1, <2>2
  <2>5. \A m \in 1..Size(rs[k]) : other[b[k - 1] + m] = [of |-> rs[k], at |-> m]
    BY <2>2, <2>3 DEF Holds
  <2> QED
    BY <2>4, <2>5 DEF Holds
<1>3. Laid(b, other, i, rs, e)
  BY <1>1, <1>2 DEF Laid
<1> QED
  BY <1>3 DEF Lays

LEMMA LaysConcat ==
  ASSUME NEW cells, NEW i \in Nat, NEW rs \in Seq(Records), NEW m, Lays(cells, i, rs, m),
         NEW ss \in Seq(Records), NEW e, Lays(cells, m, ss, e), Len(cells) \in Nat
  PROVE  rs \o ss \in Seq(Records) /\ Lays(cells, i, rs \o ss, e)
<1>1. PICK b : Laid(b, cells, i, rs, m)
  BY DEF Lays
<1>2. PICK c : Laid(c, cells, m, ss, e)
  BY DEF Lays
<1> DEFINE all == rs \o ss
           d == [k \in 0..Len(all) |-> IF k <= Len(rs) THEN b[k] ELSE c[k - Len(rs)]]
<1>3. /\ Len(rs) \in Nat /\ Len(ss) \in Nat /\ Len(all) = Len(rs) + Len(ss) /\ all \in Seq(Records)
      /\ \A k \in 1..Len(rs) + Len(ss) : all[k] = IF k <= Len(rs) THEN rs[k] ELSE ss[k - Len(rs)]
  BY LenProperties, ConcatProperties
<1> HIDE DEF all
<1>4. \A k \in 0..Len(all) : k > Len(rs) => k - Len(rs) \in 1..Len(ss)
  BY <1>3
<1>5. d \in [0..Len(all) -> Nat]
  <2>1. ASSUME NEW k \in 0..Len(all) PROVE d[k] \in Nat
    <3>1. CASE k <= Len(rs)
      <4>1. k \in 0..Len(rs)
        BY <1>3, <3>1
      <4> QED
        BY <1>1, <3>1, <4>1 DEF Laid
    <3>2. CASE ~(k <= Len(rs))
      <4>1. k - Len(rs) \in 0..Len(ss)
        BY <1>3, <3>2
      <4> QED
        BY <1>2, <3>2, <4>1 DEF Laid
    <3> QED
      BY <3>1, <3>2
  <2> QED
    BY <2>1
<1>6. d[0] = i /\ d[Len(all)] = e
  <2>1. d[0] = b[0]
    BY <1>3
  <2>2. d[Len(all)] = e
    <3>1. CASE Len(ss) = 0
      <4>1. Len(all) = Len(rs) /\ d[Len(all)] = b[Len(rs)]
        BY <1>3, <3>1
      <4> QED
        BY <1>1, <1>2, <3>1, <4>1 DEF Laid
    <3>2. CASE Len(ss) # 0
      <4>1. d[Len(all)] = c[Len(ss)]
        BY <1>3, <3>2
      <4> QED
        BY <1>2, <4>1 DEF Laid
    <3> QED
      BY <3>1, <3>2
  <2> QED
    BY <1>1, <2>1, <2>2 DEF Laid
<1>7. ASSUME NEW k \in 1..Len(all)
      PROVE  Holds(cells, d[k - 1], all[k]) /\ d[k] = d[k - 1] + Size(all[k])
  <2>0. k \in 0..Len(all) /\ k - 1 \in 0..Len(all)
    BY <1>3
  <2>1. CASE k <= Len(rs)
    <3>1. k \in 1..Len(rs) /\ d[k] = b[k] /\ d[k - 1] = b[k - 1] /\ all[k] = rs[k]
      BY <1>3, <2>0, <2>1
    <3> QED
      BY <1>1, <3>1 DEF Laid
  <2>2. CASE ~(k <= Len(rs))
    <3> DEFINE n == k - Len(rs)
    <3>1. n \in 1..Len(ss) /\ d[k] = c[n] /\ all[k] = ss[n]
      BY <1>3, <2>0, <2>2
    <3>2. d[k - 1] = c[n - 1]
      <4>1. CASE n = 1
        <5>1. k - 1 = Len(rs) /\ d[k - 1] = b[Len(rs)] /\ n - 1 = 0
          BY <1>3, <2>0, <4>1
        <5> QED
          BY <1>1, <1>2, <5>1 DEF Laid
      <4>2. CASE n # 1
        BY <1>3, <2>0, <2>2, <3>1, <4>2
      <4> QED
        BY <4>1, <4>2
    <3> HIDE DEF n, d
    <3> QED
      BY <1>2, <3>1, <3>2 DEF Laid
  <2> QED
    BY <2>1, <2>2
<1> HIDE DEF d
<1>8. Laid(d, cells, i, all, e)
  BY <1>5, <1>6, <1>7 DEF Laid
<1> QED
  BY <1>3, <1>8 DEF Lays, all

LEMMA LaysOne ==
  ASSUME NEW cells, NEW i \in Nat, NEW r \in Records, Holds(cells, i, r)
  PROVE  <<r>> \in Seq(Records) /\ Lays(cells, i, <<r>>, i + Size(r))
<1> DEFINE b == [k \in 0..1 |-> IF k = 0 THEN i ELSE i + Size(r)]
<1>1. Size(r) \in Nat /\ Len(<<r>>) = 1 /\ <<r>>[1] = r
  BY RecordFacts
<1>2. b \in [0..1 -> Nat] /\ b[0] = i /\ b[1] = i + Size(r)
  BY <1>1
<1> HIDE DEF b
<1>3. Laid(b, cells, i, <<r>>, i + Size(r))
  BY <1>1, <1>2 DEF Laid
<1> QED
  BY <1>3 DEF Lays

\* What starts at a place is one record at most.
LEMMA OneRecord ==
  ASSUME NEW cells, NEW i, NEW r \in Records, NEW s \in Records,
         Holds(cells, i, r), Holds(cells, i, s)
  PROVE  r = s
<1>1. 1 \in 1..Size(r) /\ 1 \in 1..Size(s)
  BY RecordFacts
<1>2. [of |-> r, at |-> 1] = [of |-> s, at |-> 1]
  BY <1>1 DEF Holds
<1> QED
  BY <1>2

\* rs, which end at e, are ss, which end at f, and more.
Continue(cells, ss, f, rs, e) ==
  \E ts \in Seq(Records) : rs = ss \o ts /\ Lays(cells, f, ts, e)

\* Of two runs of records from one place the shorter is the start of the longer.
LEMMA LaysPrefix ==
  ASSUME NEW cells, Len(cells) \in Nat, NEW i \in Nat,
         NEW rs \in Seq(Records), NEW e, Lays(cells, i, rs, e),
         NEW ss \in Seq(Records), NEW f, Lays(cells, i, ss, f), e <= f
  PROVE  Continue(cells, rs, e, ss, f)
<1>1. PICK b : Laid(b, cells, i, rs, e)
  BY DEF Lays
<1>2. PICK c : Laid(c, cells, i, ss, f)
  BY DEF Lays
<1>3. /\ Len(rs) \in Nat /\ Len(ss) \in Nat
      /\ \A k \in 1..Len(rs) : rs[k] \in Records
      /\ \A k \in 1..Len(ss) : ss[k] \in Records
  BY LenProperties, ElementOfSeq
<1>4. e \in Nat /\ f \in Nat /\ \A k \in 0..Len(rs) : b[k] \in Nat /\ b[k] <= e
  BY <1>1, <1>2, LaidWithin
<1> DEFINE T == {k \in Nat : k <= Len(rs) => k <= Len(ss) /\ b[k] = c[k] /\ (k > 0 => rs[k] = ss[k])}
<1>5. 0 \in T
  BY <1>1, <1>2, <1>3 DEF Laid
<1>6. ASSUME NEW k \in 0..(Len(rs) - 1), k \in T PROVE k + 1 \in T
  <2>1. k <= Len(ss) /\ b[k] = c[k] /\ k + 1 \in 1..Len(rs) /\ (k + 1) - 1 = k /\ k + 1 \in 0..Len(rs)
    BY <1>3, <1>6
  <2>2. Holds(cells, b[k], rs[k + 1]) /\ b[k + 1] = b[k] + Size(rs[k + 1])
    BY <1>1, <2>1 DEF Laid
  <2>3. Size(rs[k + 1]) \in Nat /\ Size(rs[k + 1]) >= 2
    BY <1>3, <2>1, RecordFacts
  <2>4. b[k] \in Nat /\ b[k + 1] \in Nat /\ b[k + 1] <= e
    BY <1>3, <1>4, <2>1
  <2>5. c[k] < f
    BY <1>4, <2>1, <2>2, <2>3, <2>4
  <2>6. k # Len(ss)
    BY <1>2, <1>4, <2>5 DEF Laid
  <2>7. k + 1 \in 1..Len(ss)
    BY <1>3, <2>1, <2>6
  <2>8. Holds(cells, c[k], ss[k + 1]) /\ c[k + 1] = c[k] + Size(ss[k + 1])
    BY <1>2, <2>1, <2>7 DEF Laid
  <2>9. rs[k + 1] = ss[k + 1]
    BY <1>3, <2>1, <2>2, <2>7, <2>8, OneRecord
  <2> QED
    BY <2>1, <2>2, <2>7, <2>8, <2>9
<1> HIDE DEF T
<1>7. 0..Len(rs) \subseteq T
  BY <1>3, <1>5, <1>6, UpToInduction
<1>8. /\ Len(rs) <= Len(ss) /\ b[Len(rs)] = c[Len(rs)]
      /\ \A k \in 1..Len(rs) : rs[k] = ss[k]
  BY <1>3, <1>7 DEF T
<1> DEFINE n == Len(ss) - Len(rs)
           ts == [k \in 1..n |-> ss[k + Len(rs)]]
           d == [k \in 0..n |-> c[k + Len(rs)]]
<1>9. /\ n \in Nat /\ ts \in Seq(Records) /\ Len(ts) = n
      /\ \A k \in 1..n : ts[k] = ss[k + Len(rs)]
  <2>1. n \in Nat /\ \A k \in 1..n : k + Len(rs) \in 1..Len(ss)
    BY <1>3, <1>8
  <2>2. ts \in [1..n -> Records]
    BY <1>3, <2>1
  <2> QED
    BY <2>1, <2>2
<1>10. ss = rs \o ts
  <2> HIDE DEF n, ts
  <2>1. /\ rs \o ts \in Seq(Records) /\ Len(rs \o ts) = Len(rs) + n
        /\ \A k \in 1..Len(rs) + n : (rs \o ts)[k] = IF k <= Len(rs) THEN rs[k] ELSE ts[k - Len(rs)]
    BY <1>9, ConcatProperties
  <2>2. Len(rs) + n = Len(ss)
    BY <1>3 DEF n
  <2>3. ASSUME NEW k \in 1..Len(ss) PROVE (rs \o ts)[k] = ss[k]
    <3>1. CASE k <= Len(rs)
      <4>1. k \in 1..Len(rs)
        BY <1>3, <3>1
      <4> QED
        BY <1>8, <2>1, <2>2, <3>1, <4>1
    <3>2. CASE ~(k <= Len(rs))
      <4>1. k - Len(rs) \in 1..n /\ (k - Len(rs)) + Len(rs) = k
        BY <1>3, <2>2, <3>2 DEF n
      <4> QED
        BY <1>9, <2>1, <2>2, <3>2, <4>1
    <3> QED
      BY <3>1, <3>2
  <2>4. Len(rs \o ts) = Len(ss) /\ \A k \in 1..Len(ss) : ss[k] = (rs \o ts)[k]
    BY <2>1, <2>2, <2>3
  <2> HIDE DEF n
  <2> QED
    BY <2>1, <2>4, SeqEqual
<1>11. Laid(d, cells, e, ts, f)
  <2>1. d \in [0..n -> Nat]
    <3>1. ASSUME NEW k \in 0..n PROVE c[k + Len(rs)] \in Nat
      <4>1. k + Len(rs) \in 0..Len(ss)
        BY <1>3, <1>8
      <4> QED
        BY <1>2, <4>1 DEF Laid
    <3> QED
      BY <3>1
  <2>2. d[0] = e /\ d[n] = f
    <3>1. d[0] = c[Len(rs)] /\ d[n] = c[Len(ss)]
      BY <1>3, <1>9
    <3> QED
      BY <1>1, <1>2, <1>8, <3>1 DEF Laid
  <2>3. ASSUME NEW k \in 1..n
        PROVE  Holds(cells, d[k - 1], ts[k]) /\ d[k] = d[k - 1] + Size(ts[k])
    <3>1. /\ k + Len(rs) \in 1..Len(ss) /\ ts[k] = ss[k + Len(rs)] /\ d[k] = c[k + Len(rs)]
          /\ d[k - 1] = c[(k + Len(rs)) - 1]
      BY <1>3, <1>8, <1>9
    <3> HIDE DEF d, ts, n
    <3> QED
      BY <1>2, <3>1 DEF Laid
  <2> HIDE DEF d, ts, n
  <2> QED
    BY <1>9, <2>1, <2>2, <2>3 DEF Laid
<1> HIDE DEF ts, d
<1> QED
  BY <1>9, <1>10, <1>11 DEF Lays, Continue

\* These are all the records that follow the first i cells.
Parsed(cells, i, rs, e) ==
  rs \in Seq(Records) /\ Lays(cells, i, rs, e) /\ \A r \in Records : ~Holds(cells, e, r)

\* A run with something behind it starts with a record.
LEMMA LaysFirst ==
  ASSUME NEW cells, NEW i \in Nat, NEW rs \in Seq(Records), rs # <<>>, NEW e, Lays(cells, i, rs, e)
  PROVE  rs[1] \in Records /\ Holds(cells, i, rs[1])
<1>1. PICK b : Laid(b, cells, i, rs, e)
  BY DEF Lays
<1>2. Len(rs) \in Nat \ {0}
  BY EmptySeq
<1>3. 1 \in 1..Len(rs) /\ 1 - 1 = 0
  BY <1>2
<1> QED
  BY <1>1, <1>3, ElementOfSeq DEF Laid

LEMMA ParsedLongest ==
  ASSUME NEW cells, Len(cells) \in Nat, NEW i \in Nat, NEW rs, NEW e, Parsed(cells, i, rs, e),
         NEW ss \in Seq(Records), NEW f, Lays(cells, i, ss, f)
  PROVE  f <= e /\ Continue(cells, ss, f, rs, e)
<1>1. rs \in Seq(Records) /\ Lays(cells, i, rs, e)
  BY DEF Parsed
<1>0. e \in Nat /\ f \in Nat
  BY <1>1, LaysWithin
<1>2. ASSUME ~(f <= e) PROVE FALSE
  <2>1. PICK ts \in Seq(Records) : Lays(cells, e, ts, f)
    BY <1>0, <1>1, <1>2, LaysPrefix DEF Continue
  <2>2. ts # <<>>
    BY <1>0, <1>2, <2>1, LaysWithin
  <2>3. ts[1] \in Records /\ Holds(cells, e, ts[1])
    BY <1>0, <2>1, <2>2, LaysFirst
  <2> QED
    BY <2>3 DEF Parsed
<1>3. f <= e
  BY <1>2
<1> QED
  BY <1>0, <1>1, <1>3, LaysPrefix

LEMMA ParsedUnique ==
  ASSUME NEW cells, Len(cells) \in Nat, NEW i \in Nat, NEW rs, NEW e, Parsed(cells, i, rs, e),
         NEW ss, NEW f, Parsed(cells, i, ss, f)
  PROVE  rs = ss /\ e = f
<1>0. /\ rs \in Seq(Records) /\ Lays(cells, i, rs, e)
      /\ ss \in Seq(Records) /\ Lays(cells, i, ss, f)
  BY DEF Parsed
<1>1. /\ rs \in Seq(Records) /\ Lays(cells, i, rs, e) /\ e \in Nat
      /\ ss \in Seq(Records) /\ Lays(cells, i, ss, f) /\ f \in Nat
  BY <1>0, LaysWithin
<1>2. f <= e
  BY <1>1, ParsedLongest
<1>3. e <= f
  BY <1>1, ParsedLongest
<1>4. e = f
  BY <1>1, <1>2, <1>3
<1>5. Continue(cells, ss, f, rs, e)
  BY <1>1, ParsedLongest
<1>7. PICK ts \in Seq(Records) : rs = ss \o ts /\ Lays(cells, f, ts, e)
  BY <1>5 DEF Continue
<1>6. ts = <<>>
  <2>1. ASSUME ts # <<>> PROVE ts[1] \in Records /\ Holds(cells, f, ts[1])
    BY <1>1, <1>7, <2>1, LaysFirst
  <2> QED
    BY <2>1 DEF Parsed
<1> QED
  BY <1>1, <1>4, <1>7, <1>6, ConcatEmptySeq

-----------------------------------------------------------------------------
(***************************************************************************)
(* Scanning.                                                               *)
(***************************************************************************)
\* A stretch of cells, taken out.
LEMMA Stretch ==
  ASSUME NEW S, NEW cells \in Seq(S), NEW from \in 0..Len(cells), NEW upto \in from..Len(cells)
  PROVE  /\ SubSeq(cells, from + 1, upto) \in Seq(S)
         /\ Len(SubSeq(cells, from + 1, upto)) = upto - from
         /\ \A n \in 1..(upto - from) : SubSeq(cells, from + 1, upto)[n] = cells[from + n]
<1>1. Len(cells) \in Nat /\ \A n \in 1..Len(cells) : cells[n] \in S
  BY LenProperties, ElementOfSeq
<1>2. \A n \in from + 1..upto : cells[n] \in S
  BY <1>1
<1>3. from + 1 \in Int /\ upto \in Int
  BY <1>1
<1>4. /\ SubSeq(cells, from + 1, upto) \in Seq(S)
      /\ Len(SubSeq(cells, from + 1, upto)) =
           IF from + 1 <= upto THEN upto - (from + 1) + 1 ELSE 0
      /\ \A n \in 1..(upto - (from + 1) + 1) : SubSeq(cells, from + 1, upto)[n] = cells[from + 1 + n - 1]
  BY <1>2, <1>3, SubSeqProperties
<1>5. ASSUME NEW n \in 1..(upto - from)
      PROVE  SubSeq(cells, from + 1, upto)[n] = cells[from + n]
  <2>1. n \in 1..(upto - (from + 1) + 1) /\ from + 1 + n - 1 = from + n
    BY <1>1
  <2> QED
    BY <1>4, <2>1
<1> QED
  BY <1>1, <1>4, <1>5

Nothing(cells, i) == \A r \in Records : ~Holds(cells, i, r)

\* What decoding finds at an offset of the cells base + 1 .. upto of a log.
LEMMA DecodeFacts ==
  ASSUME NEW cells, Plain(cells), NEW base \in 1..Len(cells), NEW upto \in base..Len(cells),
         NEW offset \in 0..(upto - base), NEW d, d = Decode(SubSeq(cells, base + 1, upto), offset)
  PROVE  \/ /\ d.why = "NONE" /\ d.record \in Records /\ d.size = Size(d.record)
            /\ Holds(cells, base + offset, d.record) /\ offset + d.size <= upto - base
         \/ /\ d.why \in Cut
            /\ upto = Len(cells) => Nothing(cells, base + offset)
         \/ /\ d.why \in {"OVERSIZE", "BAD_CHECKSUM"} /\ offset # upto - base
            /\ Nothing(cells, base + offset)
<1> DEFINE buf == SubSeq(cells, base + 1, upto)
           left == Len(buf) - offset
           first == buf[offset + 1]
<1>1. /\ cells \in Seq(Cell) /\ Len(cells) \in Nat /\ base \in 0..Len(cells)
      /\ \A i \in 2..Len(cells) : cells[i] \in DataCell
  BY LenProperties DEF Plain
<1>2. /\ buf \in Seq(Cell) /\ Len(buf) = upto - base
      /\ \A n \in 1..(upto - base) : buf[n] = cells[base + n]
  BY <1>1, Stretch
<1> HIDE DEF buf
<1>3. left = upto - base - offset /\ left \in Nat
  BY <1>1, <1>2
<1>4. d = IF left < RecordHeaderSize THEN Damaged("TRUNCATED_HEADER")
          ELSE IF first.at > 1 THEN Damaged("OVERSIZE")
          ELSE IF left < SizeAt(first) THEN Damaged("TRUNCATED_BODY")
          ELSE IF first # Hole /\ SubSeq(buf, offset + 1, offset + SizeAt(first)) = Encoded(first.of)
               THEN [record |-> first.of, size |-> SizeAt(first), why |-> "NONE"]
          ELSE Damaged("BAD_CHECKSUM")
  BY DEF Decode, buf
<1> HIDE DEF left, first
<1>5. ASSUME NEW r \in Records, Holds(cells, base + offset, r)
      PROVE  /\ base + offset + Size(r) <= Len(cells) /\ Size(r) \in Nat /\ Size(r) >= 2
             /\ left > 0 => /\ first = [of |-> r, at |-> 1] /\ first # Hole
                            /\ SizeAt(first) = Size(r) /\ first.of = r /\ first.at = 1
  <2>1. Size(r) \in Nat /\ Size(r) >= 2 /\ 1 \in 1..Size(r)
    BY RecordFacts
  <2>2. cells[base + offset + 1] = [of |-> r, at |-> 1] /\ base + offset + Size(r) <= Len(cells)
    BY <1>5, <2>1 DEF Holds
  <2>3. ASSUME left > 0 PROVE first = [of |-> r, at |-> 1]
    <3>1. offset + 1 \in 1..(upto - base) /\ base + (offset + 1) = base + offset + 1
      BY <1>1, <1>3, <2>3
    <3> QED
      BY <1>2, <2>2, <3>1 DEF first
  <2>4. ASSUME left > 0 PROVE first # Hole /\ SizeAt(first) = Size(r) /\ first.of = r /\ first.at = 1
    BY <2>3, <2>4 DEF Hole, SizeAt, Size
  <2> QED
    BY <2>1, <2>2, <2>3, <2>4
<1>6. CASE left < RecordHeaderSize
  <2>1. d.why = "TRUNCATED_HEADER"
    BY <1>4, <1>6 DEF Damaged
  <2>2. ASSUME upto = Len(cells) PROVE Nothing(cells, base + offset)
    BY <1>1, <1>3, <1>5, <1>6, <2>2 DEF Nothing, RecordHeaderSize
  <2> QED
    BY <2>1, <2>2 DEF Cut
<1>7. CASE left >= RecordHeaderSize
  <2>1. left >= 2 /\ left > 0 /\ offset # upto - base /\ ~(left < RecordHeaderSize)
    BY <1>1, <1>3, <1>7 DEF RecordHeaderSize
  <2>2. CASE first.at > 1
    <3>1. d.why = "OVERSIZE"
      BY <1>4, <2>1, <2>2 DEF Damaged
    <3>2. Nothing(cells, base + offset)
      BY <1>5, <2>1, <2>2 DEF Nothing
    <3> QED
      BY <2>1, <3>1, <3>2
  <2>3. CASE ~(first.at > 1) /\ left < SizeAt(first)
    <3>1. d.why = "TRUNCATED_BODY"
      BY <1>4, <2>1, <2>3 DEF Damaged
    <3>2. ASSUME upto = Len(cells) PROVE Nothing(cells, base + offset)
      <4>1. ASSUME NEW r \in Records, Holds(cells, base + offset, r) PROVE FALSE
        <5>1. base + offset + Size(r) <= Len(cells) /\ Size(r) \in Nat /\ SizeAt(first) = Size(r)
          BY <1>5, <2>1, <4>1
        <5>2. left < Size(r) /\ left = Len(cells) - base - offset
          BY <1>3, <2>3, <3>2, <5>1
        <5> QED
          BY <1>1, <5>1, <5>2
      <4> QED
        BY <4>1 DEF Nothing
    <3> QED
      BY <3>1, <3>2 DEF Cut
  <2>4. CASE ~(first.at > 1) /\ ~(left < SizeAt(first))
    <3> DEFINE good == first # Hole /\ SubSeq(buf, offset + 1, offset + SizeAt(first)) = Encoded(first.of)
    <3>0. first \in DataCell
      <4>1. offset + 1 \in 1..(upto - base) /\ base + (offset + 1) \in 2..Len(cells)
        BY <1>1, <1>3, <2>1
      <4> QED
        BY <1>1, <1>2, <4>1 DEF first
    <3>1. CASE good
      <4>1. d = [record |-> first.of, size |-> SizeAt(first), why |-> "NONE"]
        BY <1>4, <2>1, <2>4, <3>1
      <4>2. PICK r \in Records : \E k \in 1..Size(r) : first = [of |-> r, at |-> k]
        BY <3>0, <3>1, CellFacts
      <4>3. first.of = r /\ SizeAt(first) = Size(r)
        BY <3>1, <4>2 DEF SizeAt, Size
      <4>4. Size(r) \in Nat /\ Size(r) >= 2 /\ Size(r) <= left
        BY <1>3, <2>4, <4>3, RecordFacts
      <4>5. ASSUME NEW n \in 1..Size(r) PROVE cells[(base + offset) + n] = [of |-> r, at |-> n]
        <5>1. offset \in 0..Len(buf) /\ offset + Size(r) \in offset..Len(buf)
          BY <1>2, <1>3, <4>4
        <5>2. n \in 1..((offset + Size(r)) - offset)
          BY <4>4, <1>3
        <5>3. SubSeq(buf, offset + 1, offset + Size(r))[n] = buf[offset + n]
          BY <1>2, <5>1, <5>2, Stretch, SMTT(60)
        <5>4. offset + n \in 1..(upto - base) /\ base + (offset + n) = (base + offset) + n
          BY <1>1, <1>3, <4>4
        <5>5. buf[offset + n] = cells[(base + offset) + n]
          BY <1>2, <5>4
        <5>6. SubSeq(buf, offset + 1, offset + Size(r)) = Encoded(r)
          BY <3>1, <4>3
        <5> QED
          BY <5>3, <5>5, <5>6, EncodedFacts
      <4>6. Holds(cells, base + offset, r)
        <5>1. base + offset + Size(r) <= Len(cells)
          BY <1>1, <1>3, <4>4
        <5> QED
          BY <4>5, <5>1 DEF Holds
      <4>7. offset + Size(r) <= upto - base
        BY <1>1, <1>3, <4>4
      <4> QED
        BY <4>1, <4>3, <4>6, <4>7
    <3>2. CASE ~good
      <4>1. d.why = "BAD_CHECKSUM"
        BY <1>4, <2>1, <2>4, <3>2 DEF Damaged
      <4>2. ASSUME NEW r \in Records, Holds(cells, base + offset, r) PROVE FALSE
        <5>1. /\ first # Hole /\ SizeAt(first) = Size(r) /\ first.of = r
              /\ Size(r) \in Nat /\ Size(r) >= 2 /\ Size(r) <= left
          <6>1. /\ first # Hole /\ SizeAt(first) = Size(r) /\ first.of = r
                /\ Size(r) \in Nat /\ Size(r) >= 2
            BY <1>5, <2>1, <4>2
          <6> QED
            BY <1>3, <2>4, <6>1
        <5>2. offset \in 0..Len(buf) /\ offset + Size(r) \in offset..Len(buf)
          BY <1>2, <1>3, <5>1
        <5>3. /\ SubSeq(buf, offset + 1, offset + Size(r)) \in Seq(Cell)
              /\ Len(SubSeq(buf, offset + 1, offset + Size(r))) = Size(r)
          <6>1. (offset + Size(r)) - offset = Size(r)
            BY <1>1, <5>1
          <6> QED
            BY <1>2, <5>2, <6>1, Stretch
        <5>4. ASSUME NEW n \in 1..Size(r)
              PROVE  SubSeq(buf, offset + 1, offset + Size(r))[n] = Encoded(r)[n]
          <6>1. n \in 1..((offset + Size(r)) - offset)
            BY <5>1, <1>3
          <6>2. SubSeq(buf, offset + 1, offset + Size(r))[n] = buf[offset + n]
            BY <1>2, <5>2, <6>1, Stretch
          <6>3. offset + n \in 1..(upto - base) /\ base + (offset + n) = (base + offset) + n
            BY <1>1, <1>3, <5>1
          <6>4. buf[offset + n] = cells[(base + offset) + n]
            BY <1>2, <6>3
          <6>5. cells[(base + offset) + n] = [of |-> r, at |-> n]
            BY <4>2 DEF Holds
          <6> QED
            BY <6>2, <6>4, <6>5, EncodedFacts
        <5>5. SubSeq(buf, offset + 1, offset + Size(r)) = Encoded(r)
          <6>1. DataCell \subseteq Cell
            BY DEF Cell
          <6>2. Encoded(r) \in Seq(Cell) /\ Len(Encoded(r)) = Size(r)
            BY <6>1, EncodedFacts, SeqMonotonic
          <6> DEFINE a == SubSeq(buf, offset + 1, offset + Size(r))  e == Encoded(r)
          <6>3. /\ a \in Seq(Cell) /\ e \in Seq(Cell) /\ Len(a) = Len(e)
                /\ \A n \in 1..Len(a) : a[n] = e[n]
            BY <5>3, <5>4, <6>2
          <6> HIDE DEF a, e
          <6>4. a = e
            BY <6>3, SeqEqual
          <6> QED
            BY <6>4 DEF a, e
        <5> QED
          BY <3>2, <5>1, <5>5
      <4> QED
        BY <2>1, <4>1, <4>2 DEF Nothing
    <3> QED
      BY <3>1, <3>2
  <2> QED
    BY <2>2, <2>3, <2>4
<1> QED
  BY <1>3, <1>6, <1>7 DEF RecordHeaderSize

Whys == Cut \cup {"NONE", "OVERSIZE", "BAD_CHECKSUM"}
Runs == [records : Seq(Records), end : Nat, why : Whys]

\* The recursions of Decodable and Scan, with f in the place of what they define.
DecodedFrom(next, offset, f) ==
  IF next.why # "NONE" THEN [records |-> <<>>, end |-> offset, why |-> next.why]
  ELSE Once(f[offset + next.size], LAMBDA rest :
         [rest EXCEPT !.records = <<next.record>> \o @])

DecodableFrom(buf, offset, f) ==
  Once(Decode(buf, offset), LAMBDA next : DecodedFrom(next, offset, f))

LEMMA DecodableIsFrom ==
  ASSUME NEW buf
  PROVE  Decodable(buf) = (CHOOSE f : f = [offset \in 0..Len(buf) |-> DecodableFrom(buf, offset, f)])[0]
BY Zenon DEF Decodable, DecodableFrom, DecodedFrom

StepsFrom(result, d, offset, f) ==
  result = IF d.why # "NONE" THEN [records |-> <<>>, end |-> offset, why |-> d.why]
           ELSE [f[offset + d.size] EXCEPT !.records = <<d.record>> \o @]

LEMMA DecodableStep ==
  ASSUME NEW buf, NEW offset, NEW f, NEW d, d = Decode(buf, offset)
  PROVE  StepsFrom(DecodableFrom(buf, offset, f), d, offset, f)
<1>1. DecodableFrom(buf, offset, f) = DecodedFrom(d, offset, f)
  BY DEF Once, DecodableFrom
<1>2. Once(f[offset + d.size], LAMBDA rest : [rest EXCEPT !.records = <<d.record>> \o @])
        = [f[offset + d.size] EXCEPT !.records = <<d.record>> \o @]
  BY DEF Once
<1>3. DecodedFrom(d, offset, f) =
        IF d.why # "NONE" THEN [records |-> <<>>, end |-> offset, why |-> d.why]
        ELSE Once(f[offset + d.size], LAMBDA rest :
               [rest EXCEPT !.records = <<d.record>> \o @])
  BY Zenon DEF DecodedFrom
<1> QED
  BY <1>1, <1>2, <1>3, Zenon DEF StepsFrom

\* What Decodable finds in the cells base + 1 .. upto of a log.
LEMMA DecodableFacts ==
  ASSUME NEW cells, Plain(cells), NEW base \in 1..Len(cells), NEW upto \in base..Len(cells),
         NEW run, run = Decodable(SubSeq(cells, base + 1, upto))
  PROVE  /\ run \in Runs /\ run.end \in 0..(upto - base)
         /\ Lays(cells, base, run.records, base + run.end)
         /\ \/ run.why \in Cut /\ (upto = Len(cells) => Nothing(cells, base + run.end))
            \/ /\ run.why \notin Cut /\ run.why # "NONE"
               /\ run.end # upto - base /\ Nothing(cells, base + run.end)
<1> DEFINE buf == SubSeq(cells, base + 1, upto)
           N == upto - base
           S == 0..N
           D(o) == Decode(buf, o)
           stop == {o \in S : D(o).why # "NONE"}
           val == [o \in S |-> [records |-> <<>>, end |-> o, why |-> D(o).why]]
           next == [o \in S |-> IF o \in stop THEN o ELSE o + D(o).size]
           step == [x \in S \X Runs |-> IF x[1] \in stop THEN x[2]
                                        ELSE [x[2] EXCEPT !.records = <<D(x[1]).record>> \o @]]
           rank == [o \in S |-> N - o]
<1>1. Len(cells) \in Nat /\ N \in Nat /\ Len(buf) = N
  <2>1. cells \in Seq(Cell) /\ Len(cells) \in Nat /\ base \in 0..Len(cells)
    BY LenProperties DEF Plain
  <2> QED
    BY <2>1, Stretch
<1>2. ASSUME NEW o \in S
      PROVE  \/ /\ D(o).why = "NONE" /\ D(o).record \in Records /\ D(o).size = Size(D(o).record)
                /\ Holds(cells, base + o, D(o).record) /\ o + D(o).size <= N
             \/ D(o).why \in Cut /\ (upto = Len(cells) => Nothing(cells, base + o))
             \/ /\ D(o).why \in {"OVERSIZE", "BAD_CHECKSUM"} /\ o # N
                /\ Nothing(cells, base + o)
  <2> DEFINE d == D(o)
  <2>1. d = Decode(SubSeq(cells, base + 1, upto), o)
    OBVIOUS
  <2>2. o \in 0..(upto - base)
    OBVIOUS
  <2> HIDE DEF d
  <2>3. \/ /\ d.why = "NONE" /\ d.record \in Records /\ d.size = Size(d.record)
           /\ Holds(cells, base + o, d.record) /\ o + d.size <= upto - base
        \/ /\ d.why \in Cut
           /\ upto = Len(cells) => Nothing(cells, base + o)
        \/ /\ d.why \in {"OVERSIZE", "BAD_CHECKSUM"} /\ o # upto - base
           /\ Nothing(cells, base + o)
    BY <2>1, <2>2, DecodeFacts
  <2> QED
    BY <2>3 DEF d
<1> HIDE DEF D
<1>3. ASSUME NEW o \in S
      PROVE  /\ o \notin stop => /\ D(o).record \in Records /\ D(o).size = Size(D(o).record)
                                 /\ Holds(cells, base + o, D(o).record)
                                 /\ o + D(o).size \in S /\ o < o + D(o).size
             /\ o \in stop => \/ D(o).why \in Cut /\ (upto = Len(cells) => Nothing(cells, base + o))
                              \/ /\ D(o).why \in {"OVERSIZE", "BAD_CHECKSUM"} /\ o # N
                                 /\ Nothing(cells, base + o)
             /\ D(o).why \in Whys
  <2>1. ASSUME o \notin stop
        PROVE  /\ D(o).record \in Records /\ D(o).size = Size(D(o).record)
               /\ Holds(cells, base + o, D(o).record)
               /\ o + D(o).size \in S /\ o < o + D(o).size
    <3>1. D(o).why = "NONE"
      BY <2>1
    <3>2. /\ D(o).record \in Records /\ D(o).size = Size(D(o).record)
          /\ Holds(cells, base + o, D(o).record) /\ o + D(o).size <= N
      BY <1>2, <3>1 DEF Cut
    <3>3. D(o).size \in Nat /\ D(o).size >= 2
      BY <3>2, RecordFacts
    <3> QED
      BY <1>1, <3>2, <3>3
  <2>2. ASSUME o \in stop
        PROVE  \/ D(o).why \in Cut /\ (upto = Len(cells) => Nothing(cells, base + o))
               \/ /\ D(o).why \in {"OVERSIZE", "BAD_CHECKSUM"} /\ o # N
                  /\ Nothing(cells, base + o)
    BY <1>2, <2>2
  <2>3. D(o).why \in Whys
    BY <1>2 DEF Whys
  <2> QED
    BY <2>1, <2>2, <2>3
<1>4. \E f \in [S -> Runs] :
        \A o \in S : f[o] = IF o \in stop THEN val[o] ELSE step[<<o, f[next[o]]>>]
  <2>1. rank \in [S -> 0..N]
    BY <1>1
  <2>2. val \in [S -> Runs]
    BY <1>3 DEF Runs
  <2>3. next \in [S -> S]
    BY <1>3
  <2>4. step \in [S \X Runs -> Runs]
    <3>1. ASSUME NEW o \in S, NEW v \in Runs
          PROVE  (IF o \in stop THEN v ELSE [v EXCEPT !.records = <<D(o).record>> \o @]) \in Runs
      <4>1. CASE o \in stop
        BY <4>1
      <4>2. CASE o \notin stop
        <5>1. <<D(o).record>> \in Seq(Records) /\ v.records \in Seq(Records)
          BY <1>3, <4>2 DEF Runs
        <5>2. <<D(o).record>> \o v.records \in Seq(Records)
          BY <5>1, ConcatProperties
        <5> HIDE DEF stop
        <5> QED
          BY <4>2, <5>2 DEF Runs
      <4> QED
        BY <4>1, <4>2
    <3> HIDE DEF stop
    <3> QED
      BY <3>1
  <2>5. \A o \in S \ stop : rank[next[o]] < rank[o]
    BY <1>1, <1>3
  <2>6. N \in Nat
    BY <1>1
  <2> HIDE DEF N, S, stop, val, next, step, rank
  <2>7. Bounded(S, Runs, N, rank, stop, val, next, step)
    BY <2>1, <2>2, <2>3, <2>4, <2>5, <2>6 DEF Bounded
  <2> QED
    BY <2>7, RecursionExists
<1>5. ASSUME NEW f, NEW o \in S
      PROVE  DecodableFrom(buf, o, f) =
               IF o \in stop THEN [records |-> <<>>, end |-> o, why |-> D(o).why]
               ELSE [f[o + D(o).size] EXCEPT !.records = <<D(o).record>> \o @]
  <2> DEFINE d == D(o)
  <2>1. d = Decode(buf, o)
    BY DEF D
  <2> HIDE DEF d, buf
  <2>2. StepsFrom(DecodableFrom(buf, o, f), d, o, f)
    BY <2>1, DecodableStep
  <2>3. o \in stop <=> d.why # "NONE"
    BY DEF d
  <2> HIDE DEF stop
  <2> QED
    BY <2>2, <2>3 DEF d, StepsFrom
<1> DEFINE F(f) == [o \in 0..Len(buf) |-> DecodableFrom(buf, o, f)]
<1>6. PICK g \in [S -> Runs] : g = F(g)
  <2>1. PICK g \in [S -> Runs] :
          \A o \in S : g[o] = IF o \in stop THEN val[o] ELSE step[<<o, g[next[o]]>>]
    BY <1>4
  <2>2. ASSUME NEW o \in S PROVE g[o] = DecodableFrom(buf, o, g)
    <3>1. CASE o \in stop
      BY <1>5, <2>1, <3>1
    <3>2. CASE o \notin stop
      <4>1. next[o] = o + D(o).size /\ next[o] \in S
        BY <1>3, <3>2
      <4>2. g[next[o]] \in Runs
        BY <4>1
      <4>3. step[<<o, g[next[o]]>>] = [g[next[o]] EXCEPT !.records = <<D(o).record>> \o @]
        <5> HIDE DEF stop, next
        <5> QED
          BY <3>2, <4>2
      <4>4. g[o] = step[<<o, g[next[o]]>>]
        <5> HIDE DEF stop, next, step, val
        <5> QED
          BY <2>1, <3>2
      <4>5. DecodableFrom(buf, o, g) = [g[o + D(o).size] EXCEPT !.records = <<D(o).record>> \o @]
        BY <1>5, <3>2
      <4> HIDE DEF stop, next, step, val
      <4> QED
        BY <4>1, <4>3, <4>4, <4>5
    <3> QED
      BY <3>1, <3>2
  <2>3. 0..Len(buf) = S
    BY <1>1
  <2> HIDE DEF S
  <2> QED
    BY <2>2, <2>3
<1> DEFINE h == CHOOSE f : f = F(f)
<1>7. h = F(h)
  <2> HIDE DEF F
  <2> QED
    BY <1>6
<1>8. Decodable(buf) = h[0]
  BY Zenon, DecodableIsFrom
<1>9. ASSUME NEW o \in S
      PROVE  h[o] = IF o \in stop THEN [records |-> <<>>, end |-> o, why |-> D(o).why]
                    ELSE [h[o + D(o).size] EXCEPT !.records = <<D(o).record>> \o @]
  <2>1. h[o] = DecodableFrom(buf, o, h)
    <3>1. o \in 0..Len(buf)
      BY <1>1
    <3> HIDE DEF h
    <3> QED
      BY <1>7, <3>1
  <2> HIDE DEF h, stop
  <2> QED
    BY <1>5, <2>1
<1> HIDE DEF h
<1> DEFINE Good(o) == /\ h[o] \in Runs /\ h[o].end \in S
                      /\ Lays(cells, base + o, h[o].records, base + h[o].end)
                      /\ \/ h[o].why \in Cut /\ (upto = Len(cells) => Nothing(cells, base + h[o].end))
                         \/ /\ h[o].why \notin Cut /\ h[o].why # "NONE"
                            /\ h[o].end # N /\ Nothing(cells, base + h[o].end)
           T == {n \in Nat : \A o \in S : N - o <= n => Good(o)}
<1>10. ASSUME NEW o \in stop PROVE Good(o)
  <2>1. h[o] = [records |-> <<>>, end |-> o, why |-> D(o).why] /\ o \in S
    BY <1>9
  <2>2. h[o] \in Runs /\ h[o].records = <<>> /\ h[o].end = o /\ h[o].why = D(o).why
    BY <1>3, <2>1 DEF Runs
  <2>3. Lays(cells, base + o, <<>>, base + o)
    BY <1>1, <2>1, LaysNothing
  <2>4. \/ D(o).why \in Cut /\ (upto = Len(cells) => Nothing(cells, base + o))
        \/ /\ D(o).why \in {"OVERSIZE", "BAD_CHECKSUM"} /\ o # N
           /\ Nothing(cells, base + o)
    BY <1>3, <2>1
  <2>5. \/ D(o).why \in Cut /\ (upto = Len(cells) => Nothing(cells, base + o))
        \/ D(o).why \notin Cut /\ D(o).why # "NONE" /\ o # N /\ Nothing(cells, base + o)
    BY <2>4 DEF Cut
  <2> QED
    BY <2>1, <2>2, <2>3, <2>5
<1>11. ASSUME NEW o \in S, o \notin stop, Good(o + D(o).size) PROVE Good(o)
  <2> DEFINE n == o + D(o).size
             r == D(o).record
             rest == h[n]
  <2>1. h[o] = [rest EXCEPT !.records = <<r>> \o @] /\ rest \in Runs
    BY <1>9, <1>11
  <2>2. /\ h[o] \in Runs /\ h[o].records = <<r>> \o rest.records /\ h[o].end = rest.end
        /\ h[o].why = rest.why
    <3>1. r \in Records
      BY <1>3, <1>11
    <3>2. <<r>> \o rest.records \in Seq(Records)
      BY <2>1, <3>1, ConcatProperties DEF Runs
    <3> HIDE DEF rest, r
    <3> QED
      BY <2>1, <3>2 DEF Runs
  <2>3. Lays(cells, base + o, h[o].records, base + h[o].end)
    <3>1. /\ r \in Records /\ Holds(cells, base + o, r) /\ base + n = (base + o) + Size(r)
          /\ base + o \in Nat
      <4>1. r \in Records /\ Holds(cells, base + o, r) /\ D(o).size = Size(r) /\ Size(r) \in Nat
        BY <1>3, <1>11, RecordFacts
      <4> QED
        BY <1>1, <4>1
    <3>2. <<r>> \in Seq(Records) /\ Lays(cells, base + o, <<r>>, base + n)
      BY <3>1, LaysOne
    <3>3. rest.records \in Seq(Records) /\ Lays(cells, base + n, rest.records, base + rest.end)
      BY <1>11, <2>1 DEF Runs
    <3> DEFINE i == base + o  m == base + n  e == base + rest.end
    <3>4. i \in Nat
      BY <1>1
    <3>5. h[o].records = <<r>> \o rest.records /\ base + h[o].end = e
      BY <2>2
    <3>6. Lays(cells, i, <<r>>, m) /\ Lays(cells, m, rest.records, e)
      BY <3>2, <3>3
    <3> HIDE DEF i, m, e, r, rest
    <3>7. Lays(cells, i, <<r>> \o rest.records, e)
      BY <1>1, <3>2, <3>3, <3>4, <3>6, LaysConcat
    <3> QED
      BY <3>5, <3>7 DEF i
  <2>4. Good(n)
    BY <1>11
  <2> HIDE DEF n, r
  <2> QED
    BY <2>2, <2>3, <2>4
<1> HIDE DEF Good
<1>12. 0 \in T
  <2>1. ASSUME NEW o \in S, N - o <= 0 PROVE Good(o)
    <3>1. o = N
      BY <1>1, <2>1
    <3>2. o \in stop
      BY <1>1, <1>3, <3>1
    <3> QED
      BY <1>10, <3>2
  <2> QED
    BY <2>1
<1>13. ASSUME NEW n \in Nat, n \in T PROVE n + 1 \in T
  <2>1. ASSUME NEW o \in S, N - o <= n + 1 PROVE Good(o)
    <3>1. CASE o \in stop
      BY <1>10, <3>1
    <3>2. CASE o \notin stop
      <4>1. o + D(o).size \in S /\ N - (o + D(o).size) <= n
        <5>1. o + D(o).size \in S /\ o < o + D(o).size
          BY <1>3, <3>2
        <5> QED
          BY <1>1, <2>1, <5>1
      <4>2. Good(o + D(o).size)
        BY <1>13, <4>1
      <4> QED
        BY <1>11, <3>2, <4>2
    <3> QED
      BY <3>1, <3>2
  <2> QED
    BY <2>1
<1> HIDE DEF T
<1>14. Nat \subseteq T
  BY <1>12, <1>13, NatSetInduction
<1>15. Good(0)
  BY <1>1, <1>14 DEF T
<1>16. run = h[0]
  BY <1>8
<1> HIDE DEF buf, stop
<1> QED
  BY <1>1, <1>15, <1>16 DEF Good

LEMMA ParsedAfter ==
  ASSUME NEW cells, Len(cells) \in Nat, NEW i \in Nat, NEW rs \in Seq(Records), NEW m,
         Lays(cells, i, rs, m), NEW ss, NEW e, Parsed(cells, m, ss, e)
  PROVE  Parsed(cells, i, rs \o ss, e)
<1>1. ss \in Seq(Records) /\ Lays(cells, m, ss, e)
  BY DEF Parsed
<1>2. rs \o ss \in Seq(Records) /\ Lays(cells, i, rs \o ss, e)
  BY <1>1, LaysConcat
<1>3. \A r \in Records : ~Holds(cells, e, r)
  BY DEF Parsed
<1> QED
  BY <1>2, <1>3 DEF Parsed

LEMMA MinOfTwo ==
  ASSUME NEW m \in Int, NEW n \in Int
  PROVE  Min({m, n}) = IF m <= n THEN m ELSE n
BY DEF Min

ScanFrom(cells, chunk, at, f) ==
  LET base == at[1]  upto == Min({at[2] + chunk, Len(cells)}) IN
  Once(Decodable(SubSeq(cells, base + 1, upto)), LAMBDA run :
    LET end == base + run.end IN
    IF run.why \in Cut /\ upto < Len(cells)
    THEN Once(f[<<end, upto>>], LAMBDA rest : [rest EXCEPT !.records = run.records \o @])
    ELSE [records |-> run.records, end |-> end,
          why |-> IF run.why \in Cut /\ end = Len(cells) THEN "NONE" ELSE run.why])

LEMMA ScanIsFrom ==
  ASSUME NEW cells, NEW i, NEW chunk, ~(i > Len(cells))
  PROVE  Scan(cells, i, chunk) =
           (CHOOSE f : f = [at \in (i..Len(cells)) \X (i..Len(cells)) |->
                              ScanFrom(cells, chunk, at, f)])[<<i, i>>]
BY Zenon DEF Scan, ScanFrom

LEMMA ScanStep ==
  ASSUME NEW cells, NEW chunk, NEW at, NEW f
  PROVE  LET u == Min({at[2] + chunk, Len(cells)})
             r == Decodable(SubSeq(cells, at[1] + 1, u))
             e == at[1] + r.end
         IN ScanFrom(cells, chunk, at, f) =
              IF r.why \in Cut /\ u < Len(cells)
              THEN [f[<<e, u>>] EXCEPT !.records = r.records \o @]
              ELSE [records |-> r.records, end |-> e,
                    why |-> IF r.why \in Cut /\ e = Len(cells) THEN "NONE" ELSE r.why]
<1> DEFINE u == Min({at[2] + chunk, Len(cells)})
           r == Decodable(SubSeq(cells, at[1] + 1, u))
           e == at[1] + r.end
<1>1. Once(f[<<e, u>>], LAMBDA rest : [rest EXCEPT !.records = r.records \o @])
        = [f[<<e, u>>] EXCEPT !.records = r.records \o @]
  BY DEF Once
<1> DEFINE body(x) ==
             LET last == at[1] + x.end IN
             IF x.why \in Cut /\ u < Len(cells)
             THEN Once(f[<<last, u>>], LAMBDA rest : [rest EXCEPT !.records = x.records \o @])
             ELSE [records |-> x.records, end |-> last,
                   why |-> IF x.why \in Cut /\ last = Len(cells) THEN "NONE" ELSE x.why]
           S == {body(x) : x \in {r}}
           v == body(r)
<1>4. ScanFrom(cells, chunk, at, f) = CHOOSE x \in S : TRUE
  BY DEF Once, ScanFrom
<1>5. S = {v}
  <2> HIDE DEF body, r
  <2> QED
    OBVIOUS
<1>6. ScanFrom(cells, chunk, at, f) = v
  <2> HIDE DEF S, v
  <2> QED
    BY <1>4, <1>5
<1> QED
  BY Zenon, <1>1, <1>6

\* A scan returns the records that follow, all of them, whatever the size of its chunks.
LEMMA ScanFacts ==
  ASSUME NEW cells, Plain(cells), NEW i \in 1..Len(cells), NEW chunk \in Nat \ {0},
         NEW scan, scan = Scan(cells, i, chunk)
  PROVE  /\ scan \in Runs /\ scan.end \in i..Len(cells)
         /\ Parsed(cells, i, scan.records, scan.end)
         /\ scan.why = "NONE" <=> scan.end = Len(cells)
<1> DEFINE L == Len(cells)
           S == (i..L) \X (i..L)
           U(at) == IF at[2] + chunk <= L THEN at[2] + chunk ELSE L
           R(at) == Decodable(SubSeq(cells, at[1] + 1, U(at)))
           E(at) == at[1] + R(at).end
           stop == {at \in S : ~(R(at).why \in Cut /\ U(at) < L)}
           val == [at \in S |-> [records |-> R(at).records, end |-> E(at),
                                 why |-> IF R(at).why \in Cut /\ E(at) = L THEN "NONE"
                                         ELSE R(at).why]]
           next == [at \in S |-> <<E(at), U(at)>>]
           step == [x \in S \X Runs |-> [x[2] EXCEPT !.records = R(x[1]).records \o @]]
           rank == [at \in S |-> L - at[2]]
<1>1. /\ L \in Nat /\ cells \in Seq(Cell)
      /\ \A at \in S : at[1] \in i..L /\ at[2] \in i..L /\ at = <<at[1], at[2]>>
  BY LenProperties DEF Plain
<1>2. ASSUME NEW at \in S
      PROVE  /\ U(at) = Min({at[2] + chunk, L}) /\ U(at) \in i..L /\ U(at) >= at[2]
             /\ U(at) < L => U(at) > at[2]
  <2>1. at[2] + chunk \in Int /\ L \in Int
    BY <1>1
  <2> QED
    BY <1>1, <2>1, MinOfTwo
<1>3. ASSUME NEW at \in S
      PROVE  /\ R(at) \in Runs /\ R(at).end \in Nat /\ E(at) \in i..L
             /\ at[1] <= at[2] =>
                  /\ E(at) \in at[1]..U(at)
                  /\ Lays(cells, at[1], R(at).records, E(at))
                  /\ \/ R(at).why \in Cut /\ (U(at) = L => Nothing(cells, E(at)))
                     \/ /\ R(at).why \notin Cut /\ R(at).why # "NONE"
                        /\ E(at) # U(at) /\ Nothing(cells, E(at))
  <2> DEFINE base == at[1]
             upto == IF U(at) < at[1] THEN at[1] ELSE U(at)
             run == R(at)
  <2>1. base \in 1..Len(cells) /\ base \in i..L /\ upto \in base..Len(cells) /\ U(at) \in i..L
    BY <1>1, <1>2
  <2>2. SubSeq(cells, base + 1, U(at)) = SubSeq(cells, base + 1, upto)
    <3>1. CASE U(at) < base
      <4>1. \A k \in base + 1..U(at) : cells[k] \in Cell
        BY <2>1, <3>1
      <4>2. \A k \in base + 1..upto : cells[k] \in Cell
        BY <2>1, <3>1
      <4>3. base + 1 > U(at) /\ base + 1 > upto /\ base + 1 \in Int /\ U(at) \in Int /\ upto \in Int
        BY <1>1, <2>1, <3>1
      <4>4. SubSeq(cells, base + 1, U(at)) = <<>>
        BY <4>3, SubSeqEmpty
      <4>5. SubSeq(cells, base + 1, upto) = <<>>
        BY <4>3, SubSeqEmpty
      <4> QED
        BY <4>4, <4>5
    <3>2. CASE ~(U(at) < base)
      BY <3>2
    <3> QED
      BY <3>1, <3>2
  <2>3. run = Decodable(SubSeq(cells, base + 1, upto))
    BY <2>2
  <2> HIDE DEF run
  <2>4. /\ run \in Runs /\ run.end \in 0..(upto - base)
        /\ Lays(cells, base, run.records, base + run.end)
        /\ \/ run.why \in Cut /\ (upto = Len(cells) => Nothing(cells, base + run.end))
           \/ /\ run.why \notin Cut /\ run.why # "NONE"
              /\ run.end # upto - base /\ Nothing(cells, base + run.end)
    <3> HIDE DEF upto, base
    <3> QED
      BY <2>1, <2>3, DecodableFacts
  <2>5. E(at) = base + run.end /\ R(at) = run
    BY DEF run
  <2>8. at[1] \in Int /\ at[2] \in Int /\ U(at) \in Int /\ U(at) >= at[2]
    BY <1>1, <1>2
  <2> HIDE DEF E, R, U
  <2>6. run.end \in Nat /\ E(at) \in base..upto /\ E(at) \in i..L
    BY <1>1, <2>1, <2>4, <2>5
  <2>7. ASSUME at[1] <= at[2]
        PROVE  /\ upto = U(at)
               /\ \/ R(at).why \in Cut /\ (U(at) = L => Nothing(cells, E(at)))
                  \/ /\ R(at).why \notin Cut /\ R(at).why # "NONE"
                     /\ E(at) # U(at) /\ Nothing(cells, E(at))
    <3>1. upto = U(at)
      BY <2>7, <2>8
    <3>2. run.end # upto - base <=> E(at) # U(at)
      BY <1>1, <2>1, <2>5, <2>6, <3>1
    <3> QED
      BY <2>4, <2>5, <3>1, <3>2
  <2> QED
    BY <2>4, <2>5, <2>6, <2>7
<1> HIDE DEF R, U
<1>4. \E f \in [S -> Runs] :
        \A at \in S : f[at] = IF at \in stop THEN val[at] ELSE step[<<at, f[next[at]]>>]
  <2>1. rank \in [S -> 0..L]
    BY <1>1
  <2>2. val \in [S -> Runs]
    <3>1. ASSUME NEW at \in S
          PROVE  [records |-> R(at).records, end |-> E(at),
                  why |-> IF R(at).why \in Cut /\ E(at) = L THEN "NONE" ELSE R(at).why] \in Runs
      <4>1. R(at).records \in Seq(Records) /\ E(at) \in Nat /\ R(at).why \in Whys
        BY <1>1, <1>3 DEF Runs
      <4> HIDE DEF E
      <4> QED
        BY <4>1 DEF Runs, Whys
    <3> QED
      BY <3>1
  <2>3. next \in [S -> S]
    BY <1>2, <1>3
  <2>4. step \in [S \X Runs -> Runs]
    <3>1. ASSUME NEW at \in S, NEW v \in Runs
          PROVE  [v EXCEPT !.records = R(at).records \o @] \in Runs
      <4>1. R(at).records \in Seq(Records) /\ v.records \in Seq(Records)
        BY <1>3 DEF Runs
      <4>2. R(at).records \o v.records \in Seq(Records)
        BY <4>1, ConcatProperties
      <4> QED
        BY <4>2 DEF Runs
    <3> HIDE DEF S
    <3> QED
      BY <3>1
  <2>5. \A at \in S \ stop : rank[next[at]] < rank[at]
    <3>1. ASSUME NEW at \in S \ stop PROVE rank[next[at]] < rank[at]
      <4>0. at \in S /\ U(at) < L
        OBVIOUS
      <4>1. next[at] = <<E(at), U(at)>> /\ next[at] \in S
        <5> HIDE DEF S, stop
        <5> QED
          BY <2>3, <4>0
      <4>2. U(at) > at[2] /\ U(at) \in Nat /\ at[2] \in Nat
        <5>1. U(at) \in i..L /\ U(at) >= at[2] /\ (U(at) < L => U(at) > at[2])
          <6> HIDE DEF S, stop
          <6> QED
            BY <1>2, <4>0
        <5>2. at[2] \in i..L
          <6> HIDE DEF S, stop
          <6> QED
            BY <1>1, <4>0
        <5> QED
          BY <1>1, <4>0, <5>1, <5>2
      <4> HIDE DEF next, S
      <4> QED
        BY <1>1, <4>0, <4>1, <4>2
    <3> QED
      BY <3>1
  <2>6. L \in Nat
    BY <1>1
  <2> HIDE DEF L, S, stop, val, next, step, rank
  <2>7. Bounded(S, Runs, L, rank, stop, val, next, step)
    BY <2>1, <2>2, <2>3, <2>4, <2>5, <2>6 DEF Bounded
  <2> QED
    BY <2>7, RecursionExists
<1>5. ASSUME NEW f, NEW at \in S
      PROVE  ScanFrom(cells, chunk, at, f) =
               IF at \in stop THEN [records |-> R(at).records, end |-> E(at),
                                    why |-> IF R(at).why \in Cut /\ E(at) = L THEN "NONE"
                                            ELSE R(at).why]
               ELSE [f[<<E(at), U(at)>>] EXCEPT !.records = R(at).records \o @]
  <2> DEFINE upto == U(at)  run == R(at)  end == E(at)
  <2>1. upto = Min({at[2] + chunk, Len(cells)})
    BY <1>2
  <2>2. run = Decodable(SubSeq(cells, at[1] + 1, upto)) /\ end = at[1] + run.end
    BY DEF R
  <2>3. at \in stop <=> ~(run.why \in Cut /\ upto < Len(cells))
    OBVIOUS
  <2> DEFINE u == Min({at[2] + chunk, Len(cells)})
             r == Decodable(SubSeq(cells, at[1] + 1, u))
             e == at[1] + r.end
  <2>6. ScanFrom(cells, chunk, at, f) =
          IF r.why \in Cut /\ u < Len(cells)
          THEN [f[<<e, u>>] EXCEPT !.records = r.records \o @]
          ELSE [records |-> r.records, end |-> e,
                why |-> IF r.why \in Cut /\ e = Len(cells) THEN "NONE" ELSE r.why]
    BY Zenon, ScanStep
  <2> HIDE DEF upto, run, end, stop, S
  <2>7. u = upto /\ r = run /\ e = end
    BY <2>1, <2>2
  <2> HIDE DEF u, r, e
  <2>4. ScanFrom(cells, chunk, at, f) =
          IF run.why \in Cut /\ upto < Len(cells)
          THEN [f[<<end, upto>>] EXCEPT !.records = run.records \o @]
          ELSE [records |-> run.records, end |-> end,
                why |-> IF run.why \in Cut /\ end = Len(cells) THEN "NONE" ELSE run.why]
    BY <2>6, <2>7
  <2>5. upto = U(at) /\ run = R(at) /\ end = E(at)
    BY DEF upto, run, end
  <2> HIDE DEF E
  <2> QED
    BY <2>3, <2>4, <2>5
<1> HIDE DEF E
<1> DEFINE F(f) == [at \in S |-> ScanFrom(cells, chunk, at, f)]
<1>6. PICK g \in [S -> Runs] : g = F(g)
  <2>1. PICK g \in [S -> Runs] :
          \A at \in S : g[at] = IF at \in stop THEN val[at] ELSE step[<<at, g[next[at]]>>]
    BY <1>4
  <2>2. ASSUME NEW at \in S PROVE g[at] = ScanFrom(cells, chunk, at, g)
    <3>1. CASE at \in stop
      BY <1>5, <2>1, <3>1
    <3>2. CASE at \notin stop
      <4>1. next[at] = <<E(at), U(at)>> /\ next[at] \in S
        BY <1>2, <1>3
      <4>2. g[next[at]] \in Runs
        BY <4>1
      <4>3. step[<<at, g[next[at]]>>] = [g[next[at]] EXCEPT !.records = R(at).records \o @]
        <5> HIDE DEF stop, next, S
        <5> QED
          BY <3>2, <4>2
      <4>4. g[at] = step[<<at, g[next[at]]>>]
        <5> HIDE DEF stop, next, step, val, S
        <5> QED
          BY <2>1, <3>2
      <4>5. ScanFrom(cells, chunk, at, g) = [g[<<E(at), U(at)>>] EXCEPT !.records = R(at).records \o @]
        <5> HIDE DEF stop, S
        <5> QED
          BY <1>5, <3>2
      <4> HIDE DEF stop, next, step, val, S
      <4> QED
        BY <4>1, <4>3, <4>4, <4>5
    <3> QED
      BY <3>1, <3>2
  <2> HIDE DEF S
  <2> QED
    BY <2>2
<1> DEFINE h == CHOOSE f : f = F(f)
<1>7. h = F(h)
  <2> HIDE DEF F
  <2> QED
    BY <1>6
<1>8. scan = h[<<i, i>>]
  <2>1. ~(i > Len(cells))
    BY <1>1
  <2>2. Scan(cells, i, chunk) = h[<<i, i>>]
    BY <2>1, Zenon, ScanIsFrom
  <2> HIDE DEF h
  <2> QED
    BY <2>2
<1>9. ASSUME NEW at \in S
      PROVE  h[at] = IF at \in stop
                     THEN [records |-> R(at).records, end |-> E(at),
                           why |-> IF R(at).why \in Cut /\ E(at) = L THEN "NONE" ELSE R(at).why]
                     ELSE [h[<<E(at), U(at)>>] EXCEPT !.records = R(at).records \o @]
  <2>1. h[at] = ScanFrom(cells, chunk, at, h)
    <3> HIDE DEF h, S
    <3> QED
      BY <1>7
  <2> HIDE DEF h, stop, S
  <2> QED
    BY <1>5, <2>1
<1> HIDE DEF h
<1> DEFINE Good(at) == /\ h[at] \in Runs /\ h[at].end \in at[1]..L
                       /\ Parsed(cells, at[1], h[at].records, h[at].end)
                       /\ h[at].why = "NONE" <=> h[at].end = L
           T == {n \in Nat : \A at \in S : at[1] <= at[2] /\ L - at[2] <= n => Good(at)}
<1>10. ASSUME NEW at \in stop, at[1] <= at[2] PROVE Good(at)
  <2> DEFINE w == IF R(at).why \in Cut /\ E(at) = L THEN "NONE" ELSE R(at).why
  <2>1. h[at] = [records |-> R(at).records, end |-> E(at), why |-> w] /\ at \in S
    BY <1>9
  <2>2. /\ R(at) \in Runs /\ E(at) \in i..L /\ E(at) \in at[1]..U(at) /\ U(at) \in i..L
        /\ Lays(cells, at[1], R(at).records, E(at)) /\ at[1] \in i..L
        /\ \/ R(at).why \in Cut /\ (U(at) = L => Nothing(cells, E(at)))
           \/ /\ R(at).why \notin Cut /\ R(at).why # "NONE"
              /\ E(at) # U(at) /\ Nothing(cells, E(at))
    <3> HIDE DEF S
    <3> QED
      BY <1>1, <1>2, <1>3, <1>10, <2>1
  <2>3. R(at).why \in Cut => U(at) = L
    <3>1. R(at).why \in Cut => ~(U(at) < L)
      OBVIOUS
    <3> QED
      BY <1>1, <2>2, <3>1
  <2>4. Nothing(cells, E(at))
    BY <2>2, <2>3
  <2>5. w \in Whys /\ (w = "NONE" <=> E(at) = L)
    <3>1. CASE R(at).why \in Cut
      BY <2>2, <3>1 DEF Runs, Whys, Cut
    <3>2. CASE R(at).why \notin Cut
      <4>1. R(at).why # "NONE" /\ E(at) # U(at) /\ R(at).why \in Whys
        BY <2>2, <3>2 DEF Runs
      <4>2. E(at) # L
        BY <1>1, <2>2, <4>1
      <4> QED
        BY <3>2, <4>1, <4>2
    <3> QED
      BY <3>1, <3>2
  <2> HIDE DEF w
  <2>6. h[at] \in Runs /\ h[at].records = R(at).records /\ h[at].end = E(at) /\ h[at].why = w
    BY <1>1, <2>1, <2>2, <2>5 DEF Runs
  <2>7. Parsed(cells, at[1], R(at).records, E(at))
    BY <2>2, <2>4 DEF Parsed, Nothing, Runs
  <2>8. E(at) \in at[1]..L
    BY <1>1, <2>2
  <2> QED
    BY <2>5, <2>6, <2>7, <2>8
<1>11. ASSUME NEW at \in S, at \notin stop, at[1] <= at[2], Good(<<E(at), U(at)>>) PROVE Good(at)
  <2> DEFINE rest == h[<<E(at), U(at)>>]
  <2>1. h[at] = [rest EXCEPT !.records = R(at).records \o @] /\ rest \in Runs
    <3> HIDE DEF stop, S
    <3> QED
      BY <1>9, <1>11
  <2>2. /\ R(at) \in Runs /\ E(at) \in i..L /\ E(at) \in at[1]..U(at) /\ at[1] \in i..L
        /\ Lays(cells, at[1], R(at).records, E(at))
    <3> HIDE DEF S
    <3> QED
      BY <1>1, <1>3, <1>11
  <2>3. /\ rest.end \in E(at)..L /\ Parsed(cells, E(at), rest.records, rest.end)
        /\ rest.why = "NONE" <=> rest.end = L
    BY <1>11
  <2> HIDE DEF rest
  <2>4. /\ h[at] \in Runs /\ h[at].records = R(at).records \o rest.records /\ h[at].end = rest.end
        /\ h[at].why = rest.why
    <3>1. R(at).records \in Seq(Records) /\ rest.records \in Seq(Records)
      BY <2>1, <2>2 DEF Runs
    <3>2. R(at).records \o rest.records \in Seq(Records)
      BY <3>1, ConcatProperties
    <3> QED
      BY <2>1, <3>2 DEF Runs
  <2>5. Parsed(cells, at[1], R(at).records \o rest.records, rest.end)
    <3>1. R(at).records \in Seq(Records) /\ at[1] \in Nat
      BY <2>2 DEF Runs
    <3> QED
      BY <1>1, <2>2, <2>3, <3>1, ParsedAfter
  <2>6. rest.end \in at[1]..L
    BY <1>1, <2>2, <2>3
  <2> QED
    BY <2>3, <2>4, <2>5, <2>6
<1> HIDE DEF Good
<1>12. 0 \in T
  <2>1. ASSUME NEW at \in S, at[1] <= at[2], L - at[2] <= 0 PROVE Good(at)
    <3>1. at[2] = L
      BY <1>1, <2>1
    <3>2. at \in stop
      <4>1. ~(U(at) < L)
        <5>1. U(at) \in i..L /\ (U(at) < L => U(at) > at[2])
          BY <1>2
        <5> HIDE DEF S
        <5> QED
          BY <1>1, <3>1, <5>1
      <4> QED
        BY <4>1
    <3> HIDE DEF stop, S
    <3> QED
      BY <1>10, <2>1, <3>2
  <2> HIDE DEF S
  <2> QED
    BY <2>1
<1>13. ASSUME NEW n \in Nat, n \in T PROVE n + 1 \in T
  <2>1. ASSUME NEW at \in S, at[1] <= at[2], L - at[2] <= n + 1 PROVE Good(at)
    <3>1. CASE at \in stop
      BY <1>10, <2>1, <3>1
    <3>2. CASE at \notin stop
      <4> DEFINE nx == <<E(at), U(at)>>
      <4>0. U(at) < L
        BY <3>2
      <4>1. /\ nx \in S /\ nx[1] = E(at) /\ nx[2] = U(at) /\ E(at) <= U(at) /\ U(at) > at[2]
            /\ U(at) \in i..L /\ at[2] \in i..L
        <5>1. E(at) \in i..L /\ U(at) \in i..L /\ E(at) \in at[1]..U(at) /\ U(at) > at[2]
              /\ at[1] \in i..L /\ at[2] \in i..L
          <6> HIDE DEF S, stop
          <6>1. at[1] \in i..L /\ at[2] \in i..L
            BY <1>1
          <6>2. U(at) \in i..L /\ U(at) > at[2]
            BY <1>2, <4>0
          <6>3. E(at) \in i..L /\ E(at) \in at[1]..U(at)
            BY <1>3, <2>1
          <6> QED
            BY <6>1, <6>2, <6>3
        <5> QED
          BY <1>1, <5>1
      <4>2. L - U(at) <= n
        BY <1>1, <2>1, <4>1
      <4>3. Good(nx)
        <5> HIDE DEF nx, S
        <5> QED
          BY <1>13, <4>1, <4>2
      <4> HIDE DEF S, stop
      <4> QED
        BY <1>11, <2>1, <3>2, <4>3
    <3> QED
      BY <3>1, <3>2
  <2> HIDE DEF S
  <2> QED
    BY <2>1
<1> HIDE DEF T
<1>14. Nat \subseteq T
  BY <1>12, <1>13, NatSetInduction
<1>15. Good(<<i, i>>)
  <2>1. L - i \in Nat /\ <<i, i>> \in S /\ <<i, i>>[1] = i /\ <<i, i>>[2] = i
    BY <1>1
  <2>2. L - i \in T
    BY <1>14, <2>1
  <2> HIDE DEF S
  <2> QED
    BY <1>1, <2>1, <2>2 DEF T
<1> QED
  BY <1>8, <1>15 DEF Good

-----------------------------------------------------------------------------
(***************************************************************************)
(* Replaying.                                                              *)
(***************************************************************************)
Status == {"none", "live", "done"}

After(r) == IF r.type = "add" THEN "live" ELSE "done"

\* The last record about j gives v, or there is none and idx does.
Tells(idx, rs, j, v) ==
  \/ (\A k \in 1..Len(rs) : rs[k].job # j) /\ v = idx[j]
  \/ \E k \in 1..Len(rs) :
       /\ rs[k].job = j /\ v = After(rs[k])
       /\ \A m \in 1..Len(rs) : m > k => rs[m].job # j

LEMMA ReplayedIsFold ==
  ASSUME NEW idx, NEW rs
  PROVE  Replayed(idx, rs) =
           (CHOOSE f : f = [s \in SUBSET (DOMAIN rs) |->
                              IF s = {} THEN idx ELSE Apply(f[s \ {Max(s)}], rs[Max(s)])])[DOMAIN rs]
BY Zenon DEF Replayed, FoldLeft, MapThenFoldSet

LEMMA MaxOfSome ==
  ASSUME NEW n \in Nat, NEW s \in SUBSET (1..n), s # {}
  PROVE  Max(s) \in s /\ \A x \in s : x <= Max(s)
<1> DEFINE T == {k \in Nat : \A t \in SUBSET (1..k) : t # {} => \E x \in t : \A y \in t : x >= y}
<1>1. 0 \in T
  <2>1. \A t \in SUBSET (1..0) : t = {}
    OBVIOUS
  <2> QED
    BY <2>1
<1>2. ASSUME NEW k \in Nat, k \in T PROVE k + 1 \in T
  <2>1. ASSUME NEW t \in SUBSET (1..k + 1), t # {} PROVE \E x \in t : \A y \in t : x >= y
    <3>1. CASE k + 1 \in t
      BY <3>1
    <3>2. CASE k + 1 \notin t
      <4>1. t \in SUBSET (1..k)
        BY <3>2
      <4> QED
        BY <1>2, <2>1, <4>1
    <3> QED
      BY <3>1, <3>2
  <2> QED
    BY <2>1
<1> HIDE DEF T
<1>3. n \in T
  BY <1>1, <1>2, NatSetInduction
<1>4. \E x \in s : \A y \in s : x >= y
  BY <1>3 DEF T
<1> QED
  BY <1>4 DEF Max

LEMMA ReplayedFacts ==
  ASSUME NEW idx \in [Job -> Status], NEW rs \in Seq(Records)
  PROVE  /\ Replayed(idx, rs) \in [Job -> Status]
         /\ \A j \in Job : Tells(idx, rs, j, Replayed(idx, rs)[j])
<1> DEFINE n == Len(rs)
           S == SUBSET (1..n)
           V == [Job -> Status]
           stop == {{}}
           val == [s \in S |-> idx]
           next == [s \in S |-> IF s = {} THEN {} ELSE s \ {Max(s)}]
           step == [x \in S \X V |-> IF x[1] = {} THEN x[2] ELSE Apply(x[2], rs[Max(x[1])])]
           rank == [s \in S |-> IF s = {} THEN 0 ELSE Max(s)]
<1>1. n \in Nat /\ DOMAIN rs = 1..n /\ \A k \in 1..n : rs[k] \in Records
  BY LenProperties, ElementOfSeq
<1>2. ASSUME NEW v \in V, NEW r \in Records
      PROVE  Apply(v, r) \in V /\ \A j \in Job : Apply(v, r)[j] = IF j = r.job THEN After(r) ELSE v[j]
  <2>1. r.job \in Job
    BY RecordFacts
  <2> QED
    BY <2>1 DEF Apply, After, Status
<1>3. ASSUME NEW s \in S, s # {}
      PROVE  /\ Max(s) \in 1..n /\ s \ {Max(s)} \in S /\ Max(s) \in s
             /\ \A x \in s \ {Max(s)} : x < Max(s)
  <2>1. Max(s) \in s /\ \A x \in s : x <= Max(s)
    BY <1>1, <1>3, MaxOfSome
  <2>2. \A x \in s : x \in 1..n
    OBVIOUS
  <2>3. \A x \in s \ {Max(s)} : x < Max(s)
    <3>1. ASSUME NEW x \in s \ {Max(s)} PROVE x < Max(s)
      <4>0. x \in s /\ Max(s) \in s /\ x # Max(s) /\ x <= Max(s)
        BY <2>1
      <4>2. x \in 1..n /\ Max(s) \in 1..n
        BY <2>2, <4>0
      <4> HIDE DEF n
      <4>1. x \in Int /\ Max(s) \in Int /\ x # Max(s) /\ x <= Max(s)
        BY <4>0, <4>2
      <4> QED
        BY <4>1
    <3> QED
      BY <3>1
  <2> QED
    BY <2>1, <2>2, <2>3
<1>4. \E f \in [S -> V] : \A s \in S : f[s] = IF s \in stop THEN val[s] ELSE step[<<s, f[next[s]]>>]
  <2>1. rank \in [S -> 0..n]
    BY <1>1, <1>3
  <2>2. val \in [S -> V]
    OBVIOUS
  <2>3. next \in [S -> S]
    BY <1>3
  <2>4. step \in [S \X V -> V]
    <3>1. ASSUME NEW s \in S, NEW v \in V
          PROVE  (IF s = {} THEN v ELSE Apply(v, rs[Max(s)])) \in V
      <4> HIDE DEF V, S, n
      <4> QED
        BY <1>1, <1>2, <1>3
    <3> HIDE DEF V, S
    <3> QED
      BY <3>1
  <2>5. \A s \in S \ stop : rank[next[s]] < rank[s]
    <3>1. ASSUME NEW s \in S, s # {} PROVE rank[s \ {Max(s)}] < rank[s]
      <4> DEFINE t == s \ {Max(s)}
      <4>1. t \in S /\ Max(s) \in 1..n /\ \A x \in t : x < Max(s)
        BY <1>3, <3>1
      <4>2. t # {} => Max(t) \in t
        <5> HIDE DEF t, S
        <5> QED
          BY <1>3, <4>1
      <4>3. rank[s] = Max(s) /\ rank[t] = IF t = {} THEN 0 ELSE Max(t)
        <5> HIDE DEF t, S
        <5> QED
          BY <3>1, <4>1
      <4> HIDE DEF rank, t
      <4>4. rank[t] < rank[s]
        <5>1. CASE t = {}
          BY <1>1, <4>1, <4>3, <5>1
        <5>2. CASE t # {}
          BY <4>1, <4>2, <4>3, <5>2
        <5> QED
          BY <5>1, <5>2
      <4> QED
        BY <4>4 DEF t
    <3> HIDE DEF rank, S
    <3> QED
      BY <3>1
  <2>6. n \in Nat
    BY <1>1
  <2> HIDE DEF n, S, V, stop, val, next, step, rank
  <2>7. Bounded(S, V, n, rank, stop, val, next, step)
    BY <2>1, <2>2, <2>3, <2>4, <2>5, <2>6 DEF Bounded
  <2> QED
    BY <2>7, RecursionExists
<1> DEFINE F(f) == [s \in SUBSET (DOMAIN rs) |->
                      IF s = {} THEN idx ELSE Apply(f[s \ {Max(s)}], rs[Max(s)])]
<1>5. PICK g \in [S -> V] : g = F(g)
  <2>1. PICK g \in [S -> V] :
          \A s \in S : g[s] = IF s \in stop THEN val[s] ELSE step[<<s, g[next[s]]>>]
    BY <1>4
  <2>2. ASSUME NEW s \in S
        PROVE  g[s] = IF s = {} THEN idx ELSE Apply(g[s \ {Max(s)}], rs[Max(s)])
    <3>1. CASE s = {}
      BY <2>1, <3>1
    <3>2. CASE s # {}
      <4>1. next[s] = s \ {Max(s)} /\ next[s] \in S
        BY <1>3, <3>2
      <4>2. g[next[s]] \in V
        <5> HIDE DEF S, V, next
        <5> QED
          BY <4>1
      <4>3. step[<<s, g[next[s]]>>] = Apply(g[next[s]], rs[Max(s)])
        <5> HIDE DEF S, V, next
        <5> QED
          BY <3>2, <4>2
      <4> HIDE DEF S, V, next, step
      <4> QED
        BY <2>1, <3>2, <4>1, <4>3
    <3> QED
      BY <3>1, <3>2
  <2>3. S = SUBSET (DOMAIN rs)
    BY <1>1
  <2> HIDE DEF S, V
  <2> QED
    BY <2>2, <2>3
<1> DEFINE h == CHOOSE f : f = F(f)
<1>6. h = F(h)
  <2> HIDE DEF F
  <2> QED
    BY <1>5
<1>7. Replayed(idx, rs) = h[DOMAIN rs]
  BY Zenon, ReplayedIsFold
<1>8. ASSUME NEW s \in S
      PROVE  h[s] = IF s = {} THEN idx ELSE Apply(h[s \ {Max(s)}], rs[Max(s)])
  <2>1. s \in SUBSET (DOMAIN rs)
    BY <1>1
  <2> HIDE DEF h, S
  <2> QED
    BY <1>6, <2>1
<1> HIDE DEF h
<1> DEFINE Upto(k, j, v) ==
             \/ (\A m \in 1..k : rs[m].job # j) /\ v = idx[j]
             \/ \E m \in 1..k : /\ rs[m].job = j /\ v = After(rs[m])
                                /\ \A l \in 1..k : l > m => rs[l].job # j
           T == {k \in Nat : k <= n => /\ h[1..k] \in V
                                       /\ \A j \in Job : Upto(k, j, h[1..k][j])}
<1>9. 0 \in T
  <2>1. 1..0 = {} /\ {} \in S
    OBVIOUS
  <2>2. h[1..0] = idx
    BY <1>8, <2>1
  <2> QED
    BY <2>2
<1>10. ASSUME NEW k \in 0..(n - 1), k \in T PROVE k + 1 \in T
  <2>1. 1..(k + 1) \in S /\ 1..(k + 1) # {} /\ k + 1 \in 1..n /\ k <= n /\ k + 1 \in 1..(k + 1)
    BY <1>1
  <2>2. Max(1..(k + 1)) = k + 1 /\ (1..(k + 1)) \ {k + 1} = 1..k
    <3>1. Max(1..(k + 1)) \in 1..(k + 1) /\ \A x \in 1..(k + 1) : x <= Max(1..(k + 1))
      BY <1>1, <2>1, MaxOfSome
    <3> QED
      BY <1>1, <2>1, <3>1
  <2>3. h[1..(k + 1)] = Apply(h[1..k], rs[k + 1])
    <3> HIDE DEF S
    <3> QED
      BY <1>8, <2>1, <2>2
  <2>4. /\ h[1..(k + 1)] \in V
        /\ \A j \in Job : h[1..(k + 1)][j] = IF j = rs[k + 1].job THEN After(rs[k + 1]) ELSE h[1..k][j]
    <3>1. rs[k + 1] \in Records /\ h[1..k] \in V
      BY <1>1, <1>10, <2>1
    <3> DEFINE v == h[1..k]  r == rs[k + 1]
    <3> HIDE DEF V, v, r
    <3>2. Apply(v, r) \in V /\ \A j \in Job : Apply(v, r)[j] = IF j = r.job THEN After(r) ELSE v[j]
      BY <1>2, <3>1 DEF v, r
    <3> QED
      BY <2>3, <3>2 DEF v, r
  <2>5. ASSUME NEW j \in Job PROVE Upto(k + 1, j, h[1..(k + 1)][j])
    <3>1. CASE j = rs[k + 1].job
      <4>1. h[1..(k + 1)][j] = After(rs[k + 1])
        BY <2>4, <3>1
      <4>2. \A l \in 1..(k + 1) : ~(l > k + 1)
        BY <1>1
      <4> QED
        BY <2>1, <3>1, <4>1, <4>2
    <3>2. CASE j # rs[k + 1].job
      <4>1. h[1..(k + 1)][j] = h[1..k][j] /\ Upto(k, j, h[1..k][j])
        BY <1>10, <2>1, <2>4, <3>2
      <4>2. 1..(k + 1) = 1..k \cup {k + 1}
        BY <1>1
      <4> DEFINE v == h[1..k][j]
      <4> HIDE DEF v
      <4>3. Upto(k + 1, j, v)
        BY <3>2, <4>1, <4>2 DEF v
      <4> QED
        BY <4>1, <4>3 DEF v
    <3> QED
      BY <3>1, <3>2
  <2> HIDE DEF Upto, V
  <2> QED
    BY <1>1, <2>4, <2>5
<1> HIDE DEF T
<1>11. 0..n \subseteq T
  BY <1>1, <1>9, <1>10, UpToInduction
<1>12. n \in T /\ Replayed(idx, rs) = h[1..n]
  BY <1>1, <1>7, <1>11
<1> QED
  BY <1>1, <1>12 DEF T, Tells

-----------------------------------------------------------------------------
(***************************************************************************)
(* The records of a log, and of what becomes of it.                        *)
(***************************************************************************)
LEMMA RecsFacts ==
  ASSUME NEW cells, Plain(cells)
  PROVE  /\ Len(cells) \in Nat /\ Len(cells) >= 1
         /\ Recs(cells) \in Seq(Records) /\ Ends(cells) \in 1..Len(cells)
         /\ Parsed(cells, 1, Recs(cells), Ends(cells))
         /\ Scan(cells, HeaderSize, Chunk).why = "NONE" <=> Ends(cells) = Len(cells)
<1>1. Len(cells) \in Nat /\ Len(cells) >= 1
  BY LenProperties DEF Plain
<1>2. 1 \in 1..Len(cells) /\ Chunk \in Nat \ {0}
  BY <1>1, StorageAssumption
<1> DEFINE scan == Scan(cells, 1, Chunk)
<1> HIDE DEF scan
<1>3. scan \in Runs /\ scan.end \in 1..Len(cells) /\ Parsed(cells, 1, scan.records, scan.end)
      /\ (scan.why = "NONE" <=> scan.end = Len(cells))
  BY <1>2, ScanFacts DEF scan
<1>4. Recs(cells) = scan.records /\ Ends(cells) = scan.end /\ Scan(cells, HeaderSize, Chunk) = scan
  BY DEF Recs, Ends, scan, HeaderSize
<1> QED
  BY <1>1, <1>3, <1>4 DEF Runs

LEMMA RecsAre ==
  ASSUME NEW cells, Plain(cells), NEW rs, NEW e, Parsed(cells, 1, rs, e)
  PROVE  Recs(cells) = rs /\ Ends(cells) = e
<1>1. Len(cells) \in Nat /\ Parsed(cells, 1, Recs(cells), Ends(cells))
  BY RecsFacts
<1> QED
  BY <1>1, ParsedUnique

\* The first cells of a log.
LEMMA Beginning ==
  ASSUME NEW cells, Plain(cells), NEW n \in 1..Len(cells)
  PROVE  /\ Plain(SubSeq(cells, 1, n)) /\ Len(SubSeq(cells, 1, n)) = n
         /\ \A k \in 1..n : SubSeq(cells, 1, n)[k] = cells[k]
<1>1. cells \in Seq(Cell) /\ Len(cells) \in Nat /\ \A k \in 2..Len(cells) : cells[k] \in DataCell
  BY LenProperties DEF Plain
<1> DEFINE first == SubSeq(cells, 0 + 1, n)
<1>2. 0 \in 0..Len(cells) /\ n \in 0..Len(cells)
  BY <1>1
<1>3. first \in Seq(Cell) /\ Len(first) = n - 0 /\ \A k \in 1..(n - 0) : first[k] = cells[0 + k]
  BY <1>1, <1>2, Stretch
<1>4. 0 + 1 = 1 /\ n - 0 = n /\ \A k \in 1..n : 0 + k = k
  BY <1>1
<1>5. first = SubSeq(cells, 1, n)
  BY <1>4
<1>6. first \in Seq(Cell) /\ Len(first) = n /\ \A k \in 1..n : first[k] = cells[k]
  BY <1>3, <1>4
<1>7. \A k \in 2..n : first[k] \in DataCell
  BY <1>1, <1>6
<1> HIDE DEF first
<1>8. Plain(first)
  BY <1>6, <1>7 DEF Plain
<1> QED
  BY <1>5, <1>6, <1>8

\* rs and more.
Longer(rs, all) == \E ts \in Seq(Records) : all = rs \o ts

LEMMA LongerFacts ==
  ASSUME NEW rs \in Seq(Records), NEW all, Longer(rs, all)
  PROVE  /\ all \in Seq(Records) /\ Len(rs) \in Nat /\ Len(all) \in Nat /\ Len(rs) <= Len(all)
         /\ \A k \in 1..Len(rs) : rs[k] = all[k]
         /\ ToSet(rs) \subseteq ToSet(all)
<1>1. PICK ts \in Seq(Records) : all = rs \o ts
  BY DEF Longer
<1>2. /\ all \in Seq(Records) /\ Len(all) = Len(rs) + Len(ts) /\ Len(rs) \in Nat /\ Len(ts) \in Nat
      /\ \A k \in 1..Len(rs) + Len(ts) : all[k] = IF k <= Len(rs) THEN rs[k] ELSE ts[k - Len(rs)]
  BY <1>1, ConcatProperties, LenProperties
<1>3. Len(all) \in Nat /\ Len(rs) <= Len(all) /\ \A k \in 1..Len(rs) : rs[k] = all[k]
  BY <1>2
<1>4. DOMAIN rs = 1..Len(rs) /\ DOMAIN all = 1..Len(all)
  BY <1>2, LenProperties
<1>5. ToSet(rs) \subseteq ToSet(all)
  BY <1>3, <1>4 DEF ToSet
<1> QED
  BY <1>2, <1>3, <1>5

\* Whatever is a record in cells is one in more.
Loses(more, cells) == \A i \in Nat : \A r \in Records : Holds(cells, i, r) => Holds(more, i, r)

LEMMA LosesFacts ==
  ASSUME NEW more, Plain(more), NEW cells, Plain(cells), Loses(more, cells)
  PROVE  Longer(Recs(cells), Recs(more)) /\ Ends(cells) <= Ends(more)
<1> DEFINE rs == Recs(cells)  e == Ends(cells)
<1>1. rs \in Seq(Records) /\ Parsed(cells, 1, rs, e) /\ Len(cells) \in Nat
  BY RecsFacts
<1>2. Parsed(more, 1, Recs(more), Ends(more)) /\ Len(more) \in Nat
  BY RecsFacts
<1> HIDE DEF rs, e
<1>3. Lays(cells, 1, rs, e)
  BY <1>1 DEF Parsed
<1>4. Lays(more, 1, rs, e)
  <2>1. PICK b : Laid(b, cells, 1, rs, e)
    BY <1>3 DEF Lays
  <2>2. Len(rs) \in Nat /\ \A k \in 1..Len(rs) : rs[k] \in Records
    BY <1>1, LenProperties, ElementOfSeq
  <2>3. ASSUME NEW k \in 1..Len(rs) PROVE Holds(more, b[k - 1], rs[k])
    <3>1. k - 1 \in 0..Len(rs) /\ rs[k] \in Records
      BY <2>2
    <3>2. b[k - 1] \in Nat /\ Holds(cells, b[k - 1], rs[k])
      BY <2>1, <3>1 DEF Laid
    <3> QED
      BY <3>1, <3>2 DEF Loses
  <2>4. Laid(b, more, 1, rs, e)
    BY <2>1, <2>3 DEF Laid
  <2> QED
    BY <2>4 DEF Lays
<1>5. e <= Ends(more) /\ Continue(more, rs, e, Recs(more), Ends(more))
  BY <1>1, <1>2, <1>4, ParsedLongest
<1> QED
  BY <1>5 DEF Continue, Longer, rs, e

\* Cells that are those of more as far as they go lose nothing else.
LEMMA BeginningLoses ==
  ASSUME NEW more, Plain(more), NEW cells, Plain(cells), Len(cells) <= Len(more),
         \A k \in 1..Len(cells) : cells[k] = more[k] \/ cells[k] = Hole
  PROVE  Loses(more, cells)
<1>1. Len(cells) \in Nat /\ Len(more) \in Nat
  BY RecsFacts
<1> SUFFICES ASSUME NEW i \in Nat, NEW r \in Records, Holds(cells, i, r) PROVE Holds(more, i, r)
  BY DEF Loses
<1>2. Size(r) \in Nat /\ Size(r) >= 2 /\ i + Size(r) <= Len(cells)
  BY RecordFacts DEF Holds
<1>3. ASSUME NEW k \in 1..Size(r) PROVE more[i + k] = [of |-> r, at |-> k]
  <2>1. cells[i + k] = [of |-> r, at |-> k]
    BY DEF Holds
  <2>2. cells[i + k] # Hole
    <3>1. [of |-> r, at |-> k].at = k /\ Hole.at = 0 /\ k # 0
      BY <1>2 DEF Hole
    <3> QED
      BY <2>1, <3>1
  <2>3. i + k \in 1..Len(cells)
    BY <1>1, <1>2
  <2> QED
    BY <2>1, <2>2, <2>3
<1>4. i + Size(r) <= Len(more)
  BY <1>1, <1>2
<1> QED
  BY <1>3, <1>4 DEF Holds

\* Cut at the end of a record.
LEMMA CutAtEnd ==
  ASSUME NEW cells, Plain(cells)
  PROVE  /\ Recs(SubSeq(cells, 1, Ends(cells))) = Recs(cells)
         /\ Ends(SubSeq(cells, 1, Ends(cells))) = Ends(cells)
<1> DEFINE e == Ends(cells)  rs == Recs(cells)  first == SubSeq(cells, 1, e)
<1>1. Len(cells) \in Nat /\ e \in 1..Len(cells) /\ rs \in Seq(Records) /\ Parsed(cells, 1, rs, e)
  BY RecsFacts
<1> HIDE DEF e, rs
<1>2. Plain(first) /\ Len(first) = e /\ \A k \in 1..e : first[k] = cells[k]
  BY <1>1, Beginning
<1> HIDE DEF first
<1>3. Lays(cells, 1, rs, e)
  BY <1>1 DEF Parsed
<1>4. Lays(first, 1, rs, e)
  <2>1. \A k \in 1 + 1..e : first[k] = cells[k]
    BY <1>1, <1>2
  <2>2. Len(first) \in Nat /\ e <= Len(first)
    BY <1>1, <1>2
  <2> QED
    BY <1>1, <1>3, <2>1, <2>2, LaysElsewhere
<1>5. ASSUME NEW r \in Records, Holds(first, e, r) PROVE FALSE
  <2>1. Size(r) \in Nat /\ Size(r) >= 2 /\ e + Size(r) <= e
    BY <1>2, <1>5, RecordFacts DEF Holds
  <2> QED
    BY <1>1, <2>1
<1>6. Parsed(first, 1, rs, e)
  BY <1>1, <1>4, <1>5 DEF Parsed
<1> QED
  BY <1>2, <1>6, RecsAre DEF first, e, rs

\* Reading on from the end of a record.
LEMMA ReadOn ==
  ASSUME NEW cells, Plain(cells), NEW pos \in 1..Len(cells), Ends(SubSeq(cells, 1, pos)) = pos,
         NEW scan, scan = Scan(cells, pos, Chunk)
  PROVE  /\ scan.records \in Seq(Records) /\ scan.end = Ends(cells) /\ pos <= Ends(cells)
         /\ Recs(SubSeq(cells, 1, pos)) \in Seq(Records)
         /\ Recs(cells) = Recs(SubSeq(cells, 1, pos)) \o scan.records
         /\ scan.why = "NONE" <=> Ends(cells) = Len(cells)
<1> DEFINE first == SubSeq(cells, 1, pos)  rs == Recs(first)
<1>1. Len(cells) \in Nat /\ Chunk \in Nat \ {0}
  BY RecsFacts, StorageAssumption
<1>2. Plain(first) /\ Len(first) = pos /\ \A k \in 1..pos : first[k] = cells[k]
  BY Beginning
<1>3. rs \in Seq(Records) /\ Parsed(first, 1, rs, pos)
  BY <1>2, RecsFacts
<1>4. /\ scan \in Runs /\ scan.end \in pos..Len(cells) /\ Parsed(cells, pos, scan.records, scan.end)
      /\ (scan.why = "NONE" <=> scan.end = Len(cells))
  BY <1>1, ScanFacts
<1> HIDE DEF first, rs
<1>5. Lays(cells, 1, rs, pos)
  <2>1. Lays(first, 1, rs, pos)
    BY <1>3 DEF Parsed
  <2>2. Len(first) \in Nat /\ pos <= Len(cells) /\ \A k \in 1 + 1..pos : cells[k] = first[k]
    BY <1>1, <1>2
  <2> QED
    BY <1>1, <1>3, <2>1, <2>2, LaysElsewhere
<1>6. Parsed(cells, 1, rs \o scan.records, scan.end)
  BY <1>1, <1>3, <1>4, <1>5, ParsedAfter
<1>7. Recs(cells) = rs \o scan.records /\ Ends(cells) = scan.end
  BY <1>6, RecsAre
<1> QED
  BY <1>1, <1>3, <1>4, <1>7 DEF Runs, first, rs

-----------------------------------------------------------------------------
(***************************************************************************)
(* What replaying tells of a job.                                          *)
(***************************************************************************)
LEMMA TellsOne ==
  ASSUME NEW idx, NEW rs \in Seq(Records), NEW j, NEW v, NEW w, Tells(idx, rs, j, v), Tells(idx, rs, j, w)
  PROVE  v = w
<1>1. Len(rs) \in Nat
  BY LenProperties
<1>2. CASE \A k \in 1..Len(rs) : rs[k].job # j
  BY <1>2 DEF Tells
<1>3. CASE ~\A k \in 1..Len(rs) : rs[k].job # j
  <2>1. PICK k \in 1..Len(rs) : /\ rs[k].job = j /\ v = After(rs[k])
                                /\ \A m \in 1..Len(rs) : m > k => rs[m].job # j
    BY <1>3 DEF Tells
  <2>2. PICK l \in 1..Len(rs) : /\ rs[l].job = j /\ w = After(rs[l])
                                /\ \A m \in 1..Len(rs) : m > l => rs[m].job # j
    BY <1>3 DEF Tells
  <2>3. k = l
    BY <1>1, <2>1, <2>2
  <2> QED
    BY <2>1, <2>2, <2>3
<1> QED
  BY <1>2, <1>3

LEMMA Untouched ==
  ASSUME NEW idx \in [Job -> Status], NEW rs \in Seq(Records), NEW j \in Job,
         \A k \in 1..Len(rs) : rs[k].job # j
  PROVE  Replayed(idx, rs)[j] = idx[j]
<1>1. Tells(idx, rs, j, Replayed(idx, rs)[j])
  BY ReplayedFacts
<1> QED
  BY <1>1 DEF Tells

LEMMA NoJobsTyped == NoJobs \in [Job -> Status]
BY DEF NoJobs, Status

\* A replay of what was read and what follows agrees on a job with one of what follows,
\* if that one says anything of the job, or was right to begin with.
LEMMA ReplayedOn ==
  ASSUME NEW idx \in [Job -> Status], NEW rs \in Seq(Records), NEW ts \in Seq(Records), NEW j \in Job,
         (\A r \in ToSet(ts) : r.job # j) => idx[j] = Replayed(NoJobs, rs \o ts)[j]
  PROVE  Replayed(idx, ts)[j] = Replayed(NoJobs, rs \o ts)[j]
<1> DEFINE all == rs \o ts  v == Replayed(idx, ts)[j]
<1>1. /\ all \in Seq(Records) /\ Len(all) = Len(rs) + Len(ts) /\ Len(rs) \in Nat /\ Len(ts) \in Nat
      /\ \A k \in 1..Len(rs) + Len(ts) : all[k] = IF k <= Len(rs) THEN rs[k] ELSE ts[k - Len(rs)]
  BY ConcatProperties, LenProperties
<1>2. Tells(idx, ts, j, v)
  BY ReplayedFacts
<1>3. CASE \A k \in 1..Len(ts) : ts[k].job # j
  <2>1. \A r \in ToSet(ts) : r.job # j
    BY <1>3, LenProperties DEF ToSet
  <2>2. v = idx[j]
    BY <1>3, Untouched
  <2> QED
    BY <2>1, <2>2
<1>4. CASE ~\A k \in 1..Len(ts) : ts[k].job # j
  <2> HIDE DEF v, all
  <2>1. PICK k \in 1..Len(ts) : /\ ts[k].job = j /\ v = After(ts[k])
                                /\ \A m \in 1..Len(ts) : m > k => ts[m].job # j
    BY <1>2, <1>4 DEF Tells
  <2> DEFINE n == Len(rs) + k
  <2>2. n \in 1..Len(all) /\ all[n] = ts[k]
    <3>1. n \in 1..Len(rs) + Len(ts) /\ ~(n <= Len(rs)) /\ n - Len(rs) = k
      BY <1>1
    <3> HIDE DEF n
    <3> QED
      BY <1>1, <3>1
  <2>3. ASSUME NEW m \in 1..Len(all), m > n PROVE all[m].job # j
    <3>1. m - Len(rs) \in 1..Len(ts) /\ m - Len(rs) > k /\ all[m] = ts[m - Len(rs)]
      BY <1>1, <2>3
    <3> QED
      BY <2>1, <3>1
  <2> HIDE DEF n
  <2>4. Tells(NoJobs, all, j, v)
    BY <2>1, <2>2, <2>3 DEF Tells
  <2>5. Tells(NoJobs, all, j, Replayed(NoJobs, all)[j])
    BY <1>1, NoJobsTyped, ReplayedFacts
  <2>6. v = Replayed(NoJobs, all)[j]
    BY <1>1, <2>4, <2>5, TellsOne
  <2> QED
    BY <2>6 DEF v, all
<1> QED
  BY <1>3, <1>4

LEMMA AppendedRecord ==
  ASSUME NEW rs \in Seq(Records), NEW r \in Records
  PROVE  /\ rs \o <<r>> \in Seq(Records) /\ Len(rs \o <<r>>) = Len(rs) + 1 /\ Len(rs) \in Nat
         /\ \A k \in 1..Len(rs) : (rs \o <<r>>)[k] = rs[k]
         /\ (rs \o <<r>>)[Len(rs) + 1] = r
         /\ ToSet(rs \o <<r>>) = ToSet(rs) \cup {r}
<1> DEFINE all == rs \o <<r>>
<1>1. <<r>> \in Seq(Records) /\ Len(<<r>>) = 1 /\ <<r>>[1] = r /\ Len(rs) \in Nat
  BY LenProperties
<1>2. /\ all \in Seq(Records) /\ Len(all) = Len(rs) + Len(<<r>>)
      /\ \A k \in 1..Len(rs) + Len(<<r>>) : all[k] = IF k <= Len(rs) THEN rs[k] ELSE <<r>>[k - Len(rs)]
  BY <1>1, ConcatProperties
<1>3. /\ Len(all) = Len(rs) + 1 /\ \A k \in 1..Len(rs) : all[k] = rs[k] /\ all[Len(rs) + 1] = r
  BY <1>1, <1>2
<1>4. all[Len(rs) + 1] = r
  BY <1>1, <1>2
<1>5. DOMAIN all = 1..Len(rs) + 1 /\ DOMAIN rs = 1..Len(rs)
  BY <1>2, <1>3, LenProperties
<1> HIDE DEF all
<1>6. ToSet(all) = ToSet(rs) \cup {r}
  <2>1. 1..Len(rs) + 1 = 1..Len(rs) \cup {Len(rs) + 1}
    BY <1>1
  <2>2. ToSet(all) = {all[k] : k \in 1..Len(rs) \cup {Len(rs) + 1}}
    BY <1>5, <2>1 DEF ToSet
  <2>3. ToSet(rs) = {rs[k] : k \in 1..Len(rs)}
    BY <1>5 DEF ToSet
  <2> DEFINE n == Len(rs)
  <2> HIDE DEF n
  <2>4. ASSUME NEW x \in ToSet(all) PROVE x \in ToSet(rs) \cup {r}
    BY <1>3, <1>4, <2>2, <2>3
  <2>5. ASSUME NEW x \in ToSet(rs) \cup {r} PROVE x \in ToSet(all)
    BY <1>3, <1>4, <2>2, <2>3
  <2> QED
    BY <2>4, <2>5
<1> QED
  BY <1>1, <1>2, <1>3, <1>4, <1>6 DEF all

LEMMA ReplayedAppended ==
  ASSUME NEW idx \in [Job -> Status], NEW rs \in Seq(Records), NEW r \in Records
  PROVE  Replayed(idx, rs \o <<r>>) = Apply(Replayed(idx, rs), r)
<1> DEFINE all == rs \o <<r>>  old == Replayed(idx, rs)  new == Replayed(idx, all)
<1>1. /\ all \in Seq(Records) /\ Len(all) = Len(rs) + 1 /\ Len(rs) \in Nat
      /\ \A k \in 1..Len(rs) : all[k] = rs[k]
      /\ all[Len(rs) + 1] = r
  BY AppendedRecord
<1> HIDE DEF all
<1>2. /\ old \in [Job -> Status] /\ new \in [Job -> Status]
      /\ \A j \in Job : Tells(idx, rs, j, old[j]) /\ Tells(idx, all, j, new[j])
  BY <1>1, ReplayedFacts
<1> HIDE DEF old, new
<1>3. /\ Apply(old, r) \in [Job -> Status]
      /\ \A j \in Job : Apply(old, r)[j] = IF j = r.job THEN After(r) ELSE old[j]
  BY <1>2, RecordFacts DEF Apply, After, Status
<1>4. ASSUME NEW j \in Job PROVE new[j] = Apply(old, r)[j]
  <2>1. CASE j = r.job
    <3>1. Len(rs) + 1 \in 1..Len(all) /\ \A m \in 1..Len(all) : ~(m > Len(rs) + 1)
      BY <1>1
    <3>2. Tells(idx, all, j, After(r))
      BY <1>1, <2>1, <3>1 DEF Tells
    <3>3. new[j] = After(r)
      BY <1>1, <1>2, <3>2, TellsOne
    <3> QED
      BY <1>3, <2>1, <3>3
  <2>2. CASE j # r.job
    <3> DEFINE v == old[j]
    <3> HIDE DEF v
    <3>1. Tells(idx, rs, j, v)
      BY <1>2 DEF v
    <3>2. 1..Len(all) = 1..Len(rs) \cup {Len(rs) + 1}
      BY <1>1
    <3>3. Tells(idx, all, j, v)
      <4>1. CASE (\A k \in 1..Len(rs) : rs[k].job # j) /\ v = idx[j]
        BY <1>1, <2>2, <3>2, <4>1 DEF Tells
      <4>2. CASE \E k \in 1..Len(rs) : /\ rs[k].job = j /\ v = After(rs[k])
                                       /\ \A m \in 1..Len(rs) : m > k => rs[m].job # j
        <5>1. PICK k \in 1..Len(rs) : /\ rs[k].job = j /\ v = After(rs[k])
                                      /\ \A m \in 1..Len(rs) : m > k => rs[m].job # j
          BY <4>2
        <5>2. k \in 1..Len(all) /\ all[k] = rs[k]
          BY <1>1, <3>2
        <5>3. \A m \in 1..Len(all) : m > k => all[m].job # j
          BY <1>1, <2>2, <3>2, <5>1
        <5> QED
          BY <5>1, <5>2, <5>3 DEF Tells
      <4> QED
        BY <3>1, <4>1, <4>2 DEF Tells
    <3>4. new[j] = v
      BY <1>1, <1>2, <3>3, TellsOne
    <3> QED
      BY <1>3, <2>2, <3>4 DEF v
  <2> QED
    BY <2>1, <2>2
<1>5. new = Apply(old, r)
  BY <1>2, <1>3, <1>4
<1> QED
  BY <1>5 DEF new, old, all

\* No job is added that was done or is added differently.
Orderly(rs) == \A k, m \in DOMAIN rs : k < m => rs[m] # Add(rs[k].job) \/ rs[k] = rs[m]

StatusIn(R, j) == IF Done(j) \in R THEN "done" ELSE IF Add(j) \in R THEN "live" ELSE "none"

LEMMA OrderlyStatus ==
  ASSUME NEW rs \in Seq(Records), Orderly(rs), NEW j \in Job
  PROVE  Replayed(NoJobs, rs)[j] = StatusIn(ToSet(rs), j)
<1> DEFINE v == Replayed(NoJobs, rs)[j]
<1>1. Tells(NoJobs, rs, j, v)
  BY NoJobsTyped, ReplayedFacts
<1> HIDE DEF v
<1>2. DOMAIN rs = 1..Len(rs) /\ Len(rs) \in Nat /\ \A k \in 1..Len(rs) : rs[k] \in Records
  BY LenProperties, ElementOfSeq
<1>3. \A r \in ToSet(rs) : \E k \in 1..Len(rs) : r = rs[k]
  BY <1>2 DEF ToSet
<1>4. \A k \in 1..Len(rs) : rs[k] \in ToSet(rs)
  BY <1>2 DEF ToSet
<1>5. Add(j).job = j /\ Done(j).job = j /\ Add(j) # Done(j)
  BY DEF Add, Done
<1>6. CASE (\A k \in 1..Len(rs) : rs[k].job # j) /\ v = NoJobs[j]
  <2>1. Add(j) \notin ToSet(rs) /\ Done(j) \notin ToSet(rs)
    BY <1>3, <1>5, <1>6
  <2> QED
    BY <1>6, <2>1 DEF StatusIn, NoJobs, v
<1>7. CASE \E k \in 1..Len(rs) : /\ rs[k].job = j /\ v = After(rs[k])
                                 /\ \A m \in 1..Len(rs) : m > k => rs[m].job # j
  <2>1. PICK k \in 1..Len(rs) : /\ rs[k].job = j /\ v = After(rs[k])
                                /\ \A m \in 1..Len(rs) : m > k => rs[m].job # j
    BY <1>7
  <2>2. CASE rs[k] = Done(j)
    <3>1. v = "done"
      BY <2>1, <2>2 DEF After, Done
    <3> QED
      BY <1>4, <2>2, <3>1 DEF StatusIn, v
  <2>3. CASE rs[k] = Add(j)
    <3>1. v = "live"
      BY <2>1, <2>3 DEF After, Add
    <3>2. ASSUME Done(j) \in ToSet(rs) PROVE FALSE
      <4>1. PICK m \in 1..Len(rs) : Done(j) = rs[m]
        BY <1>3, <3>2
      <4>2. m < k
        BY <1>2, <1>5, <2>1, <2>3, <4>1
      <4>3. rs[k] # Add(rs[m].job) \/ rs[m] = rs[k]
        BY <1>2, <4>2 DEF Orderly
      <4> QED
        BY <1>5, <2>3, <4>1, <4>3
    <3> QED
      BY <1>4, <2>3, <3>1, <3>2 DEF StatusIn, v
  <2>4. rs[k] = Add(j) \/ rs[k] = Done(j)
    BY <1>2, <2>1, RecordFacts
  <2> QED
    BY <2>2, <2>3, <2>4
<1> QED
  BY <1>1, <1>6, <1>7 DEF Tells

-----------------------------------------------------------------------------
(***************************************************************************)
(* Promises, with T for what was tried, A for what was acknowledged, all   *)
(* for the records of a log and safe for the synced ones.                  *)
(***************************************************************************)
Promised(T, A, all, safe) ==
  /\ ToSet(all) \subseteq T
  /\ \A j \in Job : Add(j) \in A /\ Done(j) \notin T => Add(j) \in safe
  /\ \A j \in Job : Done(j) \in A => Done(j) \in safe \/ Add(j) \notin ToSet(all)
  /\ Orderly(all)

LEMMA KeepsPromised ==
  ASSUME NEW file
  PROVE  Keeps(file) <=>
           Promised(tried, acked, Recs(file.cells), ToSet(Recs(SubSeq(file.cells, 1, file.synced))))
BY Zenon DEF Keeps, Promised, Orderly

\* What may be written next.
Fitting(T, r) ==
  \A j \in Job : (r = Add(j) => Add(j) \notin T) /\ (r = Done(j) => Add(j) \in T)

LEMMA OrderlyAppended ==
  ASSUME NEW T, NEW all \in Seq(Records), ToSet(all) \subseteq T, Orderly(all),
         \A j \in Job : Done(j) \in T => Add(j) \in T,
         NEW r \in Records, Fitting(T, r)
  PROVE  Orderly(all \o <<r>>)
<1> DEFINE more == all \o <<r>>
<1>1. /\ more \in Seq(Records) /\ Len(more) = Len(all) + 1 /\ Len(all) \in Nat
      /\ \A k \in 1..Len(all) : more[k] = all[k]
      /\ more[Len(all) + 1] = r
  BY AppendedRecord
<1> HIDE DEF more
<1>2. DOMAIN more = 1..Len(more) /\ DOMAIN all = 1..Len(all) /\ \A k \in 1..Len(all) : all[k] \in Records
  BY <1>1, LenProperties, ElementOfSeq
<1>3. ASSUME NEW k \in DOMAIN more, NEW m \in DOMAIN more, k < m
      PROVE  more[m] # Add(more[k].job) \/ more[k] = more[m]
  <2>1. k \in 1..Len(all) /\ more[k] = all[k] /\ all[k] \in Records
    BY <1>1, <1>2, <1>3
  <2>2. CASE m \in 1..Len(all)
    BY <1>1, <1>2, <1>3, <2>1, <2>2 DEF Orderly
  <2>3. CASE m \notin 1..Len(all)
    <3>1. more[m] = r
      BY <1>1, <1>2, <2>3
    <3>2. ASSUME r = Add(all[k].job) PROVE FALSE
      <4> DEFINE j == all[k].job
      <4>1. j \in Job /\ (all[k] = Add(j) \/ all[k] = Done(j))
        BY <2>1, RecordFacts
      <4>2. all[k] \in T
        BY <1>2, <2>1 DEF ToSet
      <4>3. Add(j) \in T
        BY <4>1, <4>2
      <4>4. r = Add(j) => Add(j) \notin T
        BY <4>1 DEF Fitting
      <4> QED
        BY <3>2, <4>3, <4>4
    <3> QED
      BY <2>1, <3>1, <3>2
  <2> QED
    BY <2>2, <2>3
<1> QED
  BY <1>3 DEF Orderly, more

\* A record is written: it may get into the log, and then into its synced part too.
LEMMA PromisedAppended ==
  ASSUME NEW T, NEW A, A \subseteq T, NEW all \in Seq(Records), NEW safe, Promised(T, A, all, safe),
         \A j \in Job : Done(j) \in T => Add(j) \in T,
         NEW r \in Records, Fitting(T, r)
  PROVE  /\ Promised(T \cup {r}, A, all, safe)
         /\ Promised(T \cup {r}, A, all \o <<r>>, safe)
         /\ safe \subseteq ToSet(all) =>
              Promised(T \cup {r}, A \cup {r}, all \o <<r>>, ToSet(all \o <<r>>))
<1>1. Promised(T \cup {r}, A, all, safe)
  BY DEF Promised
<1>2. ToSet(all \o <<r>>) = ToSet(all) \cup {r} /\ Orderly(all \o <<r>>)
  BY AppendedRecord, OrderlyAppended DEF Promised
<1>3. ASSUME NEW j \in Job, r = Add(j) PROVE Done(j) \notin T /\ Done(j) \notin A
  <2>1. Add(j) \notin T
    <3>1. r = Add(j) => Add(j) \notin T
      BY DEF Fitting
    <3> QED
      BY <1>3, <3>1
  <2>2. Done(j) \in T => Add(j) \in T
    OBVIOUS
  <2> QED
    BY <2>1, <2>2
<1>4. \A j \in Job : Add(j) # Done(j)
  BY RecordFacts
<1>5. Promised(T \cup {r}, A, all \o <<r>>, safe)
  BY <1>2, <1>3 DEF Promised
<1>6. ASSUME safe \subseteq ToSet(all)
      PROVE  Promised(T \cup {r}, A \cup {r}, all \o <<r>>, ToSet(all \o <<r>>))
  <2> DEFINE now == ToSet(all \o <<r>>)
  <2>1. now = ToSet(all) \cup {r} /\ now \subseteq T \cup {r}
    BY <1>2 DEF Promised
  <2> HIDE DEF now
  <2>2. ASSUME NEW j \in Job, Add(j) \in A \cup {r}, Done(j) \notin T \cup {r} PROVE Add(j) \in now
    BY <1>6, <2>1, <2>2 DEF Promised
  <2>3. ASSUME NEW j \in Job, Done(j) \in A \cup {r} PROVE Done(j) \in now \/ Add(j) \notin now
    BY <1>3, <1>4, <1>6, <2>1, <2>3 DEF Promised
  <2> QED
    BY <1>2, <2>1, <2>2, <2>3 DEF Promised, now
<1> QED
  BY <1>1, <1>5, <1>6

\* Cut somewhere beyond its synced part, and synced.
LEMMA PromisedCut ==
  ASSUME NEW T, NEW A, NEW all, NEW safe, Promised(T, A, all, safe),
         NEW rs \in Seq(Records), Longer(rs, all), safe \subseteq ToSet(rs)
  PROVE  Promised(T, A, rs, ToSet(rs))
<1>1. /\ all \in Seq(Records) /\ Len(rs) \in Nat /\ Len(all) \in Nat /\ Len(rs) <= Len(all)
      /\ \A k \in 1..Len(rs) : rs[k] = all[k]
      /\ ToSet(rs) \subseteq ToSet(all)
  BY LongerFacts
<1>2. DOMAIN rs = 1..Len(rs) /\ DOMAIN all = 1..Len(all)
  BY <1>1, LenProperties
<1>3. Orderly(rs)
  BY <1>1, <1>2 DEF Promised, Orderly
<1> QED
  BY <1>1, <1>3 DEF Promised

-----------------------------------------------------------------------------
(***************************************************************************)
(* What is done to a log.                                                  *)
(***************************************************************************)
File == [cells : Seq(Cell), synced : Nat]

LEMMA LogFacts ==
  ASSUME NEW file \in File, NEW g, IsLog(file, g)
  PROVE  /\ Plain(file.cells) /\ Len(file.cells) \in Nat
         /\ file.synced \in 1..Len(file.cells) /\ file.cells[1] = FileHeader(g)
         /\ Plain(SubSeq(file.cells, 1, file.synced))
<1>1. /\ file.cells \in Seq(Cell) /\ file.synced \in 1..Len(file.cells)
      /\ file.cells[1] = FileHeader(g) /\ \A i \in 2..Len(file.cells) : file.cells[i] \in DataCell
  BY DEF File, IsLog
<1>2. Len(file.cells) \in Nat
  BY <1>1, LenProperties
<1>3. Plain(file.cells)
  BY <1>1, <1>2 DEF Plain
<1> QED
  BY <1>1, <1>2, <1>3, Beginning

\* What is synced of a log is the beginning of it.
LEMMA SyncedFirst ==
  ASSUME NEW cells, Plain(cells), NEW n \in 1..Len(cells)
  PROVE  /\ Recs(SubSeq(cells, 1, n)) \in Seq(Records) /\ Recs(cells) \in Seq(Records)
         /\ Longer(Recs(SubSeq(cells, 1, n)), Recs(cells)) /\ Ends(SubSeq(cells, 1, n)) <= Ends(cells)
<1> DEFINE first == SubSeq(cells, 1, n)
<1>1. Plain(first) /\ Len(first) = n /\ \A k \in 1..n : first[k] = cells[k]
  BY Beginning
<1> HIDE DEF first
<1>2. Len(cells) \in Nat
  BY RecsFacts
<1>3. Loses(cells, first)
  BY <1>1, <1>2, BeginningLoses
<1> QED
  BY <1>1, <1>3, LosesFacts, RecsFacts DEF first

\* The first n cells of a record are written behind a log that ends with a record.
Extends(more, cells, r, n) ==
  /\ Plain(cells) /\ Ends(cells) = Len(cells) /\ r \in Records /\ n \in 0..Size(r)
  /\ Plain(more) /\ Len(more) = Len(cells) + n
  /\ \A k \in 1..Len(cells) : more[k] = cells[k]
  /\ \A k \in 1..n : more[Len(cells) + k] = [of |-> r, at |-> k]

LEMMA Extended ==
  ASSUME NEW cells, NEW r, NEW n, NEW more, Extends(more, cells, r, n)
  PROVE  \/ n = Size(r) /\ Recs(more) = Recs(cells) \o <<r>> /\ Ends(more) = Len(more)
         \/ n # Size(r) /\ Recs(more) = Recs(cells) /\ Ends(more) = Len(cells)
<1> USE DEF Extends
<1> DEFINE rs == Recs(cells)  L == Len(cells)
<1>1. L \in Nat /\ L >= 1 /\ rs \in Seq(Records) /\ Parsed(cells, 1, rs, L)
  BY RecsFacts
<1>2. Size(r) \in Nat /\ Size(r) >= 2 /\ n \in Nat /\ n <= Size(r)
  BY RecordFacts
<1>3. Len(more) = L + n /\ \A k \in 1..n : more[L + k] = [of |-> r, at |-> k]
  OBVIOUS
<1>4. Lays(more, 1, rs, L)
  <2>1. Lays(cells, 1, rs, L)
    BY <1>1 DEF Parsed
  <2>2. \A k \in 1 + 1..L : more[k] = cells[k]
    BY <1>1
  <2>3. Len(more) \in Nat /\ L <= Len(more)
    BY <1>1, <1>2, <1>3
  <2> HIDE DEF L, rs
  <2> QED
    BY <1>1, <2>1, <2>2, <2>3, LaysElsewhere DEF L
<1> HIDE DEF L, rs
<1>5. CASE n = Size(r)
  <2>1. Holds(more, L, r)
    BY <1>2, <1>3, <1>5 DEF Holds
  <2>2. <<r>> \in Seq(Records) /\ Lays(more, L, <<r>>, L + Size(r))
    BY <1>1, <2>1, LaysOne
  <2>3. rs \o <<r>> \in Seq(Records) /\ Lays(more, 1, rs \o <<r>>, L + Size(r))
    <3>1. Len(more) \in Nat
      BY <1>1, <1>2, <1>3
    <3> QED
      BY <1>1, <1>4, <2>2, <3>1, LaysConcat
  <2>4. ASSUME NEW s \in Records, Holds(more, L + Size(r), s) PROVE FALSE
    <3>1. Size(s) \in Nat /\ Size(s) >= 2 /\ L + Size(r) + Size(s) <= L + Size(r)
      BY <1>3, <1>5, <2>4, RecordFacts DEF Holds
    <3> QED
      BY <1>1, <1>2, <3>1
  <2>5. Parsed(more, 1, rs \o <<r>>, L + Size(r))
    BY <2>3, <2>4 DEF Parsed
  <2>6. Recs(more) = rs \o <<r>> /\ Ends(more) = L + Size(r)
    BY <2>5, RecsAre
  <2> QED
    BY <1>3, <1>5, <2>6 DEF rs
<1>6. CASE n # Size(r)
  <2>1. ASSUME NEW s \in Records, Holds(more, L, s) PROVE FALSE
    <3>1. Size(s) \in Nat /\ Size(s) >= 2 /\ L + Size(s) <= L + n
      BY <1>3, <2>1, RecordFacts DEF Holds
    <3>2. 1 \in 1..n /\ 1 \in 1..Size(s) /\ Size(s) <= n
      BY <1>1, <1>2, <3>1
    <3>3. more[L + 1] = [of |-> r, at |-> 1] /\ more[L + 1] = [of |-> s, at |-> 1]
      BY <1>3, <2>1, <3>2 DEF Holds
    <3>4. [of |-> r, at |-> 1].of = r /\ [of |-> s, at |-> 1].of = s
      OBVIOUS
    <3>5. r = s
      BY <3>3, <3>4
    <3> QED
      BY <1>2, <1>6, <3>2, <3>5
  <2>2. Parsed(more, 1, rs, L)
    BY <1>1, <1>4, <2>1 DEF Parsed
  <2> QED
    BY <1>6, <2>2, RecsAre DEF rs, L
<1> QED
  BY <1>5, <1>6

LEMMA MaxOfTwo ==
  ASSUME NEW m \in Int, NEW n \in Int
  PROVE  Max({m, n}) = IF m >= n THEN m ELSE n
BY DEF Max

\* A write of the first n cells of a record at the end of a log.
Writes(new, file, r, n) ==
  /\ file \in File /\ Plain(file.cells) /\ Ends(file.cells) = Len(file.cells)
  /\ file.synced \in 1..Len(file.cells) /\ r \in Records /\ n \in 0..Size(r)
  /\ new = Written(file, Len(file.cells), Encoded(r), n)

Wrote(new, file, r, n) ==
  /\ new \in File /\ new.synced = file.synced
  /\ Plain(new.cells) /\ Len(new.cells) = Len(file.cells) + n
  /\ \A k \in 1..Len(file.cells) : new.cells[k] = file.cells[k]
  /\ \/ n = Size(r) /\ Recs(new.cells) = Recs(file.cells) \o <<r>> /\ Ends(new.cells) = Len(new.cells)
     \/ n # Size(r) /\ Recs(new.cells) = Recs(file.cells) /\ Ends(new.cells) = Len(file.cells)

LEMMA WrittenFacts ==
  ASSUME NEW file, NEW r, NEW n, NEW new, Writes(new, file, r, n)
  PROVE  Wrote(new, file, r, n)
<1> USE DEF Writes
<1> DEFINE cells == file.cells
           L == Len(cells)
           M == Max({L, L + n})
           more == [i \in 1..M |-> IF i \in L + 1..L + n THEN Encoded(r)[i - L] ELSE cells[i]]
<1>1. /\ L \in Nat /\ L >= 1 /\ n \in Nat /\ n <= Size(r) /\ Size(r) \in Nat
      /\ cells \in Seq(Cell) /\ \A i \in 1..L : cells[i] \in Cell
      /\ \A i \in 2..L : cells[i] \in DataCell
  <2>1. cells \in Seq(Cell) /\ L \in Nat /\ L >= 1 /\ \A i \in 2..L : cells[i] \in DataCell
    BY RecsFacts DEF Plain
  <2>2. \A i \in 1..L : cells[i] \in Cell
    BY <2>1, ElementOfSeq
  <2>3. Size(r) \in Nat
    BY RecordFacts
  <2>4. n \in Nat /\ n <= Size(r)
    BY <2>3
  <2> QED
    BY <2>1, <2>2, <2>3, <2>4
<1>2. M = L + n
  <2> HIDE DEF L
  <2>1. L \in Int /\ L + n \in Int
    BY <1>1
  <2> QED
    BY <1>1, <2>1, MaxOfTwo
<1>3. new = [cells |-> more, synced |-> Min({file.synced, L})]
  BY DEF Written
<1>4. Min({file.synced, L}) = file.synced
  BY <1>1, MinOfTwo
<1> HIDE DEF M, L, cells
<1>5. ASSUME NEW i \in 1..L PROVE more[i] = cells[i] /\ more[i] \in Cell /\ (i >= 2 => more[i] \in DataCell)
  <2>1. i \in 1..M /\ i \notin L + 1..L + n
    BY <1>1, <1>2
  <2>2. more[i] = cells[i]
    BY <2>1
  <2>3. cells[i] \in Cell
    BY <1>1
  <2>4. i >= 2 => i \in 2..L
    BY <1>1
  <2>5. i >= 2 => cells[i] \in DataCell
    BY <1>1, <2>4
  <2> HIDE DEF more
  <2> QED
    BY <2>2, <2>3, <2>5
<1>6. ASSUME NEW k \in 1..n PROVE more[L + k] = [of |-> r, at |-> k] /\ more[L + k] \in DataCell
  <2>1. L + k \in 1..M /\ L + k \in L + 1..L + n /\ (L + k) - L = k /\ k \in 1..Size(r)
    BY <1>1, <1>2
  <2>2. more[L + k] = Encoded(r)[k]
    BY <2>1
  <2>3. Encoded(r)[k] = [of |-> r, at |-> k] /\ Encoded(r)[k] \in DataCell
    BY <2>1, EncodedFacts, ElementOfSeq
  <2> QED
    BY <2>2, <2>3
<1>7. ASSUME NEW i \in 1..M PROVE more[i] \in Cell /\ (i >= 2 => more[i] \in DataCell)
  <2>1. CASE i <= L
    <3>1. i \in 1..L
      BY <1>1, <1>2, <2>1
    <3> QED
      BY <1>5, <3>1
  <2>2. CASE ~(i <= L)
    <3>1. i - L \in 1..n /\ L + (i - L) = i
      BY <1>1, <1>2, <2>2
    <3>2. more[L + (i - L)] \in DataCell
      BY <1>6, <3>1
    <3> QED
      BY <3>1, <3>2 DEF Cell
  <2> QED
    BY <2>1, <2>2
<1>8. more \in Seq(Cell) /\ Len(more) = L + n
  <2>1. more \in [1..M -> Cell] /\ M \in Nat
    BY <1>1, <1>2, <1>7
  <2> HIDE DEF more
  <2> QED
    BY <1>2, <2>1
<1> HIDE DEF more
<1>9. Plain(more)
  BY <1>1, <1>2, <1>7, <1>8 DEF Plain
<1>10. new \in File /\ new.cells = more /\ new.synced = file.synced
  BY <1>1, <1>3, <1>4, <1>8 DEF File
<1>11. \/ n = Size(r) /\ Recs(more) = Recs(cells) \o <<r>> /\ Ends(more) = Len(more)
       \/ n # Size(r) /\ Recs(more) = Recs(cells) /\ Ends(more) = Len(cells)
  <2>1. Plain(cells) /\ Ends(cells) = L /\ L = Len(cells)
    BY DEF cells, L
  <2>2. /\ Len(more) = Len(cells) + n /\ \A k \in 1..Len(cells) : more[k] = cells[k]
        /\ \A k \in 1..n : more[Len(cells) + k] = [of |-> r, at |-> k]
    BY <1>5, <1>6, <1>8, <2>1
  <2> HIDE DEF cells, L
  <2>3. Ends(cells) = Len(cells)
    BY <2>1
  <2>4. Extends(more, cells, r, n)
    BY <1>9, <2>1, <2>2, <2>3 DEF Extends
  <2> QED
    BY <2>1, <2>4, Extended
<1> QED
  BY <1>5, <1>8, <1>9, <1>10, <1>11 DEF cells, L, Wrote

\* What cannot be decoded is cut off.
LEMMA RepairedFacts ==
  ASSUME NEW file \in File, Plain(file.cells), file.synced \in 1..Len(file.cells),
         NEW scan, scan.end = Ends(file.cells),
         scan.why = "NONE" <=> Ends(file.cells) = Len(file.cells),
         NEW new, new = Repaired(file, scan)
  PROVE  /\ new \in File /\ Plain(new.cells) /\ new.synced \in 1..Len(new.cells)
         /\ new.cells[1] = file.cells[1]
         /\ Recs(new.cells) = Recs(file.cells) /\ Ends(new.cells) = Ends(file.cells)
         /\ Len(new.cells) = Ends(new.cells)
         /\ \A k \in 1..Len(new.cells) : new.cells[k] = file.cells[k]
         /\ new.cells = SubSeq(file.cells, 1, Ends(file.cells))
         /\ new = file \/ new.synced = Len(new.cells)
<1> DEFINE cells == file.cells  e == Ends(cells)  first == SubSeq(cells, 1, e)
<1>1. Len(cells) \in Nat /\ e \in 1..Len(cells) /\ cells \in Seq(Cell)
  BY RecsFacts DEF Plain
<1>2. Plain(first) /\ Len(first) = e /\ \A k \in 1..e : first[k] = cells[k]
  BY <1>1, Beginning
<1>3. Recs(first) = Recs(cells) /\ Ends(first) = e
  BY CutAtEnd
<1>4. CASE e = Len(cells)
  <2>1. new = file
    BY <1>4 DEF Repaired
  <2>2. first = cells
    BY <1>1, <1>4, SubSeqFull
  <2> QED
    BY <1>1, <1>4, <2>1, <2>2
<1>5. CASE e # Len(cells)
  <2>1. ~(e >= Len(cells))
    BY <1>1, <1>5
  <2>2. new = Synced(first)
    BY <1>5, <2>1 DEF Repaired, Truncated
  <2>3. new = [cells |-> first, synced |-> e]
    <3> HIDE DEF first, e
    <3> QED
      BY <1>2, <2>2 DEF Synced
  <2>4. new \in File
    BY <1>1, <1>2, <2>3 DEF File, Plain
  <2>5. first[1] = cells[1] /\ e \in 1..e
    BY <1>1, <1>2
  <2> HIDE DEF first, e
  <2> QED
    BY <1>2, <1>3, <2>3, <2>4, <2>5 DEF first, e
<1> QED
  BY <1>4, <1>5

-----------------------------------------------------------------------------
(***************************************************************************)
(* Logs that keep the promises.                                            *)
(***************************************************************************)
GoodFile == {file \in File : file.synced \in 0..Len(file.cells)}

\* Of tried records T and acknowledged ones A, in a log of generation g.
KeptFile(T, A, file, g) ==
  /\ IsLog(file, g)
  /\ Promised(T, A, Recs(file.cells), ToSet(Recs(SubSeq(file.cells, 1, file.synced))))

LEMMA KeptFileFacts ==
  ASSUME NEW T, NEW A, NEW file \in File, NEW g, KeptFile(T, A, file, g)
  PROVE  /\ file \in GoodFile /\ Plain(file.cells) /\ Len(file.cells) \in Nat
         /\ file.synced \in 1..Len(file.cells) /\ file.cells[1] = FileHeader(g)
         /\ Plain(SubSeq(file.cells, 1, file.synced))
         /\ Recs(file.cells) \in Seq(Records)
         /\ Recs(SubSeq(file.cells, 1, file.synced)) \in Seq(Records)
         /\ Longer(Recs(SubSeq(file.cells, 1, file.synced)), Recs(file.cells))
         /\ ToSet(Recs(SubSeq(file.cells, 1, file.synced))) \subseteq ToSet(Recs(file.cells))
<1>1. IsLog(file, g)
  BY DEF KeptFile
<1>2. /\ Plain(file.cells) /\ Len(file.cells) \in Nat
      /\ file.synced \in 1..Len(file.cells) /\ file.cells[1] = FileHeader(g)
      /\ Plain(SubSeq(file.cells, 1, file.synced))
  BY <1>1, LogFacts
<1>3. file \in GoodFile
  BY <1>2 DEF GoodFile
<1>4. /\ Recs(SubSeq(file.cells, 1, file.synced)) \in Seq(Records) /\ Recs(file.cells) \in Seq(Records)
      /\ Longer(Recs(SubSeq(file.cells, 1, file.synced)), Recs(file.cells))
  BY <1>2, SyncedFirst
<1>5. ToSet(Recs(SubSeq(file.cells, 1, file.synced))) \subseteq ToSet(Recs(file.cells))
  BY <1>4, LongerFacts
<1> QED
  BY <1>2, <1>3, <1>4, <1>5

\* All that is in a file that is synced is safe.
LEMMA WholeSynced ==
  ASSUME NEW file \in File, Plain(file.cells), file.synced = Len(file.cells)
  PROVE  SubSeq(file.cells, 1, file.synced) = file.cells
<1>1. file.cells \in Seq(Cell) /\ Len(file.cells) \in Nat
  BY RecsFacts DEF Plain
<1> QED
  BY <1>1, SubSeqFull

LEMMA SyncedFile ==
  ASSUME NEW cells, Plain(cells)
  PROVE  /\ Synced(cells) \in File /\ Synced(cells).cells = cells
         /\ Synced(cells).synced = Len(cells) /\ Len(cells) \in 1..Len(cells)
         /\ SubSeq(cells, 1, Len(cells)) = cells
<1>1. cells \in Seq(Cell) /\ Len(cells) \in Nat /\ Len(cells) >= 1
  BY RecsFacts DEF Plain
<1>2. SubSeq(cells, 1, Len(cells)) = cells
  BY <1>1, SubSeqFull
<1> QED
  BY <1>1, <1>2 DEF Synced, File

\* What a write of a record, or of a part of it, leaves.
LEMMA KeptWritten ==
  ASSUME NEW T, NEW A, A \subseteq T, \A j \in Job : Done(j) \in T => Add(j) \in T,
         NEW file \in File, NEW g, KeptFile(T, A, file, g), Ends(file.cells) = Len(file.cells),
         NEW r \in Records, Fitting(T, r), NEW n \in 0..Size(r),
         NEW new, new = Written(file, Len(file.cells), Encoded(r), n)
  PROVE  /\ new \in File /\ KeptFile(T \cup {r}, A, new, g)
         /\ n = Size(r) => /\ Synced(new.cells) \in File
                           /\ KeptFile(T \cup {r}, A \cup {r}, Synced(new.cells), g)
<1>0. /\ Plain(file.cells) /\ file.synced \in 1..Len(file.cells)
  BY KeptFileFacts
<1>00. /\ new \in File /\ new.synced = file.synced
       /\ Plain(new.cells) /\ Len(new.cells) = Len(file.cells) + n
       /\ \A k \in 1..Len(file.cells) : new.cells[k] = file.cells[k]
       /\ \/ n = Size(r) /\ Recs(new.cells) = Recs(file.cells) \o <<r>> /\ Ends(new.cells) = Len(new.cells)
          \/ n # Size(r) /\ Recs(new.cells) = Recs(file.cells) /\ Ends(new.cells) = Len(file.cells)
  <2>1. Writes(new, file, r, n)
    BY <1>0 DEF Writes
  <2>2. Wrote(new, file, r, n)
    BY <2>1, WrittenFacts
  <2> QED
    BY <2>2 DEF Wrote
<1> DEFINE cells == file.cells  all == Recs(cells)  safe == ToSet(Recs(SubSeq(cells, 1, file.synced)))
<1>1. /\ Plain(cells) /\ Len(cells) \in Nat /\ file.synced \in 1..Len(cells)
      /\ cells[1] = FileHeader(g) /\ all \in Seq(Records) /\ safe \subseteq ToSet(all)
  BY KeptFileFacts
<1>2. Promised(T, A, all, safe)
  BY DEF KeptFile
<1>3. /\ new \in File /\ new.synced = file.synced
      /\ Plain(new.cells) /\ Len(new.cells) = Len(cells) + n
      /\ \A k \in 1..Len(cells) : new.cells[k] = cells[k]
      /\ \/ n = Size(r) /\ Recs(new.cells) = all \o <<r>> /\ Ends(new.cells) = Len(new.cells)
         \/ n # Size(r) /\ Recs(new.cells) = all /\ Ends(new.cells) = Len(cells)
  BY <1>00
<1>4. n \in Nat
  BY RecordFacts
<1>5. new.cells[1] = FileHeader(g) /\ new.synced \in 1..Len(new.cells)
  <2>1. new.cells[1] = FileHeader(g)
    BY <1>1, <1>3
  <2>2. Len(cells) <= Len(new.cells) /\ Len(new.cells) \in Nat
    BY <1>1, <1>3, <1>4
  <2> QED
    BY <1>1, <1>3, <2>1, <2>2
<1>6. IsLog(new, g)
  <2>1. \A k \in 2..Len(new.cells) : new.cells[k] \in DataCell
    BY <1>3 DEF Plain
  <2> QED
    BY <1>5, <2>1 DEF IsLog
<1>7. SubSeq(new.cells, 1, new.synced) = SubSeq(cells, 1, file.synced)
  <2>1. new.cells \in Seq(Cell) /\ cells \in Seq(Cell) /\ file.synced \in Nat
    BY <1>1, <1>3 DEF Plain
  <2>2. \A k \in 1..file.synced : new.cells[k] = cells[k]
    BY <1>1, <1>3
  <2> QED
    BY <1>3, <2>1, <2>2
<1> HIDE DEF cells, all, safe
<1>8. /\ Promised(T \cup {r}, A, all, safe)
      /\ Promised(T \cup {r}, A, all \o <<r>>, safe)
      /\ Promised(T \cup {r}, A \cup {r}, all \o <<r>>, ToSet(all \o <<r>>))
  BY <1>1, <1>2, PromisedAppended
<1>9. KeptFile(T \cup {r}, A, new, g)
  <2>1. safe = ToSet(Recs(SubSeq(new.cells, 1, new.synced)))
    BY <1>7 DEF safe, cells
  <2> QED
    BY <1>3, <1>6, <1>8, <2>1 DEF KeptFile
<1>10. ASSUME n = Size(r)
       PROVE  Synced(new.cells) \in File /\ KeptFile(T \cup {r}, A \cup {r}, Synced(new.cells), g)
  <2>1. /\ Synced(new.cells) \in File /\ Synced(new.cells).cells = new.cells
        /\ Synced(new.cells).synced = Len(new.cells) /\ Len(new.cells) \in 1..Len(new.cells)
        /\ SubSeq(new.cells, 1, Len(new.cells)) = new.cells
    BY <1>3, SyncedFile
  <2>2. IsLog(Synced(new.cells), g)
    BY <1>3, <1>5, <2>1 DEF IsLog, Plain
  <2>3. Recs(new.cells) = all \o <<r>>
    BY <1>3, <1>10
  <2> QED
    BY <1>8, <2>1, <2>2, <2>3 DEF KeptFile
<1> QED
  BY <1>3, <1>9, <1>10

\* A log of which a part is kept that holds what was synced, and all that is left synced.
LEMMA KeptCut ==
  ASSUME NEW T, NEW A, NEW file \in File, NEW g, KeptFile(T, A, file, g),
         NEW new \in File, IsLog(new, g), new.synced = Len(new.cells),
         Loses(file.cells, new.cells),
         Loses(new.cells, SubSeq(file.cells, 1, file.synced))
  PROVE  KeptFile(T, A, new, g)
<1> DEFINE all == Recs(file.cells)  rs == Recs(new.cells)
           first == SubSeq(file.cells, 1, file.synced)  safe == ToSet(Recs(first))
<1>1. Plain(file.cells) /\ Plain(first) /\ Promised(T, A, all, safe)
  BY KeptFileFacts DEF KeptFile
<1>2. Plain(new.cells) /\ SubSeq(new.cells, 1, new.synced) = new.cells
  BY LogFacts, WholeSynced
<1> HIDE DEF first
<1>3. Longer(rs, all) /\ rs \in Seq(Records)
  BY <1>1, <1>2, LosesFacts, RecsFacts
<1>4. Longer(Recs(first), rs) /\ Recs(first) \in Seq(Records)
  BY <1>1, <1>2, LosesFacts, RecsFacts DEF first
<1>5. safe \subseteq ToSet(rs)
  BY <1>4, LongerFacts
<1> HIDE DEF all, rs, safe
<1>6. Promised(T, A, rs, ToSet(rs))
  BY <1>1, <1>3, <1>5, PromisedCut
<1> QED
  BY <1>2, <1>6 DEF KeptFile, rs

\* What repair leaves.
LEMMA KeptRepaired ==
  ASSUME NEW T, NEW A, NEW file \in File, NEW g, KeptFile(T, A, file, g),
         NEW new \in File, IsLog(new, g),
         Recs(new.cells) = Recs(file.cells), new = file \/ new.synced = Len(new.cells)
  PROVE  KeptFile(T, A, new, g)
<1>1. CASE new = file
  BY <1>1
<1>2. CASE new.synced = Len(new.cells)
  <2> DEFINE all == Recs(file.cells)  safe == ToSet(Recs(SubSeq(file.cells, 1, file.synced)))
  <2>1. Promised(T, A, all, safe) /\ all \in Seq(Records) /\ safe \subseteq ToSet(all)
    BY KeptFileFacts DEF KeptFile
  <2>2. SubSeq(new.cells, 1, new.synced) = new.cells
    BY <1>2, LogFacts, WholeSynced
  <2> HIDE DEF all, safe
  <2>3. Longer(all, all)
    <3>1. all = all \o <<>> /\ <<>> \in Seq(Records)
      BY <2>1
    <3> QED
      BY <3>1 DEF Longer
  <2>4. Promised(T, A, all, ToSet(all))
    BY <2>1, <2>3, PromisedCut
  <2> QED
    BY <2>2, <2>4 DEF KeptFile, all
<1> QED
  BY <1>1, <1>2

-----------------------------------------------------------------------------
(***************************************************************************)
(* The records of a sequence, encoded one after the other.                 *)
(***************************************************************************)
Encodings(rs) == [n \in DOMAIN rs |-> Encoded(rs[n])]

FlattenIn(seqs, f) == [i \in 1..Len(seqs) |-> IF i = 1 THEN seqs[i] ELSE f[i - 1] \o seqs[i]]

LEMMA FlattenIsFrom ==
  ASSUME NEW seqs
  PROVE  FlattenSeq(seqs) = IF Len(seqs) = 0 THEN seqs
                            ELSE (CHOOSE f : f = FlattenIn(seqs, f))[Len(seqs)]
BY Zenon DEF FlattenSeq, FlattenIn

\* Flattening is the concatenation of one sequence after the other.
LEMMA FlattenSteps ==
  ASSUME NEW S, NEW seqs \in Seq(Seq(S)), Len(seqs) > 0
  PROVE  \E f \in [1..Len(seqs) -> Seq(S)] :
           /\ FlattenSeq(seqs) = f[Len(seqs)]
           /\ \A i \in 1..Len(seqs) : f[i] = IF i = 1 THEN seqs[i] ELSE f[i - 1] \o seqs[i]
<1> DEFINE N == Len(seqs)
           D == 1..N
           V == Seq(S)
           stop == {1}
           val == [i \in D |-> seqs[i]]
           next == [i \in D |-> IF i = 1 THEN 1 ELSE i - 1]
           step == [x \in D \X V |-> x[2] \o seqs[x[1]]]
           rank == [i \in D |-> i]
<1>1. N \in Nat /\ N >= 1 /\ \A i \in D : seqs[i] \in V
  BY ElementOfSeq
<1> HIDE DEF N
<1>2. \E f \in [D -> V] :
        \A i \in D : f[i] = IF i \in stop THEN val[i] ELSE step[<<i, f[next[i]]>>]
  <2>1. rank \in [D -> 0..N] /\ next \in [D -> D]
    BY <1>1
  <2>2. val \in [D -> V]
    BY <1>1
  <2>3. step \in [D \X V -> V]
    <3>1. ASSUME NEW i \in D, NEW v \in V PROVE v \o seqs[i] \in V
      BY <1>1, ConcatProperties
    <3> HIDE DEF D, V
    <3> QED
      BY <3>1
  <2>4. \A i \in D \ stop : rank[next[i]] < rank[i]
    BY <1>1
  <2>5. Bounded(D, V, N, rank, stop, val, next, step)
    BY <1>1, <2>1, <2>2, <2>3, <2>4 DEF Bounded
  <2> HIDE DEF D, V, stop, val, next, step, rank
  <2> QED
    BY <2>5, RecursionExists
<1>3. PICK f \in [D -> V] :
        \A i \in D : f[i] = IF i \in stop THEN val[i] ELSE step[<<i, f[next[i]]>>]
  BY <1>2
<1>4. ASSUME NEW i \in D PROVE f[i] = IF i = 1 THEN seqs[i] ELSE f[i - 1] \o seqs[i]
  <2>1. CASE i = 1
    BY <1>3, <2>1
  <2>2. CASE i # 1
    <3>1. i - 1 \in D /\ i \in D \ stop
      BY <1>1, <2>2
    <3>2. f[i] = step[<<i, f[i - 1]>>] /\ f[i - 1] \in V
      BY <1>3, <2>2, <3>1
    <3>3. <<i, f[i - 1]>> \in D \X V
      BY <3>2
    <3> QED
      BY <2>2, <3>2, <3>3
  <2> QED
    BY <2>1, <2>2
<1>5. f = FlattenIn(seqs, f)
  <2> DEFINE after(i) == IF i = 1 THEN seqs[i] ELSE f[i - 1] \o seqs[i]
  <2>1. \A i \in D : f[i] = after(i)
    BY <1>4
  <2>2. FlattenIn(seqs, f) = [i \in D |-> after(i)]
    BY Zenon DEF FlattenIn, N
  <2> HIDE DEF after, D, V
  <2>3. f = [i \in D |-> f[i]]
    BY <1>3
  <2> QED
    BY <2>1, <2>2, <2>3
<1>6. PICK g : g = FlattenIn(seqs, g) /\ FlattenSeq(seqs) = g[N]
  <2>1. LET g == CHOOSE h : h = FlattenIn(seqs, h) IN g = FlattenIn(seqs, g)
    BY <1>5
  <2>2. N # 0
    BY <1>1
  <2> QED
    BY <2>1, <2>2, FlattenIsFrom DEF N
<1>7. \A i \in D : g[i] = IF i = 1 THEN seqs[i] ELSE g[i - 1] \o seqs[i]
  BY <1>6 DEF FlattenIn, N
<1>8. g \in [D -> V]
  <2>1. g = [i \in D |-> g[i]]
    BY <1>6 DEF FlattenIn, N
  <2> DEFINE T == {i \in Nat : i \in D => g[i] \in V}
  <2>2. 0 \in T
    OBVIOUS
  <2>3. ASSUME NEW i \in 0..(N - 1), i \in T PROVE i + 1 \in T
    <3>1. CASE i = 0
      <4>1. g[1] = seqs[1] /\ seqs[1] \in V
        BY <1>1, <1>7
      <4> QED
        BY <3>1, <4>1
    <3>2. CASE i # 0
      <4>1. i \in D /\ g[i] \in V /\ i + 1 \in D /\ (i + 1) - 1 = i /\ i + 1 # 1
        BY <1>1, <2>3, <3>2
      <4>2. g[i + 1] = g[i] \o seqs[i + 1]
        BY <1>7, <4>1
      <4>3. g[i + 1] \in V
        BY <1>1, <4>1, <4>2, ConcatProperties
      <4> QED
        BY <4>3
    <3> QED
      BY <3>1, <3>2
  <2> HIDE DEF T
  <2>4. 0..N \subseteq T
    BY <1>1, <2>2, <2>3, UpToInduction
  <2>5. \A i \in D : g[i] \in V
    BY <2>4 DEF T
  <2> HIDE DEF V, D
  <2> QED
    BY <2>1, <2>5
<1> QED
  BY <1>6, <1>7, <1>8 DEF N

LEMMA EncodingsTyped ==
  ASSUME NEW rs \in Seq(Records)
  PROVE  /\ Encodings(rs) \in Seq(Seq(DataCell)) /\ Len(Encodings(rs)) = Len(rs)
         /\ \A i \in 1..Len(rs) : Encodings(rs)[i] = Encoded(rs[i])
<1>1. Len(rs) \in Nat /\ DOMAIN rs = 1..Len(rs)
  BY LenProperties
<1>2. ASSUME NEW i \in 1..Len(rs) PROVE Encoded(rs[i]) \in Seq(DataCell)
  BY ElementOfSeq, EncodedFacts
<1>3. Encodings(rs) = [n \in 1..Len(rs) |-> Encoded(rs[n])]
  BY <1>1 DEF Encodings
<1>4. Encodings(rs) \in [1..Len(rs) -> Seq(DataCell)]
  BY <1>2, <1>3
<1> QED
  BY <1>1, <1>3, <1>4

\* A stretch of a log that ends with a record.
LEMMA StretchAndRecord ==
  ASSUME NEW cells, Plain(cells), NEW b \in 1..Len(cells), NEW r \in Records, Holds(cells, b, r)
  PROVE  SubSeq(cells, 1, b + Size(r)) = SubSeq(cells, 1, b) \o Encoded(r)
<1> DEFINE m == b + Size(r)  s == SubSeq(cells, 1, m)  t == SubSeq(cells, 1, b)  u == t \o Encoded(r)
<1>1. cells \in Seq(Cell) /\ Len(cells) \in Nat /\ b \in Nat /\ b >= 1 /\ b <= Len(cells)
  BY RecsFacts DEF Plain
<1>2. Size(r) \in Nat /\ m <= Len(cells) /\ \A k \in 1..Size(r) : cells[b + k] = [of |-> r, at |-> k]
  BY RecordFacts DEF Holds
<1>3. Encoded(r) \in Seq(Cell) /\ Len(Encoded(r)) = Size(r)
      /\ \A k \in 1..Size(r) : Encoded(r)[k] = [of |-> r, at |-> k]
  <2>1. DataCell \subseteq Cell
    BY DEF Cell
  <2> HIDE DEF m, s, t, u
  <2> QED
    BY <2>1, EncodedFacts, SeqMonotonic
<1>4. m \in 1..Len(cells) /\ m \in Nat /\ m >= 1
  BY <1>1, <1>2
<1>5. s \in Seq(Cell) /\ Len(s) = m /\ \A k \in 1..m : s[k] = cells[k]
  <2> HIDE DEF m
  <2> QED
    BY <1>4, Beginning DEF Plain
<1>6. t \in Seq(Cell) /\ Len(t) = b /\ \A k \in 1..b : t[k] = cells[k]
  BY Beginning DEF Plain
<1> HIDE DEF s, t
<1>7. u \in Seq(Cell) /\ Len(u) = b + Size(r)
      /\ \A k \in 1..b + Size(r) : u[k] = IF k <= b THEN t[k] ELSE Encoded(r)[k - b]
  <2> DEFINE enc == Encoded(r)
  <2>1. enc \in Seq(Cell) /\ Len(enc) = Size(r)
    BY <1>3
  <2> HIDE DEF enc
  <2>2. /\ t \o enc \in Seq(Cell) /\ Len(t \o enc) = Len(t) + Len(enc)
        /\ \A k \in 1..Len(t) + Len(enc) : (t \o enc)[k] = IF k <= Len(t) THEN t[k] ELSE enc[k - Len(t)]
    BY <1>6, <2>1, ConcatProperties
  <2> QED
    BY <1>6, <2>1, <2>2 DEF enc
<1>8. ASSUME NEW k \in 1..m PROVE s[k] = u[k]
  <2>1. CASE k <= b
    <3>1. k \in 1..b
      BY <1>1, <2>1
    <3> QED
      BY <1>5, <1>6, <1>7, <2>1, <3>1
  <2>2. CASE ~(k <= b)
    <3>1. k - b \in 1..Size(r) /\ b + (k - b) = k
      BY <1>1, <1>2, <2>2
    <3>2. u[k] = Encoded(r)[k - b]
      BY <1>7, <2>2
    <3> HIDE DEF u
    <3> QED
      BY <1>2, <1>3, <1>5, <3>1, <3>2
  <2> QED
    BY <2>1, <2>2
<1> HIDE DEF u, m
<1> QED
  BY <1>5, <1>7, <1>8, SeqEqual DEF s, t, u, m

AllSeqs(S, s, t, u) == s \in Seq(S) /\ t \in Seq(S) /\ u \in Seq(S)

Regrouped(s, t, u) == (s \o t) \o u = s \o (t \o u)

LEMMA Associative ==
  ASSUME NEW S, NEW s, NEW t, NEW u, AllSeqs(S, s, t, u)
  PROVE  Regrouped(s, t, u)
BY ConcatAssociative DEF AllSeqs, Regrouped

\* The cells that some records are laid out in are these records, encoded.
LEMMA LaysFlatten ==
  ASSUME NEW cells, Plain(cells), NEW rs \in Seq(Records), NEW e, Lays(cells, 1, rs, e)
  PROVE  /\ e \in 1..Len(cells)
         /\ SubSeq(cells, 1, e) = <<cells[1]>> \o FlattenSeq(Encodings(rs))
<1> DEFINE n == Len(rs)  c == <<cells[1]>>  enc == Encodings(rs)
<1>1. /\ cells \in Seq(Cell) /\ Len(cells) \in Nat /\ Len(cells) >= 1 /\ n \in Nat /\ 1 \in Nat
      /\ \A i \in 1..n : rs[i] \in Records
  <2>1. \A i \in 1..n : rs[i] \in Records
    BY ElementOfSeq
  <2> QED
    BY <2>1, RecsFacts, LenProperties DEF Plain
<1>2. e \in 1..Len(cells) /\ (rs = <<>> => e = 1)
  <2>1. e \in Nat /\ 1 <= e /\ (1 <= Len(cells) => e <= Len(cells)) /\ (rs = <<>> => e = 1)
    BY <1>1, LaysWithin
  <2> QED
    BY <1>1, <2>1
<1>3. enc \in Seq(Seq(DataCell)) /\ Len(enc) = n /\ \A i \in 1..n : enc[i] = Encoded(rs[i])
  BY EncodingsTyped
<1>4. c \in Seq(Cell) /\ SubSeq(cells, 1, 1) = c
  <2>1. cells[1] \in Cell /\ 1 \in 1..Len(cells)
    BY <1>1, ElementOfSeq
  <2>2. SubSeq(cells, 1, 1) = <<cells[1]>> \o SubSeq(cells, 2, 1)
    BY <1>1, <2>1, SubSeqRecursiveFirst
  <2>3. SubSeq(cells, 2, 1) = <<>>
    BY SubSeqEmpty
  <2>4. c \in Seq(Cell)
    BY <2>1
  <2>5. c \o <<>> = c
    BY <2>4, ConcatEmptySeq
  <2> QED
    BY <2>2, <2>3, <2>4, <2>5
<1>5. CASE n = 0
  <2>1. rs = <<>>
    BY <1>5, EmptySeq
  <2>2. enc = <<>>
    BY <1>3, <1>5, EmptySeq
  <2>3. FlattenSeq(enc) = <<>>
    BY <1>3, <1>5, <2>2, FlattenIsFrom
  <2>4. c \o <<>> = c
    BY <1>4, ConcatEmptySeq
  <2> QED
    BY <1>2, <1>4, <2>1, <2>3, <2>4
<1>6. CASE n # 0
  <2>1. Len(enc) > 0
    BY <1>1, <1>3, <1>6
  <2>2. PICK f \in [1..n -> Seq(DataCell)] :
          /\ FlattenSeq(enc) = f[n]
          /\ \A i \in 1..n : f[i] = IF i = 1 THEN enc[i] ELSE f[i - 1] \o enc[i]
    <3> HIDE DEF enc, n
    <3>1. enc \in Seq(Seq(DataCell)) /\ Len(enc) = n
      BY <1>3
    <3>2. \E f \in [1..Len(enc) -> Seq(DataCell)] :
            /\ FlattenSeq(enc) = f[Len(enc)]
            /\ \A i \in 1..Len(enc) : f[i] = IF i = 1 THEN enc[i] ELSE f[i - 1] \o enc[i]
      BY <2>1, <3>1, FlattenSteps, Zenon
    <3> QED
      BY <3>1, <3>2, Zenon
  <2>3. PICK b : Laid(b, cells, 1, rs, e)
    BY DEF Lays
  <2>4. \A k \in 0..n : b[k] \in Nat /\ 1 <= b[k] /\ b[k] <= e
    BY <1>1, <2>3, LaidWithin
  <2>5. /\ b[0] = 1 /\ b[n] = e
        /\ \A k \in 1..n : Holds(cells, b[k - 1], rs[k]) /\ b[k] = b[k - 1] + Size(rs[k])
    BY <2>3 DEF Laid
  <2>6. ASSUME NEW i \in 1..n
        PROVE  /\ SubSeq(cells, 1, b[i]) = SubSeq(cells, 1, b[i - 1]) \o enc[i]
               /\ enc[i] \in Seq(Cell)
    <3>1. i - 1 \in 0..n
      BY <1>1
    <3>2. b[i - 1] \in 1..Len(cells)
      BY <1>1, <1>2, <2>4, <3>1
    <3>3. rs[i] \in Records /\ Holds(cells, b[i - 1], rs[i]) /\ b[i] = b[i - 1] + Size(rs[i])
      BY <1>1, <2>5
    <3>4. SubSeq(cells, 1, b[i - 1] + Size(rs[i])) = SubSeq(cells, 1, b[i - 1]) \o Encoded(rs[i])
      BY <3>2, <3>3, StretchAndRecord
    <3>5. enc[i] \in Seq(DataCell) /\ DataCell \subseteq Cell
      BY <1>3, ElementOfSeq DEF Cell
    <3>6. enc[i] \in Seq(Cell)
      BY <3>5, SeqMonotonic
    <3> QED
      BY <1>3, <3>3, <3>4, <3>6
  <2>66. \A i \in 1..n : f[i] = IF i = 1 THEN enc[i] ELSE f[i - 1] \o enc[i]
    BY <2>2
  <2> HIDE DEF c, enc, n
  <2> DEFINE P(i) == SubSeq(cells, 1, b[i]) = c \o f[i] /\ f[i] \in Seq(Cell)
             T == {i \in Nat : i \in 1..n => P(i)}
  <2>7. 0 \in T
    <3> HIDE DEF P
    <3> QED
      OBVIOUS
  <2>8. ASSUME NEW i \in 0..(n - 1), i \in 1..n => P(i) PROVE P(i + 1)
    <3>1. i + 1 \in 1..n /\ (i + 1) - 1 = i
      BY <1>1
    <3>2. SubSeq(cells, 1, b[i + 1]) = SubSeq(cells, 1, b[(i + 1) - 1]) \o enc[i + 1] /\ enc[i + 1] \in Seq(Cell)
      BY <2>6, <3>1
    <3>3. CASE i = 0
      <4>1. i + 1 = 1 /\ 1 \in 1..n
        BY <3>1, <3>3
      <4>2. f[1] = enc[1]
        BY <2>66, <4>1
      <4>3. SubSeq(cells, 1, b[1]) = c \o enc[1] /\ enc[1] \in Seq(Cell)
        <5>1. b[i + 1] = b[1] /\ enc[i + 1] = enc[1] /\ (i + 1) - 1 = 0
          BY <4>1
        <5>2. b[(i + 1) - 1] = 1
          BY <2>5, <5>1
        <5> QED
          BY <1>4, <3>2, <5>1, <5>2
      <4> QED
        BY <4>1, <4>2, <4>3
    <3>4. CASE i # 0
      <4>1. i \in 1..n /\ i + 1 # 1
        BY <1>1, <3>4
      <4>2. SubSeq(cells, 1, b[i]) = c \o f[i] /\ f[i] \in Seq(Cell)
        BY <2>8, <4>1
      <4> HIDE DEF P
      <4>3. f[i + 1] = f[(i + 1) - 1] \o enc[i + 1]
        BY <2>66, <3>1, <4>1
      <4>33. f[i + 1] = f[i] \o enc[i + 1]
        BY <3>1, <4>3
      <4>34. SubSeq(cells, 1, b[i + 1]) = (c \o f[i]) \o enc[i + 1]
        BY <3>1, <3>2, <4>2
      <4>4. (c \o f[i]) \o enc[i + 1] = c \o (f[i] \o enc[i + 1])
        <5>1. AllSeqs(Cell, c, f[i], enc[i + 1])
          BY <1>4, <3>2, <4>2 DEF AllSeqs
        <5>2. Regrouped(c, f[i], enc[i + 1])
          BY <5>1, Associative
        <5> QED
          BY <5>2 DEF Regrouped
      <4>5. f[i] \o enc[i + 1] \in Seq(Cell)
        BY <3>2, <4>2, ConcatProperties
      <4> QED
        BY <4>33, <4>34, <4>4, <4>5 DEF P
    <3> QED
      BY <3>3, <3>4
  <2> HIDE DEF P
  <2>88. ASSUME NEW i \in 0..(n - 1), i \in T PROVE i + 1 \in T
    BY <2>8, <2>88
  <2> HIDE DEF T
  <2>9. 0..n \subseteq T
    BY <1>1, <2>7, <2>88, UpToInduction
  <2>10. n \in T /\ n \in 1..n
    BY <1>1, <1>6, <2>9
  <2>11. P(n)
    BY <2>10 DEF T
  <2>12. SubSeq(cells, 1, b[n]) = c \o f[n]
    BY <2>11 DEF P
  <2> QED
    BY <1>2, <2>2, <2>5, <2>12 DEF c, enc
<1> QED
  BY <1>5, <1>6

\* One more record.
LEMMA OneMore ==
  ASSUME NEW cells, Plain(cells), NEW rs \in Seq(Records), Lays(cells, 1, rs, Len(cells)),
         NEW r \in Records
  PROVE  /\ Plain(cells \o Encoded(r)) /\ (cells \o Encoded(r))[1] = cells[1]
         /\ Lays(cells \o Encoded(r), 1, rs \o <<r>>, Len(cells \o Encoded(r)))
<1> DEFINE enc == Encoded(r)  L == Len(cells)  more == cells \o enc
<1>1. cells \in Seq(Cell) /\ L \in Nat /\ L >= 1 /\ Size(r) \in Nat /\ 1 \in Nat
      /\ \A i \in 2..L : cells[i] \in DataCell
  BY RecsFacts, RecordFacts DEF Plain
<1>2. enc \in Seq(DataCell) /\ Len(enc) = Size(r) /\ \A k \in 1..Size(r) : enc[k] = [of |-> r, at |-> k]
  BY EncodedFacts
<1>3. enc \in Seq(Cell) /\ \A k \in 1..Size(r) : enc[k] \in DataCell
  <2>1. DataCell \subseteq Cell
    BY DEF Cell
  <2> HIDE DEF enc
  <2> QED
    BY <1>2, <2>1, SeqMonotonic, ElementOfSeq
<1> HIDE DEF enc
<1>4. /\ more \in Seq(Cell) /\ Len(more) = L + Size(r)
      /\ \A i \in 1..L + Size(r) : more[i] = IF i <= L THEN cells[i] ELSE enc[i - L]
  <2>1. /\ cells \o enc \in Seq(Cell) /\ Len(cells \o enc) = Len(cells) + Len(enc)
        /\ \A i \in 1..Len(cells) + Len(enc) :
             (cells \o enc)[i] = IF i <= Len(cells) THEN cells[i] ELSE enc[i - Len(cells)]
    BY <1>1, <1>3, ConcatProperties
  <2> QED
    BY <1>2, <2>1
<1> HIDE DEF more, L
<1>5. \A i \in 1..L : more[i] = cells[i]
  BY <1>1, <1>4
<1>6. ASSUME NEW k \in 1..Size(r) PROVE more[L + k] = enc[k]
  <2>1. L + k \in 1..L + Size(r) /\ ~(L + k <= L) /\ (L + k) - L = k
    BY <1>1
  <2> QED
    BY <1>4, <2>1
<1>7. ASSUME NEW i \in 2..Len(more) PROVE more[i] \in DataCell
  <2>1. CASE i <= L
    <3>1. i \in 2..L /\ i \in 1..L
      BY <1>1, <1>4, <2>1
    <3> QED
      BY <1>1, <1>5, <3>1
  <2>2. CASE ~(i <= L)
    <3>1. i - L \in 1..Size(r) /\ L + (i - L) = i
      BY <1>1, <1>4, <2>2
    <3>2. more[L + (i - L)] = enc[i - L]
      BY <1>6, <3>1
    <3> QED
      BY <1>3, <3>1, <3>2
  <2> QED
    BY <2>1, <2>2
<1>8. Plain(more) /\ more[1] = cells[1]
  <2>1. Len(more) >= 1 /\ 1 \in 1..L
    BY <1>1, <1>4
  <2> QED
    BY <1>4, <1>5, <1>7, <2>1 DEF Plain
<1>9. Lays(more, 1, rs, L)
  <2>1. Lays(cells, 1, rs, L) /\ Len(cells) \in Nat
    BY <1>1 DEF L
  <2>2. Len(more) \in Nat /\ L <= Len(more) /\ \A i \in 1 + 1..L : more[i] = cells[i]
    BY <1>1, <1>4, <1>5
  <2> QED
    BY <1>1, <2>1, <2>2, LaysElsewhere
<1>10. Holds(more, L, r)
  BY <1>1, <1>2, <1>4, <1>6 DEF Holds
<1>11. <<r>> \in Seq(Records) /\ Lays(more, L, <<r>>, L + Size(r))
  BY <1>1, <1>10, LaysOne
<1>12. Lays(more, 1, rs \o <<r>>, L + Size(r))
  <2>1. Len(more) \in Nat
    BY <1>1, <1>4
  <2> QED
    BY <1>1, <1>9, <1>11, <2>1, LaysConcat
<1> QED
  BY <1>4, <1>8, <1>12 DEF more, enc

\* A log of just these records.
LEMMA LogWith ==
  ASSUME NEW rs \in Seq(Records), NEW g \in 0..MaxGen,
         NEW cells, cells = <<FileHeader(g)>> \o FlattenSeq(Encodings(rs))
  PROVE  /\ Plain(cells) /\ cells[1] = FileHeader(g)
         /\ Recs(cells) = rs /\ Ends(cells) = Len(cells)
<1> DEFINE n == Len(rs)  h == FileHeader(g)
           Is(c, ss) == Plain(c) /\ c[1] = h /\ Lays(c, 1, ss, Len(c))
           T == {i \in Nat : i <= n => \E c : Is(c, SubSeq(rs, 1, i))}
<1>1. n \in Nat /\ 1 \in Nat /\ \A i \in 1..n : rs[i] \in Records
  BY LenProperties, ElementOfSeq
<1>2. 0 \in T
  <2> DEFINE c == <<h>>
  <2>1. h \in Cell
    BY DEF Cell
  <2> HIDE DEF h
  <2>2. c \in Seq(Cell) /\ Len(c) = 1 /\ c[1] = h
    BY <2>1
  <2> HIDE DEF c
  <2>3. Plain(c)
    BY <2>2 DEF Plain
  <2>4. Lays(c, 1, <<>>, 1) /\ SubSeq(rs, 1, 0) = <<>>
    BY <1>1, LaysNothing, SubSeqEmpty
  <2>5. Is(c, SubSeq(rs, 1, 0))
    BY <2>2, <2>3, <2>4
  <2> HIDE DEF Is
  <2> QED
    BY <2>5
<1>3. ASSUME NEW i \in 0..(n - 1), i \in T PROVE i + 1 \in T
  <2>1. i + 1 \in 1..n /\ i <= n /\ i \in 0..n /\ 1 \in 1..n
    BY <1>1
  <2>2. PICK c : Is(c, SubSeq(rs, 1, i))
    BY <1>3, <2>1
  <2> DEFINE ss == SubSeq(rs, 1, i)  r == rs[i + 1]
  <2>3. ss \in Seq(Records) /\ r \in Records
    <3>1. \A k \in 1..i : rs[k] \in Records
      BY <1>1, <2>1
    <3>2. SubSeq(rs, 1, i) \in Seq(Records)
      BY <2>1, <3>1, SubSeqProperties
    <3> QED
      BY <1>1, <2>1, <3>2
  <2>4. SubSeq(rs, 1, i + 1) = ss \o <<r>>
    <3>1. SubSeq(rs, 1, i + 1) = SubSeq(rs, 1, (i + 1) - 1) \o <<rs[i + 1]>>
      BY <1>1, <2>1, SubSeqRecursiveSecond
    <3>2. (i + 1) - 1 = i
      OBVIOUS
    <3> QED
      BY <3>1, <3>2
  <2> HIDE DEF ss, r
  <2>5. Plain(c) /\ c[1] = h /\ Lays(c, 1, ss, Len(c))
    BY <2>2 DEF ss
  <2>6. Is(c \o Encoded(r), ss \o <<r>>)
    BY <2>3, <2>5, OneMore
  <2> HIDE DEF Is
  <2>7. \E d : Is(d, SubSeq(rs, 1, i + 1))
    BY <2>4, <2>6
  <2> QED
    BY <2>7
<1> HIDE DEF T
<1>4. 0..n \subseteq T
  <2> HIDE DEF n
  <2> QED
    BY <1>1, <1>2, <1>3, UpToInduction
<1>5. n \in T
  BY <1>1, <1>4
<1>6. SubSeq(rs, 1, n) = rs
  BY SubSeqFull
<1>7. PICK c : Is(c, rs)
  <2> HIDE DEF Is, n
  <2>1. \E c : Is(c, SubSeq(rs, 1, n))
    BY <1>1, <1>5 DEF T
  <2> QED
    BY <1>6, <2>1
<1>8. c = cells
  <2>1. Plain(c) /\ Lays(c, 1, rs, Len(c)) /\ c[1] = h
    BY <1>7
  <2>2. SubSeq(c, 1, Len(c)) = <<c[1]>> \o FlattenSeq(Encodings(rs))
    BY <2>1, LaysFlatten
  <2>3. SubSeq(c, 1, Len(c)) = c
    BY <2>1, SubSeqFull DEF Plain
  <2> QED
    BY <2>1, <2>2, <2>3
<1>9. ASSUME NEW r \in Records PROVE ~Holds(c, Len(c), r)
  <2>1. Len(c) \in Nat
    BY <1>7, RecsFacts
  <2>2. Size(r) \in Nat /\ Size(r) >= 2
    BY RecordFacts
  <2> QED
    BY <2>1, <2>2 DEF Holds
<1>10. Parsed(c, 1, rs, Len(c))
  BY <1>7, <1>9 DEF Parsed
<1>11. Recs(c) = rs /\ Ends(c) = Len(c)
  BY <1>7, <1>10, RecsAre
<1> QED
  BY <1>7, <1>8, <1>11

\* A new log with nothing in it.
LEMMA KeptNew ==
  ASSUME NEW g \in 0..MaxGen, NEW file, file = Synced(<<FileHeader(g)>>)
  PROVE  file \in File /\ KeptFile({}, {}, file, g)
<1> DEFINE h == FileHeader(g)  c == <<h>>
<1>1. h \in Cell
  BY DEF Cell
<1> HIDE DEF h
<1>2. c \in Seq(Cell) /\ Len(c) = 1 /\ c[1] = h
  BY <1>1
<1> HIDE DEF c
<1>3. Plain(c)
  BY <1>2 DEF Plain
<1>4. Parsed(c, 1, <<>>, 1)
  <2>1. Lays(c, 1, <<>>, 1) /\ <<>> \in Seq(Records)
    BY LaysNothing
  <2>2. ASSUME NEW r \in Records PROVE ~Holds(c, 1, r)
    BY <1>2, RecordFacts DEF Holds
  <2> QED
    BY <2>1, <2>2 DEF Parsed
<1>5. Recs(c) = <<>>
  BY <1>3, <1>4, RecsAre
<1>6. /\ file \in File /\ file.cells = c /\ file.synced = 1 /\ SubSeq(c, 1, 1) = c
  <2>1. file = Synced(c)
    BY DEF c, h
  <2> QED
    BY <1>2, <1>3, <2>1, SyncedFile
<1>7. IsLog(file, g)
  <2>1. \A i \in 2..1 : c[i] \in DataCell
    OBVIOUS
  <2> QED
    BY <1>2, <1>6, <2>1 DEF IsLog, h
<1>8. ToSet(<<>>) = {} /\ DOMAIN <<>> = {}
  BY DEF ToSet
<1>9. Promised({}, {}, <<>>, {})
  BY <1>8 DEF Promised, Orderly
<1> QED
  BY <1>5, <1>6, <1>7, <1>8, <1>9 DEF KeptFile

\* What a power cut leaves of a log keeps what the log kept.
LEMMA KeptThroughPowerCut ==
  ASSUME NEW T, NEW A, NEW file \in File, NEW g, KeptFile(T, A, file, g),
         NEW new \in AfterPowerCut(file)
  PROVE  new \in File /\ KeptFile(T, A, new, g)
<1> DEFINE cells == file.cells  L == Len(cells)  s == file.synced
<1>1. /\ Plain(cells) /\ L \in Nat /\ s \in 1..L /\ cells[1] = FileHeader(g)
      /\ Plain(SubSeq(cells, 1, s))
  BY KeptFileFacts
<1>2. cells \in Seq(Cell) /\ (\A i \in 1..L : cells[i] \in Cell) /\ \A i \in 2..L : cells[i] \in DataCell
  BY <1>1, ElementOfSeq DEF Plain
<1>3. PICK n \in s..L, lost \in SUBSET (s + 1..L) :
        new = Synced([i \in 1..n |-> IF i \in lost THEN Hole ELSE cells[i]])
  BY DEF AfterPowerCut
<1> DEFINE left == [i \in 1..n |-> IF i \in lost THEN Hole ELSE cells[i]]
<1>4. n \in Nat /\ n >= 1 /\ n <= L /\ s <= n /\ s \in Nat /\ 1 <= s
  BY <1>1
<1>5. Hole \in DataCell /\ Hole \in Cell
  BY DEF DataCell, Cell
<1> HIDE DEF cells, L, s
<1>6. ASSUME NEW i \in 1..n
      PROVE  /\ left[i] = cells[i] \/ left[i] = Hole
             /\ left[i] \in Cell /\ (i >= 2 => left[i] \in DataCell)
             /\ i <= s => left[i] = cells[i]
  <2>1. i \in 1..L /\ (i >= 2 => i \in 2..L)
    BY <1>1, <1>4
  <2>2. i <= s => i \notin lost
    BY <1>1, <1>4
  <2>3. left[i] = IF i \in lost THEN Hole ELSE cells[i]
    OBVIOUS
  <2> HIDE DEF left
  <2> QED
    BY <1>2, <1>5, <2>1, <2>2, <2>3
<1>7. left \in Seq(Cell) /\ Len(left) = n
  <2>1. left \in [1..n -> Cell]
    BY <1>6
  <2> HIDE DEF left
  <2> QED
    BY <1>4, <2>1
<1>8. new = Synced(left)
  BY <1>3
<1> HIDE DEF left
<1>9. Plain(left)
  BY <1>4, <1>6, <1>7 DEF Plain
<1>10. /\ new \in File /\ new.cells = left /\ new.synced = n /\ n = Len(new.cells)
  BY <1>7, <1>8, <1>9, SyncedFile
<1>11. left[1] = FileHeader(g)
  <2>1. 1 \in 1..n /\ 1 <= s
    BY <1>4
  <2> QED
    BY <1>1, <1>6, <2>1
<1>12. IsLog(new, g)
  BY <1>4, <1>9, <1>10, <1>11 DEF IsLog, Plain
<1>13. Loses(cells, left)
  <2>1. \A k \in 1..Len(left) : left[k] = cells[k] \/ left[k] = Hole
    BY <1>6, <1>7
  <2>2. Len(left) <= Len(cells)
    BY <1>4, <1>7 DEF L
  <2> QED
    BY <1>1, <1>9, <2>1, <2>2, BeginningLoses
<1>14. Loses(left, SubSeq(cells, 1, s))
  <2> DEFINE first == SubSeq(cells, 1, s)
  <2>1. Plain(first) /\ Len(first) = s /\ \A k \in 1..s : first[k] = cells[k]
    BY <1>1, Beginning DEF L
  <2> HIDE DEF first
  <2>2. ASSUME NEW k \in 1..Len(first) PROVE first[k] = left[k]
    <3>1. k \in 1..s /\ k \in 1..n /\ k <= s
      BY <1>4, <2>1
    <3> QED
      BY <1>6, <2>1, <3>1
  <2>3. Len(first) <= Len(left)
    BY <1>4, <1>7, <2>1
  <2> QED
    BY <1>9, <2>1, <2>2, <2>3, BeginningLoses DEF first
<1>15. KeptFile(T, A, new, g)
  <2>1. Loses(file.cells, new.cells) /\ Loses(new.cells, SubSeq(file.cells, 1, file.synced))
    BY <1>10, <1>13, <1>14 DEF cells, s
  <2>2. new.synced = Len(new.cells)
    BY <1>10
  <2> QED
    BY <1>10, <1>12, <2>1, <2>2, KeptCut
<1> QED
  BY <1>10, <1>15

\* What a power cut leaves of another file.
LEMMA GoodThroughPowerCut ==
  ASSUME NEW file \in GoodFile
  PROVE  Synced(SubSeq(file.cells, 1, file.synced)) \in GoodFile /\ Empty \in GoodFile
<1>1. file.cells \in Seq(Cell) /\ file.synced \in 0..Len(file.cells) /\ Len(file.cells) \in Nat
  BY DEF GoodFile, File
<1> DEFINE c == SubSeq(file.cells, 1, file.synced)
<1>2. c \in Seq(Cell) /\ Len(c) \in Nat
  <2>1. \A i \in 1..file.synced : file.cells[i] \in Cell
    BY <1>1, ElementOfSeq
  <2>2. c \in Seq(Cell)
    BY <1>1, <2>1, SubSeqProperties
  <2> QED
    BY <2>2, LenProperties
<1> HIDE DEF c
<1>3. Synced(c) \in GoodFile
  BY <1>2 DEF Synced, GoodFile, File
<1>4. Empty \in GoodFile
  BY DEF Empty, Synced, GoodFile, File
<1> QED
  BY <1>3, <1>4 DEF c

\* SetToSeq lists the elements of a finite set.
LEMMA SetToSeqLists ==
  ASSUME NEW S, IsFiniteSet(S)
  PROVE  /\ Cardinality(S) \in Nat /\ SetToSeq(S) \in [1..Cardinality(S) -> S]
         /\ \A x \in S : \E i \in 1..Cardinality(S) : SetToSeq(S)[i] = x
<1> DEFINE n == Cardinality(S)  D == 1..n
<1>1. n \in Nat /\ ExistsBijection(D, S)
  BY FS_CardinalityType
<1>2. \E f \in [D -> S] : IsInjective(f)
  BY <1>1 DEF ExistsBijection, Bijection, Injection
<1>3. SetToSeq(S) \in [D -> S] /\ IsInjective(SetToSeq(S))
  BY <1>2 DEF SetToSeq
<1>4. IsFiniteSet(D) /\ Cardinality(D) = n
  BY <1>1, FS_Interval
<1>5. SetToSeq(S) \in Injection(D, S)
  BY <1>3 DEF Injection
<1>6. SetToSeq(S) \in Surjection(D, S)
  BY <1>4, <1>5, FS_Injection
<1> QED
  BY <1>1, <1>3, <1>6 DEF Surjection

\* The log that compaction writes: the live jobs, added.
LEMMA SnapshotFacts ==
  ASSUME NEW live, IsFiniteSet(live), live \subseteq Job, NEW g \in 0..MaxGen, NEW cells,
         cells = <<FileHeader(g)>> \o FlattenSeq([i \in 1..Cardinality(live) |->
                                                   Encoded(Add(SetToSeq(live)[i]))])
  PROVE  /\ Plain(cells) /\ cells[1] = FileHeader(g) /\ Ends(cells) = Len(cells)
         /\ ToSet(Recs(cells)) = {Add(j) : j \in live}
<1> DEFINE n == Cardinality(live)  list == SetToSeq(live)  rs == [i \in 1..n |-> Add(list[i])]
<1>1. /\ n \in Nat /\ list \in [1..n -> live] /\ \A x \in live : \E i \in 1..n : list[i] = x
  BY SetToSeqLists
<1> HIDE DEF n, list
<1>2. \A i \in 1..n : list[i] \in Job /\ list[i] \in live /\ rs[i] = Add(list[i]) /\ rs[i] \in Records
  BY <1>1, RecordFacts
<1>3. rs \in Seq(Records) /\ DOMAIN rs = 1..n /\ Len(rs) = n
  <2>1. rs \in [1..n -> Records] /\ DOMAIN rs = 1..n
    BY <1>2
  <2> HIDE DEF rs
  <2> QED
    BY <1>1, <2>1
<1>4. Encodings(rs) = [i \in 1..n |-> Encoded(Add(list[i]))]
  <2>1. \A i \in 1..n : Encoded(rs[i]) = Encoded(Add(list[i]))
    BY <1>2
  <2> HIDE DEF rs
  <2> QED
    BY <1>3, <2>1 DEF Encodings
<1>5. cells = <<FileHeader(g)>> \o FlattenSeq(Encodings(rs))
  BY <1>4 DEF n, list
<1>6. ToSet(rs) = {Add(j) : j \in live}
  <2>1. ToSet(rs) = {rs[i] : i \in 1..n}
    BY <1>3 DEF ToSet
  <2> HIDE DEF rs
  <2>2. ASSUME NEW j \in live PROVE Add(j) \in ToSet(rs)
    <3>1. PICK i \in 1..n : list[i] = j
      BY <1>1
    <3>2. rs[i] = Add(j)
      BY <1>2, <3>1
    <3> QED
      BY <2>1, <3>2
  <2>3. ASSUME NEW x \in ToSet(rs) PROVE x \in {Add(j) : j \in live}
    <3>1. PICK i \in 1..n : x = rs[i]
      BY <2>1
    <3>2. x = Add(list[i]) /\ list[i] \in live
      BY <1>2, <3>1
    <3> QED
      BY <3>2
  <2> QED
    BY <2>2, <2>3
<1> HIDE DEF rs
<1>7. Plain(cells) /\ cells[1] = FileHeader(g) /\ Recs(cells) = rs /\ Ends(cells) = Len(cells)
  BY <1>3, <1>5, LogWith
<1> QED
  BY <1>6, <1>7

\* The jobs that live in what a log says are finitely many.
LEMMA LiveFinite ==
  ASSUME NEW T, IsFiniteSet(T), NEW R, R \subseteq T, NEW live, live \subseteq Job,
         \A j \in live : Add(j) \in R
  PROVE  IsFiniteSet(live)
<1> DEFINE f == [j \in live |-> Add(j)]
<1>1. f \in [live -> T]
  OBVIOUS
<1>2. IsInjective(f)
  <2>1. ASSUME NEW i \in live, NEW j \in live, f[i] = f[j] PROVE i = j
    <3>1. Add(i) = Add(j)
      BY <2>1
    <3>2. Add(i).job = i /\ Add(j).job = j
      BY DEF Add
    <3> QED
      BY <3>1, <3>2
  <2> QED
    BY <2>1 DEF IsInjective
<1>3. f \in Injection(live, T)
  BY <1>1, <1>2 DEF Injection
<1> QED
  BY <1>3, FS_Injection

\* A log of the jobs that live in what another says keeps what that one keeps.
LEMMA KeptCompacted ==
  ASSUME NEW T, NEW A, NEW file \in File, NEW g, KeptFile(T, A, file, g),
         NEW live, live = {j \in Job : Replayed(NoJobs, Recs(file.cells))[j] = "live"},
         NEW new \in File, NEW to, IsLog(new, to), new.synced = Len(new.cells),
         ToSet(Recs(new.cells)) = {Add(j) : j \in live}
  PROVE  KeptFile(T, A, new, to)
<1> DEFINE all == Recs(file.cells)  safe == ToSet(Recs(SubSeq(file.cells, 1, file.synced)))
           rs == Recs(new.cells)
<1>1. Promised(T, A, all, safe) /\ all \in Seq(Records) /\ safe \subseteq ToSet(all)
  BY KeptFileFacts DEF KeptFile
<1>2. SubSeq(new.cells, 1, new.synced) = new.cells
  BY LogFacts, WholeSynced
<1>3. rs \in Seq(Records)
  BY LogFacts, RecsFacts
<1> HIDE DEF all, safe, rs
<1>4. \A j \in Job : j \in live <=> StatusIn(ToSet(all), j) = "live"
  BY <1>1, OrderlyStatus DEF all, Promised
<1>5. \A j \in live : Add(j) \in ToSet(all) /\ Done(j) \notin ToSet(all)
  BY <1>4 DEF StatusIn
<1>6. ToSet(rs) = {Add(j) : j \in live} /\ live \subseteq Job
  BY DEF rs
<1>7. ASSUME NEW j \in Job PROVE Add(j) \in ToSet(rs) <=> j \in live
  <2>1. \A i \in Job : Add(i) = Add(j) => i = j
    <3>1. \A i \in Job : Add(i).job = i
      BY DEF Add
    <3> QED
      BY <3>1
  <2> QED
    BY <1>6, <2>1
<1>8. ToSet(rs) \subseteq T
  BY <1>1, <1>5, <1>6 DEF Promised
<1>9. ASSUME NEW j \in Job, Add(j) \in A, Done(j) \notin T PROVE Add(j) \in ToSet(rs)
  <2>1. Add(j) \in ToSet(all) /\ Done(j) \notin ToSet(all)
    BY <1>1, <1>9 DEF Promised
  <2> QED
    BY <1>4, <1>7, <2>1 DEF StatusIn
<1>10. ASSUME NEW j \in Job, Done(j) \in A PROVE Add(j) \notin ToSet(rs)
  <2>1. Done(j) \in ToSet(all) \/ Add(j) \notin ToSet(all)
    BY <1>1, <1>10 DEF Promised
  <2>2. j \notin live
    BY <1>5, <2>1
  <2> QED
    BY <1>7, <2>2
<1>11. Orderly(rs)
  <2>1. ASSUME NEW k \in DOMAIN rs, NEW m \in DOMAIN rs
        PROVE  rs[m] # Add(rs[k].job) \/ rs[k] = rs[m]
    <3>1. rs[k] \in ToSet(rs)
      BY DEF ToSet
    <3>2. PICK j \in live : rs[k] = Add(j)
      BY <1>6, <3>1
    <3>3. rs[k].job = j
      BY <3>2 DEF Add
    <3> QED
      BY <3>2, <3>3
  <2> QED
    BY <2>1 DEF Orderly
<1>12. Promised(T, A, rs, ToSet(rs))
  BY <1>8, <1>9, <1>10, <1>11 DEF Promised
<1> QED
  BY <1>2, <1>12 DEF KeptFile, rs

-----------------------------------------------------------------------------
(***************************************************************************)
(* The inductive invariant, with the state as parameters: files F, the     *)
(* directory D and the one K that is relied on, processes P, operation O,  *)
(* tried and acknowledged records T and A.                                 *)
(***************************************************************************)
Dirs == [log : [0..MaxGen -> Ino \cup {None}], current : 1..MaxGen \cup {None}]
Queues == [up : BOOLEAN, log : Ino \cup {None}, gen : 0..MaxGen, pos : Nat, end : Nat,
           idx : [Job -> Status]]
Ops == [by : Proc \cup {None}, new : Ino \cup {None},
        at : {"free", "entered", "created", "inside", "written", "placed", "listed",
              "flipped", "committed"}]

Shape(F, D, K, P, O, T, A, n) ==
  /\ F \in [Ino -> GoodFile] /\ D \in Dirs /\ K \in Dirs /\ P \in [Proc -> Queues] /\ O \in Ops
  /\ A \subseteq T /\ T \subseteq Records /\ n \in 0..MaxFaults

Kept(F, T, A, ino, g) == ino # None /\ KeptFile(T, A, F[ino], g)

ContentsOf(F, d) ==
  IF LiveLog(d) # None THEN Replayed(NoJobs, Recs(F[LiveLog(d)].cells)) ELSE NoJobs

UnbornIn(D, K, O, T) ==
  /\ T = {} /\ D.current = None /\ K.current = None /\ K.log[0] = None
  /\ O.at = "created" \/ D.log[0] = None

AnchoredIn(D, K, O, T) ==
  \/ UnbornIn(D, K, O, T)
  \/ /\ O.at # "created"
     /\ \A d \in {D, K} : D.log[Generation(d)] = K.log[Generation(d)]

LogsKeepIn(F, D, K, O, T, A) ==
  \A d \in {D, K} : LiveLog(d) # None \/ ~UnbornIn(D, K, O, T) => Kept(F, T, A, LiveLog(d), Generation(d))

DonesAdded(T) == \A j \in Job : Done(j) \in T => Add(j) \in T

\* Of one process's Queue q.
WorksOn(F, D, q) ==
  /\ q.up /\ q.gen = Generation(D) /\ q.log = LiveLog(D)
  /\ q.log # None /\ q.idx = ContentsOf(F, D)
  /\ q.pos = Len(F[LiveLog(D)].cells) /\ q.end = Len(F[LiveLog(D)].cells)
  /\ Ends(F[LiveLog(D)].cells) = Len(F[LiveLog(D)].cells)

LiveIn(idx) == {j \in Job : idx[j] = "live"}

Made(F, T, A, q, new) ==
  /\ q.gen + 1 <= MaxGen /\ Kept(F, T, A, new, q.gen + 1)
  /\ F[new].synced = Len(F[new].cells) /\ Ends(F[new].cells) = Len(F[new].cells)
  /\ ToSet(Recs(F[new].cells)) = {Add(j) : j \in LiveIn(q.idx)}

InPlace(F, D, K, P, O, T, A) ==
  /\ O.by = None <=> O.at = "free"
  /\ O.at = "free" => O = Free
  /\ O.at # "flipped" => D.current = K.current
  /\ O.at \in {"inside", "written", "placed", "listed"} => WorksOn(F, D, P[O.by])
  /\ O.at \in {"written", "placed", "listed", "flipped", "committed"} => Made(F, T, A, P[O.by], O.new)
  /\ O.at \in {"placed", "listed", "flipped", "committed"} => D.log[P[O.by].gen + 1] = O.new
  /\ O.at \in {"listed", "flipped", "committed"} => K.log[P[O.by].gen + 1] = O.new
  /\ O.at \in {"flipped", "committed"} => P[O.by].up /\ D.current = P[O.by].gen + 1

ReadsFrom(cells, all, q) ==
  /\ q.pos \in 1..Len(cells) /\ Ends(SubSeq(cells, 1, q.pos)) = q.pos
  /\ \A j \in Job : (\A r \in ToSet(Scan(cells, q.pos, Chunk).records) : r.job # j) =>
                      q.idx[j] = all[j]

Follows(F, D, q) ==
  q.up => /\ q.gen <= Generation(D)
          /\ q.gen = Generation(D) => /\ LiveLog(D) # None /\ q.log = LiveLog(D)
                                      /\ ReadsFrom(F[LiveLog(D)].cells, ContentsOf(F, D), q)

Inv(F, D, K, P, O, T, A, n) ==
  /\ Shape(F, D, K, P, O, T, A, n) /\ IsFiniteSet(T) /\ DonesAdded(T)
  /\ AnchoredIn(D, K, O, T) /\ LogsKeepIn(F, D, K, O, T, A) /\ InPlace(F, D, K, P, O, T, A)
  /\ \A p \in Proc : Follows(F, D, P[p])

\* A log has a header.
LEMMA HeaderThere ==
  ASSUME NEW g, g \in 0..MaxGen
  PROVE  FileHeader(g) # Hole
BY StorageAssumption

LEMMA GenerationTyped ==
  ASSUME NEW d \in Dirs
  PROVE  /\ Generation(d) \in 0..MaxGen /\ LiveLog(d) \in Ino \cup {None}
         /\ LiveLog(d) = d.log[Generation(d)]
         /\ d.current = None => Generation(d) = 0
         /\ d.current # None => Generation(d) = d.current /\ Generation(d) >= 1
<1>1. MaxGen \in Nat /\ d.log \in [0..MaxGen -> Ino \cup {None}] /\ d.current \in 1..MaxGen \cup {None}
  BY StorageAssumption DEF Dirs
<1>2. Generation(d) \in 0..MaxGen
  BY <1>1 DEF Generation
<1> QED
  BY <1>1, <1>2 DEF LiveLog, Generation

LEMMA ShapeIs ==
  /\ TypeOK /\ FilesTyped <=> /\ Shape(files, dir, Relied, proc, op, tried, acked, faults)
                            /\ disk \in Dirs /\ unsynced \in BOOLEAN
  /\ (TypeOK /\ FilesTyped)' <=> /\ Shape(files', dir', Relied', proc', op', tried', acked', faults')
                               /\ disk' \in Dirs /\ unsynced' \in BOOLEAN
<1>1. ASSUME NEW F
      PROVE  (\A i \in Ino : F[i].synced \in 0..Len(F[i].cells)) /\ F \in [Ino -> File]
               <=> F \in [Ino -> GoodFile]
  BY DEF GoodFile
<1>2. TypeOK /\ FilesTyped <=> /\ Shape(files, dir, Relied, proc, op, tried, acked, faults)
                              /\ disk \in Dirs /\ unsynced \in BOOLEAN
  <2>1. TypeOK /\ FilesTyped <=> /\ Shape(files, dir, disk, proc, op, tried, acked, faults)
                                /\ unsynced \in BOOLEAN
    BY <1>1 DEF TypeOK, FilesTyped, Shape, Dirs, Queues, Ops, Status, Records, File
  <2> QED
    BY <2>1 DEF Shape, Relied
<1>3. (TypeOK /\ FilesTyped)' <=> /\ Shape(files', dir', Relied', proc', op', tried', acked', faults')
                                 /\ disk' \in Dirs /\ unsynced' \in BOOLEAN
  <2>1. (TypeOK /\ FilesTyped)' <=> /\ Shape(files', dir', disk', proc', op', tried', acked', faults')
                                   /\ unsynced' \in BOOLEAN
    BY <1>1 DEF TypeOK, FilesTyped, Shape, Dirs, Queues, Ops, Status, Records, File
  <2> QED
    BY <2>1 DEF Shape, Relied
<1> QED
  BY <1>2, <1>3

LEMMA KeptIs ==
  ASSUME NEW i, NEW g
  PROVE  /\ KeptLog(i, g) <=> Kept(files, tried, acked, i, g)
         /\ KeptLog(i, g)' <=> Kept(files', tried', acked', i, g)
<1>1. KeptLog(i, g) <=> Kept(files, tried, acked, i, g)
  BY DEF KeptLog, Kept, KeptFile, Keeps, Promised, Orderly
<1>2. KeptLog(i, g)' <=> Kept(files', tried', acked', i, g)
  BY DEF KeptLog, Kept, KeptFile, Keeps, Promised, Orderly
<1> QED
  BY <1>1, <1>2

\* The contents, once every log that can be the live one keeps.
LEMMA ContentsAre ==
  ASSUME NEW d \in Dirs
  PROVE  /\ (LiveLog(d) # None => Kept(files, tried, acked, LiveLog(d), Generation(d))) =>
              Contents(d) = ContentsOf(files, d)
         /\ (LiveLog(d) # None => Kept(files', tried', acked', LiveLog(d), Generation(d))) =>
              Contents(d)' = ContentsOf(files', d)
<1>1. ASSUME NEW F, NEW T, NEW A, LiveLog(d) # None => Kept(F, T, A, LiveLog(d), Generation(d))
      PROVE  LiveLog(d) # None <=> LiveLog(d) # None /\ F[LiveLog(d)].cells[1] # Hole
  <2>1. Generation(d) \in 0..MaxGen
    BY GenerationTyped
  <2>2. LiveLog(d) # None => F[LiveLog(d)].cells[1] = FileHeader(Generation(d))
    BY <1>1 DEF Kept, KeptFile, IsLog
  <2> QED
    BY <2>1, <2>2, HeaderThere
<1>2. ASSUME LiveLog(d) # None => Kept(files, tried, acked, LiveLog(d), Generation(d))
      PROVE  Contents(d) = ContentsOf(files, d)
  BY <1>1, <1>2 DEF Contents, HasHeader, ContentsOf, Recs
<1>3. ASSUME LiveLog(d) # None => Kept(files', tried', acked', LiveLog(d), Generation(d))
      PROVE  Contents(d)' = ContentsOf(files', d)
  BY <1>1, <1>3 DEF Contents, HasHeader, ContentsOf, Recs
<1> QED
  BY <1>2, <1>3

LEMMA InvIs ==
  IInv <=> /\ Inv(files, dir, Relied, proc, op, tried, acked, faults)
           /\ disk \in Dirs /\ unsynced \in BOOLEAN /\ PassedOver
<1>1. (TypeOK /\ FilesTyped) <=> /\ Shape(files, dir, Relied, proc, op, tried, acked, faults)
                                /\ disk \in Dirs /\ unsynced \in BOOLEAN
  BY ShapeIs
<1>2. DonesWereAdded <=> DonesAdded(tried)
  BY DEF DonesWereAdded, DonesAdded
<1>3. Unborn <=> UnbornIn(dir, Relied, op, tried)
  BY DEF Unborn, UnbornIn
<1>4. Anchored <=> AnchoredIn(dir, Relied, op, tried)
  BY <1>3 DEF Anchored, AnchoredIn
<1>5. \A i, g : KeptLog(i, g) <=> Kept(files, tried, acked, i, g)
  BY KeptIs
<1>6. LogsKeep <=> LogsKeepIn(files, dir, Relied, op, tried, acked)
  BY <1>3, <1>5 DEF LogsKeep, LogsKeepIn
<1>7. ASSUME dir \in Dirs, LogsKeep
      PROVE  Contents(dir) = ContentsOf(files, dir)
  <2>1. LiveLog(dir) # None => Kept(files, tried, acked, LiveLog(dir), Generation(dir))
    BY <1>6, <1>7 DEF LogsKeepIn
  <2>2. (Contents(dir)) = ContentsOf(files, dir)
    BY <1>7, <2>1, ContentsAre DEF Contents, HasHeader
  <2> QED
    BY <2>2
<1>8. ASSUME dir \in Dirs, LogsKeep, NEW p
      PROVE  Working(p) <=> WorksOn(files, dir, proc[p])
  BY <1>7, <1>8 DEF Working, WorksOn
<1>9. ASSUME NEW p
      PROVE  SnapshotMade(p) <=> Made(files, tried, acked, proc[p], op.new)
  BY <1>5 DEF SnapshotMade, Made, Target, LiveIn
<1>10. ASSUME dir \in Dirs, LogsKeep
       PROVE  OpInPlace <=> InPlace(files, dir, Relied, proc, op, tried, acked)
  BY <1>8, <1>9, <1>10 DEF OpInPlace, InPlace, Target
<1>11. ASSUME dir \in Dirs, LogsKeep
       PROVE  Caches <=> \A p \in Proc : Follows(files, dir, proc[p])
  BY <1>7, <1>11 DEF Caches, Follows, ReadsOn, ReadsFrom
<1>12. Shape(files, dir, Relied, proc, op, tried, acked, faults) => dir \in Dirs
  BY DEF Shape
<1> QED
  BY <1>1, <1>2, <1>4, <1>6, <1>10, <1>11, <1>12 DEF IInv, Inv

LEMMA InvIsNext ==
  IInv' <=> /\ Inv(files', dir', Relied', proc', op', tried', acked', faults')
            /\ disk' \in Dirs /\ unsynced' \in BOOLEAN /\ PassedOver'
<1>1. (TypeOK /\ FilesTyped)' <=> /\ Shape(files', dir', Relied', proc', op', tried', acked', faults')
                                 /\ disk' \in Dirs /\ unsynced' \in BOOLEAN
  BY ShapeIs
<1>2. DonesWereAdded' <=> DonesAdded(tried')
  BY DEF DonesWereAdded, DonesAdded
<1>3. Unborn' <=> UnbornIn(dir', Relied', op', tried')
  BY DEF Unborn, UnbornIn
<1>4. Anchored' <=> AnchoredIn(dir', Relied', op', tried')
  BY <1>3 DEF Anchored, AnchoredIn
<1>5. \A i, g : KeptLog(i, g)' <=> Kept(files', tried', acked', i, g)
  BY KeptIs
<1>6. LogsKeep' <=> LogsKeepIn(files', dir', Relied', op', tried', acked')
  BY <1>3, <1>5 DEF LogsKeep, LogsKeepIn
<1>7. ASSUME dir' \in Dirs, LogsKeep'
      PROVE  Contents(dir)' = ContentsOf(files', dir')
  <2>1. LiveLog(dir') # None => Kept(files', tried', acked', LiveLog(dir'), Generation(dir'))
    BY <1>6, <1>7 DEF LogsKeepIn
  <2>2. (Contents(dir)') = ContentsOf(files', dir')
    BY <1>7, <2>1, ContentsAre DEF Contents, HasHeader
  <2> QED
    BY <2>2
<1>8. ASSUME dir' \in Dirs, LogsKeep', NEW p
      PROVE  Working(p)' <=> WorksOn(files', dir', proc'[p])
  BY <1>7, <1>8 DEF Working, WorksOn
<1>9. ASSUME NEW p
      PROVE  SnapshotMade(p)' <=> Made(files', tried', acked', proc'[p], op'.new)
  BY <1>5 DEF SnapshotMade, Made, Target, LiveIn
<1>10. ASSUME dir' \in Dirs, LogsKeep'
       PROVE  OpInPlace' <=> InPlace(files', dir', Relied', proc', op', tried', acked')
  BY <1>8, <1>9, <1>10 DEF OpInPlace, InPlace, Target
<1>11. ASSUME dir' \in Dirs, LogsKeep'
       PROVE  Caches' <=> \A p \in Proc : Follows(files', dir', proc'[p])
  BY <1>7, <1>11 DEF Caches, Follows, ReadsOn, ReadsFrom
<1>12. Shape(files', dir', Relied', proc', op', tried', acked', faults') => dir' \in Dirs
  BY DEF Shape
<1> QED
  BY <1>1, <1>2, <1>4, <1>6, <1>10, <1>11, <1>12 DEF IInv, Inv

-----------------------------------------------------------------------------
(***************************************************************************)
(* Processes that read on.                                                 *)
(***************************************************************************)
Glued(s, t, u) == s \in Seq(Records) /\ t \in Seq(Records) /\ u = s \o t

LEMMA GluedOnce ==
  ASSUME NEW s, NEW t, NEW u, NEW v, Glued(s, t, v), Glued(s, u, v)
  PROVE  t = u
<1>1. s \in Seq(Records) /\ t \in Seq(Records) /\ u \in Seq(Records) /\ s \o t = s \o u
  BY DEF Glued
<1> QED
  BY <1>1, ConcatSimplifications

LEMMA GluedOne ==
  ASSUME NEW s, NEW t, NEW u, Glued(s, t, u), NEW r \in Records, NEW v, v = u \o <<r>>
  PROVE  Glued(s, t \o <<r>>, v)
<1>1. s \in Seq(Records) /\ t \in Seq(Records) /\ u = s \o t /\ <<r>> \in Seq(Records)
  BY DEF Glued
<1>2. (s \o t) \o <<r>> = s \o (t \o <<r>>)
  <2>1. AllSeqs(Records, s, t, <<r>>)
    BY <1>1 DEF AllSeqs
  <2>2. Regrouped(s, t, <<r>>)
    BY <2>1, Associative
  <2> QED
    BY <2>2 DEF Regrouped
<1>3. t \o <<r>> \in Seq(Records)
  BY AppendedRecord, <1>1
<1>4. v = s \o (t \o <<r>>)
  <2>1. v = (s \o t) \o <<r>>
    BY <1>1
  <2> QED
    BY ONLY <1>2, <2>1
<1> DEFINE more == t \o <<r>>
<1>5. more \in Seq(Records) /\ v = s \o more
  BY <1>3, <1>4
<1> HIDE DEF more
<1>6. Glued(s, more, v)
  BY <1>1, <1>5 DEF Glued
<1> QED
  BY ONLY <1>6 DEF more

LEMMA ReadOnGlued ==
  ASSUME NEW cells, Plain(cells), NEW pos \in 1..Len(cells), Ends(SubSeq(cells, 1, pos)) = pos,
         NEW scan, scan = Scan(cells, pos, Chunk)
  PROVE  Glued(Recs(SubSeq(cells, 1, pos)), scan.records, Recs(cells))
<1> DEFINE first == Recs(SubSeq(cells, 1, pos))
<1>1. /\ scan.records \in Seq(Records) /\ first \in Seq(Records)
      /\ Recs(cells) = first \o scan.records
  BY ReadOn
<1> HIDE DEF first
<1>2. Glued(first, scan.records, Recs(cells))
  BY <1>1 DEF Glued
<1> QED
  BY <1>2 DEF first

\* The position of a reader stays good when a log is cut behind it or a record is added.
LEMMA ReadsStill ==
  ASSUME NEW cells, Plain(cells), NEW more, Plain(more), NEW q, q.idx \in [Job -> Status],
         ReadsFrom(cells, Replayed(NoJobs, Recs(cells)), q),
         q.pos <= Len(more), \A k \in 1..q.pos : more[k] = cells[k],
         \/ Recs(more) = Recs(cells)
         \/ \E r \in Records : Recs(more) = Recs(cells) \o <<r>>
  PROVE  ReadsFrom(more, Replayed(NoJobs, Recs(more)), q)
<1> DEFINE pos == q.pos  first == SubSeq(cells, 1, pos)
           s == Scan(cells, pos, Chunk).records  t == Scan(more, pos, Chunk).records
<1>1. /\ Len(cells) \in Nat /\ Len(more) \in Nat /\ pos \in 1..Len(cells) /\ pos \in 1..Len(more)
      /\ Ends(first) = pos
  BY RecsFacts DEF ReadsFrom
<1>2. first = SubSeq(more, 1, pos)
  <2>1. first \in Seq(Cell) /\ Len(first) = pos /\ \A k \in 1..pos : first[k] = cells[k]
    BY <1>1, Beginning DEF Plain
  <2> DEFINE other == SubSeq(more, 1, pos)
  <2>2. other \in Seq(Cell) /\ Len(other) = pos /\ \A k \in 1..pos : other[k] = more[k]
    BY <1>1, Beginning DEF Plain
  <2>3. \A k \in 1..pos : first[k] = other[k]
    BY <2>1, <2>2
  <2> HIDE DEF first, other
  <2> QED
    BY <2>1, <2>2, <2>3, SeqEqual DEF other
<1>3. Glued(Recs(first), s, Recs(cells))
  BY <1>1, ReadOnGlued
<1>4. Glued(Recs(first), t, Recs(more))
  <2>1. Ends(SubSeq(more, 1, pos)) = pos
    BY <1>1, <1>2
  <2>2. Glued(Recs(SubSeq(more, 1, pos)), t, Recs(more))
    BY <1>1, <2>1, ReadOnGlued
  <2> QED
    BY <1>2, <2>2
<1>5. \A j \in Job : (\A x \in ToSet(s) : x.job # j) => q.idx[j] = Replayed(NoJobs, Recs(cells))[j]
  BY DEF ReadsFrom
<1>6. s \in Seq(Records) /\ Recs(cells) \in Seq(Records)
  BY <1>3, RecsFacts DEF Glued
<1>7. \A j \in Job : (\A x \in ToSet(t) : x.job # j) => q.idx[j] = Replayed(NoJobs, Recs(more))[j]
  <2>1. CASE Recs(more) = Recs(cells)
    <3> HIDE DEF first, s, t
    <3>1. t = s
      BY <1>3, <1>4, <2>1, GluedOnce
    <3> QED
      BY <1>5, <2>1, <3>1
  <2>2. CASE \E r \in Records : Recs(more) = Recs(cells) \o <<r>>
    <3>1. PICK r \in Records : Recs(more) = Recs(cells) \o <<r>>
      BY <2>2
    <3> HIDE DEF first, s, t
    <3>2. Glued(Recs(first), s \o <<r>>, Recs(more))
      BY <1>3, <3>1, GluedOne
    <3>3. t = s \o <<r>>
      BY <1>4, <3>2, GluedOnce
    <3>4. ToSet(t) = ToSet(s) \cup {r}
      BY <1>6, <3>3, AppendedRecord
    <3> DEFINE all == Replayed(NoJobs, Recs(cells))
    <3>5. Replayed(NoJobs, Recs(more)) = Apply(all, r)
      <4> DEFINE old == Recs(cells)  longer == old \o <<r>>
      <4>1. Replayed(NoJobs, longer) = Apply(Replayed(NoJobs, old), r)
        BY <1>6, NoJobsTyped, ReplayedAppended
      <4>2. Recs(more) = longer
        BY <3>1
      <4> HIDE DEF longer
      <4> QED
        BY <4>1, <4>2
    <3>6. all \in [Job -> Status]
      BY <1>6, NoJobsTyped, ReplayedFacts
    <3> HIDE DEF all
    <3>7. \A j \in Job : r.job # j => Apply(all, r)[j] = all[j]
      BY <3>6 DEF Apply
    <3> QED
      BY <1>5, <3>4, <3>5, <3>7 DEF all
  <2> QED
    BY <2>1, <2>2
<1>8. Ends(SubSeq(more, 1, pos)) = pos
  BY <1>1, <1>2
<1> QED
  BY <1>1, <1>7, <1>8 DEF ReadsFrom

\* A process that has read all of a log reads on from its end.
LEMMA ReadsFromEnd ==
  ASSUME NEW cells, Plain(cells), Ends(cells) = Len(cells), NEW q, q.pos = Len(cells),
         NEW all, q.idx = all
  PROVE  ReadsFrom(cells, all, q)
<1>1. cells \in Seq(Cell) /\ Len(cells) \in Nat /\ Len(cells) >= 1
  BY RecsFacts DEF Plain
<1>2. SubSeq(cells, 1, Len(cells)) = cells
  BY <1>1, SubSeqFull
<1>3. q.pos \in 1..Len(cells) /\ SubSeq(cells, 1, q.pos) = cells
  BY <1>1, <1>2
<1>4. Ends(SubSeq(cells, 1, q.pos)) = q.pos
  BY <1>3
<1>5. \A j \in Job : q.idx[j] = all[j]
  OBVIOUS
<1> QED
  BY <1>3, <1>4, <1>5, Zenon DEF ReadsFrom

LEMMA WorksFollows ==
  ASSUME NEW F, NEW D, NEW T, NEW A, NEW q, NEW g, WorksOn(F, D, q),
         F[LiveLog(D)] \in File, KeptFile(T, A, F[LiveLog(D)], g), Generation(D) \in Nat
  PROVE  Follows(F, D, q)
<1> DEFINE cells == F[LiveLog(D)].cells
<1>1. Plain(cells) /\ Ends(cells) = Len(cells) /\ q.pos = Len(cells) /\ q.idx = ContentsOf(F, D)
  BY KeptFileFacts DEF WorksOn
<1>2. ReadsFrom(cells, ContentsOf(F, D), q)
  BY <1>1, ReadsFromEnd
<1>3. q.gen = Generation(D) /\ q.gen <= Generation(D) /\ q.log = LiveLog(D) /\ LiveLog(D) # None
  BY DEF WorksOn
<1> QED
  BY <1>2, <1>3 DEF Follows

\* Who follows, goes on to where the live log is what it was.
LEMMA FollowsSame ==
  ASSUME NEW F, NEW D, NEW q, Follows(F, D, q), NEW G, NEW E,
         Generation(E) = Generation(D), LiveLog(E) = LiveLog(D), G[LiveLog(D)] = F[LiveLog(D)]
  PROVE  Follows(G, E, q)
BY DEF Follows, ContentsOf

LEMMA WorksSame ==
  ASSUME NEW F, NEW D, NEW q, WorksOn(F, D, q), NEW G, NEW E,
         Generation(E) = Generation(D), LiveLog(E) = LiveLog(D), G[LiveLog(D)] = F[LiveLog(D)]
  PROVE  WorksOn(G, E, q)
BY DEF WorksOn, ContentsOf

LEMMA DownFollows ==
  ASSUME NEW F, NEW D
  PROVE  Down \in Queues /\ Follows(F, D, Down)
BY StorageAssumption DEF Down, Queues, Follows, NoJobs, Status

-----------------------------------------------------------------------------
(***************************************************************************)
(* What the invariant says of the files that the directories lead to.      *)
(***************************************************************************)
LEMMA ImageFinite ==
  ASSUME NEW S, IsFiniteSet(S), NEW f, NEW T, T = {f[x] : x \in S}
  PROVE  IsFiniteSet(T) /\ Cardinality(T) \in Nat /\ Cardinality(T) <= Cardinality(S)
<1> DEFINE g == [x \in S |-> f[x]]
<1>1. g \in Surjection(S, T)
  BY DEF Surjection
<1>2. IsFiniteSet(T) /\ Cardinality(T) <= Cardinality(S)
  BY <1>1, FS_Surjection
<1> QED
  BY <1>2, FS_CardinalityType

\* A fresh inode is one that nothing refers to.
LEMMA FreshFacts ==
  /\ Fresh \in Ino /\ Fresh # None
  /\ \A g \in 0..MaxGen : Fresh # dir.log[g] /\ Fresh # disk.log[g]
  /\ \A p \in Proc : Fresh # proc[p].log
<1> DEFINE S == 0..MaxGen  U == {dir.log[g] : g \in S}  V == {disk.log[g] : g \in S}
           h == [p \in Proc |-> proc[p].log]  W == {h[p] : p \in Proc}
           all == U \cup V \cup W
           used == Names({dir, disk}) \cup {proc[p].log : p \in Proc}
<1>1. MaxGen \in Nat /\ IsFiniteSet(S) /\ Cardinality(S) = MaxGen + 1
  BY StorageAssumption, FS_Interval
<1>2. IsFiniteSet(U) /\ Cardinality(U) \in Nat /\ Cardinality(U) <= MaxGen + 1
  <2> HIDE DEF S
  <2> QED
    BY <1>1, ImageFinite
<1>3. IsFiniteSet(V) /\ Cardinality(V) \in Nat /\ Cardinality(V) <= MaxGen + 1
  <2> HIDE DEF S
  <2> QED
    BY <1>1, ImageFinite
<1>4. IsFiniteSet(W) /\ Cardinality(W) \in Nat /\ Cardinality(W) <= Cardinality(Proc)
      /\ Cardinality(Proc) \in Nat
  <2> HIDE DEF h
  <2> QED
    BY InodesSuffice, ImageFinite, FS_CardinalityType
<1>5. used = all
  BY DEF Names
<1> HIDE DEF U, V, W, S
<1>6. /\ IsFiniteSet(U \cup V) /\ Cardinality(U \cup V) \in Nat
      /\ Cardinality(U \cup V) <= Cardinality(U) + Cardinality(V)
  <2>1. /\ IsFiniteSet(U \cup V)
        /\ Cardinality(U \cup V) = Cardinality(U) + Cardinality(V) - Cardinality(U \cap V)
    BY <1>2, <1>3, FS_Union
  <2>2. IsFiniteSet(U \cap V)
    BY <1>2, FS_Subset
  <2> QED
    BY <1>2, <1>3, <2>1, <2>2, FS_CardinalityType
<1> DEFINE X == U \cup V
<1> HIDE DEF X
<1>7. /\ IsFiniteSet(X \cup W) /\ Cardinality(X \cup W) \in Nat
      /\ Cardinality(X \cup W) <= Cardinality(X) + Cardinality(W)
  <2>0. IsFiniteSet(X) /\ Cardinality(X) \in Nat
    BY <1>6 DEF X
  <2>1. /\ IsFiniteSet(X \cup W)
        /\ Cardinality(X \cup W) = Cardinality(X) + Cardinality(W) - Cardinality(X \cap W)
    BY <1>4, <2>0, FS_Union
  <2>2. IsFiniteSet(X \cap W)
    BY <2>0, FS_Subset
  <2> QED
    BY <1>4, <2>0, <2>1, <2>2, FS_CardinalityType
<1>8. all = X \cup W
  BY DEF X
<1> HIDE DEF all
<1>9. IsFiniteSet(all) /\ Cardinality(all) \in Nat
      /\ Cardinality(all) <= 2 * (MaxGen + 1) + Cardinality(Proc)
  <2>1. Cardinality(X) <= 2 * (MaxGen + 1) /\ Cardinality(X) \in Nat
    BY <1>1, <1>2, <1>3, <1>6 DEF X
  <2> QED
    BY <1>1, <1>4, <1>7, <1>8, <2>1
<1>10. \E i \in Ino : i \notin all
  <2> SUFFICES ASSUME Ino \subseteq all PROVE FALSE
    OBVIOUS
  <2>1. IsFiniteSet(Ino) /\ Cardinality(Ino) <= Cardinality(all)
    BY <1>9, FS_Subset
  <2>2. Cardinality(Ino) \in Nat /\ Cardinality(Ino) > 2 * (MaxGen + 1) + Cardinality(Proc)
    <3>1. IsFiniteSet(Ino)
      BY <2>1
    <3> QED
      BY <3>1, InodesSuffice, FS_CardinalityType
  <2> QED
    BY <1>1, <1>4, <1>9, <2>1, <2>2
<1>11. Fresh \in Ino /\ Fresh \notin all
  <2>1. Fresh = CHOOSE i \in Ino : i \notin used
    BY DEF Fresh
  <2> HIDE DEF used
  <2> QED
    BY <1>5, <1>10, <2>1
<1> QED
  BY <1>11, StorageAssumption DEF all, U, V, W, S

\* Where the directories lead.
LEMMA LiveFacts ==
  ASSUME NEW K, Inv(files, dir, K, proc, op, tried, acked, faults)
  PROVE  /\ files \in [Ino -> GoodFile] /\ dir \in Dirs /\ K \in Dirs /\ proc \in [Proc -> Queues]
         /\ op \in Ops /\ acked \subseteq tried /\ tried \subseteq Records /\ faults \in 0..MaxFaults
         /\ \A d \in {dir, K} : /\ Generation(d) \in 0..MaxGen /\ LiveLog(d) \in Ino \cup {None}
                                   /\ LiveLog(d) = d.log[Generation(d)]
         /\ MaxGen \in Nat /\ MaxFaults \in Nat
         /\ IsFiniteSet(tried) /\ DonesAdded(tried)
         /\ AnchoredIn(dir, K, op, tried) /\ LogsKeepIn(files, dir, K, op, tried, acked)
         /\ InPlace(files, dir, K, proc, op, tried, acked)
         /\ \A p \in Proc : Follows(files, dir, proc[p])
<1>1. Inv(files, dir, K, proc, op, tried, acked, faults)
  OBVIOUS
<1>2. dir \in Dirs /\ K \in Dirs
  BY <1>1 DEF Inv, Shape
<1>3. MaxGen \in Nat /\ MaxFaults \in Nat
  BY StorageAssumption
<1>4. \A d \in {dir, K} : /\ Generation(d) \in 0..MaxGen /\ LiveLog(d) \in Ino \cup {None}
                             /\ LiveLog(d) = d.log[Generation(d)]
  BY <1>2, GenerationTyped
<1> QED
  BY <1>1, <1>3, <1>4 DEF Inv, Shape

\* The log that a process works on.
LEMMA AtWork ==
  ASSUME NEW K, Inv(files, dir, K, proc, op, tried, acked, faults),
         NEW p \in Proc, WorksOn(files, dir, proc[p]), op.at # "created"
  PROVE  /\ LiveLog(dir) \in Ino /\ LiveLog(dir) # None
         /\ proc[p].gen = Generation(dir) /\ proc[p].log = LiveLog(dir)
         /\ files[LiveLog(dir)] \in File
         /\ KeptFile(tried, acked, files[LiveLog(dir)], Generation(dir))
         /\ dir.log[Generation(dir)] = K.log[Generation(dir)]
         /\ dir.log[Generation(K)] = K.log[Generation(K)]
         /\ ~UnbornIn(dir, K, op, tried)
         /\ Kept(files, tried, acked, LiveLog(K), Generation(K))
         /\ proc[p].idx = Replayed(NoJobs, Recs(files[LiveLog(dir)].cells))
         /\ proc[p].end = Len(files[LiveLog(dir)].cells)
         /\ proc[p].pos = Len(files[LiveLog(dir)].cells)
         /\ Ends(files[LiveLog(dir)].cells) = Len(files[LiveLog(dir)].cells)
<1>1. /\ proc[p].log = LiveLog(dir) /\ LiveLog(dir) # None /\ proc[p].gen = Generation(dir)
      /\ proc[p].idx = ContentsOf(files, dir)
      /\ proc[p].end = Len(files[LiveLog(dir)].cells)
      /\ proc[p].pos = Len(files[LiveLog(dir)].cells)
      /\ Ends(files[LiveLog(dir)].cells) = Len(files[LiveLog(dir)].cells)
  BY DEF WorksOn
<1>2. LiveLog(dir) \in Ino
  BY <1>1, LiveFacts
<1>3. Kept(files, tried, acked, LiveLog(dir), Generation(dir))
  BY <1>1, LiveFacts DEF LogsKeepIn
<1>4. ~UnbornIn(dir, K, op, tried)
  BY <1>1, LiveFacts DEF UnbornIn, LiveLog, Generation
<1>5. \A d \in {dir, K} : dir.log[Generation(d)] = K.log[Generation(d)]
  BY <1>4, LiveFacts DEF AnchoredIn
<1>6. Kept(files, tried, acked, LiveLog(K), Generation(K))
  BY <1>4, LiveFacts DEF LogsKeepIn
<1>7. files[LiveLog(dir)] \in File
  BY <1>2, LiveFacts DEF GoodFile
<1> QED
  BY <1>1, <1>2, <1>3, <1>4, <1>5, <1>6, <1>7 DEF Kept, ContentsOf

\* An operation ends, and nothing on the disk has changed.
LEMMA Quiet ==
  ASSUME NEW K, Inv(files, dir, K, proc, op, tried, acked, faults),
         UNCHANGED <<files, dir, tried, acked>>, op' = Free,
         op.at \notin {"created", "flipped"},
         proc' \in [Proc -> Queues], faults' \in 0..MaxFaults,
         \A p \in Proc : Follows(files, dir, proc'[p])
  PROVE  Inv(files', dir', K, proc', op', tried', acked', faults')
<1>1. files' = files /\ dir' = dir /\ tried' = tried /\ acked' = acked
  OBVIOUS
<1>2. Free \in Ops /\ Free.at = "free" /\ Free.by = None
  BY DEF Free, Ops
<1>3. Shape(files', dir', K, proc', op', tried', acked', faults')
  BY <1>1, <1>2, LiveFacts DEF Shape
<1>4. UnbornIn(dir', K, op', tried') <=> UnbornIn(dir, K, op, tried)
  BY <1>1, <1>2 DEF UnbornIn
<1>5. AnchoredIn(dir', K, op', tried')
  BY <1>1, <1>2, <1>4, LiveFacts DEF AnchoredIn
<1>6. LogsKeepIn(files', dir', K, op', tried', acked')
  BY <1>1, <1>4, LiveFacts DEF LogsKeepIn
<1>7. InPlace(files', dir', K, proc', op', tried', acked')
  BY <1>1, <1>2, LiveFacts DEF InPlace
<1> QED
  BY <1>1, <1>3, <1>5, <1>6, <1>7, LiveFacts DEF Inv

-----------------------------------------------------------------------------
(***************************************************************************)
(* Every step keeps the invariant.                                         *)
(***************************************************************************)
\* What may go wrong, of what the model has: everything but a failure between taking up a
\* log and setting the read position in it, and a power cut between a sync of the directory
\* that was passed over and the next.
Covered == Faults \cap {"reopen", "switch", "powersync"} = {}

LEMMA LeaveKeeps ==
  ASSUME NEW K, Inv(files, dir, K, proc, op, tried, acked, faults),
         NEW p \in Proc, Leave(p)
  PROVE  Inv(files', dir', K, proc', op', tried', acked', faults')
BY LiveFacts, Quiet DEF Leave, At

LEMMA StopKeeps ==
  ASSUME NEW K, Inv(files, dir, K, proc, op, tried, acked, faults),
         NEW p \in Proc, Stop(p)
  PROVE  Inv(files', dir', K, proc', op', tried', acked', faults')
<1>1. proc' \in [Proc -> Queues] /\ \A q \in Proc : Follows(files, dir, proc'[q])
  BY LiveFacts, DownFollows DEF Stop
<1>2. op' = Free /\ op.at \notin {"created", "flipped"}
  BY DEF Stop, Free
<1> QED
  BY <1>1, <1>2, LiveFacts, Quiet DEF Stop

\* An operation ends, and the directory that everybody sees is relied on from now on.
LEMMA Abandoned ==
  ASSUME NEW K, Inv(files, dir, K, proc, op, tried, acked, faults),
         UNCHANGED <<files, dir, tried, acked>>, op' = Free, LiveLog(dir) # None,
         proc' \in [Proc -> Queues], faults' \in 0..MaxFaults,
         \A p \in Proc : Follows(files, dir, proc'[p])
  PROVE  Inv(files', dir', dir', proc', op', tried', acked', faults')
<1>1. files' = files /\ dir' = dir /\ tried' = tried /\ acked' = acked
  OBVIOUS
<1>2. Free \in Ops /\ Free.at = "free" /\ Free.by = None
  BY DEF Free, Ops
<1>3. Shape(files', dir', dir', proc', op', tried', acked', faults')
  BY <1>1, <1>2, LiveFacts DEF Shape
<1>4. AnchoredIn(dir', dir', op', tried')
  BY <1>2 DEF AnchoredIn
<1>5. LogsKeepIn(files', dir', dir', op', tried', acked')
  BY <1>1, LiveFacts DEF LogsKeepIn
<1>6. InPlace(files', dir', dir', proc', op', tried', acked')
  BY <1>2 DEF InPlace
<1> QED
  BY <1>1, <1>3, <1>4, <1>5, <1>6, LiveFacts DEF Inv

LEMMA KillKeeps ==
  ASSUME NEW K, Inv(files, dir, K, proc, op, tried, acked, faults), NEW p \in Proc, Kill(p)
  PROVE  /\ op.at \notin {"created", "flipped"} =>
              Inv(files', dir', K, proc', op', tried', acked', faults')
         /\ LiveLog(dir) # None =>
              Inv(files', dir', dir', proc', op', tried', acked', faults')
<1>1. proc' \in [Proc -> Queues] /\ \A q \in Proc : Follows(files, dir, proc'[q])
  BY LiveFacts, DownFollows DEF Kill
<1>2. faults' \in 0..MaxFaults
  BY LiveFacts DEF Kill, Fault
<1>3. UNCHANGED <<files, dir, tried, acked>> /\ op' = Free
  BY DEF Kill
<1> QED
  BY <1>1, <1>2, <1>3, Quiet, Abandoned

LEMMA SwitchBreaksKeeps ==
  ASSUME NEW K, Inv(files, dir, K, proc, op, tried, acked, faults),
         NEW p \in Proc, SwitchBreaks(p), Covered
  PROVE  Inv(files', dir', K, proc', op', tried', acked', faults')
<1>1. op.at = "committed" /\ op.by = p /\ op.at \notin {"created", "flipped"}
  BY DEF SwitchBreaks, At
<1>2. dir.current = proc[p].gen + 1
  BY <1>1, LiveFacts DEF InPlace
<1>3. Generation(dir) >= 1 /\ Generation(dir) \in Nat
  <2>1. dir.current # None
    BY <1>2, LiveFacts, StorageAssumption DEF Queues
  <2> QED
    BY <2>1, LiveFacts, GenerationTyped
<1> DEFINE q == [proc[p] EXCEPT !.log = None, !.gen = 0]
<1>4. q \in Queues /\ q.gen = 0
  <2>1. proc[p] \in Queues /\ 0 \in 0..MaxGen /\ None \in Ino \cup {None}
    BY LiveFacts
  <2> QED
    BY <2>1 DEF Queues
<1> HIDE DEF q
<1>5. Follows(files, dir, q)
  BY <1>3, <1>4 DEF Follows
<1>6. proc' = [proc EXCEPT ![p] = q] /\ faults' \in 0..MaxFaults
  <2>1. proc' = [proc EXCEPT ![p].log = None, ![p].gen = 0] /\ faults' \in 0..MaxFaults
    BY LiveFacts DEF SwitchBreaks, Fault, Covered
  <2> QED
    BY <2>1, LiveFacts DEF q
<1>7. proc' \in [Proc -> Queues] /\ \A r \in Proc : Follows(files, dir, proc'[r])
  BY <1>4, <1>5, <1>6, LiveFacts
<1> QED
  BY <1>1, <1>6, <1>7, Quiet DEF SwitchBreaks

\* The directory is synced.
LEMMA SyncDirectoryKeeps ==
  ASSUME NEW K, Inv(files, dir, K, proc, op, tried, acked, faults),
         NEW p \in Proc, SyncDirectory(p)
  PROVE  Inv(files', dir', dir', proc', op', tried', acked', faults')
<1>1. /\ files' = files /\ dir' = dir /\ proc' = proc /\ tried' = tried
      /\ acked' = acked /\ faults' \in 0..MaxFaults /\ op.by = p
      /\ \/ op.at = "created" /\ op' = [op EXCEPT !.at = "entered"]
         \/ op.at = "placed" /\ op' = [op EXCEPT !.at = "listed"]
         \/ op.at = "flipped" /\ op' = [op EXCEPT !.at = "committed"]
  BY LiveFacts DEF SyncDirectory, Goto, Fault
<1>2. /\ op' \in Ops /\ op'.by = p /\ op'.new = op.new
      /\ \/ op.at = "created" /\ op'.at = "entered"
         \/ op.at = "placed" /\ op'.at = "listed"
         \/ op.at = "flipped" /\ op'.at = "committed"
  BY <1>1, LiveFacts DEF Ops
<1>3. Shape(files', dir', dir', proc', op', tried', acked', faults')
  BY <1>1, <1>2, LiveFacts DEF Shape
<1>4. AnchoredIn(dir', dir', op', tried')
  BY <1>1, <1>2 DEF AnchoredIn
<1>5. LogsKeepIn(files', dir', dir', op', tried', acked')
  <2>1. ASSUME LiveLog(dir) # None \/ ~UnbornIn(dir', dir', op', tried')
        PROVE  Kept(files, tried, acked, LiveLog(dir), Generation(dir))
    <3>1. CASE LiveLog(dir) # None
      BY <3>1, LiveFacts DEF LogsKeepIn
    <3>2. CASE LiveLog(dir) = None
      <4>1. ~UnbornIn(dir, K, op, tried)
        BY <1>1, <2>1, <3>2, LiveFacts DEF UnbornIn, LiveLog, Generation
      <4> QED
        BY <4>1, LiveFacts DEF LogsKeepIn
    <3> QED
      BY <3>1, <3>2
  <2> QED
    BY <1>1, <2>1 DEF LogsKeepIn
<1>6. InPlace(files', dir', dir', proc', op', tried', acked')
  <2>1. op'.by # None /\ op'.at # "free"
    BY <1>2, StorageAssumption
  <2> QED
    BY <1>1, <1>2, <2>1, LiveFacts DEF InPlace
<1> QED
  BY <1>1, <1>3, <1>4, <1>5, <1>6, LiveFacts DEF Inv

\* The first log is created.
LEMMA CreateKeeps ==
  ASSUME NEW K, Inv(files, dir, K, proc, op, tried, acked, faults),
         K \in {dir, disk}, NEW p \in Proc, Create(p)
  PROVE  Inv(files', dir', K, proc', op', tried', acked', faults')
<1> DEFINE x == Fresh  file == Synced(<<FileHeader(0)>>)
<1>1. LiveLog(dir) = None /\ op = Free
  BY DEF Create
<1>2. UnbornIn(dir, K, op, tried)
  BY <1>1, LiveFacts DEF LogsKeepIn, Kept
<1>3. /\ tried = {} /\ acked = {} /\ dir.current = None /\ K.current = None
      /\ K.log[0] = None /\ Generation(dir) = 0 /\ Generation(K) = 0
      /\ LiveLog(K) = None
  BY <1>2, LiveFacts DEF UnbornIn, Generation, LiveLog
<1>4. x \in Ino /\ x # None
  BY FreshFacts
<1> HIDE DEF x
<1>5. /\ files' = [files EXCEPT ![x] = file] /\ dir' = [dir EXCEPT !.log[0] = x]
      /\ proc' = proc /\ tried' = tried /\ acked' = acked /\ faults' = faults
      /\ op' = [by |-> p, at |-> "created", new |-> None]
  BY <1>3 DEF Create, Take, x
<1>6. file \in GoodFile /\ KeptFile({}, {}, file, 0)
  <2>1. 0 \in 0..MaxGen
    BY LiveFacts
  <2> QED
    BY <2>1, KeptNew, KeptFileFacts
<1> HIDE DEF file
<1>7. /\ files' \in [Ino -> GoodFile] /\ files'[x] = file
      /\ op' \in Ops /\ op'.at = "created" /\ op'.by = p
  BY <1>4, <1>5, <1>6, LiveFacts DEF Ops
<1>8. /\ dir' \in Dirs /\ dir'.log[0] = x /\ dir'.current = None
      /\ Generation(dir') = 0 /\ LiveLog(dir') = x
  <2>1. 0 \in 0..MaxGen /\ dir.log \in [0..MaxGen -> Ino \cup {None}]
    BY LiveFacts DEF Dirs
  <2> QED
    BY <1>3, <1>4, <1>5, <2>1, LiveFacts DEF Dirs, Generation, LiveLog
<1>9. Shape(files', dir', K, proc', op', tried', acked', faults')
  BY <1>5, <1>7, <1>8, LiveFacts DEF Shape
<1>10. UnbornIn(dir', K, op', tried')
  BY <1>3, <1>5, <1>7, <1>8 DEF UnbornIn
<1>11. AnchoredIn(dir', K, op', tried')
  BY <1>10 DEF AnchoredIn
<1>12. LogsKeepIn(files', dir', K, op', tried', acked')
  <2>1. Kept(files', tried', acked', LiveLog(dir'), Generation(dir'))
    BY <1>3, <1>4, <1>5, <1>6, <1>7, <1>8 DEF Kept
  <2>2. LiveLog(K) = None
    BY <1>3, <1>5
  <2> QED
    BY <1>10, <2>1, <2>2 DEF LogsKeepIn
<1>13. InPlace(files', dir', K, proc', op', tried', acked')
  BY <1>3, <1>5, <1>7, <1>8, StorageAssumption DEF InPlace
<1>14. \A q \in Proc : Follows(files', dir', proc'[q])
  <2>1. ASSUME NEW q \in Proc PROVE ~proc[q].up
    <3>1. proc[q] \in Queues /\ proc[q].gen \in 0..MaxGen
      BY LiveFacts DEF Queues
    <3> QED
      BY <1>1, <1>3, <3>1, LiveFacts DEF Follows
  <2> QED
    BY <1>5, <2>1 DEF Follows
<1> QED
  BY <1>5, <1>9, <1>11, <1>12, <1>13, <1>14, LiveFacts DEF Inv

\* Compaction writes its new log.
LEMMA WriteNewKeeps ==
  ASSUME NEW K, Inv(files, dir, K, proc, op, tried, acked, faults),
         K \in {dir, disk}, NEW p \in Proc, WriteNew(p)
  PROVE  Inv(files', dir', K, proc', op', tried', acked', faults')
<1> DEFINE x == Fresh  q == proc[p]  g == q.gen + 1  L == LiveLog(dir)  G == Generation(dir)
           live == LiveIn(q.idx)  cells == Snapshot(p)  new == Synced(cells)
<1>1. op.at = "inside" /\ op.by = p /\ WorksOn(files, dir, q) /\ g <= MaxGen
  BY LiveFacts DEF WriteNew, At, Target, InPlace
<1>2. /\ L \in Ino /\ q.gen = G /\ files[L] \in File /\ KeptFile(tried, acked, files[L], G)
      /\ ~UnbornIn(dir, K, op, tried)
      /\ q.idx = Replayed(NoJobs, Recs(files[L].cells))
  BY <1>1, AtWork
<1>3. x \in Ino /\ x # None /\ (\A h \in 0..MaxGen : x # dir.log[h] /\ x # K.log[h])
      /\ \A r \in Proc : x # proc[r].log
  BY FreshFacts
<1>4. x # LiveLog(dir) /\ x # LiveLog(K)
  BY <1>3, LiveFacts
<1>5. /\ files' = [files EXCEPT ![x] = new] /\ op' = [op EXCEPT !.at = "written", !.new = x]
      /\ dir' = dir /\ proc' = proc /\ tried' = tried /\ acked' = acked
      /\ faults' = faults
  BY DEF WriteNew
<1>6. g \in 0..MaxGen
  BY <1>1, <1>2, LiveFacts
<1>7. live \subseteq Job /\ IsFiniteSet(live)
  <2> DEFINE all == Recs(files[L].cells)
  <2>1. all \in Seq(Records) /\ Orderly(all) /\ ToSet(all) \subseteq tried
    BY <1>2, KeptFileFacts DEF KeptFile, Promised
  <2> HIDE DEF all
  <2>2. \A j \in live : Add(j) \in ToSet(all)
    BY <1>2, <2>1, OrderlyStatus DEF LiveIn, StatusIn, all
  <2>3. live \subseteq Job
    BY DEF LiveIn
  <2> QED
    BY <2>1, <2>2, <2>3, LiveFacts, LiveFinite
<1>8. /\ Plain(cells) /\ cells[1] = FileHeader(g) /\ Ends(cells) = Len(cells)
      /\ ToSet(Recs(cells)) = {Add(j) : j \in live}
  <2>1. cells = <<FileHeader(g)>> \o FlattenSeq([i \in 1..Cardinality(live) |->
                                                  Encoded(Add(SetToSeq(live)[i]))])
    BY DEF Snapshot, Target, LiveIn
  <2> HIDE DEF cells, live, g
  <2> QED
    BY <1>6, <1>7, <2>1, SnapshotFacts
<1> HIDE DEF cells, x
<1>9. /\ new \in File /\ new.cells = cells /\ new.synced = Len(cells) /\ Len(cells) \in 1..Len(cells)
  BY <1>8, SyncedFile
<1> HIDE DEF new
<1>10. IsLog(new, g)
  BY <1>8, <1>9 DEF IsLog, Plain
<1>11. KeptFile(tried, acked, new, g)
  <2>1. live = {j \in Job : Replayed(NoJobs, Recs(files[L].cells))[j] = "live"}
    BY <1>2 DEF LiveIn
  <2> HIDE DEF live, g, L, G
  <2> QED
    BY <1>2, <1>8, <1>9, <1>10, <2>1, KeptCompacted
<1>12. new \in GoodFile
  BY <1>9, <1>11, KeptFileFacts
<1>13. /\ files' \in [Ino -> GoodFile] /\ files'[x] = new /\ \A i \in Ino : i # x => files'[i] = files[i]
       /\ op' \in Ops /\ op'.at = "written" /\ op'.by = p /\ op'.new = x
  BY <1>1, <1>3, <1>5, <1>12, LiveFacts DEF Ops
<1>14. files'[LiveLog(dir)] = files[LiveLog(dir)]
  BY <1>2, <1>4, <1>13
<1>15. Shape(files', dir', K, proc', op', tried', acked', faults')
  BY <1>5, <1>13, LiveFacts DEF Shape
<1>16. ~UnbornIn(dir', K, op', tried')
  BY <1>1, <1>2, <1>5, <1>13 DEF UnbornIn
<1>17. AnchoredIn(dir', K, op', tried')
  BY <1>2, <1>5, <1>13, LiveFacts DEF AnchoredIn
<1>18. LogsKeepIn(files', dir', K, op', tried', acked')
  <2>1. ASSUME NEW d \in {dir, K} PROVE Kept(files', tried', acked', LiveLog(d), Generation(d))
    <3>1. Kept(files, tried, acked, LiveLog(d), Generation(d))
      BY <1>2, LiveFacts DEF LogsKeepIn
    <3>2. LiveLog(d) \in Ino /\ LiveLog(d) # x
      BY <1>4, <3>1, LiveFacts DEF Kept
    <3> QED
      BY <1>5, <1>13, <3>1, <3>2 DEF Kept
  <2> QED
    BY <1>5, <2>1 DEF LogsKeepIn
<1>19. InPlace(files', dir', K, proc', op', tried', acked')
  <2>1. WorksOn(files', dir', proc'[p])
    BY <1>1, <1>5, <1>14, WorksSame
  <2>2. Made(files', tried', acked', proc'[p], x)
    BY <1>1, <1>3, <1>5, <1>8, <1>9, <1>11, <1>13 DEF Made, Kept
  <2>3. dir'.current = K.current
    BY <1>1, <1>5, LiveFacts DEF InPlace
  <2> QED
    BY <1>13, <2>1, <2>2, <2>3, StorageAssumption DEF InPlace
<1>20. \A r \in Proc : Follows(files', dir', proc'[r])
  BY <1>5, <1>14, LiveFacts, FollowsSame
<1> QED
  BY <1>5, <1>15, <1>17, <1>18, <1>19, <1>20, LiveFacts DEF Inv

Renames(e, d, g, x) == e = [d EXCEPT !.log[g] = x]

LEMMA Renamed ==
  ASSUME NEW d \in Dirs, NEW g \in 0..MaxGen, NEW x \in Ino \cup {None},
         NEW e, Renames(e, d, g, x)
  PROVE  /\ e \in Dirs /\ e.current = d.current /\ e.log[g] = x
         /\ \A h \in 0..MaxGen : h # g => e.log[h] = d.log[h]
<1> DEFINE m == [d.log EXCEPT ![g] = x]
<1>1. d = [log |-> d.log, current |-> d.current] /\ d.current \in 1..MaxGen \cup {None}
      /\ d.log \in [0..MaxGen -> Ino \cup {None}]
  BY DEF Dirs
<1>2. m \in [0..MaxGen -> Ino \cup {None}] /\ m[g] = x /\ \A h \in 0..MaxGen : h # g => m[h] = d.log[h]
  BY <1>1
<1>3. e = [log |-> m, current |-> d.current]
  BY <1>1 DEF Renames
<1> HIDE DEF m
<1>4. e.log = m /\ e.current = d.current
  BY <1>3
<1>5. e \in Dirs
  BY <1>1, <1>2, <1>3 DEF Dirs
<1> QED
  BY <1>2, <1>4, <1>5

\* A name beside the live ones changes.
LEMMA Beside ==
  ASSUME NEW K, Inv(files, dir, K, proc, op, tried, acked, faults),
         NEW p \in Proc, WorksOn(files, dir, proc[p]), op.at \in {"inside", "written", "listed"},
         proc[p].gen + 1 <= MaxGen, NEW x \in Ino \cup {None},
         Renames(dir', dir, proc[p].gen + 1, x),
         UNCHANGED <<files, proc, tried, acked>>,
         op' \in Ops, op'.at # "created"
  PROVE  /\ dir' \in Dirs /\ dir'.current = dir.current /\ dir.current = K.current
         /\ dir'.log[proc[p].gen + 1] = x
         /\ Generation(dir') = Generation(dir) /\ LiveLog(dir') = LiveLog(dir)
         /\ AnchoredIn(dir', K, op', tried')
         /\ LogsKeepIn(files', dir', K, op', tried', acked')
         /\ WorksOn(files', dir', proc'[p])
         /\ \A r \in Proc : Follows(files', dir', proc'[r])
<1> DEFINE g == proc[p].gen + 1
<1>1. /\ LiveLog(dir) \in Ino /\ proc[p].gen = Generation(dir)
      /\ dir.log[Generation(dir)] = K.log[Generation(dir)] /\ ~UnbornIn(dir, K, op, tried)
      /\ Kept(files, tried, acked, LiveLog(K), Generation(K))
  BY AtWork
<1>2. g \in 0..MaxGen /\ g # Generation(dir) /\ Generation(dir) \in 0..MaxGen
      /\ dir.log \in [0..MaxGen -> Ino \cup {None}]
  BY <1>1, LiveFacts DEF Dirs
<1> HIDE DEF g
<1>3. Renames(dir', dir, g, x)
  BY DEF g
<1>4. /\ dir' \in Dirs /\ dir'.current = dir.current /\ dir'.log[g] = x
      /\ dir'.log[Generation(dir)] = dir.log[Generation(dir)]
  <2>1. dir \in Dirs /\ g \in 0..MaxGen /\ x \in Ino \cup {None}
    BY <1>2, LiveFacts
  <2>2. /\ dir' \in Dirs /\ dir'.current = dir.current /\ dir'.log[g] = x
        /\ \A h \in 0..MaxGen : h # g => dir'.log[h] = dir.log[h]
    BY <1>3, <2>1, Renamed
  <2>3. Generation(dir) \in 0..MaxGen /\ Generation(dir) # g
    BY <1>2
  <2>4. dir'.log[Generation(dir)] = dir.log[Generation(dir)]
    BY <2>2, <2>3, Zenon
  <2> QED
    BY <2>2, <2>4, Zenon
<1>5. Generation(dir') = Generation(dir) /\ LiveLog(dir') = LiveLog(dir)
  BY <1>4 DEF Generation, LiveLog
<1>6. dir.current = K.current /\ Generation(K) = Generation(dir) /\ LiveLog(K) = LiveLog(dir)
  <2>1. dir.current = K.current
    BY LiveFacts DEF InPlace
  <2> QED
    BY <1>1, <2>1 DEF Generation, LiveLog
<1>7. AnchoredIn(dir', K, op', tried')
  BY <1>1, <1>4, <1>5, <1>6 DEF AnchoredIn
<1>8. LogsKeepIn(files', dir', K, op', tried', acked')
  BY <1>1, <1>5, <1>6 DEF LogsKeepIn
<1>9. WorksOn(files', dir', proc'[p])
  BY <1>5, WorksSame
<1>10. \A r \in Proc : Follows(files', dir', proc'[r])
  BY <1>5, LiveFacts, FollowsSame
<1> QED
  BY <1>4, <1>5, <1>6, <1>7, <1>8, <1>9, <1>10 DEF g

\* The new log gets its name.
LEMMA PlaceKeeps ==
  ASSUME NEW K, Inv(files, dir, K, proc, op, tried, acked, faults),
         NEW p \in Proc, Place(p)
  PROVE  Inv(files', dir', K, proc', op', tried', acked', faults')
<1>1. op.at = "written" /\ op.by = p /\ WorksOn(files, dir, proc[p]) /\ proc[p].gen + 1 <= MaxGen
      /\ Made(files, tried, acked, proc[p], op.new) /\ op.new \in Ino \cup {None}
  BY LiveFacts DEF Place, At, InPlace, Made, Ops
<1>2. /\ Renames(dir', dir, proc[p].gen + 1, op.new) /\ files' = files
      /\ proc' = proc /\ tried' = tried /\ acked' = acked /\ faults' = faults
      /\ op' = [op EXCEPT !.at = "placed"]
  BY DEF Place, Goto, Target, Renames
<1>3. op' \in Ops /\ op'.at = "placed" /\ op'.by = p /\ op'.new = op.new
  BY <1>1, <1>2, LiveFacts DEF Ops
<1>4. /\ dir' \in Dirs /\ dir'.current = K.current /\ dir'.log[proc[p].gen + 1] = op.new
      /\ AnchoredIn(dir', K, op', tried')
      /\ LogsKeepIn(files', dir', K, op', tried', acked')
      /\ WorksOn(files', dir', proc'[p])
      /\ \A r \in Proc : Follows(files', dir', proc'[r])
  BY <1>1, <1>2, <1>3, Beside
<1>5. Shape(files', dir', K, proc', op', tried', acked', faults')
  BY <1>2, <1>3, <1>4, LiveFacts DEF Shape
<1>6. InPlace(files', dir', K, proc', op', tried', acked')
  BY <1>1, <1>2, <1>3, <1>4, StorageAssumption DEF InPlace
<1> QED
  BY <1>2, <1>4, <1>5, <1>6, LiveFacts DEF Inv

\* Compaction fails before the commit point.
LEMMA CompactBreaksKeeps ==
  ASSUME NEW K, Inv(files, dir, K, proc, op, tried, acked, faults),
         NEW p \in Proc, CompactBreaks(p)
  PROVE  Inv(files', dir', K, proc', op', tried', acked', faults')
<1>1. op.at \in {"inside", "written", "listed"} /\ op.by = p /\ WorksOn(files, dir, proc[p])
      /\ proc[p].gen + 1 <= MaxGen
  BY LiveFacts DEF CompactBreaks, InPlace, Target
<1>2. /\ Renames(dir', dir, proc[p].gen + 1, None) /\ files' = files
      /\ proc' = proc /\ tried' = tried /\ acked' = acked /\ faults' \in 0..MaxFaults /\ op' = Free
  BY LiveFacts DEF CompactBreaks, Target, Fault, Renames
<1>3. op' \in Ops /\ op'.at = "free" /\ op'.by = None
  BY <1>2 DEF Ops, Free
<1>4. /\ dir' \in Dirs /\ dir'.current = K.current
      /\ AnchoredIn(dir', K, op', tried')
      /\ LogsKeepIn(files', dir', K, op', tried', acked')
      /\ \A r \in Proc : Follows(files', dir', proc'[r])
  <2>1. None \in Ino \cup {None} /\ op'.at # "created"
    BY <1>3
  <2> QED
    BY <1>1, <1>2, <1>3, <2>1, Beside
<1>5. Shape(files', dir', K, proc', op', tried', acked', faults')
  BY <1>2, <1>3, <1>4, LiveFacts DEF Shape
<1>6. InPlace(files', dir', K, proc', op', tried', acked')
  BY <1>2, <1>3, <1>4 DEF InPlace
<1> QED
  BY <1>2, <1>4, <1>5, <1>6, LiveFacts DEF Inv

\* The pointer is replaced.
LEMMA FlipKeeps ==
  ASSUME NEW K, Inv(files, dir, K, proc, op, tried, acked, faults),
         NEW p \in Proc, Flip(p)
  PROVE  Inv(files', dir', K, proc', op', tried', acked', faults')
<1> DEFINE g == proc[p].gen + 1
<1>1. op.at = "listed" /\ op.by = p /\ WorksOn(files, dir, proc[p])
      /\ Made(files, tried, acked, proc[p], op.new) /\ dir.log[g] = op.new /\ K.log[g] = op.new
  BY LiveFacts DEF Flip, At, InPlace
<1>2. /\ dir' = [dir EXCEPT !.current = g] /\ files' = files /\ proc' = proc
      /\ tried' = tried /\ acked' = acked /\ faults' = faults /\ op' = [op EXCEPT !.at = "flipped"]
  BY DEF Flip, Goto, Target
<1>3. op' \in Ops /\ op'.at = "flipped" /\ op'.by = p /\ op'.new = op.new
  BY <1>1, <1>2, LiveFacts DEF Ops
<1>4. g <= MaxGen /\ Kept(files, tried, acked, op.new, g) /\ op.new # None
  BY <1>1 DEF Made, Kept
<1>5. /\ proc[p].gen = Generation(dir) /\ ~UnbornIn(dir, K, op, tried)
      /\ dir.log[Generation(K)] = K.log[Generation(K)]
      /\ Kept(files, tried, acked, LiveLog(K), Generation(K))
  BY <1>1, AtWork
<1>6. g \in 1..MaxGen /\ g # None /\ Generation(dir) < g /\ Generation(dir) \in Nat
  BY <1>4, <1>5, LiveFacts, StorageAssumption
<1> HIDE DEF g
<1>7. dir' \in Dirs /\ dir'.log = dir.log /\ dir'.current = g
  BY <1>2, <1>6, LiveFacts DEF Dirs
<1>8. Generation(dir') = g /\ LiveLog(dir') = op.new
  BY <1>1, <1>6, <1>7 DEF Generation, LiveLog
<1>9. Shape(files', dir', K, proc', op', tried', acked', faults')
  BY <1>2, <1>3, <1>7, LiveFacts DEF Shape
<1>10. AnchoredIn(dir', K, op', tried')
  BY <1>1, <1>2, <1>3, <1>5, <1>7, <1>8 DEF AnchoredIn
<1>11. LogsKeepIn(files', dir', K, op', tried', acked')
  BY <1>2, <1>4, <1>5, <1>8 DEF LogsKeepIn
<1>12. InPlace(files', dir', K, proc', op', tried', acked')
  <2>1. proc[p].up
    BY <1>1 DEF WorksOn
  <2>2. op'.by # None
    BY <1>3, StorageAssumption
  <2> QED
    BY <1>1, <1>2, <1>3, <1>7, <2>1, <2>2 DEF InPlace, g
<1>13. \A r \in Proc : Follows(files', dir', proc'[r])
  <2> SUFFICES ASSUME NEW r \in Proc, proc[r].up
               PROVE  proc[r].gen <= g /\ proc[r].gen # g
    BY <1>2, <1>8 DEF Follows
  <2>1. proc[r].gen <= Generation(dir) /\ proc[r].gen \in Nat
    BY LiveFacts DEF Follows, Queues
  <2> QED
    BY <1>6, <2>1
<1> QED
  BY <1>2, <1>9, <1>10, <1>11, <1>12, <1>13, LiveFacts DEF Inv

\* The index that a process takes along from a log it has compacted is what the new one says.
LEMMA Reduced ==
  ASSUME NEW T, NEW A, NEW file \in File, NEW g, KeptFile(T, A, file, g), NEW idx \in [Job -> Status],
         ToSet(Recs(file.cells)) = {Add(j) : j \in LiveIn(idx)}
  PROVE  Replayed(NoJobs, Recs(file.cells)) = [j \in Job |-> IF idx[j] = "live" THEN "live" ELSE "none"]
<1> DEFINE all == Recs(file.cells)
<1>1. all \in Seq(Records) /\ Orderly(all)
  BY KeptFileFacts DEF KeptFile, Promised
<1>2. Replayed(NoJobs, all) \in [Job -> Status]
  BY <1>1, NoJobsTyped, ReplayedFacts
<1> HIDE DEF all
<1>3. ASSUME NEW j \in Job
      PROVE  Replayed(NoJobs, all)[j] = IF idx[j] = "live" THEN "live" ELSE "none"
  <2>1. Replayed(NoJobs, all)[j] = StatusIn(ToSet(all), j)
    BY <1>1, OrderlyStatus
  <2>2. ToSet(all) = {Add(i) : i \in LiveIn(idx)} /\ LiveIn(idx) \subseteq Job
    BY DEF all, LiveIn
  <2>3. Done(j) \notin ToSet(all)
    BY <2>2, RecordFacts
  <2>4. Add(j) \in ToSet(all) <=> idx[j] = "live"
    <3>1. ASSUME NEW i \in Job, Add(i) = Add(j) PROVE i = j
      BY <3>1 DEF Add
    <3> QED
      BY <2>2, <3>1 DEF LiveIn
  <2> QED
    BY <2>1, <2>3, <2>4 DEF StatusIn
<1> QED
  BY <1>2, <1>3 DEF all

TakesUp(q, s, log, gen, n, idx) ==
  q = [s EXCEPT !.log = log, !.gen = gen, !.pos = n, !.end = n, !.idx = idx]

LEMMA TakenUp ==
  ASSUME NEW s \in Queues, NEW log \in Ino \cup {None}, NEW gen \in 0..MaxGen, NEW n \in Nat,
         NEW idx \in [Job -> Status], NEW q, TakesUp(q, s, log, gen, n, idx)
  PROVE  q \in Queues /\ q.up = s.up /\ q.log = log /\ q.gen = gen /\ q.pos = n /\ q.idx = idx
<1>1. q \in Queues
  BY DEF Queues, TakesUp
<1>2. q.up = s.up /\ q.log = log /\ q.gen = gen /\ q.pos = n /\ q.idx = idx
  BY DEF Queues, TakesUp
<1> QED
  BY <1>1, <1>2

\* The process takes up its new log.
LEMMA SwitchKeeps ==
  ASSUME NEW K, Inv(files, dir, K, proc, op, tried, acked, faults),
         NEW p \in Proc, Switch(p)
  PROVE  Inv(files', dir', K, proc', op', tried', acked', faults')
<1> DEFINE g == proc[p].gen + 1  new == op.new  n == Len(files[new].cells)
           idx == [j \in Job |-> IF proc[p].idx[j] = "live" THEN "live" ELSE "none"]
           q == [proc[p] EXCEPT !.log = new, !.gen = g, !.pos = n, !.end = n, !.idx = idx]
<1>1. op.at = "committed" /\ op.by = p /\ Made(files, tried, acked, proc[p], new)
      /\ dir.log[g] = new /\ K.log[g] = new /\ dir.current = K.current
      /\ proc[p].up /\ dir.current = g
  BY LiveFacts DEF Switch, At, InPlace
<1>2. g <= MaxGen /\ Kept(files, tried, acked, new, g) /\ new # None
  BY <1>1 DEF Made, Kept
<1>3. proc[p] \in Queues /\ proc[p].gen \in 0..MaxGen /\ proc[p].idx \in [Job -> Status]
  BY LiveFacts DEF Queues
<1>4. g \in 0..MaxGen /\ g # None /\ g \in Nat
  BY <1>2, <1>3, StorageAssumption
<1>5. new \in Ino /\ files[new] \in File /\ KeptFile(tried, acked, files[new], g) /\ files[new] \in GoodFile
  BY <1>2, LiveFacts DEF Kept, Ops, GoodFile
<1>6. Plain(files[new].cells) /\ n \in Nat /\ Ends(files[new].cells) = n
  BY <1>1, <1>5, KeptFileFacts DEF Made
<1>7. idx = Replayed(NoJobs, Recs(files[new].cells)) /\ idx \in [Job -> Status]
  <2>1. ToSet(Recs(files[new].cells)) = {Add(j) : j \in LiveIn(proc[p].idx)}
    BY <1>1 DEF Made
  <2>2. idx \in [Job -> Status]
    BY DEF Status
  <2> QED
    BY <1>3, <1>5, <2>1, <2>2, Reduced
<1>8. PICK swept \in SUBSET Stale(g) :
        dir' = [dir EXCEPT !.log = [h \in 0..MaxGen |-> IF h \in swept THEN None ELSE @[h]]]
  BY DEF Switch, Target
<1>9. /\ files' = files /\ tried' = tried /\ acked' = acked /\ faults' = faults
      /\ op' = Free /\ op' \in Ops /\ op'.at = "free" /\ op'.by = None
  BY DEF Switch, Free, Ops
<1>10. proc' = [proc EXCEPT ![p] = q]
  BY DEF Switch, Target
<1>100. TakesUp(q, proc[p], new, g, n, idx)
  BY DEF TakesUp
<1> HIDE DEF q
<1> HIDE DEF g, n, idx, new
<1>11. /\ dir' \in Dirs /\ dir'.current = dir.current /\ dir'.log[g] = dir.log[g]
  <2> DEFINE m == [h \in 0..MaxGen |-> IF h \in swept THEN None ELSE dir.log[h]]
  <2>1. dir = [log |-> dir.log, current |-> dir.current] /\ dir.current \in 1..MaxGen \cup {None}
        /\ dir.log \in [0..MaxGen -> Ino \cup {None}]
    BY LiveFacts DEF Dirs
  <2>2. g \notin swept
    BY <1>4 DEF Stale
  <2>3. m \in [0..MaxGen -> Ino \cup {None}] /\ m[g] = dir.log[g]
    BY <1>4, <2>1, <2>2
  <2>4. dir' = [log |-> m, current |-> dir.current]
    BY <1>8, <2>1
  <2> HIDE DEF m
  <2>5. dir'.log = m /\ dir'.current = dir.current
    BY <2>4
  <2> QED
    BY <2>1, <2>3, <2>4, <2>5 DEF Dirs
<1>12. /\ Generation(dir') = g /\ LiveLog(dir') = new /\ Generation(K) = g /\ LiveLog(K) = new
       /\ Generation(dir) = g /\ LiveLog(dir) = new
  BY <1>1, <1>4, <1>11 DEF Generation, LiveLog, g, new
<1>13. /\ q \in Queues /\ q.up /\ q.gen = g /\ q.log = new /\ q.pos = n /\ q.idx = idx
  BY <1>1, <1>3, <1>4, <1>5, <1>6, <1>7, <1>100, TakenUp
<1>14. Shape(files', dir', K, proc', op', tried', acked', faults')
  BY <1>9, <1>10, <1>11, <1>13, LiveFacts DEF Shape
<1>15. AnchoredIn(dir', K, op', tried')
  BY <1>1, <1>9, <1>11, <1>12 DEF AnchoredIn, g, new
<1>16. LogsKeepIn(files', dir', K, op', tried', acked')
  BY <1>2, <1>9, <1>12 DEF LogsKeepIn
<1>17. InPlace(files', dir', K, proc', op', tried', acked')
  BY <1>1, <1>9, <1>11 DEF InPlace
<1>18. \A r \in Proc : Follows(files', dir', proc'[r])
  <2>1. Follows(files', dir', q)
    <3>1. ContentsOf(files', dir') = idx
      BY <1>2, <1>7, <1>9, <1>12 DEF ContentsOf
    <3>2. ReadsFrom(files'[new].cells, idx, q)
      BY <1>6, <1>9, <1>13, ReadsFromEnd DEF n
    <3> QED
      BY <1>2, <1>4, <1>12, <1>13, <3>1, <3>2 DEF Follows
  <2>2. ASSUME NEW r \in Proc, r # p PROVE Follows(files', dir', proc[r])
    BY <1>9, <1>12, LiveFacts, FollowsSame
  <2> QED
    BY <1>10, <2>1, <2>2, LiveFacts
<1> QED
  BY <1>9, <1>14, <1>15, <1>16, <1>17, <1>18, LiveFacts DEF Inv

\* What an operation may want to write.
LEMMA WantedFacts ==
  ASSUME NEW K, Inv(files, dir, K, proc, op, tried, acked, faults),
         NEW p \in Proc, WorksOn(files, dir, proc[p]), op.at # "created", NEW r \in Wanted(p)
  PROVE  r \in Records /\ Fitting(tried, r)
<1> DEFINE all == Recs(files[LiveLog(dir)].cells)
<1>1. /\ proc[p].idx = Replayed(NoJobs, all) /\ files[LiveLog(dir)] \in File
      /\ KeptFile(tried, acked, files[LiveLog(dir)], Generation(dir))
  BY AtWork
<1>2. all \in Seq(Records) /\ Orderly(all) /\ ToSet(all) \subseteq tried
  BY <1>1, KeptFileFacts DEF KeptFile, Promised
<1> HIDE DEF all
<1>3. CASE r \in {Add(j) : j \in {k \in Job : {i \in Job : Add(i) \notin tried} = {i \in Job : i >= k}}}
  <2>1. PICK k \in Job : r = Add(k) /\ {i \in Job : Add(i) \notin tried} = {i \in Job : i >= k}
    BY <1>3
  <2>2. k >= k
    BY StorageAssumption
  <2>3. Add(k) \notin tried
    BY <2>1, <2>2
  <2>4. r \in Records /\ \A j \in Job : r # Done(j)
    BY <2>1, RecordFacts
  <2> QED
    BY <2>1, <2>3, <2>4 DEF Fitting
<1>4. CASE r \in {Done(j) : j \in {k \in Job : proc[p].idx[k] = "live"}}
  <2>1. PICK k \in Job : r = Done(k) /\ proc[p].idx[k] = "live"
    BY <1>4
  <2>2. Add(k) \in tried
    <3>1. StatusIn(ToSet(all), k) = "live"
      BY <1>1, <1>2, <2>1, OrderlyStatus
    <3> QED
      BY <1>2, <3>1 DEF StatusIn
  <2>3. r \in Records /\ (\A j \in Job : r # Add(j)) /\ \A j \in Job : r = Done(j) => j = k
    <3>1. \A j \in Job : Done(j) = Done(k) => j = k
      BY DEF Done
    <3> QED
      BY <2>1, <3>1, RecordFacts
  <2> QED
    BY <2>2, <2>3 DEF Fitting
<1> QED
  BY <1>3, <1>4 DEF Wanted

\* A record, or a part of one, goes to the end of the live log.
Stores(p, r, n, new, x, B) ==
  /\ WorksOn(files, dir, proc[p]) /\ op.at = "inside"
  /\ r \in Wanted(p) /\ n \in 0..Size(r)
  /\ new = Written(files[LiveLog(dir)], Len(files[LiveLog(dir)].cells), Encoded(r), n)
  /\ \/ x = new /\ B = acked
     \/ n = Size(r) /\ x = Synced(new.cells) /\ B = acked \cup {r}

StoresFacts(p, r, x, B) ==
  /\ r \in Records /\ x \in GoodFile /\ IsFiniteSet(tried \cup {r}) /\ tried \cup {r} \subseteq Records
  /\ DonesAdded(tried \cup {r}) /\ B \subseteq tried \cup {r}
  /\ KeptFile(tried \cup {r}, B, x, Generation(dir))
  /\ Len(x.cells) >= Len(files[LiveLog(dir)].cells)
  /\ \A k \in 1..Len(files[LiveLog(dir)].cells) : x.cells[k] = files[LiveLog(dir)].cells[k]

LEMMA Stored ==
  ASSUME NEW K, Inv(files, dir, K, proc, op, tried, acked, faults),
         NEW p \in Proc, NEW r, NEW n, NEW new, NEW x, NEW B, Stores(p, r, n, new, x, B)
  PROVE  /\ StoresFacts(p, r, x, B)
         /\ \/ n = Size(r) /\ Recs(x.cells) = Recs(files[LiveLog(dir)].cells) \o <<r>>
               /\ Ends(x.cells) = Len(x.cells)
            \/ n # Size(r) /\ Recs(x.cells) = Recs(files[LiveLog(dir)].cells)
<1> DEFINE file == files[LiveLog(dir)]  g == Generation(dir)
<1>1. /\ WorksOn(files, dir, proc[p]) /\ op.at = "inside" /\ r \in Wanted(p) /\ n \in 0..Size(r)
      /\ new = Written(file, Len(file.cells), Encoded(r), n)
      /\ \/ x = new /\ B = acked
         \/ n = Size(r) /\ x = Synced(new.cells) /\ B = acked \cup {r}
  BY DEF Stores
<1>2. file \in File /\ KeptFile(tried, acked, file, g) /\ Ends(file.cells) = Len(file.cells)
  BY <1>1, AtWork
<1>3. r \in Records /\ Fitting(tried, r)
  BY <1>1, WantedFacts
<1>4. acked \subseteq tried /\ tried \subseteq Records /\ IsFiniteSet(tried) /\ DonesAdded(tried)
  BY LiveFacts
<1>5. IsFiniteSet(tried \cup {r}) /\ tried \cup {r} \subseteq Records /\ DonesAdded(tried \cup {r})
      /\ B \subseteq tried \cup {r}
  <2>1. DonesAdded(tried \cup {r})
    BY <1>3, <1>4 DEF DonesAdded, Fitting
  <2>2. IsFiniteSet(tried \cup {r})
    BY <1>4, FS_AddElement
  <2> QED
    BY <1>1, <1>3, <1>4, <2>1, <2>2
<1> HIDE DEF file, g
<1>6. Plain(file.cells) /\ file.synced \in 1..Len(file.cells) /\ Len(file.cells) \in Nat
  BY <1>2, KeptFileFacts
<1>7. Writes(new, file, r, n)
  BY <1>1, <1>2, <1>3, <1>6 DEF Writes
<1>8. Wrote(new, file, r, n)
  BY <1>7, WrittenFacts
<1>9. /\ new \in File /\ KeptFile(tried \cup {r}, acked, new, g)
      /\ n = Size(r) => /\ Synced(new.cells) \in File
                        /\ KeptFile(tried \cup {r}, acked \cup {r}, Synced(new.cells), g)
  BY <1>1, <1>2, <1>3, <1>4, KeptWritten DEF DonesAdded
<1>10. x.cells = new.cells /\ x \in File /\ KeptFile(tried \cup {r}, B, x, g)
  <2>1. Plain(new.cells) => Synced(new.cells).cells = new.cells
    BY SyncedFile
  <2> QED
    BY <1>1, <1>8, <1>9, <2>1 DEF Wrote
<1>11. x \in GoodFile
  BY <1>10, KeptFileFacts
<1>12. n \in Nat /\ Len(x.cells) >= Len(file.cells)
  <2>1. n \in Nat
    BY <1>1, <1>3, RecordFacts
  <2>2. Len(x.cells) = Len(file.cells) + n
    BY <1>8, <1>10 DEF Wrote
  <2> QED
    BY <1>6, <2>1, <2>2
<1>13. \A k \in 1..Len(file.cells) : x.cells[k] = file.cells[k]
  BY <1>8, <1>10 DEF Wrote
<1>14. StoresFacts(p, r, x, B)
  BY <1>3, <1>5, <1>10, <1>11, <1>12, <1>13 DEF StoresFacts, file, g
<1>15. \/ n = Size(r) /\ Recs(x.cells) = Recs(file.cells) \o <<r>> /\ Ends(x.cells) = Len(x.cells)
       \/ n # Size(r) /\ Recs(x.cells) = Recs(file.cells)
  BY <1>8, <1>10 DEF Wrote
<1> QED
  BY <1>14, <1>15 DEF file

\* After it the invariant holds, whatever the process that stored it does, as long as it follows.
LEMMA StoredKeeps ==
  ASSUME NEW K, Inv(files, dir, K, proc, op, tried, acked, faults),
         NEW p \in Proc, NEW r, NEW n, NEW new, NEW x, Stores(p, r, n, new, x, acked'),
         files' = [files EXCEPT ![LiveLog(dir)] = x], tried' = tried \cup {r},
         UNCHANGED dir, op' = Free, faults' \in 0..MaxFaults,
         NEW q \in Queues, proc' = [proc EXCEPT ![p] = q],
         q = proc[p] \/ Follows(files', dir, q)
  PROVE  Inv(files', dir', K, proc', op', tried', acked', faults')
<1> DEFINE L == LiveLog(dir)
<1>1. WorksOn(files, dir, proc[p]) /\ op.at = "inside"
  BY DEF Stores
<1>2. /\ L \in Ino /\ L # None /\ files[L] \in File /\ ~UnbornIn(dir, K, op, tried)
      /\ dir.log[Generation(dir)] = K.log[Generation(dir)]
      /\ dir.log[Generation(K)] = K.log[Generation(K)]
      /\ KeptFile(tried, acked, files[L], Generation(dir))
  BY <1>1, AtWork
<1>3. /\ r \in Records /\ x \in GoodFile /\ IsFiniteSet(tried') /\ tried' \subseteq Records
      /\ DonesAdded(tried') /\ acked' \subseteq tried'
      /\ KeptFile(tried', acked', x, Generation(dir)) /\ Len(x.cells) >= Len(files[L].cells)
      /\ \A k \in 1..Len(files[L].cells) : x.cells[k] = files[L].cells[k]
  <2>1. StoresFacts(p, r, x, acked')
    BY Stored
  <2> QED
    BY <2>1 DEF StoresFacts
<1>4. \/ Recs(x.cells) = Recs(files[L].cells)
      \/ \E s \in Records : Recs(x.cells) = Recs(files[L].cells) \o <<s>>
  BY <1>3, Stored
<1>5. dir' = dir /\ op' \in Ops /\ op'.at = "free" /\ op'.by = None
  BY DEF Free, Ops
<1>6. files' \in [Ino -> GoodFile] /\ files'[L] = x
  BY <1>2, <1>3, LiveFacts
<1>7. proc' \in [Proc -> Queues]
  BY LiveFacts
<1>8. Shape(files', dir', K, proc', op', tried', acked', faults')
  BY <1>3, <1>5, <1>6, <1>7, LiveFacts DEF Shape
<1>9. dir.current = K.current /\ Generation(K) = Generation(dir) /\ LiveLog(K) = L
  <2>1. dir.current = K.current
    BY <1>1, LiveFacts DEF InPlace
  <2> QED
    BY <1>2, <2>1 DEF Generation, LiveLog
<1>10. AnchoredIn(dir', K, op', tried')
  BY <1>2, <1>5 DEF AnchoredIn
<1>11. LogsKeepIn(files', dir', K, op', tried', acked')
  BY <1>2, <1>3, <1>5, <1>6, <1>9 DEF LogsKeepIn, Kept
<1>12. InPlace(files', dir', K, proc', op', tried', acked')
  BY <1>5, <1>9 DEF InPlace
<1>13. ASSUME NEW s \in Proc PROVE Follows(files', dir, proc[s])
  <2> SUFFICES ASSUME proc[s].up, proc[s].gen = Generation(dir)
               PROVE  ReadsFrom(files'[L].cells, ContentsOf(files', dir), proc[s])
    BY <1>2, LiveFacts DEF Follows
  <2> DEFINE cells == files[L].cells  more == x.cells  all == Replayed(NoJobs, Recs(cells))
  <2>1. Plain(cells) /\ Len(cells) \in Nat
    BY <1>2, KeptFileFacts
  <2>2. x \in File /\ Plain(more) /\ Len(more) \in Nat
    <3>1. x \in File
      BY <1>3 DEF GoodFile
    <3> QED
      BY <1>3, <3>1, KeptFileFacts
  <2>3. ReadsFrom(cells, all, proc[s])
    BY <1>2, LiveFacts DEF Follows, ContentsOf
  <2>4. proc[s].pos \in 1..Len(cells) /\ proc[s].idx \in [Job -> Status]
    BY <2>3, LiveFacts DEF ReadsFrom, Queues
  <2>5. proc[s].pos <= Len(more) /\ \A k \in 1..proc[s].pos : more[k] = cells[k]
    BY <1>3, <2>1, <2>2, <2>4
  <2> HIDE DEF L
  <2>6. ReadsFrom(more, Replayed(NoJobs, Recs(more)), proc[s])
    BY <1>4, <2>1, <2>2, <2>3, <2>4, <2>5, ReadsStill
  <2> QED
    BY <1>2, <1>6, <2>6 DEF ContentsOf, L
<1>14. \A s \in Proc : Follows(files', dir', proc'[s])
  BY <1>5, <1>13, LiveFacts
<1> QED
  BY <1>3, <1>8, <1>10, <1>11, <1>12, <1>14 DEF Inv

\* A write fails, after some part of it.
LEMMA CommitBreaksKeeps ==
  ASSUME NEW K, Inv(files, dir, K, proc, op, tried, acked, faults),
         NEW p \in Proc, CommitBreaks(p)
  PROVE  Inv(files', dir', K, proc', op', tried', acked', faults')
<1>1. op.at = "inside" /\ op.by = p /\ op' = Free
  BY DEF CommitBreaks, At
<1>2. WorksOn(files, dir, proc[p])
  BY <1>1, LiveFacts DEF InPlace
<1>3. proc[p].log = LiveLog(dir) /\ proc[p].end = Len(files[LiveLog(dir)].cells) /\ LiveLog(dir) \in Ino
  BY <1>1, <1>2, AtWork
<1>4. PICK r \in Wanted(p) : \E n \in 0..Len(Encoded(r)) :
        /\ files' = [files EXCEPT ![proc[p].log] = Written(@, proc[p].end, Encoded(r), n)]
        /\ tried' = tried \cup {r}
  BY DEF CommitBreaks
<1>5. PICK n \in 0..Len(Encoded(r)) :
        /\ files' = [files EXCEPT ![proc[p].log] = Written(@, proc[p].end, Encoded(r), n)]
        /\ tried' = tried \cup {r}
  BY <1>4
<1>6. r \in Records /\ n \in 0..Size(r)
  BY <1>1, <1>2, WantedFacts, EncodedFacts
<1> DEFINE new == Written(files[LiveLog(dir)], Len(files[LiveLog(dir)].cells), Encoded(r), n)
<1>7. files' = [files EXCEPT ![LiveLog(dir)] = new]
  BY <1>3, <1>5
<1>8. UNCHANGED dir /\ acked' = acked /\ faults' \in 0..MaxFaults
  BY LiveFacts DEF CommitBreaks, Fault
<1>9. Stores(p, r, n, new, new, acked')
  BY <1>1, <1>2, <1>6, <1>8 DEF Stores
<1> HIDE DEF new
<1>10. \E q \in Queues : proc' = [proc EXCEPT ![p] = q] /\ (q = proc[p] \/ Follows(files', dir, q))
  <2>1. CASE proc' = [proc EXCEPT ![p] = Down]
    BY <2>1, DownFollows
  <2>2. CASE proc' = proc
    <3>1. proc[p] \in Queues /\ proc' = [proc EXCEPT ![p] = proc[p]]
      BY <2>2, LiveFacts
    <3> QED
      BY <3>1
  <2> QED
    BY <2>1, <2>2 DEF CommitBreaks
<1> QED
  BY <1>1, <1>5, <1>7, <1>8, <1>9, <1>10, StoredKeeps

\* A record is written and synced, and goes to the index.
LEMMA CommitKeeps ==
  ASSUME NEW K, Inv(files, dir, K, proc, op, tried, acked, faults),
         NEW p \in Proc, Commit(p)
  PROVE  Inv(files', dir', K, proc', op', tried', acked', faults')
<1> DEFINE L == LiveLog(dir)
<1>1. op.at = "inside" /\ op.by = p /\ op' = Free
  BY DEF Commit, At
<1>2. WorksOn(files, dir, proc[p])
  BY <1>1, LiveFacts DEF InPlace
<1>3. /\ proc[p].log = L /\ proc[p].end = Len(files[L].cells) /\ L \in Ino /\ L # None
      /\ proc[p].idx = Replayed(NoJobs, Recs(files[L].cells)) /\ proc[p].gen = Generation(dir)
      /\ files[L] \in File /\ KeptFile(tried, acked, files[L], Generation(dir))
  BY <1>1, <1>2, AtWork
<1>4. PICK r \in Wanted(p) : Write(p, r) /\ tried' = tried \cup {r} /\ acked' = acked \cup {r}
  BY DEF Commit
<1>5. r \in Records /\ Len(Encoded(r)) = Size(r) /\ Size(r) \in Nat
  BY <1>1, <1>2, WantedFacts, EncodedFacts, RecordFacts
<1> DEFINE new == Written(files[L], Len(files[L].cells), Encoded(r), Size(r))
           x == Synced(new.cells)  n == Len(new.cells)
           idx == Apply(proc[p].idx, r)
           q == [proc[p] EXCEPT !.pos = n, !.end = n, !.idx = idx]
<1>6. files' = [files EXCEPT ![L] = x]
  BY <1>3, <1>4, <1>5 DEF Write
<1>7. proc' = [proc EXCEPT ![p].pos = n, ![p].end = n, ![p].idx = Apply(@, r)]
  BY <1>3, <1>4, <1>5 DEF Write
<1>8. UNCHANGED dir /\ faults' \in 0..MaxFaults
  BY LiveFacts DEF Commit
<1>9. Stores(p, r, Size(r), new, x, acked')
  BY <1>1, <1>2, <1>4, <1>5 DEF Stores
<1>10. /\ x \in GoodFile /\ x \in File /\ KeptFile(tried', acked', x, Generation(dir))
       /\ Recs(x.cells) = Recs(files[L].cells) \o <<r>> /\ Ends(x.cells) = Len(x.cells)
  <2> HIDE DEF x, new, L
  <2>1. StoresFacts(p, r, x, acked')
    BY <1>9, Stored
  <2>2. Recs(x.cells) = Recs(files[LiveLog(dir)].cells) \o <<r>> /\ Ends(x.cells) = Len(x.cells)
    BY <1>9, Stored
  <2> QED
    BY <1>4, <2>1, <2>2 DEF StoresFacts, GoodFile, L
<1>11. Plain(x.cells) /\ Len(x.cells) \in Nat
  BY <1>10, KeptFileFacts
<1>12. Len(x.cells) = n
  BY DEF Synced
<1>13. idx = Replayed(NoJobs, Recs(x.cells)) /\ idx \in [Job -> Status]
  <2>1. Recs(files[L].cells) \in Seq(Records)
    BY <1>3, KeptFileFacts
  <2>2. Replayed(NoJobs, Recs(files[L].cells) \o <<r>>) = idx
    BY <1>3, <1>5, <2>1, NoJobsTyped, ReplayedAppended
  <2>3. Recs(x.cells) \in Seq(Records)
    BY <1>10, KeptFileFacts
  <2> QED
    BY <1>10, <2>2, <2>3, NoJobsTyped, ReplayedFacts
<1> HIDE DEF new, x, n, idx
<1>14. /\ proc' = [proc EXCEPT ![p] = q]
  BY <1>3, <1>7, LiveFacts DEF idx
<1>15. /\ q \in Queues /\ q.up = proc[p].up /\ q.log = L /\ q.gen = Generation(dir)
       /\ q.pos = Len(x.cells) /\ q.idx = idx
  BY <1>3, <1>11, <1>12, <1>13, LiveFacts DEF Queues
<1> HIDE DEF q
<1>16. Follows(files', dir, q)
  <2>1. ReadsFrom(x.cells, idx, q)
    BY <1>10, <1>11, <1>15, ReadsFromEnd
  <2>2. files'[L] = x /\ ContentsOf(files', dir) = idx
    BY <1>3, <1>6, <1>13, LiveFacts DEF ContentsOf
  <2> QED
    BY <1>3, <1>15, <2>1, <2>2, LiveFacts DEF Follows
<1> QED
  BY <1>1, <1>4, <1>6, <1>8, <1>9, <1>14, <1>15, <1>16, StoredKeeps DEF L

\* The log that an operation finds when it begins.
LEMMA Found ==
  ASSUME NEW K, Inv(files, dir, K, proc, op, tried, acked, faults),
         NEW p \in Proc, Enters(p),
         NEW log, log = IF Reopens(p) THEN LiveLog(dir) ELSE proc[p].log, log # None
  PROVE  /\ log = LiveLog(dir) /\ log \in Ino /\ op.at \in {"free", "entered"}
         /\ ~UnbornIn(dir, K, op, tried)
         /\ files[log] \in File /\ KeptFile(tried, acked, files[log], Generation(dir))
         /\ dir.current = K.current /\ Generation(K) = Generation(dir) /\ LiveLog(K) = log
         /\ \A d \in {dir, K} : dir.log[Generation(d)] = K.log[Generation(d)]
         /\ ~Reopens(p) => /\ proc[p].up /\ proc[p].gen = Generation(dir) /\ proc[p].log = log
                           /\ ReadsFrom(files[log].cells, Replayed(NoJobs, Recs(files[log].cells)), proc[p])
<1>1. op.at \in {"free", "entered"}
  BY DEF Enters, At, Free
<1>2. ASSUME ~Reopens(p)
      PROVE  /\ proc[p].up /\ proc[p].gen = Generation(dir) /\ proc[p].log = log /\ log = LiveLog(dir)
             /\ ReadsFrom(files[log].cells, Replayed(NoJobs, Recs(files[log].cells)), proc[p])
  <2>1. proc[p].up /\ proc[p].gen = Generation(dir)
    BY <1>2 DEF Reopens, LiveGeneration
  <2>2. /\ LiveLog(dir) # None /\ proc[p].log = LiveLog(dir)
        /\ ReadsFrom(files[LiveLog(dir)].cells, ContentsOf(files, dir), proc[p])
    BY <2>1, LiveFacts DEF Follows
  <2> QED
    BY <1>2, <2>1, <2>2 DEF ContentsOf
<1>3. log = LiveLog(dir) /\ log \in Ino
  BY <1>2, LiveFacts
<1>4. ~UnbornIn(dir, K, op, tried)
  BY <1>1, <1>3, LiveFacts DEF UnbornIn, LiveLog, Generation
<1>5. \A d \in {dir, K} : dir.log[Generation(d)] = K.log[Generation(d)]
  BY <1>4, LiveFacts DEF AnchoredIn
<1>6. dir.current = K.current
  BY <1>1, LiveFacts DEF InPlace
<1>7. Generation(K) = Generation(dir) /\ LiveLog(K) = log
  BY <1>3, <1>5, <1>6 DEF Generation, LiveLog
<1>8. Kept(files, tried, acked, log, Generation(dir))
  BY <1>3, <1>4, LiveFacts DEF LogsKeepIn
<1>9. files[log] \in File /\ KeptFile(tried, acked, files[log], Generation(dir))
  BY <1>3, <1>8, LiveFacts DEF Kept, GoodFile
<1> QED
  BY <1>1, <1>2, <1>3, <1>4, <1>5, <1>6, <1>7, <1>9

\* What reading on gives, and what repairing does.
RestRead(cells, pos, scan) ==
  /\ scan.records \in Seq(Records) /\ scan.end = Ends(cells) /\ pos <= Ends(cells)
  /\ Recs(SubSeq(cells, 1, pos)) \in Seq(Records)
  /\ Recs(cells) = Recs(SubSeq(cells, 1, pos)) \o scan.records
  /\ scan.why = "NONE" <=> Ends(cells) = Len(cells)

LEMMA ReadOnGives ==
  ASSUME NEW cells, Plain(cells), NEW pos \in 1..Len(cells), Ends(SubSeq(cells, 1, pos)) = pos,
         NEW scan, scan = Scan(cells, pos, Chunk)
  PROVE  RestRead(cells, pos, scan)
<1>1. /\ scan.records \in Seq(Records) /\ scan.end = Ends(cells) /\ pos <= Ends(cells)
      /\ Recs(SubSeq(cells, 1, pos)) \in Seq(Records)
      /\ Recs(cells) = Recs(SubSeq(cells, 1, pos)) \o scan.records
      /\ scan.why = "NONE" <=> Ends(cells) = Len(cells)
  BY ReadOn
<1> QED
  BY <1>1 DEF RestRead

Repairs(new, file, scan) ==
  /\ file \in File /\ Plain(file.cells) /\ file.synced \in 1..Len(file.cells)
  /\ scan.end = Ends(file.cells) /\ (scan.why = "NONE" <=> Ends(file.cells) = Len(file.cells))
  /\ new = Repaired(file, scan)

IsRepaired(new, file) ==
  /\ new \in File /\ Plain(new.cells) /\ new.synced \in 1..Len(new.cells)
  /\ new.cells[1] = file.cells[1]
  /\ Recs(new.cells) = Recs(file.cells) /\ Ends(new.cells) = Ends(file.cells)
  /\ Len(new.cells) = Ends(new.cells)
  /\ \A k \in 1..Len(new.cells) : new.cells[k] = file.cells[k]
  /\ new = file \/ new.synced = Len(new.cells)

LEMMA RepairGives ==
  ASSUME NEW file, NEW scan, NEW new, Repairs(new, file, scan)
  PROVE  IsRepaired(new, file)
<1>1. /\ new \in File /\ Plain(new.cells) /\ new.synced \in 1..Len(new.cells)
      /\ new.cells[1] = file.cells[1]
      /\ Recs(new.cells) = Recs(file.cells) /\ Ends(new.cells) = Ends(file.cells)
      /\ Len(new.cells) = Ends(new.cells)
      /\ \A k \in 1..Len(new.cells) : new.cells[k] = file.cells[k]
      /\ new = file \/ new.synced = Len(new.cells)
  BY RepairedFacts DEF Repairs
<1> QED
  BY <1>1 DEF IsRepaired

\* A replay, of all of a log or of the rest of it, ends where the records do, with the
\* index they make up; what follows them is cut off.
Rest(cells, q, full) == Scan(cells, IF full THEN HeaderSize ELSE q.pos, Chunk)

Reads(file, g, q, full) ==
  /\ file \in File /\ KeptFile(tried, acked, file, g)
  /\ ~full => q.idx \in [Job -> Status] /\ ReadsFrom(file.cells, Replayed(NoJobs, Recs(file.cells)), q)

LEMMA RestFacts ==
  ASSUME NEW file, NEW g, NEW q, NEW full, Reads(file, g, q, full),
         NEW scan, scan = Rest(file.cells, q, full)
  PROVE  /\ scan.records \in Seq(Records) /\ scan.end = Ends(file.cells)
         /\ scan.why = "NONE" <=> Ends(file.cells) = Len(file.cells)
         /\ Replayed(IF full THEN NoJobs ELSE q.idx, scan.records) = Replayed(NoJobs, Recs(file.cells))
<1> DEFINE cells == file.cells
<1>1. file \in File /\ KeptFile(tried, acked, file, g)
  BY DEF Reads
<1>2. Plain(cells)
  BY <1>1, KeptFileFacts
<1>3. CASE full
  <2>1. scan = Scan(cells, HeaderSize, Chunk)
    BY <1>3 DEF Rest
  <2> QED
    BY <1>2, <1>3, <2>1, RecsFacts DEF Recs, Ends
<1>4. CASE ~full
  <2>1. scan = Scan(cells, q.pos, Chunk)
    BY <1>4 DEF Rest
  <2>2. q.idx \in [Job -> Status] /\ ReadsFrom(cells, Replayed(NoJobs, Recs(cells)), q)
    BY <1>4 DEF Reads
  <2>3. /\ q.pos \in 1..Len(cells) /\ Ends(SubSeq(cells, 1, q.pos)) = q.pos
        /\ \A j \in Job : (\A r \in ToSet(scan.records) : r.job # j) =>
                             q.idx[j] = Replayed(NoJobs, Recs(cells))[j]
    BY <2>1, <2>2 DEF ReadsFrom
  <2> DEFINE first == Recs(SubSeq(cells, 1, q.pos))
  <2>4. /\ scan.records \in Seq(Records) /\ scan.end = Ends(cells) /\ first \in Seq(Records)
        /\ Recs(cells) = first \o scan.records
        /\ scan.why = "NONE" <=> Ends(cells) = Len(cells)
    <3>1. RestRead(cells, q.pos, scan)
      BY <1>2, <2>1, <2>3, ReadOnGives
    <3> QED
      BY <3>1 DEF RestRead
  <2> HIDE DEF first
  <2>5. ASSUME NEW j \in Job
        PROVE  Replayed(q.idx, scan.records)[j] = Replayed(NoJobs, first \o scan.records)[j]
    <3>1. (\A r \in ToSet(scan.records) : r.job # j) => q.idx[j] = Replayed(NoJobs, first \o scan.records)[j]
      BY <2>3, <2>4
    <3> QED
      BY <2>2, <2>4, <3>1, ReplayedOn
  <2>6. Replayed(q.idx, scan.records) \in [Job -> Status]
    BY <2>2, <2>4, ReplayedFacts
  <2>7. Replayed(NoJobs, Recs(cells)) \in [Job -> Status]
    BY <1>1, KeptFileFacts, NoJobsTyped, ReplayedFacts
  <2>8. \A j \in Job : Replayed(q.idx, scan.records)[j] = Replayed(NoJobs, Recs(cells))[j]
    BY <2>4, <2>5
  <2>9. Replayed(q.idx, scan.records) = Replayed(NoJobs, Recs(cells))
    BY <2>6, <2>7, <2>8
  <2> QED
    BY <1>4, <2>4, <2>9
<1> QED
  BY <1>3, <1>4

\* An operation catches up.
LEMMA CatchUpKeeps ==
  ASSUME NEW K, Inv(files, dir, K, proc, op, tried, acked, faults),
         NEW p \in Proc, CatchUp(p)
  PROVE  Inv(files', dir', K, proc', op', tried', acked', faults')
<1> DEFINE full == Reopens(p)  L == LiveLog(dir)  G == Generation(dir)
           log == IF full THEN L ELSE proc[p].log
           file == files[L]  scan == Rest(file.cells, proc[p], full)  new == Repaired(file, scan)
           idx == Replayed(IF full THEN NoJobs ELSE proc[p].idx, scan.records)
           q == [up |-> TRUE, log |-> L, gen |-> file.cells[1].of.generation,
                 pos |-> scan.end, end |-> Len(new.cells), idx |-> idx]
<1>1. Enters(p) /\ log # None
  BY DEF CatchUp, HasHeader
<1>2. /\ log = L /\ L \in Ino /\ L # None /\ op.at \in {"free", "entered"}
      /\ ~UnbornIn(dir, K, op, tried)
      /\ file \in File /\ KeptFile(tried, acked, file, G)
      /\ dir.current = K.current /\ Generation(K) = G /\ LiveLog(K) = L
      /\ \A d \in {dir, K} : dir.log[Generation(d)] = K.log[Generation(d)]
      /\ ~full => ReadsFrom(file.cells, Replayed(NoJobs, Recs(file.cells)), proc[p])
  BY <1>1, Found
<1>3. /\ dir' = dir /\ tried' = tried /\ acked' = acked /\ faults' = faults
      /\ op' = [by |-> p, at |-> "inside", new |-> None]
  BY DEF CatchUp, Take
<1>4. files' = [files EXCEPT ![L] = new] /\ proc' = [proc EXCEPT ![p] = q]
  <2>1. Replay(p, L, full).file = new /\ Replay(p, L, full).proc = q
    BY DEF Replay, Rest
  <2>2. PICK r \in {Replay(p, log, full)} :
          files' = [files EXCEPT ![log] = r.file] /\ proc' = [proc EXCEPT ![p] = r.proc]
    BY DEF CatchUp
  <2>3. r = Replay(p, L, full)
    BY <1>2, <2>2
  <2> HIDE DEF q, new
  <2> QED
    BY <1>2, <2>1, <2>2, <2>3
<1> DEFINE all == Replayed(NoJobs, Recs(file.cells))
<1>5. /\ scan.records \in Seq(Records) /\ scan.end = Ends(file.cells)
      /\ scan.why = "NONE" <=> Ends(file.cells) = Len(file.cells)
      /\ idx = all
  <2>1. Reads(file, G, proc[p], full)
    BY <1>2, LiveFacts DEF Reads, Queues
  <2> HIDE DEF file, G, full
  <2> QED
    BY <2>1, RestFacts
<1>6. /\ Plain(file.cells) /\ Len(file.cells) \in Nat /\ file.synced \in 1..Len(file.cells)
      /\ file.cells[1] = FileHeader(G) /\ Recs(file.cells) \in Seq(Records)
  BY <1>2, KeptFileFacts
<1> HIDE DEF scan, idx
<1>7. /\ new \in File /\ Plain(new.cells) /\ new.synced \in 1..Len(new.cells)
      /\ new.cells[1] = file.cells[1]
      /\ Recs(new.cells) = Recs(file.cells) /\ Ends(new.cells) = Ends(file.cells)
      /\ Len(new.cells) = Ends(new.cells)
      /\ \A k \in 1..Len(new.cells) : new.cells[k] = file.cells[k]
      /\ new = file \/ new.synced = Len(new.cells)
  <2> HIDE DEF file
  <2>1. Repairs(new, file, scan)
    BY <1>2, <1>5, <1>6 DEF Repairs
  <2>2. IsRepaired(new, file)
    BY <2>1, RepairGives
  <2> QED
    BY <2>2 DEF IsRepaired
<1> HIDE DEF new
<1>8. KeptFile(tried, acked, new, G) /\ new \in GoodFile
  <2>1. IsLog(new, G)
    BY <1>6, <1>7 DEF IsLog, Plain
  <2>2. KeptFile(tried, acked, new, G)
    BY <1>2, <1>7, <2>1, KeptRepaired
  <2> QED
    BY <1>7, <2>2, KeptFileFacts
<1>9. all \in [Job -> Status]
  BY <1>6, NoJobsTyped, ReplayedFacts
<1>10. /\ q \in Queues /\ q.up /\ q.gen = G /\ q.log = L /\ q.idx = all
       /\ q.pos = Len(new.cells) /\ q.end = Len(new.cells)
  <2>1. file.cells[1].of.generation = G
    BY <1>6 DEF FileHeader
  <2>2. G \in 0..MaxGen
    BY LiveFacts
  <2>3. scan.end = Len(new.cells) /\ Len(new.cells) \in Nat
    BY <1>5, <1>7
  <2> HIDE DEF G, L, file, all
  <2> QED
    BY <1>2, <1>5, <1>9, <2>1, <2>2, <2>3 DEF Queues
<1> HIDE DEF q
<1>11. /\ files' \in [Ino -> GoodFile] /\ files'[L] = new /\ proc' \in [Proc -> Queues] /\ proc'[p] = q
       /\ op' \in Ops /\ op'.at = "inside" /\ op'.by = p
  BY <1>2, <1>3, <1>4, <1>8, <1>10, LiveFacts DEF Ops
<1>12. Shape(files', dir', K, proc', op', tried', acked', faults')
  BY <1>3, <1>11, LiveFacts DEF Shape
<1>13. AnchoredIn(dir', K, op', tried')
  BY <1>2, <1>3, <1>11 DEF AnchoredIn
<1>14. LogsKeepIn(files', dir', K, op', tried', acked')
  BY <1>2, <1>3, <1>8, <1>11 DEF LogsKeepIn, Kept
<1>15. ContentsOf(files', dir) = all
  BY <1>2, <1>7, <1>11 DEF ContentsOf
<1>16. WorksOn(files', dir', q)
  BY <1>2, <1>3, <1>7, <1>10, <1>11, <1>15 DEF WorksOn
<1>17. InPlace(files', dir', K, proc', op', tried', acked')
  BY <1>2, <1>3, <1>11, <1>16, StorageAssumption DEF InPlace
<1>18. ASSUME NEW s \in Proc PROVE Follows(files', dir, proc[s])
  <2> SUFFICES ASSUME proc[s].up, proc[s].gen = Generation(dir)
               PROVE  ReadsFrom(new.cells, all, proc[s])
    BY <1>2, <1>11, <1>15, LiveFacts DEF Follows
  <2>1. ReadsFrom(file.cells, all, proc[s])
    BY <1>2, LiveFacts DEF Follows, ContentsOf
  <2>2. proc[s].pos \in 1..Len(file.cells) /\ Ends(SubSeq(file.cells, 1, proc[s].pos)) = proc[s].pos
        /\ proc[s].idx \in [Job -> Status]
    BY <2>1, LiveFacts DEF ReadsFrom, Queues
  <2>3. proc[s].pos <= Ends(file.cells)
    BY <1>6, <2>2, ReadOn
  <2>4. proc[s].pos <= Len(new.cells) /\ \A k \in 1..proc[s].pos : new.cells[k] = file.cells[k]
    BY <1>7, <2>2, <2>3
  <2>5. ReadsFrom(new.cells, Replayed(NoJobs, Recs(new.cells)), proc[s])
    <3> HIDE DEF file
    <3> QED
      BY <1>6, <1>7, <2>1, <2>2, <2>4, ReadsStill
  <2> QED
    BY <1>7, <2>5
<1>19. Follows(files', dir', q)
  <2>1. Generation(dir) \in Nat /\ new \in File
    BY <1>7, LiveFacts
  <2> QED
    BY <1>3, <1>8, <1>11, <1>16, <2>1, WorksFollows
<1>20. \A s \in Proc : Follows(files', dir', proc'[s])
  BY <1>3, <1>4, <1>18, <1>19, LiveFacts
<1> QED
  BY <1>3, <1>12, <1>13, <1>14, <1>17, <1>20, LiveFacts DEF Inv

\* An exception among the records, in a log that was open.
BreaksOff(q, s, pos, end, idx) == q = [s EXCEPT !.pos = pos, !.end = end, !.idx = idx]

LEMMA BrokenOff ==
  ASSUME NEW s \in Queues, NEW pos \in Nat, NEW end \in Nat, NEW idx \in [Job -> Status],
         NEW q, BreaksOff(q, s, pos, end, idx)
  PROVE  q \in Queues /\ q.up = s.up /\ q.log = s.log /\ q.gen = s.gen /\ q.pos = pos /\ q.idx = idx
<1>1. q \in Queues
  BY DEF Queues, BreaksOff
<1>2. q.up = s.up /\ q.log = s.log /\ q.gen = s.gen /\ q.pos = pos /\ q.idx = idx
  BY DEF Queues, BreaksOff
<1> QED
  BY <1>1, <1>2

LEMMA CatchUpBreaksKeeps ==
  ASSUME NEW K, Inv(files, dir, K, proc, op, tried, acked, faults),
         NEW p \in Proc, CatchUpBreaks(p), Covered
  PROVE  Inv(files', dir', K, proc', op', tried', acked', faults')
<1> DEFINE L == LiveLog(dir)  G == Generation(dir)
           full == Reopens(p)  old == IF full THEN NoJobs ELSE proc[p].idx
           file == files[L]  scan == Rest(file.cells, proc[p], full)  new == Repaired(file, scan)
           s == [up |-> TRUE, log |-> L, gen |-> file.cells[1].of.generation,
                 pos |-> scan.end, end |-> Len(new.cells),
                 idx |-> Replayed(old, scan.records)]
           all == Replayed(NoJobs, Recs(file.cells))
<1>1. ~Reopens(p) /\ faults' \in 0..MaxFaults
  <2>1. ~Reopens(p)
    BY DEF CatchUpBreaks, Fault, Covered
  <2> QED
    BY <2>1, LiveFacts DEF CatchUpBreaks, Fault
<1>2. Enters(p) /\ proc[p].log # None
  BY <1>1 DEF CatchUpBreaks, HasHeader
<1>3. /\ proc[p].log = L /\ L \in Ino /\ L # None /\ op.at \in {"free", "entered"}
      /\ file \in File /\ KeptFile(tried, acked, file, G)
      /\ ReadsFrom(file.cells, all, proc[p])
  BY <1>1, <1>2, Found
<1>4. UNCHANGED <<files, dir, tried, acked>> /\ op' = Free /\ op.at \notin {"created", "flipped"}
  BY <1>3 DEF CatchUpBreaks
<1>5. PICK n \in 0..Len(scan.records) :
        proc' = [proc EXCEPT ![p] =
                   [s EXCEPT !.pos = proc[p].pos, !.end = Len(file.cells),
                             !.idx = Replayed(old, SubSeq(scan.records, 1, n))]]
  <2> DEFINE log == IF full THEN L ELSE proc[p].log
  <2>1. Replay(p, L, full).records = scan.records /\ Replay(p, L, full).proc = s
    BY DEF Replay, Rest
  <2>2. PICK n \in 0..Len(Replay(p, log, full).records) :
          proc' = [proc EXCEPT ![p] =
                   [Replay(p, log, full).proc EXCEPT
                      !.pos = proc[p].pos, !.end = Len(files[log].cells),
                      !.idx = Replayed(old, SubSeq(Replay(p, log, full).records, 1, n))]]
    BY DEF CatchUpBreaks
  <2>3. log = L
    BY <1>1, <1>3
  <2> HIDE DEF s, scan, log, full, old
  <2> QED
    BY <2>1, <2>2, <2>3
<1>50. old = proc[p].idx
  BY <1>1
<1> HIDE DEF old
<1> DEFINE idx == Replayed(old, SubSeq(scan.records, 1, n))
           q == [s EXCEPT !.pos = proc[p].pos, !.end = Len(file.cells), !.idx = idx]
<1>6. proc' = [proc EXCEPT ![p] = q] /\ BreaksOff(q, s, proc[p].pos, Len(file.cells), idx)
  BY <1>5 DEF BreaksOff
<1> HIDE DEF q
<1>7. proc[p].idx \in [Job -> Status] /\ proc[p].pos \in Nat
  BY LiveFacts DEF Queues
<1>8. /\ scan.records \in Seq(Records) /\ scan.end = Ends(file.cells)
      /\ scan.why = "NONE" <=> Ends(file.cells) = Len(file.cells)
  <2>1. Reads(file, G, proc[p], full)
    BY <1>3, <1>7 DEF Reads
  <2> HIDE DEF file, G, full
  <2> QED
    BY <2>1, RestFacts
<1>9. /\ Plain(file.cells) /\ Len(file.cells) \in Nat /\ file.synced \in 1..Len(file.cells)
      /\ file.cells[1] = FileHeader(G) /\ Ends(file.cells) \in Nat
  <2>1. /\ Plain(file.cells) /\ Len(file.cells) \in Nat /\ file.synced \in 1..Len(file.cells)
        /\ file.cells[1] = FileHeader(G)
    BY <1>3, KeptFileFacts
  <2>2. Ends(file.cells) \in 1..Len(file.cells)
    BY <2>1, RecsFacts
  <2> QED
    BY <2>1, <2>2
<1>10. SubSeq(scan.records, 1, n) \in Seq(Records) /\ n \in Nat /\ Len(SubSeq(scan.records, 1, n)) = n
       /\ \A k \in 1..n : SubSeq(scan.records, 1, n)[k] = scan.records[k] /\ scan.records[k] \in ToSet(scan.records)
  <2> DEFINE rs == scan.records
  <2>1. rs \in Seq(Records) /\ n \in 0..Len(rs)
    BY <1>8
  <2> HIDE DEF rs
  <2>2. n \in Nat /\ n <= Len(rs) /\ \A k \in 1..n : rs[k] \in ToSet(rs)
    BY <2>1 DEF ToSet
  <2>3. SubSeq(rs, 1, n) \in Seq(Records) /\ Len(SubSeq(rs, 1, n)) = n
        /\ \A k \in 1..n : SubSeq(rs, 1, n)[k] = rs[k]
    BY <2>1, <2>2
  <2> QED
    BY <2>2, <2>3 DEF rs
<1>11. idx \in [Job -> Status]
  BY <1>7, <1>10, <1>50, ReplayedFacts
<1>12. s \in Queues /\ s.up /\ s.log = L /\ s.gen = G
  <2>1. file.cells[1].of.generation = G
    BY <1>9 DEF FileHeader
  <2>2. G \in 0..MaxGen
    BY LiveFacts
  <2>3. Len(new.cells) \in Nat
    <3> HIDE DEF file, scan
    <3>1. Repairs(new, file, scan)
      BY <1>3, <1>8, <1>9 DEF Repairs
    <3>2. IsRepaired(new, file)
      BY <3>1, RepairGives
    <3> QED
      BY <1>9, <3>2 DEF IsRepaired
  <2>4. Replayed(old, scan.records) \in [Job -> Status]
    BY <1>7, <1>8, <1>50, ReplayedFacts
  <2> HIDE DEF G, L, file, scan, new
  <2> QED
    BY <1>3, <1>8, <1>9, <2>1, <2>2, <2>3, <2>4 DEF Queues
<1>13. /\ q \in Queues /\ q.up /\ q.gen = G /\ q.log = L /\ q.pos = proc[p].pos /\ q.idx = idx
  <2> HIDE DEF G, L, file, s, idx
  <2> QED
    BY <1>6, <1>7, <1>9, <1>11, <1>12, BrokenOff
<1>14. Follows(files, dir, q)
  <2>1. ReadsFrom(file.cells, all, q)
    <3>1. ASSUME NEW j \in Job, \A r \in ToSet(Scan(file.cells, q.pos, Chunk).records) : r.job # j
          PROVE  q.idx[j] = all[j]
      <4>1. scan.records = Scan(file.cells, q.pos, Chunk).records
        BY <1>1, <1>13 DEF Rest
      <4>2. proc[p].idx[j] = all[j]
        BY <1>3, <1>13, <3>1 DEF ReadsFrom
      <4>3. \A k \in 1..Len(SubSeq(scan.records, 1, n)) : SubSeq(scan.records, 1, n)[k].job # j
        BY <1>10, <3>1, <4>1
      <4>4. Replayed(proc[p].idx, SubSeq(scan.records, 1, n))[j] = proc[p].idx[j]
        BY <1>7, <1>10, <4>3, Untouched
      <4> QED
        BY <1>13, <1>50, <4>2, <4>4
    <3> HIDE DEF file, all
    <3> QED
      BY <1>3, <1>13, <3>1 DEF ReadsFrom
  <2> QED
    BY <1>3, <1>13, <2>1, LiveFacts DEF Follows, ContentsOf
<1>15. proc' \in [Proc -> Queues] /\ \A r \in Proc : Follows(files, dir, proc'[r])
  BY <1>6, <1>13, <1>14, LiveFacts
<1> QED
  BY <1>1, <1>4, <1>15, Quiet

\* Whatever the power leaves of the directory leads to a log that keeps.
Leaves(K, left, fresh, current) ==
  left = [log |-> [g \in 0..MaxGen |-> IF g \in fresh THEN dir.log[g] ELSE K.log[g]],
          current |-> current]

LEMMA LeftDirectory ==
  ASSUME NEW K, Inv(files, dir, K, proc, op, tried, acked, faults),
         NEW current \in {K.current, dir.current}, NEW fresh \in SUBSET (0..MaxGen),
         NEW left, Leaves(K, left, fresh, current)
  PROVE  /\ left \in Dirs /\ Generation(left) \in 0..MaxGen
         /\ \/ LiveLog(left) = None /\ UnbornIn(left, left, Free, tried)
            \/ LiveLog(left) \in Ino /\ Kept(files, tried, acked, LiveLog(left), Generation(left))
<1>1. dir.log \in [0..MaxGen -> Ino \cup {None}] /\ K.log \in [0..MaxGen -> Ino \cup {None}]
      /\ current \in 1..MaxGen \cup {None}
  BY LiveFacts DEF Dirs
<1>2. /\ left \in Dirs /\ left.current = current
      /\ \A g \in 0..MaxGen : left.log[g] = IF g \in fresh THEN dir.log[g] ELSE K.log[g]
  BY <1>1 DEF Leaves, Dirs
<1>3. PICK d \in {dir, K} : d.current = current
  OBVIOUS
<1>4. Generation(left) = Generation(d) /\ Generation(d) \in 0..MaxGen
  BY <1>2, <1>3, LiveFacts DEF Generation
<1>5. LiveLog(left) = left.log[Generation(d)] /\ LiveLog(left) \in {dir.log[Generation(d)], K.log[Generation(d)]}
  BY <1>2, <1>4 DEF LiveLog
<1>6. CASE UnbornIn(dir, K, op, tried)
  <2>1. tried = {} /\ dir.current = None /\ K.current = None /\ K.log[0] = None
    BY <1>6 DEF UnbornIn
  <2>2. Generation(d) = 0 /\ Generation(dir) = 0 /\ current = None
    BY <2>1 DEF Generation
  <2>3. CASE LiveLog(left) = None
    <3>1. left.log[0] = None
      BY <1>5, <2>2, <2>3
    <3>2. UnbornIn(left, left, Free, tried)
      BY <1>2, <2>1, <2>2, <3>1 DEF UnbornIn
    <3> QED
      BY <1>2, <1>4, <2>3, <3>2
  <2>4. CASE LiveLog(left) # None
    <3>1. LiveLog(left) = LiveLog(dir)
      BY <1>5, <2>1, <2>2, <2>4 DEF LiveLog
    <3>2. Kept(files, tried, acked, LiveLog(left), Generation(left))
      BY <1>4, <2>2, <2>4, <3>1, LiveFacts DEF LogsKeepIn
    <3>3. LiveLog(left) \in Ino
      BY <2>4, <3>1, LiveFacts
    <3> QED
      BY <1>2, <1>4, <3>2, <3>3
  <2> QED
    BY <2>3, <2>4
<1>7. CASE ~UnbornIn(dir, K, op, tried)
  <2>1. dir.log[Generation(d)] = K.log[Generation(d)]
    BY <1>7, LiveFacts DEF AnchoredIn
  <2>2. LiveLog(left) = LiveLog(d)
    BY <1>5, <2>1 DEF LiveLog
  <2>3. Kept(files, tried, acked, LiveLog(d), Generation(d))
    BY <1>7, LiveFacts DEF LogsKeepIn
  <2>4. LiveLog(d) \in Ino
    BY <2>3, LiveFacts DEF Kept
  <2> QED
    BY <1>2, <1>4, <2>2, <2>3, <2>4
<1> QED
  BY <1>6, <1>7

\* The power goes.
LEMMA PowerCutKeeps ==
  ASSUME Inv(files, dir, disk, proc, op, tried, acked, faults),
         PowerCut
  PROVE  Inv(files', dir', dir', proc', op', tried', acked', faults')
<1>1. PICK current \in {disk.current, dir.current}, fresh \in SUBSET (0..MaxGen) :
        LET left == [log |-> [g \in 0..MaxGen |-> IF g \in fresh THEN dir.log[g] ELSE disk.log[g]],
                     current |-> current]
            kept == [i \in Ino |-> IF i \in Names({left})
                               THEN Synced(SubSeq(files[i].cells, 1, files[i].synced)) ELSE Empty]
        IN /\ dir' = left
           /\ \/ LiveLog(left) = None /\ files' = kept
              \/ /\ LiveLog(left) # None
                 /\ \E file \in AfterPowerCut(files[LiveLog(left)]) :
                      files' = [kept EXCEPT ![LiveLog(left)] = file]
  BY DEF PowerCut
<1> DEFINE left == [log |-> [g \in 0..MaxGen |-> IF g \in fresh THEN dir.log[g] ELSE disk.log[g]],
                    current |-> current]
           kept == [i \in Ino |-> IF i \in Names({left})
                              THEN Synced(SubSeq(files[i].cells, 1, files[i].synced)) ELSE Empty]
           L == LiveLog(left)
<1>2. /\ dir' = left
      /\ \/ L = None /\ files' = kept
         \/ L # None /\ \E file \in AfterPowerCut(files[L]) : files' = [kept EXCEPT ![L] = file]
  BY <1>1
<1>3. Leaves(disk, left, fresh, current)
  BY DEF Leaves
<1>4. kept \in [Ino -> GoodFile]
  <2> SUFFICES ASSUME NEW i \in Ino
               PROVE  Synced(SubSeq(files[i].cells, 1, files[i].synced)) \in GoodFile /\ Empty \in GoodFile
    OBVIOUS
  <2>1. files[i] \in GoodFile
    BY LiveFacts
  <2> QED
    BY <2>1, GoodThroughPowerCut
<1> HIDE DEF left, kept
<1>5. /\ left \in Dirs /\ Generation(left) \in 0..MaxGen
      /\ \/ L = None /\ UnbornIn(left, left, Free, tried)
         \/ L \in Ino /\ Kept(files, tried, acked, L, Generation(left))
  BY <1>3, LeftDirectory
<1>6. /\ op' = Free /\ Free \in Ops /\ Free.at = "free" /\ Free.by = None /\ faults' \in 0..MaxFaults
      /\ tried' = tried /\ acked' = acked
      /\ proc' \in [Proc -> Queues] /\ \A p \in Proc : proc'[p] = Down
  <2>1. proc' = [p \in Proc |-> Down] /\ Down \in Queues
    BY DownFollows DEF PowerCut
  <2>2. proc' \in [Proc -> Queues] /\ \A p \in Proc : proc'[p] = Down
    BY <2>1
  <2>3. op' = Free /\ faults' \in 0..MaxFaults /\ tried' = tried /\ acked' = acked
    BY LiveFacts DEF PowerCut, Fault
  <2>4. Free \in Ops /\ Free.at = "free" /\ Free.by = None
    BY DEF Free, Ops
  <2> QED
    BY <2>2, <2>3, <2>4
<1>9. files' \in [Ino -> GoodFile] /\ LogsKeepIn(files', dir', dir', op', tried', acked')
  <2>1. CASE L = None
    <3>1. files' \in [Ino -> GoodFile]
      BY <1>2, <1>4, <2>1
    <3>2. UnbornIn(left, left, Free, tried)
      BY <1>5, <2>1, StorageAssumption
    <3>3. LogsKeepIn(files', dir', dir', op', tried', acked')
      BY <1>2, <1>6, <2>1, <3>2 DEF LogsKeepIn
    <3> QED
      BY <3>1, <3>3
  <2>2. CASE L # None
    <3>1. L \in Ino /\ Kept(files, tried, acked, L, Generation(left))
      BY <1>5, <2>2
    <3>2. PICK file \in AfterPowerCut(files[L]) : files' = [kept EXCEPT ![L] = file]
      BY <1>2, <2>2
    <3>3. files[L] \in File /\ KeptFile(tried, acked, files[L], Generation(left))
      BY <3>1, LiveFacts DEF Kept, GoodFile
    <3>4. file \in File /\ KeptFile(tried, acked, file, Generation(left))
      BY <3>3, KeptThroughPowerCut
    <3>5. file \in GoodFile
      BY <3>4, KeptFileFacts
    <3>6. files' \in [Ino -> GoodFile] /\ files'[L] = file
      BY <1>4, <3>1, <3>2, <3>5
    <3>7. Kept(files', tried', acked', L, Generation(left))
      BY <1>6, <2>2, <3>4, <3>6 DEF Kept
    <3>8. LogsKeepIn(files', dir', dir', op', tried', acked')
      BY <1>2, <3>7 DEF LogsKeepIn
    <3> QED
      BY <3>6, <3>8
  <2> QED
    BY <2>1, <2>2
<1>10. Shape(files', dir', dir', proc', op', tried', acked', faults')
  BY <1>2, <1>5, <1>6, <1>9, LiveFacts DEF Shape
<1>11. AnchoredIn(dir', dir', op', tried')
  BY <1>2, <1>6 DEF AnchoredIn
<1>12. InPlace(files', dir', dir', proc', op', tried', acked')
  BY <1>2, <1>6 DEF InPlace
<1>13. \A p \in Proc : Follows(files', dir', proc'[p])
  BY <1>6, DownFollows
<1> QED
  BY <1>6, <1>9, <1>10, <1>11, <1>12, <1>13, LiveFacts DEF Inv

\* The invariant holds at first.
LEMMA InitKeeps ==
  ASSUME Init
  PROVE  IInv
<1>1. /\ files = [i \in Ino |-> Empty]
      /\ dir = [log |-> [g \in 0..MaxGen |-> None], current |-> None]
      /\ disk = dir /\ unsynced = FALSE
      /\ proc = [p \in Proc |-> Down] /\ op = Free /\ tried = {} /\ acked = {} /\ faults = 0
  BY DEF Init
<1>2. Empty \in GoodFile
  <2>1. <<>> \in Seq(Cell) /\ Len(<<>>) = 0
    BY EmptySeq
  <2> QED
    BY <2>1 DEF Empty, Synced, GoodFile, File
<1>3. MaxGen \in Nat /\ MaxFaults \in Nat
  BY StorageAssumption
<1>4. /\ dir \in Dirs /\ dir.current = None /\ Generation(dir) = 0 /\ dir.log[0] = None
      /\ LiveLog(dir) = None
  BY <1>1, <1>3 DEF Dirs, Generation, LiveLog
<1>5. Free \in Ops /\ Free.at = "free" /\ Free.by = None
  BY DEF Free, Ops
<1>6. Down \in Queues
  BY DownFollows
<1>7. Shape(files, dir, disk, proc, op, tried, acked, faults)
  <2>1. proc \in [Proc -> Queues] /\ files \in [Ino -> GoodFile]
    BY <1>1, <1>2, <1>6
  <2> QED
    BY <1>1, <1>3, <1>4, <1>5, <2>1 DEF Shape
<1>8. UnbornIn(dir, disk, op, tried)
  BY <1>1, <1>4 DEF UnbornIn
<1>9. LogsKeepIn(files, dir, disk, op, tried, acked)
  BY <1>1, <1>4, <1>8 DEF LogsKeepIn
<1>10. InPlace(files, dir, disk, proc, op, tried, acked)
  BY <1>1, <1>5 DEF InPlace
<1>11. \A p \in Proc : Follows(files, dir, proc[p])
  BY <1>1, DownFollows
<1>12. IsFiniteSet(tried) /\ DonesAdded(tried)
  BY <1>1, FS_EmptySet DEF DonesAdded
<1>13. Inv(files, dir, disk, proc, op, tried, acked, faults)
  BY <1>7, <1>8, <1>9, <1>10, <1>11, <1>12 DEF Inv, AnchoredIn
<1>14. Relied = dir /\ dir = disk
  BY <1>1 DEF Relied
<1>15. PassedOver
  BY <1>1, <1>5 DEF PassedOver
<1> QED
  BY <1>1, <1>4, <1>13, <1>14, <1>15, InvIs

\* The steps that leave alone what the disk has of the directory.
Steady(p) ==
  \/ Create(p) \/ CatchUp(p) \/ CatchUpBreaks(p) \/ Leave(p) \/ Commit(p) \/ CommitBreaks(p)
  \/ WriteNew(p) \/ Place(p) \/ Flip(p) \/ Switch(p) \/ CompactBreaks(p) \/ SwitchBreaks(p)
  \/ Stop(p)
  \/ Kill(p) /\ op.at \notin {"created", "flipped"}

LEMMA SteadyKeeps ==
  ASSUME NEW K, Inv(files, dir, K, proc, op, tried, acked, faults), K \in {dir, disk},
         NEW p \in Proc, Steady(p), Covered
  PROVE  Inv(files', dir', K, proc', op', tried', acked', faults')
BY CreateKeeps, CatchUpKeeps, CatchUpBreaksKeeps, LeaveKeeps, CommitKeeps, CommitBreaksKeeps,
   WriteNewKeeps, PlaceKeeps, FlipKeeps, SwitchKeeps, CompactBreaksKeeps, SwitchBreaksKeeps,
   StopKeeps, KillKeeps DEF Steady

\* Only a log's creation leads to the place between that and the sync.
LEMMA SteadyLeads ==
  ASSUME op \in Ops, unsynced \in BOOLEAN, NEW p \in Proc, Steady(p)
  PROVE  /\ disk' = disk /\ unsynced' = unsynced
         /\ op'.at = "created" => Create(p)
<1>1. CASE Create(p)
  BY <1>1 DEF Create
<1>2. CASE CatchUp(p)
  BY <1>2 DEF CatchUp, Take
<1>3. CASE CatchUpBreaks(p) \/ Leave(p) \/ Commit(p) \/ CommitBreaks(p)
  <2>1. op' = Free /\ disk' = disk /\ unsynced' = unsynced
    BY <1>3 DEF CatchUpBreaks, Leave, Commit, CommitBreaks
  <2> QED
    BY <2>1 DEF Free
<1>7. CASE Switch(p)
  BY <1>7 DEF Switch, Free
<1>8. CASE CompactBreaks(p)
  BY <1>8 DEF CompactBreaks, Free
<1>9. CASE SwitchBreaks(p)
  BY <1>9 DEF SwitchBreaks, Free
<1>4. CASE WriteNew(p) \/ Place(p) \/ Flip(p)
  BY <1>4 DEF WriteNew, Place, Flip, Goto, Ops
<1>5. CASE Stop(p)
  BY <1>5 DEF Stop, Free
<1>6. CASE Kill(p) /\ op.at \notin {"created", "flipped"}
  BY <1>6 DEF Kill, Free
<1> QED
  BY <1>1, <1>2, <1>3, <1>4, <1>5, <1>6, <1>7, <1>8, <1>9 DEF Steady

\* What may be relied on, may be left for what everybody sees.
LEMMA SeenRelied ==
  ASSUME NEW F, NEW D, NEW K, NEW P, NEW O, NEW T, NEW A, NEW n,
         Inv(F, D, K, P, O, T, A, n), O.at # "created", LiveLog(K) # None
  PROVE  Inv(F, D, D, P, O, T, A, n) /\ LiveLog(D) # None
<1>1. ~UnbornIn(D, K, O, T)
  BY DEF UnbornIn, LiveLog, Generation
<1>2. Kept(F, T, A, LiveLog(D), Generation(D))
  BY <1>1 DEF Inv, LogsKeepIn
<1>3. AnchoredIn(D, D, O, T)
  BY DEF AnchoredIn
<1>4. LogsKeepIn(F, D, D, O, T, A)
  BY <1>2 DEF LogsKeepIn
<1>5. InPlace(F, D, D, P, O, T, A)
  BY DEF Inv, InPlace
<1>6. Shape(F, D, D, P, O, T, A, n)
  BY DEF Inv, Shape
<1> QED
  BY <1>2, <1>3, <1>4, <1>5, <1>6 DEF Inv, Kept

\* Between a rename and its sync there is a log for all to see.
LEMMA SeenAtRename ==
  ASSUME IInv, op.at \in {"created", "placed", "flipped"}
  PROVE  LiveLog(dir) # None
<1>1. Inv(files, dir, Relied, proc, op, tried, acked, faults) /\ PassedOver
  BY InvIs
<1>2. InPlace(files, dir, Relied, proc, op, tried, acked) /\ dir \in Dirs /\ proc \in [Proc -> Queues]
      /\ op \in Ops
  BY <1>1 DEF Inv, Shape
<1>3. CASE op.at = "created"
  BY <1>1, <1>3 DEF PassedOver
<1>4. CASE op.at = "placed"
  BY <1>2, <1>4 DEF InPlace, WorksOn
<1>5. CASE op.at = "flipped"
  <2> DEFINE g == proc[op.by].gen + 1
  <2>1. dir.log[g] = op.new /\ dir.current = g /\ op.new # None
    BY <1>2, <1>5 DEF InPlace, Made, Kept
  <2>2. g # None
    <3>1. op.by \in Proc
      BY <1>2, <1>5 DEF InPlace, Ops
    <3>2. proc[op.by].gen \in 0..MaxGen
      BY <1>2, <3>1 DEF Queues
    <3> QED
      BY <3>2, StorageAssumption
  <2> QED
    BY <2>1, <2>2 DEF LiveLog, Generation
<1> QED
  BY <1>3, <1>4, <1>5

LEMMA NextKeeps ==
  ASSUME IInv, [Next]_vars, Covered
  PROVE  IInv'
<1>1. /\ Inv(files, dir, Relied, proc, op, tried, acked, faults)
      /\ disk \in Dirs /\ unsynced \in BOOLEAN /\ PassedOver
  BY InvIs
<1>2. op \in Ops
  BY <1>1 DEF Inv, Shape
<1>3. CASE UNCHANGED vars
  <2>1. UNCHANGED <<files, dir, disk, unsynced, proc, op, tried, acked, faults>>
    BY <1>3 DEF vars
  <2>2. Relied' = Relied /\ (PassedOver' <=> PassedOver)
    BY <2>1 DEF Relied, PassedOver
  <2> QED
    BY <1>1, <2>1, <2>2, InvIsNext
<1>4. ASSUME NEW p \in Proc, Steady(p) PROVE IInv'
  <2>1. PICK K : K = Relied /\ K \in {dir, disk}
    BY DEF Relied
  <2>2. Inv(files', dir', K, proc', op', tried', acked', faults')
    BY <1>1, <1>4, <2>1, SteadyKeeps
  <2>3. disk' = disk /\ unsynced' = unsynced /\ (op'.at = "created" => Create(p))
    BY <1>1, <1>2, <1>4, SteadyLeads
  <2>4. CASE unsynced
    <3>1. K = dir /\ LiveLog(dir) # None
      BY <1>1, <2>1, <2>4 DEF Relied, PassedOver
    <3>2. op'.at # "created"
      BY <2>3, <3>1 DEF Create
    <3>3. Inv(files', dir', dir', proc', op', tried', acked', faults') /\ LiveLog(dir') # None
      BY <2>2, <3>1, <3>2, SeenRelied
    <3>4. Relied' = dir' /\ PassedOver'
      BY <2>3, <2>4, <3>2, <3>3 DEF Relied, PassedOver
    <3> QED
      BY <1>1, <2>3, <3>3, <3>4, InvIsNext
  <2>5. CASE ~unsynced
    <3>1. Relied' = K
      BY <2>1, <2>3, <2>5 DEF Relied
    <3>2. op'.at = "created" => LiveLog(dir') # None
      <4>1. PICK d : d = dir'
        OBVIOUS
      <4>2. ASSUME Create(p) PROVE d.log[Generation(d)] # None
        <5>1. dir' = [dir EXCEPT !.log[Generation(dir)] = Fresh] /\ Fresh # None
          BY <4>2, FreshFacts DEF Create
        <5>2. dir \in Dirs /\ Generation(dir) \in 0..MaxGen
          BY <1>1, GenerationTyped DEF Inv, Shape
        <5>3. dir'.log[Generation(dir)] = Fresh /\ dir'.current = dir.current
          BY <5>1, <5>2 DEF Dirs
        <5> QED
          BY <4>1, <5>1, <5>3 DEF Generation
      <4> QED
        BY <2>3, <4>1, <4>2 DEF LiveLog
    <3>3. PassedOver'
      BY <2>3, <2>5, <3>2 DEF PassedOver
    <3> QED
      BY <1>1, <2>2, <2>3, <3>1, <3>3, InvIsNext
  <2> QED
    BY <1>1, <2>4, <2>5
<1>5. ASSUME NEW p \in Proc,
             SyncDirectory(p) \/ (Kill(p) /\ op.at \in {"created", "flipped"})
      PROVE  IInv'
  <2>1. op.at \in {"created", "placed", "flipped"} /\ LiveLog(dir) # None
    BY <1>5, SeenAtRename DEF SyncDirectory
  <2>2. PICK K : Inv(files, dir, K, proc, op, tried, acked, faults)
    BY <1>1
  <2>3. Inv(files', dir', dir', proc', op', tried', acked', faults')
    BY <1>5, <2>1, <2>2, SyncDirectoryKeeps, KillKeeps
  <2>4. dir' = dir /\ unsynced' \in BOOLEAN /\ Relied' = dir' /\ disk' \in {disk, dir}
        /\ op'.at # "created"
    <3>1. CASE SyncDirectory(p)
      BY <1>2, <3>1 DEF SyncDirectory, Goto, Relied, Ops
    <3>2. CASE Kill(p) /\ op.at \in {"created", "flipped"}
      BY <3>2 DEF Kill, Free, Relied
    <3> QED
      BY <1>5, <3>1, <3>2
  <2>5. PassedOver'
    BY <2>1, <2>4 DEF PassedOver
  <2>6. disk' \in Dirs
    BY <1>1, <2>4 DEF Inv, Shape
  <2> QED
    BY <2>3, <2>4, <2>5, <2>6, InvIsNext
<1>6. CASE PowerCut
  <2>1. ~unsynced /\ unsynced' = FALSE /\ disk' = dir' /\ op' = Free
    BY <1>6 DEF PowerCut, Fault, Covered
  <2>2. Inv(files, dir, disk, proc, op, tried, acked, faults)
    BY <1>1, <2>1 DEF Relied
  <2>3. Inv(files', dir', dir', proc', op', tried', acked', faults')
    BY <1>6, <2>2, PowerCutKeeps
  <2>4. Relied' = dir' /\ PassedOver'
    BY <2>1 DEF Relied, PassedOver, Free
  <2>5. disk' \in Dirs
    BY <2>1, <2>3 DEF Inv, Shape
  <2> QED
    BY <2>1, <2>3, <2>4, <2>5, InvIsNext
<1> QED
  BY <1>3, <1>4, <1>5, <1>6 DEF Next, Steady

\* Through every interleaving of operations, failures, kills and power cuts between system
\* calls, and syncs of the directory that fail, the invariant holds: the files, the two
\* directories and what each process remembers fit each other.  Three faults are excluded
\* (Covered), as they break it: a process that fails between taking up a log and setting its
\* read position in it (_open_live_log, compact), and a power cut after a sync of the
\* directory was passed over, by an error or a kill, and before the next (fsync_directory).
THEOREM StorageInvariant == ASSUME Covered PROVE Spec => []IInv
<1>1. Init => IInv
  BY InitKeeps
<1>2. IInv /\ [Next]_vars => IInv'
  BY NextKeeps
<1> QED
  BY <1>1, <1>2, PTL DEF Spec

-----------------------------------------------------------------------------
(***************************************************************************)
(* What the invariant says to a user of the files.                         *)
(***************************************************************************)

\* What the pointer leads to, and the operation at work, of a state of the invariant.
LEMMA ContentsKept ==
  ASSUME IInv
  PROVE  /\ Contents(dir) = ContentsOf(files, dir)
         /\ LiveLog(dir) # None =>
              /\ files[LiveLog(dir)] \in File
              /\ KeptFile(tried, acked, files[LiveLog(dir)], Generation(dir))
         /\ LiveLog(dir) = None => tried = {} /\ acked = {}
<1> PICK K : Inv(files, dir, K, proc, op, tried, acked, faults)
  BY InvIs
<1>1. LiveLog(dir) # None => Kept(files, tried, acked, LiveLog(dir), Generation(dir))
  BY LiveFacts DEF LogsKeepIn
<1>2. Contents(dir) = ContentsOf(files, dir)
  BY <1>1, LiveFacts, ContentsAre
<1>3. LiveLog(dir) # None => files[LiveLog(dir)] \in File
  BY LiveFacts DEF GoodFile
<1>4. LiveLog(dir) = None => UnbornIn(dir, K, op, tried)
  BY LiveFacts DEF LogsKeepIn, Kept
<1>5. LiveLog(dir) = None => tried = {} /\ acked = {}
  BY <1>4, LiveFacts DEF UnbornIn
<1> QED
  BY <1>1, <1>2, <1>3, <1>5 DEF Kept

LEMMA InvPromises ==
  ASSUME IInv
  PROVE  PromisesKept
<1> PICK K : Inv(files, dir, K, proc, op, tried, acked, faults)
  BY InvIs
<1> DEFINE now == Contents(dir)
           Told(jobs) == \A j \in Job :
             /\ Add(j) \in acked /\ Done(j) \notin tried => jobs[j] = "live"
             /\ Done(j) \in acked => jobs[j] # "live"
             /\ jobs[j] # "none" => Add(j) \in tried
           S == {Told(x) : x \in {now}}
<1>1. Told(now)
  <2> SUFFICES ASSUME NEW j \in Job
               PROVE  /\ Add(j) \in acked /\ Done(j) \notin tried => now[j] = "live"
                      /\ Done(j) \in acked => now[j] # "live"
                      /\ now[j] # "none" => Add(j) \in tried
    OBVIOUS
  <2>1. now = ContentsOf(files, dir)
    BY ContentsKept
  <2>2. CASE LiveLog(dir) = None
    <3>1. acked = {} /\ now[j] = "none"
      BY <2>1, <2>2, ContentsKept DEF ContentsOf, NoJobs
    <3> QED
      BY <3>1
  <2>3. CASE LiveLog(dir) # None
    <3> DEFINE all == Recs(files[LiveLog(dir)].cells)
               safe == ToSet(Recs(SubSeq(files[LiveLog(dir)].cells, 1, files[LiveLog(dir)].synced)))
    <3>1. /\ files[LiveLog(dir)] \in File
          /\ KeptFile(tried, acked, files[LiveLog(dir)], Generation(dir))
      BY <2>3, ContentsKept
    <3>2. all \in Seq(Records) /\ Promised(tried, acked, all, safe) /\ safe \subseteq ToSet(all)
      BY <3>1, KeptFileFacts DEF KeptFile
    <3>3. now[j] = Replayed(NoJobs, all)[j]
      BY <2>1, <2>3 DEF ContentsOf
    <3> HIDE DEF all, safe, now
    <3>4. now[j] = StatusIn(ToSet(all), j)
      BY <3>2, <3>3, OrderlyStatus DEF Promised
    <3>5. /\ ToSet(all) \subseteq tried
          /\ Add(j) \in acked /\ Done(j) \notin tried => Add(j) \in safe
          /\ Done(j) \in acked => Done(j) \in safe \/ Add(j) \notin ToSet(all)
      BY <3>2 DEF Promised
    <3>6. Done(j) \in tried => Add(j) \in tried
      BY LiveFacts DEF DonesAdded
    <3> QED
      BY <3>2, <3>4, <3>5, <3>6 DEF StatusIn
  <2> QED
    BY <2>2, <2>3
<1> HIDE DEF Told
<1>2. S = {TRUE}
  BY <1>1
<1>3. (CHOOSE r \in S : TRUE) = TRUE
  BY <1>2
<1>4. PromisesKept = (CHOOSE r \in S : TRUE)
  BY Zenon DEF PromisesKept, Once, Told
<1> QED
  BY <1>3, <1>4

LEMMA InvWorks ==
  ASSUME IInv
  PROVE  WorksOnLiveLog
<1> PICK K : Inv(files, dir, K, proc, op, tried, acked, faults)
  BY InvIs
<1> SUFFICES ASSUME NEW p \in Proc, At(p, "inside")
             PROVE  /\ proc[p].log = LiveLog(dir) /\ proc[p].idx = Contents(dir)
                    /\ {proc[p].pos, proc[p].end} = {Len(files[LiveLog(dir)].cells)}
  BY DEF WorksOnLiveLog
<1>1. WorksOn(files, dir, proc[p])
  BY LiveFacts DEF At, InPlace
<1> QED
  BY <1>1, ContentsKept DEF WorksOn

\* A scan of a log, with chunks of any size: it starts with whole records, no whole record
\* follows, and no damage is reported exactly when nothing is left.
LEMMA ScanExact ==
  ASSUME NEW cells, Plain(cells), NEW chunk \in Nat \ {0},
         NEW scan, scan = Scan(cells, HeaderSize, chunk)
  PROVE  /\ SubSeq(cells, 1, scan.end) = <<cells[1]>> \o FlattenSeq(Encodings(scan.records))
         /\ scan.why = "NONE" <=> scan.end = Len(cells)
         /\ \A r \in Records : ~IsPrefix(Encoded(r), SubSeq(cells, scan.end + 1, Len(cells)))
<1>1. cells \in Seq(Cell) /\ Len(cells) \in Nat /\ Len(cells) >= 1
  BY RecsFacts DEF Plain
<1>2. /\ scan \in Runs /\ scan.end \in 1..Len(cells)
      /\ Parsed(cells, 1, scan.records, scan.end)
      /\ scan.why = "NONE" <=> scan.end = Len(cells)
  <2>1. 1 \in 1..Len(cells) /\ scan = Scan(cells, 1, chunk)
    BY <1>1 DEF HeaderSize
  <2> QED
    BY <2>1, ScanFacts
<1> DEFINE e == scan.end  rs == scan.records
<1>3. rs \in Seq(Records) /\ Lays(cells, 1, rs, e) /\ \A r \in Records : ~Holds(cells, e, r)
  BY <1>2 DEF Parsed
<1>4. SubSeq(cells, 1, e) = <<cells[1]>> \o FlattenSeq(Encodings(rs))
  <2> HIDE DEF e, rs
  <2> QED
    BY <1>3, LaysFlatten
<1>5. ASSUME NEW r \in Records, IsPrefix(Encoded(r), SubSeq(cells, e + 1, Len(cells)))
      PROVE  FALSE
  <2> DEFINE tail == SubSeq(cells, e + 1, Len(cells))  code == Encoded(r)  n == Size(r)
  <2>1. e \in Nat /\ e >= 1 /\ e <= Len(cells)
    BY <1>2
  <2>2. n \in Nat /\ code \in Seq(DataCell) /\ Len(code) = n
        /\ \A k \in 1..n : code[k] = [of |-> r, at |-> k]
    BY RecordFacts, EncodedFacts
  <2> HIDE DEF e, code, n
  <2>3. /\ tail \in Seq(Cell) /\ Len(tail) = Len(cells) - e
        /\ \A k \in 1..(Len(cells) - e) : tail[k] = cells[e + k]
    <3>1. e \in 0..Len(cells) /\ Len(cells) \in e..Len(cells)
      BY <1>1, <2>1
    <3> QED
      BY <1>1, <3>1, Stretch
  <2> HIDE DEF tail
  <2>4. Len(code) <= Len(tail) /\ SubSeq(code, 1, Len(code)) = SubSeq(tail, 1, Len(code))
    BY <1>5 DEF IsPrefix, tail, code
  <2>5. n <= Len(cells) - e
    BY <2>2, <2>3, <2>4
  <2>6. ASSUME NEW k \in 1..n PROVE cells[e + k] = [of |-> r, at |-> k]
    <3>1. SubSeq(code, 1, n)[k] = code[k] /\ SubSeq(tail, 1, n)[k] = tail[k]
      BY <1>1, <2>1, <2>2, <2>3, <2>5
    <3>2. k \in 1..(Len(cells) - e)
      BY <1>1, <2>1, <2>2, <2>5
    <3> QED
      BY <2>2, <2>3, <2>4, <3>1, <3>2
  <2>7. Holds(cells, e, r)
    BY <1>1, <2>1, <2>2, <2>5, <2>6 DEF Holds, n
  <2> QED
    BY <1>3, <2>7 DEF e
<1> QED
  BY <1>2, <1>4, <1>5

LEMMA InvScan ==
  ASSUME IInv
  PROVE  ScanIsExact
<1> PICK K : Inv(files, dir, K, proc, op, tried, acked, faults)
  BY InvIs
<1> SUFFICES ASSUME HasHeader(LiveLog(dir)), NEW chunk \in Chunks
             PROVE  LET cells == files[LiveLog(dir)].cells
                        next  == [r \in tried |-> Encoded(r)] IN
                    Once(Scan(cells, HeaderSize, chunk), LAMBDA scan :
                      /\ SubSeq(cells, 1, scan.end) =
                           <<cells[1]>> \o FlattenSeq([n \in DOMAIN scan.records |-> Encoded(scan.records[n])])
                      /\ (scan.why = "NONE") = (scan.end = Len(cells))
                      /\ \A r \in tried : ~IsPrefix(next[r], SubSeq(cells, scan.end + 1, Len(cells))))
  BY Zenon DEF ScanIsExact
<1> DEFINE cells == files[LiveLog(dir)].cells
           next == [r \in tried |-> Encoded(r)]
           scan == Scan(cells, HeaderSize, chunk)
           Exact(s) ==
             /\ SubSeq(cells, 1, s.end) =
                  <<cells[1]>> \o FlattenSeq([n \in DOMAIN s.records |-> Encoded(s.records[n])])
             /\ (s.why = "NONE") = (s.end = Len(cells))
             /\ \A r \in tried : ~IsPrefix(next[r], SubSeq(cells, s.end + 1, Len(cells)))
           S == {Exact(x) : x \in {scan}}
<1>1. Exact(scan)
  <2>1. Plain(cells)
    BY ContentsKept, KeptFileFacts DEF HasHeader
  <2> HIDE DEF cells
  <2>2. chunk \in Nat \ {0}
    BY StorageAssumption
  <2>3. /\ SubSeq(cells, 1, scan.end) = <<cells[1]>> \o FlattenSeq(Encodings(scan.records))
        /\ scan.why = "NONE" <=> scan.end = Len(cells)
        /\ \A r \in Records : ~IsPrefix(Encoded(r), SubSeq(cells, scan.end + 1, Len(cells)))
    BY <2>1, <2>2, ScanExact
  <2> HIDE DEF scan
  <2>4. \A r \in tried : ~IsPrefix(next[r], SubSeq(cells, scan.end + 1, Len(cells)))
    BY <2>3, LiveFacts
  <2>5. Encodings(scan.records) = [n \in DOMAIN scan.records |-> Encoded(scan.records[n])]
    BY DEF Encodings
  <2> HIDE DEF next
  <2> QED
    BY <2>3, <2>4, <2>5
<1> HIDE DEF Exact
<1>2. S = {TRUE}
  BY <1>1
<1>3. (CHOOSE r \in S : TRUE) = TRUE
  BY <1>2
<1>4. Once(scan, LAMBDA s : Exact(s)) = (CHOOSE r \in S : TRUE)
  BY Zenon DEF Once
<1>5. Once(scan, LAMBDA s : Exact(s))
  BY <1>3, <1>4
<1> QED
  BY <1>5, Zenon DEF Exact

\* Variables keep their types, and a file is never longer on the disk than it is.
THEOREM StorageTypes == ASSUME Covered PROVE Spec => []TypeOK
<1>1. IInv => TypeOK
  BY DEF IInv
<1> QED
  BY <1>1, StorageInvariant, PTL

\* What the pointer leads to holds everything anybody was promised, at every moment and
\* through every failure and crash that Covered leaves in (append, _replay, compact; "fsync
\* before returning").
THEOREM PromisesAreKept == ASSUME Covered PROVE Spec => []PromisesKept
<1>1. IInv => PromisesKept
  BY InvPromises
<1> QED
  BY <1>1, StorageInvariant, PTL

\* An operation that has caught up works on the live log, up to its very end, with the
\* index that this log says, if nobody failed between taking up a log and setting his read
\* position in it, and no power cut came after a sync passed over (_catch_up, _live_generation).
THEOREM OperationsWorkOnLiveLog == ASSUME Covered PROVE Spec => []WorksOnLiveLog
<1>1. IInv => WorksOnLiveLog
  BY InvWorks
<1> QED
  BY <1>1, StorageInvariant, PTL

\* Whatever the sizes of chunks, any set of positive numbers, a scan returns the records the
\* live log starts with, all of them, and says so exactly when there is nothing else (scan,
\* decode_record).
THEOREM ScansAreExact == ASSUME Covered PROVE Spec => []ScanIsExact
<1>1. IInv => ScanIsExact
  BY InvScan
<1> QED
  BY <1>1, StorageInvariant, PTL
=============================================================================
