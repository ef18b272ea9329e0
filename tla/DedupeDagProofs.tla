--------------------------- MODULE DedupeDagProofs ---------------------------
(***************************************************************************)
(* Theorems about DedupeDag, for every set of reports, all windows, and any *)
(* number of passes over any number of rows.  DedupProofs is extended for   *)
(* its lemmas on the loop of dedupe; the machine of Dedup plays no part.    *)
(***************************************************************************)
EXTENDS DedupeDag, DedupProofs, FiniteSetTheorems

-----------------------------------------------------------------------------
(* Loops: dedupe walks over the reports of the batch, executemany over the  *)
(* mart rows.  Both are functions on 0..n, defined by recursion.            *)

\* What Clusterings computes is what its definition says.
LEMMA ClusteringsRecursion ==
  ASSUME NEW s \in Seq(Reports)
  PROVE  /\ Clusterings(s)[0] = <<>>
         /\ \A n \in 1..Len(s) :
              Clusterings(s)[n] = Assign(SubSeq(s, 1, n - 1), Clusterings(s)[n - 1], s[n])
<1> DEFINE Body(h, n) == Assign(SubSeq(s, 1, n - 1), h[n - 1], s[n])
           Solves(h, N) == h = [n \in 0..N |-> IF n = 0 THEN <<>> ELSE Body(h, n)]
           Solved == {N \in Nat : \E h : Solves(h, N)}
<1>1. 0 \in Solved
  <2>1. Solves([n \in 0..0 |-> <<>>], 0)
    OBVIOUS
  <2>2. QED
    BY <2>1
<1>2. ASSUME NEW N \in 0..(Len(s) - 1), N \in Solved
      PROVE  N + 1 \in Solved
  <2>1. PICK h : Solves(h, N)
    BY <1>2
  <2> DEFINE g == [n \in 0..(N + 1) |-> IF n = N + 1 THEN Body(h, N + 1) ELSE h[n]]
  <2>2. ASSUME NEW n \in 0..(N + 1)
        PROVE  g[n] = IF n = 0 THEN <<>> ELSE Body(g, n)
    <3>1. \A i \in 0..N : g[i] = h[i]
      OBVIOUS
    <3>2. CASE n = 0
      <4>1. 0 \in 0..N /\ h[0] = <<>>
        BY <2>1
      <4>2. QED
        BY <3>1, <3>2, <4>1
    <3>3. CASE n \in 1..N
      <4>1. n - 1 \in 0..N /\ n \in 0..N /\ n # 0
        BY <3>3
      <4>2. h[n] = Body(h, n)
        BY <2>1, <4>1
      <4>3. g[n] = h[n] /\ g[n - 1] = h[n - 1]
        BY <3>1, <4>1
      <4> HIDE DEF g
      <4>4. QED
        BY <4>1, <4>2, <4>3
    <3>4. CASE n = N + 1
      <4>1. N \in 0..N /\ n - 1 = N /\ n # 0
        BY <3>4
      <4>2. g[n] = Body(h, n) /\ g[n - 1] = h[n - 1]
        BY <3>1, <3>4, <4>1
      <4> HIDE DEF g
      <4>3. QED
        BY <4>1, <4>2
    <3>5. QED
      BY <3>2, <3>3, <3>4
  <2>3. g = [n \in 0..(N + 1) |-> IF n = 0 THEN <<>> ELSE Body(g, n)]
    <3>1. g = [n \in 0..(N + 1) |-> g[n]]
      OBVIOUS
    <3> HIDE DEF g
    <3>2. QED
      BY <2>2, <3>1
  <2> HIDE DEF g
  <2>4. Solves(g, N + 1)
    BY <2>3
  <2>5. N + 1 \in Nat
    OBVIOUS
  <2>6. QED
    BY <2>4, <2>5
<1>3. Len(s) \in Nat /\ Len(s) \in 0..Len(s)
  OBVIOUS
<1>4. Len(s) \in Solved
  <2> HIDE DEF Solved
  <2> QED
    BY <1>1, <1>2, <1>3, BoundedInduction
<1>5. Clusterings(s) = CHOOSE h : Solves(h, Len(s))
  BY Zenon DEF Clusterings
<1>6. Solves(Clusterings(s), Len(s))
  <2>1. \E h : Solves(h, Len(s))
    BY <1>4
  <2> HIDE DEF Solves
  <2>2. QED
    BY <1>5, <2>1, Zenon
<1> DEFINE cs == Clusterings(s)
<1>7. cs = [n \in 0..Len(s) |-> IF n = 0 THEN <<>> ELSE Body(cs, n)]
  BY <1>6
<1> HIDE DEF cs
<1>8. cs[0] = <<>> /\ \A n \in 1..Len(s) : cs[n] = Body(cs, n)
  BY <1>3, <1>7
<1>9. QED
  BY <1>8 DEF cs

\* Each step of the recursion is a turn of the loop.
LEMMA ClusteringsTurn ==
  ASSUME NEW s \in Seq(Reports), InOrder(s), NEW n \in 0..(Len(s) - 1)
  PROVE  /\ n + 1 \in 0..Len(s) /\ s[n + 1] \in Reports
         /\ Len(SubSeq(s, 1, n)) = n
         /\ Assigned(SubSeq(s, 1, n), Clusterings(s)[n], s[n + 1],
                     SubSeq(s, 1, n + 1), Clusterings(s)[n + 1])
<1> DEFINE before == SubSeq(s, 1, n)
           cs == Clusterings(s)
<1>1. n + 1 \in 1..Len(s) /\ (n + 1) - 1 = n /\ n + 1 \in 0..Len(s)
  OBVIOUS
<1>2. /\ before \in Seq(Reports) /\ Len(before) = n
      /\ \A i \in 1..n : before[i] = s[i]
      /\ s[n + 1] \in Reports
      /\ SubSeq(s, 1, n + 1) = Append(before, s[n + 1])
  BY <1>1
<1>3. cs[n + 1] = Assign(before, cs[n], s[n + 1])
  BY <1>1, ClusteringsRecursion
<1>4. \A i \in DOMAIN before : before[i].time <= s[n + 1].time
  BY <1>1, <1>2 DEF InOrder
<1> HIDE DEF before, cs
<1>5. Assigned(before, cs[n], s[n + 1], SubSeq(s, 1, n + 1), cs[n + 1])
  BY <1>2, <1>3, <1>4 DEF Assigned
<1>6. QED
  BY <1>1, <1>2, <1>5 DEF before, cs

\* The clusters of every prefix of a sorted batch have the invariant of the loop.
LEMMA PrefixInvariant ==
  ASSUME NEW s \in Seq(Reports), InOrder(s), NEW n \in 0..Len(s)
  PROVE  ClustersInv(SubSeq(s, 1, n), Clusterings(s)[n])
<1> DEFINE Kept == {i \in 0..Len(s) : \A l \in 0..i : ClustersInv(SubSeq(s, 1, l), Clusterings(s)[l])}
<1>1. 0 \in Kept
  <2>1. SubSeq(s, 1, 0) = <<>> /\ Clusterings(s)[0] = <<>>
    BY ClusteringsRecursion
  <2>2. 0 \in 0..Len(s) /\ \A l \in 0..0 : l = 0
    OBVIOUS
  <2>3. QED
    BY <2>1, <2>2, NoRows
<1>2. ASSUME NEW i \in 0..(Len(s) - 1), i \in Kept
      PROVE  i + 1 \in Kept
  <2>1. ClustersInv(SubSeq(s, 1, i), Clusterings(s)[i])
    BY <1>2
  <2>2. ClustersInv(SubSeq(s, 1, i + 1), Clusterings(s)[i + 1])
    BY <2>1, ClusteringsTurn, AssignKeeps
  <2>3. i + 1 \in 0..Len(s) /\ \A l \in 0..(i + 1) : l \in 0..i \/ l = i + 1
    OBVIOUS
  <2>4. QED
    BY <1>2, <2>2, <2>3
<1>3. Len(s) \in Kept
  <2>1. Len(s) \in Nat /\ Len(s) \in 0..Len(s)
    OBVIOUS
  <2> HIDE DEF Kept
  <2>2. QED
    BY <1>1, <1>2, <2>1, BoundedInduction
<1>4. QED
  BY <1>3

\* The clusters of a sorted batch have the invariant of the loop.
LEMMA ClusteredInvariant ==
  ASSUME NEW s \in Seq(Reports), InOrder(s)
  PROVE  ClustersInv(s, Clustered(s))
<1>1. SubSeq(s, 1, Len(s)) = s /\ Len(s) \in 0..Len(s)
  OBVIOUS
<1>2. QED
  BY <1>1, PrefixInvariant DEF Clustered

\* The clusters of a sorted batch are the quakes, if it reports two that are apart.
LEMMA ClusteredQuakes ==
  ASSUME NEW s \in Seq(Reports), InOrder(s), NEW q \in Labels(s), TwoQuakes(s, q)
  PROVE  Recovers(s, Clustered(s), q)
<1> DEFINE cs == Clusterings(s)
           pre(n) == SubSeq(s, 1, n)
           Found(n) == \A p \in Labels(pre(n)) : TwoQuakes(pre(n), p) => Recovers(pre(n), cs[n], p)
           Kept == {n \in 0..Len(s) : Found(n)}
<1>1. 0 \in Kept
  <2>1. pre(0) = <<>> /\ cs[0] = <<>>
    BY ClusteringsRecursion
  <2>2. \A p : Recovers(<<>>, <<>>, p)
    BY DEF Recovers, Reporting
  <2>3. 0 \in 0..Len(s)
    OBVIOUS
  <2> HIDE DEF cs
  <2>4. QED
    BY <2>1, <2>2, <2>3
<1>2. ASSUME NEW n \in 0..(Len(s) - 1), n \in Kept
      PROVE  n + 1 \in Kept
  <2>1. /\ n + 1 \in 0..Len(s) /\ s[n + 1] \in Reports
        /\ Assigned(pre(n), cs[n], s[n + 1], pre(n + 1), cs[n + 1])
        /\ ClustersInv(pre(n), cs[n])
    <3>1. n \in 0..Len(s)
      OBVIOUS
    <3>2. QED
      BY <3>1, ClusteringsTurn, PrefixInvariant
  <2>2. Found(n)
    BY <1>2
  <2>3. ASSUME NEW p \in Labels(pre(n + 1)), TwoQuakes(pre(n + 1), p)
        PROVE  Recovers(pre(n + 1), cs[n + 1], p)
    <3> HIDE DEF cs, pre
    <3>1. Restricted(p, pre(n)) \in Labels(pre(n)) /\ TwoQuakes(pre(n), Restricted(p, pre(n)))
      BY <2>1, <2>3, NextOfQuakes
    <3>2. Recovers(pre(n), cs[n], Restricted(p, pre(n)))
      BY <2>2, <3>1
    <3>3. QED
      BY <2>1, <2>3, <3>2, TurnRecovers
  <2> HIDE DEF cs, pre
  <2>4. QED
    BY <2>1, <2>3
<1>3. Len(s) \in Kept
  <2>1. Len(s) \in Nat /\ Len(s) \in 0..Len(s)
    OBVIOUS
  <2> HIDE DEF Kept
  <2>2. QED
    BY <1>1, <1>2, <2>1, BoundedInduction
<1>4. pre(Len(s)) = s
  OBVIOUS
<1>5. QED
  BY <1>3, <1>4 DEF Clustered

\* What Upserts computes is what its definition says.
LEMMA UpsertsRecursion ==
  ASSUME NEW m, NEW rs, Len(rs) \in Nat
  PROVE  /\ Upserts(m, rs)[0] = m
         /\ \A n \in 1..Len(rs) : Upserts(m, rs)[n] = Put(Upserts(m, rs)[n - 1], rs[n])
<1> DEFINE Body(h, n) == Put(h[n - 1], rs[n])
           Solves(h, N) == h = [n \in 0..N |-> IF n = 0 THEN m ELSE Body(h, n)]
           Solved == {N \in Nat : \E h : Solves(h, N)}
<1>1. 0 \in Solved
  <2>1. Solves([n \in 0..0 |-> m], 0)
    OBVIOUS
  <2>2. QED
    BY <2>1
<1>2. ASSUME NEW N \in 0..(Len(rs) - 1), N \in Solved
      PROVE  N + 1 \in Solved
  <2>1. PICK h : Solves(h, N)
    BY <1>2
  <2> DEFINE g == [n \in 0..(N + 1) |-> IF n = N + 1 THEN Body(h, N + 1) ELSE h[n]]
  <2>2. ASSUME NEW n \in 0..(N + 1)
        PROVE  g[n] = IF n = 0 THEN m ELSE Body(g, n)
    <3>1. \A i \in 0..N : g[i] = h[i]
      OBVIOUS
    <3>2. CASE n = 0
      <4>1. 0 \in 0..N /\ h[0] = m
        BY <2>1
      <4>2. QED
        BY <3>1, <3>2, <4>1
    <3>3. CASE n \in 1..N
      <4>1. n - 1 \in 0..N /\ n \in 0..N /\ n # 0
        BY <3>3
      <4>2. h[n] = Body(h, n)
        BY <2>1, <4>1
      <4>3. g[n] = h[n] /\ g[n - 1] = h[n - 1]
        BY <3>1, <4>1
      <4> HIDE DEF g
      <4>4. QED
        BY <4>1, <4>2, <4>3
    <3>4. CASE n = N + 1
      <4>1. N \in 0..N /\ n - 1 = N /\ n # 0
        BY <3>4
      <4>2. g[n] = Body(h, n) /\ g[n - 1] = h[n - 1]
        BY <3>1, <3>4, <4>1
      <4> HIDE DEF g
      <4>3. QED
        BY <4>1, <4>2
    <3>5. QED
      BY <3>2, <3>3, <3>4
  <2>3. g = [n \in 0..(N + 1) |-> IF n = 0 THEN m ELSE Body(g, n)]
    <3>1. g = [n \in 0..(N + 1) |-> g[n]]
      OBVIOUS
    <3> HIDE DEF g
    <3>2. QED
      BY <2>2, <3>1
  <2> HIDE DEF g
  <2>4. Solves(g, N + 1)
    BY <2>3
  <2>5. N + 1 \in Nat
    OBVIOUS
  <2>6. QED
    BY <2>4, <2>5
<1>3. Len(rs) \in Nat /\ Len(rs) \in 0..Len(rs)
  OBVIOUS
<1>4. Len(rs) \in Solved
  <2> HIDE DEF Solved
  <2> QED
    BY <1>1, <1>2, <1>3, BoundedInduction
<1>5. Upserts(m, rs) = CHOOSE h : Solves(h, Len(rs))
  BY Zenon DEF Upserts, Upserted
<1>6. Solves(Upserts(m, rs), Len(rs))
  <2>1. \E h : Solves(h, Len(rs))
    BY <1>4
  <2> HIDE DEF Solves
  <2>2. QED
    BY <1>5, <2>1, Zenon
<1> DEFINE ms == Upserts(m, rs)
<1>7. ms = [n \in 0..Len(rs) |-> IF n = 0 THEN m ELSE Body(ms, n)]
  BY <1>6
<1> HIDE DEF ms
<1>8. ms[0] = m /\ \A n \in 1..Len(rs) : ms[n] = Body(ms, n)
  BY <1>3, <1>7
<1>9. QED
  BY <1>8 DEF ms

-----------------------------------------------------------------------------
(* The mart after an executemany.                                          *)
UidsTo(rs, n) == {rs[k].event_uid : k \in 1..n}

\* Row k is the last one of its event_uid among the first n.
LastOfUid(rs, n, k) == \A j \in (k + 1)..n : rs[j].event_uid # rs[k].event_uid

\* w is made of m by the first n rows: the last row of an event_uid is there, with
\* the first_seen_at that was there, or else the event_time of some row.
AfterRows(m, rs, n, w) ==
  /\ w = [u \in DOMAIN m \cup UidsTo(rs, n) |-> w[u]]
  /\ \A u \in DOMAIN m \ UidsTo(rs, n) : w[u] = m[u]
  /\ \A k \in 1..n : LastOfUid(rs, n, k) => w[rs[k].event_uid].row = rs[k]
  /\ \A u \in UidsTo(rs, n) :
       /\ w[u] = [row |-> w[u].row, first_seen_at |-> w[u].first_seen_at]
       /\ \E k \in 1..n : rs[k].event_uid = u /\ w[u].row = rs[k]
       /\ IF u \in DOMAIN m
            THEN w[u].first_seen_at = m[u].first_seen_at
            ELSE \E k \in 1..n : rs[k].event_uid = u /\ w[u].first_seen_at = rs[k].event_time

LEMMA PutAddsRow ==
  ASSUME NEW m, NEW rs, NEW n \in Nat, NEW w, AfterRows(m, rs, n, w)
  PROVE  AfterRows(m, rs, n + 1, Put(w, rs[n + 1]))
<1> DEFINE row == rs[n + 1]
           uid == row.event_uid
           x == Put(w, row)
<1>1. UidsTo(rs, n + 1) = UidsTo(rs, n) \cup {uid}
  <2>1. 1..(n + 1) = 1..n \cup {n + 1}
    OBVIOUS
  <2>2. QED
    BY <2>1 DEF UidsTo
<1>2. DOMAIN w = DOMAIN m \cup UidsTo(rs, n)
  BY DEF AfterRows
<1>3. /\ x = [u \in DOMAIN w \cup {uid} |-> x[u]]
      /\ x[uid] = [row |-> row, first_seen_at |-> FirstSeen(w, row)]
      /\ \A u \in DOMAIN w : u # uid => x[u] = w[u]
  BY DEF Put
<1> HIDE DEF x
<1>4. x = [u \in DOMAIN m \cup UidsTo(rs, n + 1) |-> x[u]]
  <2>1. DOMAIN m \cup UidsTo(rs, n + 1) = DOMAIN w \cup {uid}
    BY <1>1, <1>2
  <2>2. QED
    BY <1>3, <2>1
<1>5. ASSUME NEW u \in DOMAIN m \ UidsTo(rs, n + 1)
      PROVE  x[u] = m[u]
  <2>1. u \in DOMAIN w /\ u # uid /\ w[u] = m[u]
    BY <1>1, <1>2 DEF AfterRows
  <2>2. QED
    BY <1>3, <2>1
<1>6. ASSUME NEW k \in 1..(n + 1), LastOfUid(rs, n + 1, k)
      PROVE  x[rs[k].event_uid].row = rs[k]
  <2>1. CASE k = n + 1
    BY <1>3, <2>1
  <2>2. CASE k \in 1..n
    <3>1. n + 1 \in (k + 1)..(n + 1) /\ (k + 1)..n \subseteq (k + 1)..(n + 1)
      BY <2>2
    <3>2. rs[k].event_uid # uid /\ LastOfUid(rs, n, k)
      BY <1>6, <3>1 DEF LastOfUid
    <3>3. w[rs[k].event_uid].row = rs[k] /\ rs[k].event_uid \in UidsTo(rs, n)
      BY <2>2, <3>2 DEF AfterRows, UidsTo
    <3>4. QED
      BY <1>2, <1>3, <3>2, <3>3
  <2>3. QED
    BY <2>1, <2>2
<1>7. 1..n \subseteq 1..(n + 1) /\ n + 1 \in 1..(n + 1)
  OBVIOUS
<1>8. ASSUME NEW u \in UidsTo(rs, n + 1)
      PROVE  /\ x[u] = [row |-> x[u].row, first_seen_at |-> x[u].first_seen_at]
             /\ \E k \in 1..(n + 1) : rs[k].event_uid = u /\ x[u].row = rs[k]
             /\ IF u \in DOMAIN m
                  THEN x[u].first_seen_at = m[u].first_seen_at
                  ELSE \E k \in 1..(n + 1) :
                         rs[k].event_uid = u /\ x[u].first_seen_at = rs[k].event_time
  <2>1. CASE u # uid
    <3>1. u \in UidsTo(rs, n) /\ x[u] = w[u]
      BY <1>1, <1>2, <1>3, <1>8, <2>1
    <3>2. QED
      BY <1>7, <3>1 DEF AfterRows
  <2>2. CASE u = uid
    <3>1. /\ x[u] = [row |-> x[u].row, first_seen_at |-> x[u].first_seen_at]
          /\ x[u].row = row
          /\ x[u].first_seen_at = FirstSeen(w, row)
      BY <1>3, <2>2
    <3>2. CASE u \notin DOMAIN w
      BY <1>2, <1>7, <2>2, <3>1, <3>2 DEF FirstSeen
    <3>3. CASE u \in DOMAIN w
      <4>1. x[u].first_seen_at = w[u].first_seen_at
        BY <2>2, <3>1, <3>3 DEF FirstSeen
      <4>2. IF u \in DOMAIN m
              THEN x[u].first_seen_at = m[u].first_seen_at
              ELSE \E k \in 1..(n + 1) :
                     rs[k].event_uid = u /\ x[u].first_seen_at = rs[k].event_time
        <5>1. CASE u \in UidsTo(rs, n)
          BY <1>7, <4>1, <5>1 DEF AfterRows
        <5>2. CASE u \notin UidsTo(rs, n)
          BY <1>2, <3>3, <4>1, <5>2 DEF AfterRows
        <5>3. QED
          BY <5>1, <5>2
      <4>3. QED
        BY <1>7, <2>2, <3>1, <4>2
    <3>4. QED
      BY <3>2, <3>3
  <2>3. QED
    BY <2>1, <2>2
<1>9. AfterRows(m, rs, n + 1, x)
  BY <1>4, <1>5, <1>6, <1>8 DEF AfterRows
<1>10. QED
  BY <1>9 DEF x

LEMMA UpsertsResult ==
  ASSUME NEW m, m = [u \in DOMAIN m |-> m[u]], NEW rs, Len(rs) \in Nat
  PROVE  AfterRows(m, rs, Len(rs), Upserts(m, rs)[Len(rs)])
<1> DEFINE ms == Upserts(m, rs)
           Good == {n \in 0..Len(rs) : AfterRows(m, rs, n, ms[n])}
<1>1. 0 \in Good
  <2>1. ms[0] = m /\ 0 \in 0..Len(rs)
    BY UpsertsRecursion
  <2>2. UidsTo(rs, 0) = {} /\ 1..0 = {}
    BY DEF UidsTo
  <2>3. AfterRows(m, rs, 0, m)
    BY <2>2 DEF AfterRows
  <2> HIDE DEF ms
  <2>4. QED
    BY <2>1, <2>3
<1>2. ASSUME NEW n \in 0..(Len(rs) - 1), n \in Good
      PROVE  n + 1 \in Good
  <2>1. n + 1 \in 1..Len(rs) /\ (n + 1) - 1 = n /\ n \in Nat
    OBVIOUS
  <2>2. ms[n + 1] = Put(ms[n], rs[n + 1])
    BY <2>1, UpsertsRecursion
  <2> HIDE DEF ms
  <2>3. AfterRows(m, rs, n, ms[n])
    BY <1>2
  <2>4. AfterRows(m, rs, n + 1, ms[n + 1])
    BY <2>1, <2>2, <2>3, PutAddsRow
  <2>5. QED
    BY <2>1, <2>4
<1>3. Len(rs) \in 0..Len(rs)
  OBVIOUS
<1>4. Len(rs) \in Good
  <2> HIDE DEF Good
  <2> QED
    BY <1>1, <1>2, <1>3, BoundedInduction
<1>5. QED
  BY <1>4

-----------------------------------------------------------------------------
(* The mart rows of a batch.                                               *)
LEMMA FourSources ==
  ASSUME NEW S \in SUBSET SourceNames, S # {}
  PROVE  Cardinality(S) \in 1..4
<1>0. \A n \in Nat : IsFiniteSet(1..n) /\ Cardinality(1..n) = n
  BY FS_Interval
<1>1. PICK N \in Nat : N = 4
  OBVIOUS
<1>2. /\ IsFiniteSet(1..N) /\ Cardinality(1..N) = N
      /\ SOURCE_PRIORITY \in Surjection(1..N, SourceNames)
  <2>1. SOURCE_PRIORITY \in Surjection(1..N, SourceNames)
    BY <1>1 DEF SOURCE_PRIORITY, SourceNames, Surjection
  <2>2. QED
    BY <1>0, <2>1
<1>3. IsFiniteSet(SourceNames) /\ Cardinality(SourceNames) <= 4
  BY <1>1, <1>2, FS_Surjection
<1>4. IsFiniteSet(S) /\ Cardinality(S) <= Cardinality(SourceNames)
  BY <1>3, FS_Subset
<1>5. Cardinality(S) # 0
  BY <1>4, FS_EmptySet
<1>6. Cardinality(S) \in Nat /\ Cardinality(SourceNames) \in Nat
  BY <1>3, <1>4, FS_CardinalityType
<1>7. QED
  BY <1>3, <1>4, <1>5, <1>6

\* The mart row of a cluster: its event_time is that of a report, and so are the
\* values in its breakdown; event_uid begins with the bucket of event_time.
MartRowOK(s, row) ==
  /\ \E i \in DOMAIN s : row.event_time = s[i].time
  /\ row.event_uid[1] = Bucket(row.event_time)
  /\ row.agreement_level \in 1..4
  /\ Range(row.source_values) \subseteq Range(s)

\* The row shows the report, or a later one of its source.
Shows(row, r) ==
  /\ row.event_time <= r.time
  /\ r.source \in DOMAIN row.source_values
  /\ row.source_values[r.source].time >= r.time

LEMMA ClusterRow ==
  ASSUME NEW s, NEW cs, ClustersInv(s, cs), NEW k \in DOMAIN cs
  PROVE  LET row == ToMartRow(s, cs[k])
         IN  /\ MartRowOK(s, row)
             /\ \A i \in Members(cs[k]) : Shows(row, s[i])
             /\ Range(row.source_values) \subseteq {s[i] : i \in Members(cs[k])}
<1> DEFINE c == cs[k]
           row == ToMartRow(s, c)
<1>1. /\ s \in Seq(Reports) /\ InOrder(s)
      /\ c \in Seq(1..Len(s)) /\ c # <<>> /\ Increasing(c)
  BY ClusterFacts DEF ClustersInv, Typed
<1>2. /\ Members(c) \subseteq 1..Len(s) /\ 1..Len(s) = DOMAIN s
      /\ c[1] \in Members(c)
  BY <1>1 DEF Members
<1>3. /\ row.event_time = s[c[1]].time
      /\ row.event_uid[1] = Bucket(row.event_time)
      /\ row.agreement_level = Cardinality(ClusterSources(s, c))
      /\ row.source_values = SourceValues(s, c)
      /\ DOMAIN row.source_values = ClusterSources(s, c)
  <2>1. TMin(s, c) = s[c[1]].time
    BY <1>1, StartIsFirst
  <2> HIDE DEF c
  <2>2. QED
    BY <2>1 DEF ToMartRow, EventUid, SourceValues
<1>4. row.agreement_level \in 1..4
  <2>1. \A i \in Members(c) : s[i].source \in SourceNames
    BY <1>1, <1>2, ClusteringAssumption
  <2>2. ClusterSources(s, c) \in SUBSET SourceNames /\ ClusterSources(s, c) # {}
    BY <1>2, <2>1 DEF ClusterSources
  <2> HIDE DEF c, row
  <2>3. QED
    BY <1>3, <2>2, FourSources
<1> HIDE DEF row
<1>5. \A i \in Members(c) :
        /\ SourceValues(s, c)[s[i].source].source = s[i].source
        /\ SourceValues(s, c)[s[i].source].time >= s[i].time
  BY LatestOfSource
<1>6. ASSUME NEW i \in Members(c) PROVE Shows(row, s[i])
  <2>1. s[i].source \in ClusterSources(s, c)
    BY DEF ClusterSources
  <2>2. PICK a \in DOMAIN c : c[a] = i
    BY DEF Members
  <2>3. c[1] <= c[a] /\ c[1] \in DOMAIN s /\ c[a] \in DOMAIN s
    BY <1>1, <1>2 DEF Increasing, Members
  <2>4. s[c[1]].time <= s[i].time
    BY <1>1, <2>2, <2>3 DEF InOrder
  <2>5. QED
    BY <1>3, <1>5, <2>1, <2>4 DEF Shows
<1>7. Range(row.source_values) \subseteq {s[i] : i \in Members(c)}
  <2>1. SUFFICES ASSUME NEW src \in ClusterSources(s, c)
                 PROVE  SourceValues(s, c)[src] \in {s[i] : i \in Members(c)}
    BY <1>3 DEF Range
  <2>2. \E b \in DOMAIN c : SourceValues(s, c)[src] = s[c[b]]
    BY LastMemberOfSource
  <2>3. QED
    BY <2>2 DEF Members
<1>8. {s[i] : i \in Members(c)} \subseteq Range(s)
  BY <1>2 DEF Range
<1>9. QED
  BY <1>2, <1>3, <1>4, <1>6, <1>7, <1>8 DEF MartRowOK, row

LEMMA RowsOfPass ==
  ASSUME NEW s \in Seq(Reports), InOrder(s)
  PROVE  /\ Len(MartRowsOf(s)) \in Nat
         /\ DOMAIN MartRowsOf(s) = 1..Len(MartRowsOf(s))
         /\ \A k \in DOMAIN MartRowsOf(s) : MartRowOK(s, MartRowsOf(s)[k])
         /\ \A r \in Range(s) : \E k \in DOMAIN MartRowsOf(s) : Shows(MartRowsOf(s)[k], r)
<1> DEFINE cs == Clustered(s)
           rs == MartRowsOf(s)
<1>1. ClustersInv(s, cs)
  BY ClusteredInvariant
<1> HIDE DEF cs
<1>2. rs = [k \in DOMAIN cs |-> ToMartRow(s, cs[k])]
  BY DEF MartRowsOf, cs
<1>3. cs \in Seq(Seq(1..Len(s)) \ {<<>>})
  BY <1>1 DEF ClustersInv, Typed
<1> HIDE DEF rs
<1>4. DOMAIN rs = 1..Len(cs) /\ Len(cs) \in Nat /\ DOMAIN cs = DOMAIN rs
  BY <1>2, <1>3
<1>5. Len(rs) = Len(cs)
  BY <1>4
<1>6. \A k \in DOMAIN rs :
        /\ MartRowOK(s, rs[k])
        /\ \A i \in Members(cs[k]) : Shows(rs[k], s[i])
  BY <1>1, <1>2, <1>4, ClusterRow
<1>7. ASSUME NEW r \in Range(s)
      PROVE  \E k \in DOMAIN rs : Shows(rs[k], r)
  <2>1. PICK i \in DOMAIN s : s[i] = r
    BY DEF Range
  <2>2. PICK k \in DOMAIN cs : i \in Members(cs[k])
    BY <1>1 DEF ClustersInv, EachInOne
  <2>3. QED
    BY <1>4, <1>6, <2>1, <2>2
<1>8. QED
  BY <1>4, <1>5, <1>6, <1>7 DEF rs

\* A batch without equal times is determined by its rows.
LEMMA PrefixOfSameRows ==
  ASSUME NEW s \in Seq(Reports), InOrder(s), IsInjective(s),
         NEW t \in Seq(Reports), InOrder(t), IsInjective(t),
         Range(s) = Range(t),
         \A r, q \in Range(s) : r.time = q.time => r = q
  PROVE  \A i \in DOMAIN s : i \in DOMAIN t /\ s[i] = t[i]
<1> DEFINE Wrong == {i \in DOMAIN s : ~(i \in DOMAIN t /\ s[i] = t[i])}
<1>1. SUFFICES ASSUME Wrong # {} PROVE FALSE
  OBVIOUS
<1>2. PICK i \in Wrong : \A h \in Wrong : i <= h
  <2>1. Wrong \in SUBSET Nat
    OBVIOUS
  <2> HIDE DEF Wrong
  <2>2. QED
    BY <1>1, <2>1, LeastNat
<1>3. /\ DOMAIN s = 1..Len(s) /\ Len(s) \in Nat
      /\ DOMAIN t = 1..Len(t) /\ Len(t) \in Nat
      /\ \A j \in DOMAIN s : s[j].time \in Int /\ s[j] \in Range(s)
      /\ \A j \in DOMAIN t : t[j].time \in Int /\ t[j] \in Range(t)
  BY ClusteringAssumption DEF Range
<1>4. PICK j \in DOMAIN t : t[j] = s[i]
  BY <1>3 DEF Range
<1>5. \A h \in 1..(i - 1) : h \in DOMAIN t /\ s[h] = t[h]
  BY <1>2, <1>3
<1>6. i <= j
  <2>1. SUFFICES ASSUME j < i PROVE FALSE
    BY <1>2, <1>3
  <2>2. j \in DOMAIN s /\ s[j] = s[i] /\ j # i
    BY <1>2, <1>3, <1>4, <1>5, <2>1
  <2>3. QED
    BY <1>2, <2>2 DEF IsInjective
<1>7. i \in DOMAIN t
  BY <1>2, <1>3, <1>4, <1>6
<1>8. PICK h \in DOMAIN s : s[h] = t[i]
  BY <1>3, <1>7 DEF Range
<1>9. i <= h
  <2>1. SUFFICES ASSUME h < i PROVE FALSE
    BY <1>2, <1>3
  <2>2. h \in DOMAIN t /\ t[h] = t[i] /\ h # i
    BY <1>2, <1>3, <1>5, <1>8, <2>1
  <2>3. QED
    BY <1>7, <2>2 DEF IsInjective
<1>10. t[i].time <= t[j].time /\ s[i].time <= s[h].time
  BY <1>2, <1>4, <1>6, <1>7, <1>8, <1>9 DEF InOrder
<1>11. s[i].time = t[i].time
  BY <1>2, <1>3, <1>4, <1>7, <1>8, <1>10
<1>12. s[i] = t[i]
  BY <1>2, <1>3, <1>7, <1>11
<1>13. QED
  BY <1>2, <1>7, <1>12

LEMMA SameRowsSameBatch ==
  ASSUME NEW s \in Seq(Reports), InOrder(s), IsInjective(s),
         NEW t \in Seq(Reports), InOrder(t), IsInjective(t),
         Range(s) = Range(t),
         \A r, q \in Range(s) : r.time = q.time => r = q
  PROVE  s = t
<1>1. \A i \in DOMAIN s : i \in DOMAIN t /\ s[i] = t[i]
  BY PrefixOfSameRows
<1>2. \A i \in DOMAIN t : i \in DOMAIN s
  BY PrefixOfSameRows
<1>3. /\ s = [i \in DOMAIN s |-> s[i]]
      /\ t = [i \in DOMAIN t |-> t[i]]
  OBVIOUS
<1>4. QED
  BY <1>1, <1>2, <1>3

-----------------------------------------------------------------------------
(* The inductive invariant.                                                *)
SortedRows(s) == InOrder(s) /\ IsInjective(s)

BatchInWindow == \A i \in DOMAIN batch : batch[i].time >= cutoff

\* The mart is a function of event_uid to entries; event_time and first_seen_at are in
\* the bucket event_uid begins with.
Entries ==
  /\ mart = [u \in DOMAIN mart |-> mart[u]]
  /\ \A u \in DOMAIN mart :
       mart[u] = [row |-> mart[u].row, first_seen_at |-> mart[u].first_seen_at]

OneBucket ==
  \A u \in DOMAIN mart :
    /\ mart[u].row.event_time \in Int
    /\ Bucket(mart[u].row.event_time) = u[1]
    /\ Bucket(mart[u].first_seen_at) = u[1]

\* Of the rows of the last pass, the mart has the last one of each event_uid.
LastUpserted ==
  LET rs == MartRowsOf(last)
  IN  \A k \in DOMAIN rs : LastOfUid(rs, Len(rs), k) =>
        rs[k].event_uid \in DOMAIN mart /\ mart[rs[k].event_uid].row = rs[k]

DagInv ==
  /\ TypeOK
  /\ IsFiniteSet(harm)
  /\ SortedRows(batch)
  /\ SortedRows(last)
  /\ BatchInWindow
  /\ Entries
  /\ OneBucket
  /\ LastUpserted

LEMMA DagInit == Init => DagInv
<1> SUFFICES ASSUME Init PROVE DagInv
  OBVIOUS
<1>1. clock = 0 /\ harm = {} /\ cutoff = -WINDOW /\ batch = <<>> /\ mart = <<>> /\ last = <<>>
  BY DEF Init
<1>2. TypeOK
  BY <1>1, DedupeDagAssumption DEF TypeOK
<1>3. IsFiniteSet(harm)
  BY <1>1, FS_EmptySet
<1>4. SortedRows(batch) /\ SortedRows(last) /\ BatchInWindow
  BY <1>1 DEF SortedRows, InOrder, IsInjective, BatchInWindow
<1>5. Entries /\ OneBucket
  BY <1>1 DEF Entries, OneBucket
<1>6. LastUpserted
  <2>1. <<>> \in Seq(Reports) /\ InOrder(<<>>)
    BY DEF InOrder
  <2>2. \A k \in DOMAIN MartRowsOf(<<>>) : MartRowOK(<<>>, MartRowsOf(<<>>)[k])
    BY <2>1, RowsOfPass
  <2>3. DOMAIN MartRowsOf(<<>>) = {}
    <3>1. ~ \E i \in DOMAIN <<>> : TRUE
      OBVIOUS
    <3>2. QED
      BY <2>2, <3>1, Zenon DEF MartRowOK
  <2>4. QED
    BY <1>1, <2>3 DEF LastUpserted
<1>7. QED
  BY <1>2, <1>3, <1>4, <1>5, <1>6 DEF DagInv

\* A SELECT's rows, sorted: each row of the window once.
LEMMA SortedFacts ==
  ASSUME NEW S \in SUBSET Reports, IsFiniteSet(S), NEW s \in Sorted(S)
  PROVE  s \in Seq(S) /\ InOrder(s) /\ IsInjective(s)
<1> DEFINE N == Cardinality(S)
<1>1. N \in Nat
  BY FS_CardinalityType
<1> HIDE DEF N
<1>2. s \in [1..N -> S] /\ \A i, j \in 1..N : i # j => s[i] # s[j]
  BY DEF Sorted, SetToSeqs, N
<1>3. s \in Seq(S)
  BY <1>1, <1>2
<1>4. IsInjective(s)
  BY <1>2 DEF IsInjective
<1>5. ASSUME NEW i \in DOMAIN s, NEW j \in DOMAIN s, i <= j
      PROVE  s[i].time <= s[j].time
  <2>1. s[i].time \in Int /\ i \in Int /\ j \in Int
    BY <1>1, <1>2, ClusteringAssumption
  <2>2. i < j => s[i].time <= s[j].time
    BY DEF Sorted
  <2>3. QED
    BY <1>5, <2>1, <2>2
<1>6. QED
  BY <1>3, <1>4, <1>5 DEF InOrder

LEMMA SelectInvariant == DagInv /\ Select => DagInv'
<1> SUFFICES ASSUME DagInv, Select PROVE DagInv'
  OBVIOUS
<1>1. /\ cutoff' = clock - WINDOW
      /\ batch' \in Sorted(InWindow)
      /\ UNCHANGED <<clock, harm, mart, last>>
  BY DEF Select
<1>2. /\ InWindow \subseteq harm /\ InWindow \subseteq Reports
      /\ \A r \in InWindow : r.time >= cutoff'
  BY <1>1 DEF InWindow, DagInv, TypeOK
<1>3. IsFiniteSet(InWindow)
  BY <1>2, FS_Subset DEF DagInv
<1>4. batch' \in Seq(InWindow) /\ InOrder(batch') /\ IsInjective(batch')
  BY <1>1, <1>2, <1>3, SortedFacts
<1>5. batch' \in Seq(harm)
  BY <1>2, <1>4, SeqMonotonic
<1>6. TypeOK'
  BY <1>1, <1>5, DedupeDagAssumption DEF DagInv, TypeOK
<1>7. BatchInWindow'
  <2>1. \A i \in DOMAIN batch' : batch'[i] \in InWindow
    BY <1>4
  <2>2. QED
    BY <1>2, <2>1 DEF BatchInWindow
<1>8. QED
  BY <1>1, <1>4, <1>6, <1>7
  DEF DagInv, SortedRows, Entries, OneBucket, LastUpserted

LEMMA ArriveInvariant == DagInv /\ Arrive => DagInv'
<1> SUFFICES ASSUME DagInv, Arrive PROVE DagInv'
  OBVIOUS
<1>1. PICK r \in Reports : harm' = harm \cup {r}
  BY DEF Arrive
<1>2. UNCHANGED <<clock, cutoff, batch, mart, last>>
  BY DEF Arrive
<1>3. Seq(harm) \subseteq Seq(harm')
  BY <1>1, SeqMonotonic
<1>4. TypeOK'
  BY <1>1, <1>2, <1>3 DEF DagInv, TypeOK
<1>5. IsFiniteSet(harm')
  BY <1>1, FS_AddElement DEF DagInv
<1>6. QED
  BY <1>2, <1>4, <1>5
  DEF DagInv, SortedRows, BatchInWindow, Entries, OneBucket, LastUpserted

\* What UpsertMart makes of the mart.
LEMMA UpsertMartFacts ==
  ASSUME DagInv, UpsertMart
  PROVE  /\ batch \in Seq(Reports) /\ InOrder(batch)
         /\ Len(MartRowsOf(batch)) \in Nat
         /\ DOMAIN MartRowsOf(batch) = 1..Len(MartRowsOf(batch))
         /\ AfterRows(mart, MartRowsOf(batch), Len(MartRowsOf(batch)), mart')
         /\ last' = batch /\ batch' = <<>> /\ UNCHANGED <<clock, harm, cutoff>>
<1>1. batch \in Seq(Reports) /\ InOrder(batch)
  <2>1. Seq(harm) \subseteq Seq(Reports)
    BY SeqMonotonic DEF DagInv, TypeOK
  <2>2. QED
    BY <2>1 DEF DagInv, TypeOK, SortedRows
<1>2. /\ Len(MartRowsOf(batch)) \in Nat
      /\ DOMAIN MartRowsOf(batch) = 1..Len(MartRowsOf(batch))
  BY <1>1, RowsOfPass
<1>3. mart' = Upserts(mart, MartRowsOf(batch))[Len(MartRowsOf(batch))]
  BY DEF UpsertMart
<1>4. AfterRows(mart, MartRowsOf(batch), Len(MartRowsOf(batch)), mart')
  <2>1. mart = [u \in DOMAIN mart |-> mart[u]]
    BY DEF DagInv, Entries
  <2>2. QED
    BY <1>2, <1>3, <2>1, UpsertsResult
<1>5. QED
  BY <1>1, <1>2, <1>4 DEF UpsertMart, EndPass

\* The entry of an event_uid after the pass: the old one, or a row of the pass.
LEMMA EntryAfterPass ==
  ASSUME DagInv, UpsertMart, NEW u \in DOMAIN mart'
  PROVE  \/ u \in DOMAIN mart /\ mart'[u] = mart[u]
         \/ /\ mart'[u] = [row |-> mart'[u].row, first_seen_at |-> mart'[u].first_seen_at]
            /\ MartRowOK(batch, mart'[u].row)
            /\ mart'[u].row.event_uid = u
            /\ \/ u \in DOMAIN mart /\ mart'[u].first_seen_at = mart[u].first_seen_at
               \/ \E row : /\ MartRowOK(batch, row)
                           /\ row.event_uid = u
                           /\ mart'[u].first_seen_at = row.event_time
<1> DEFINE rs == MartRowsOf(batch)
           n == Len(rs)
<1>1. /\ AfterRows(mart, rs, n, mart')
      /\ \A k \in 1..n : MartRowOK(batch, rs[k])
  <2>1. /\ batch \in Seq(Reports) /\ InOrder(batch) /\ DOMAIN rs = 1..n
        /\ AfterRows(mart, rs, n, mart')
    BY UpsertMartFacts
  <2>2. \A k \in DOMAIN rs : MartRowOK(batch, rs[k])
    BY <2>1, RowsOfPass
  <2>3. QED
    BY <2>1, <2>2
<1> HIDE DEF rs, n
<1>2. DOMAIN mart' = DOMAIN mart \cup UidsTo(rs, n)
  BY <1>1 DEF AfterRows
<1>3. CASE u \notin UidsTo(rs, n)
  BY <1>1, <1>2, <1>3 DEF AfterRows
<1>4. CASE u \in UidsTo(rs, n)
  <2>1. mart'[u] = [row |-> mart'[u].row, first_seen_at |-> mart'[u].first_seen_at]
    BY <1>1, <1>4 DEF AfterRows
  <2>2. PICK k \in 1..n : rs[k].event_uid = u /\ mart'[u].row = rs[k]
    BY <1>1, <1>4 DEF AfterRows
  <2>3. CASE u \in DOMAIN mart
    <3>1. mart'[u].first_seen_at = mart[u].first_seen_at
      BY <1>1, <1>4, <2>3 DEF AfterRows
    <3>2. QED
      BY <1>1, <2>1, <2>2, <2>3, <3>1
  <2>4. CASE u \notin DOMAIN mart
    <3>1. PICK j \in 1..n : rs[j].event_uid = u /\ mart'[u].first_seen_at = rs[j].event_time
      BY <1>1, <1>4, <2>4 DEF AfterRows
    <3>2. QED
      BY <1>1, <2>1, <2>2, <3>1
  <2>5. QED
    BY <2>3, <2>4
<1>5. QED
  BY <1>3, <1>4

LEMMA UpsertMartInvariant == DagInv /\ UpsertMart => DagInv'
<1> SUFFICES ASSUME DagInv, UpsertMart PROVE DagInv'
  OBVIOUS
<1> DEFINE rs == MartRowsOf(batch)
           n == Len(rs)
<1>1. /\ last' = batch /\ batch' = <<>> /\ UNCHANGED <<clock, harm, cutoff>>
      /\ batch \in Seq(Reports)
      /\ DOMAIN rs = 1..n
      /\ AfterRows(mart, rs, n, mart')
  BY UpsertMartFacts
<1> HIDE DEF rs, n
<1>2. \A row : MartRowOK(batch, row) =>
        row.event_time \in Int /\ row.event_uid[1] = Bucket(row.event_time)
                               /\ row.agreement_level \in 1..4
  BY <1>1, ClusteringAssumption DEF MartRowOK
<1>3. ASSUME NEW u \in DOMAIN mart'
      PROVE  /\ mart'[u] = [row |-> mart'[u].row, first_seen_at |-> mart'[u].first_seen_at]
             /\ mart'[u].row.event_uid = u
             /\ mart'[u].row.agreement_level \in 1..4
             /\ mart'[u].first_seen_at \in Int
             /\ mart'[u].row.event_time \in Int
             /\ Bucket(mart'[u].row.event_time) = u[1]
             /\ Bucket(mart'[u].first_seen_at) = u[1]
  <2>1. u \in DOMAIN mart =>
          /\ mart[u] = [row |-> mart[u].row, first_seen_at |-> mart[u].first_seen_at]
          /\ mart[u].row.event_uid = u
          /\ mart[u].row.agreement_level \in 1..4
          /\ mart[u].first_seen_at \in Int
          /\ mart[u].row.event_time \in Int
          /\ Bucket(mart[u].row.event_time) = u[1]
          /\ Bucket(mart[u].first_seen_at) = u[1]
    BY DEF DagInv, TypeOK, Entries, OneBucket
  <2>2. CASE u \in DOMAIN mart /\ mart'[u] = mart[u]
    BY <2>1, <2>2
  <2>3. CASE /\ mart'[u] = [row |-> mart'[u].row, first_seen_at |-> mart'[u].first_seen_at]
             /\ MartRowOK(batch, mart'[u].row)
             /\ mart'[u].row.event_uid = u
             /\ \/ u \in DOMAIN mart /\ mart'[u].first_seen_at = mart[u].first_seen_at
                \/ \E row : /\ MartRowOK(batch, row)
                            /\ row.event_uid = u
                            /\ mart'[u].first_seen_at = row.event_time
    <3>1. mart'[u].first_seen_at \in Int /\ Bucket(mart'[u].first_seen_at) = u[1]
      <4>1. CASE u \in DOMAIN mart /\ mart'[u].first_seen_at = mart[u].first_seen_at
        BY <2>1, <4>1
      <4>2. CASE \E row : /\ MartRowOK(batch, row)
                          /\ row.event_uid = u
                          /\ mart'[u].first_seen_at = row.event_time
        <5>1. PICK row : /\ MartRowOK(batch, row)
                         /\ row.event_uid = u
                         /\ mart'[u].first_seen_at = row.event_time
          BY <4>2
        <5>2. QED
          BY <1>2, <5>1
      <4>3. QED
        BY <2>3, <4>1, <4>2
    <3>2. /\ mart'[u].row.event_time \in Int
          /\ mart'[u].row.event_uid[1] = Bucket(mart'[u].row.event_time)
          /\ mart'[u].row.agreement_level \in 1..4
      BY <1>2, <2>3
    <3>3. QED
      BY <2>3, <3>1, <3>2
  <2>4. QED
    BY <2>2, <2>3, EntryAfterPass
<1>4. TypeOK'
  <2>1. batch' \in Seq(harm) /\ last' \in Seq(harm)
    BY <1>1 DEF DagInv, TypeOK
  <2>2. QED
    BY <1>1, <1>3, <2>1 DEF DagInv, TypeOK
<1>5. SortedRows(batch') /\ SortedRows(last') /\ BatchInWindow'
  BY <1>1 DEF DagInv, SortedRows, InOrder, IsInjective, BatchInWindow
<1>6. Entries'
  <2>1. mart' = [u \in DOMAIN mart' |-> mart'[u]]
    BY <1>1 DEF AfterRows
  <2>2. QED
    BY <1>3, <2>1 DEF Entries
<1>7. OneBucket'
  BY <1>3 DEF OneBucket
<1>8. LastUpserted'
  <2>1. MartRowsOf(last)' = rs
    BY <1>1 DEF rs, MartRowsOf, Clustered, Clusterings
  <2>2. \A k \in 1..n : LastOfUid(rs, n, k) =>
          rs[k].event_uid \in DOMAIN mart' /\ mart'[rs[k].event_uid].row = rs[k]
    BY <1>1 DEF AfterRows, UidsTo
  <2>3. QED
    BY <1>1, <2>1, <2>2 DEF LastUpserted, n
<1>9. IsFiniteSet(harm)'
  BY <1>1 DEF DagInv
<1>10. QED
  BY <1>4, <1>5, <1>6, <1>7, <1>8, <1>9 DEF DagInv

LEMMA DagNext == DagInv /\ [Next]_vars => DagInv'
<1> SUFFICES ASSUME DagInv, [Next]_vars PROVE DagInv'
  OBVIOUS
<1>1. CASE Tick
  BY <1>1 DEF Tick, DagInv, TypeOK, SortedRows, BatchInWindow, Entries, OneBucket, LastUpserted
<1>2. CASE Arrive
  BY <1>2, ArriveInvariant
<1>3. CASE Select
  BY <1>3, SelectInvariant
<1>4. CASE UpsertMart
  BY <1>4, UpsertMartInvariant
<1>5. CASE Crash
  <2>1. batch' = <<>> /\ UNCHANGED <<clock, harm, cutoff, mart, last>>
    BY <1>5 DEF Crash
  <2>2. TypeOK' /\ SortedRows(batch') /\ BatchInWindow'
    BY <2>1 DEF DagInv, TypeOK, SortedRows, InOrder, IsInjective, BatchInWindow
  <2>3. QED
    BY <2>1, <2>2 DEF DagInv, SortedRows, Entries, OneBucket, LastUpserted
<1>6. CASE UNCHANGED vars
  BY <1>6 DEF vars, DagInv, TypeOK, SortedRows, BatchInWindow, Entries, OneBucket, LastUpserted
<1>7. QED
  BY <1>1, <1>2, <1>3, <1>4, <1>5, <1>6 DEF Next

-----------------------------------------------------------------------------
THEOREM DagInvariance == Spec => []DagInv
<1>1. QED
  BY DagInit, DagNext, PTL DEF Spec

\* The variables keep their types; an entry has its event_uid as key and an agreement
\* level between 1 and the number of sources.
THEOREM MartTypeCorrect == Spec => []TypeOK
<1>1. DagInv => TypeOK
  BY DEF DagInv
<1>2. QED
  BY <1>1, DagInvariance, PTL

\* dedupe_dag.py:17-19: after a pass the mart shows each report of the batch, late ones
\* too, itself or by a later one of its source, unless event_uids collide.
THEOREM LateReportsReachTheMart == Spec => []PassReflected
<1>1. ASSUME DagInv PROVE PassReflected
  <2> DEFINE rs == MartRowsOf(last)
             n == Len(rs)
  <2>1. SUFFICES ASSUME OwnUids(last), NEW r \in Range(last)
                 PROVE  \E u \in DOMAIN mart :
                          /\ Shows(mart[u].row, r)
                          /\ ReportsOf(u) \subseteq Range(last)
    BY DEF PassReflected, Shows
  <2>2. last \in Seq(Reports) /\ InOrder(last)
    <3>1. Seq(harm) \subseteq Seq(Reports)
      BY <1>1, SeqMonotonic DEF DagInv, TypeOK
    <3>2. QED
      BY <1>1, <3>1 DEF DagInv, TypeOK, SortedRows
  <2>3. /\ DOMAIN rs = 1..n /\ n \in Nat
        /\ \A k \in DOMAIN rs : MartRowOK(last, rs[k])
        /\ \E k \in DOMAIN rs : Shows(rs[k], r)
    BY <2>2, RowsOfPass
  <2>4. PICK k \in 1..n : Shows(rs[k], r) /\ MartRowOK(last, rs[k])
    BY <2>3
  <2>5. LastOfUid(rs, n, k)
    <3>1. SUFFICES ASSUME NEW j \in (k + 1)..n PROVE rs[j].event_uid # rs[k].event_uid
      BY DEF LastOfUid
    <3>2. j \in DOMAIN rs /\ k \in DOMAIN rs /\ j # k
      BY <2>3
    <3>3. QED
      BY <2>1, <3>2 DEF OwnUids
  <2>6. rs[k].event_uid \in DOMAIN mart /\ mart[rs[k].event_uid].row = rs[k]
    BY <1>1, <2>3, <2>5 DEF DagInv, LastUpserted
  <2>7. QED
    BY <2>4, <2>6 DEF MartRowOK, ReportsOf
<1>2. QED
  BY <1>1, DagInvariance, PTL

\* Two quakes are apart in time or space; their reports are close together.
QuakesApart(s, q) ==
  /\ TwoQuakes(s, q)
  /\ \/ ApartInTime(s, Reporting(s, q, 1), Reporting(s, q, 2))
     \/ ApartInSpace(s, Reporting(s, q, 1), Reporting(s, q, 2))

\* A row shows the report, and no report of the other quake is in its breakdown.
QuakesHaveOwnRows ==
  \A q \in Labels(last) : QuakesApart(last, q) =>
    \A i \in DOMAIN last : \E u \in DOMAIN mart :
      /\ Shows(mart[u].row, last[i])
      /\ ReportsOf(u) \subseteq {last[j] : j \in Reporting(last, q, q[i])}

\* 03_mart.sql:4: after a pass over the reports of two quakes apart in time or space the
\* mart has a row of each of them, whatever was in it before.
THEOREM RowPerQuake ==
  ASSUME GRID <= 2 * DIST_WINDOW + 1
  PROVE  Spec => []QuakesHaveOwnRows
<1>1. ASSUME DagInv PROVE QuakesHaveOwnRows
  <2> DEFINE cs == Clustered(last)
             rs == MartRowsOf(last)
  <2>1. SUFFICES ASSUME NEW q \in Labels(last), QuakesApart(last, q), NEW i \in DOMAIN last
                 PROVE  \E u \in DOMAIN mart :
                          /\ Shows(mart[u].row, last[i])
                          /\ ReportsOf(u) \subseteq {last[j] : j \in Reporting(last, q, q[i])}
    BY DEF QuakesHaveOwnRows
  <2>2. last \in Seq(Reports) /\ InOrder(last)
    <3>1. Seq(harm) \subseteq Seq(Reports)
      BY <1>1, SeqMonotonic DEF DagInv, TypeOK
    <3>2. QED
      BY <1>1, <3>1 DEF DagInv, TypeOK, SortedRows
  <2>3. ClustersInv(last, cs) /\ Recovers(last, cs, q)
    BY <2>1, <2>2, ClusteredInvariant, ClusteredQuakes DEF QuakesApart
  <2>4. /\ DOMAIN rs = 1..Len(rs) /\ Len(rs) \in Nat
        /\ DOMAIN rs = DOMAIN cs
        /\ \A k \in DOMAIN cs : rs[k] = ToMartRow(last, cs[k])
    BY <2>2, RowsOfPass DEF MartRowsOf
  <2>5. PICK k \in DOMAIN cs : i \in Members(cs[k])
    BY <2>1, <2>3 DEF ClustersInv, EachInOne
  <2>6. Members(cs[k]) = Reporting(last, q, q[i])
    <3>1. Members(cs[k]) \in {Reporting(last, q, x) : x \in {1, 2}}
      BY <2>3 DEF Recovers
    <3>2. QED
      BY <2>5, <3>1 DEF Reporting
  <2> HIDE DEF cs, rs
  <2>7. /\ Shows(rs[k], last[i])
        /\ Range(rs[k].source_values) \subseteq {last[j] : j \in Members(cs[k])}
    <3> DEFINE row == ToMartRow(last, cs[k])
    <3>1. /\ \A j \in Members(cs[k]) : Shows(row, last[j])
          /\ Range(row.source_values) \subseteq {last[j] : j \in Members(cs[k])}
      BY <2>3, ClusterRow
    <3>2. rs[k] = row
      BY <2>4
    <3> HIDE DEF row
    <3>3. QED
      BY <2>5, <3>1, <3>2
  <2>8. LastOfUid(rs, Len(rs), k)
    <3>1. SUFFICES ASSUME NEW j \in (k + 1)..Len(rs) PROVE rs[j].event_uid # rs[k].event_uid
      BY DEF LastOfUid
    <3>2. j \in DOMAIN cs /\ j # k
      BY <2>4
    <3>3. EventUid(last, cs[j]) # EventUid(last, cs[k])
      BY <2>1, <2>3, <3>2, ClustersHaveOwnUid DEF QuakesApart
    <3>4. \A l \in DOMAIN cs : rs[l].event_uid = EventUid(last, cs[l])
      <4>1. \A c : ToMartRow(last, c).event_uid = EventUid(last, c)
        BY DEF ToMartRow
      <4>2. QED
        BY <2>4, <4>1
    <3>5. QED
      BY <3>2, <3>3, <3>4
  <2>9. rs[k].event_uid \in DOMAIN mart /\ mart[rs[k].event_uid].row = rs[k]
    BY <1>1, <2>4, <2>8 DEF DagInv, LastUpserted, rs
  <2>10. QED
    BY <2>6, <2>7, <2>9 DEF ReportsOf
<1>2. QED
  BY <1>1, DagInvariance, PTL

\* db.py:138-141: first_seen_at, which no upsert overwrites, stays within the window of
\* event_time, which every upsert does.
THEOREM FirstSeenStaysNear == Spec => []FirstSeenWithinWindow
<1>1. ASSUME DagInv PROVE FirstSeenWithinWindow
  <2>1. SUFFICES ASSUME NEW u \in DOMAIN mart
                 PROVE  Abs(mart[u].row.event_time - mart[u].first_seen_at) < DT_WINDOW
    BY DEF FirstSeenWithinWindow
  <2>2. /\ mart[u].row.event_time \in Int
        /\ mart[u].first_seen_at \in Int
        /\ Bucket(mart[u].row.event_time) = Bucket(mart[u].first_seen_at)
    BY <1>1 DEF DagInv, TypeOK, OneBucket
  <2>3. QED
    BY <2>2, BucketWidth
<1>2. QED
  BY <1>1, DagInvariance, PTL

\* dedupe_dag.py:39-47: no pass touches a row in a bucket before its cutoff's, since all
\* rows of the pass are in that bucket or later ones.
THEOREM OldRowsStay == Spec => OldRowsKept
<1> DEFINE Kept == \A u \in DOMAIN mart :
             Bucket(mart[u].row.event_time) < Bucket(cutoff) =>
               u \in DOMAIN mart' /\ mart'[u] = mart[u]
<1>1. ASSUME DagInv, UpsertMart, NEW u \in DOMAIN mart,
             Bucket(mart[u].row.event_time) < Bucket(cutoff)
      PROVE  u \in DOMAIN mart' /\ mart'[u] = mart[u]
  <2>1. u \in DOMAIN mart'
    BY <1>1, UpsertMartFacts DEF AfterRows
  <2>2. SUFFICES ASSUME MartRowOK(batch, mart'[u].row), mart'[u].row.event_uid = u
                 PROVE  FALSE
    BY <1>1, <2>1, EntryAfterPass
  <2> DEFINE old == mart[u].row.event_time
             new == mart'[u].row.event_time
  <2>3. Bucket(old) = u[1]
    BY <1>1 DEF DagInv, OneBucket
  <2>4. cutoff \in Int
    BY <1>1 DEF DagInv, TypeOK
  <2>5. new \in Int /\ new >= cutoff /\ Bucket(new) = u[1]
    <3>1. PICK i \in DOMAIN batch : new = batch[i].time
      BY <2>2 DEF MartRowOK
    <3>2. batch[i].time \in Int /\ batch[i].time >= cutoff
      BY <1>1, UpsertMartFacts, ClusteringAssumption DEF DagInv, BatchInWindow
    <3>3. QED
      BY <2>2, <3>1, <3>2 DEF MartRowOK
  <2>6. Bucket(cutoff) <= Bucket(new)
    BY <2>4, <2>5, BucketsInOrder
  <2>7. Bucket(cutoff) \in Int /\ Bucket(new) \in Int
    BY <2>4, <2>5, ClusteringAssumption DEF Bucket
  <2>8. QED
    BY <1>1, <2>3, <2>5, <2>6, <2>7
<1>2. ASSUME DagInv, [Next]_vars PROVE [Kept]_vars
  <2>1. SUFFICES ASSUME Next PROVE Kept
    BY <1>2
  <2>2. CASE UpsertMart
    BY <1>1, <1>2, <2>2
  <2>3. CASE UNCHANGED mart
    BY <2>3
  <2>4. QED
    BY <2>1, <2>2, <2>3 DEF Next, Tick, Arrive, Select, Crash
<1>3. QED
  BY <1>2, DagInvariance, PTL DEF Spec, OldRowsKept

\* dedupe_dag.py:11-12: a pass over the rows of the pass before finds its own rows, the
\* last of each event_uid, in the mart and puts them there again.
THEOREM RerunIsIdempotent == Spec => RerunChangesNothing
<1> DEFINE Rerun == /\ batch # <<>>
                    /\ Range(batch) = Range(last)
                    /\ \A r, q \in Range(batch) : r.time = q.time => r = q
<1>1. ASSUME DagInv, UpsertMart, Rerun
      PROVE  mart' = mart
  <2> DEFINE rs == MartRowsOf(batch)
             n == Len(rs)
  <2>1. /\ DOMAIN rs = 1..n /\ n \in Nat
        /\ AfterRows(mart, rs, n, mart')
        /\ batch \in Seq(Reports) /\ InOrder(batch)
    BY <1>1, UpsertMartFacts
  <2>2. batch = last
    <3>1. last \in Seq(Reports)
      <4>1. Seq(harm) \subseteq Seq(Reports)
        BY <1>1, SeqMonotonic DEF DagInv, TypeOK
      <4>2. QED
        BY <1>1, <4>1 DEF DagInv, TypeOK
    <3>2. InOrder(last) /\ IsInjective(last) /\ IsInjective(batch)
      BY <1>1 DEF DagInv, SortedRows
    <3>3. QED
      BY <1>1, <2>1, <3>1, <3>2, SameRowsSameBatch
  <2>3. \A k \in 1..n : LastOfUid(rs, n, k) =>
          rs[k].event_uid \in DOMAIN mart /\ mart[rs[k].event_uid].row = rs[k]
    BY <1>1, <2>1, <2>2 DEF DagInv, LastUpserted
  <2> HIDE DEF rs, n
  <2>4. ASSUME NEW u \in UidsTo(rs, n)
        PROVE  u \in DOMAIN mart /\ mart'[u] = mart[u]
    <3>1. PICK k \in 1..n : rs[k].event_uid = u /\ LastOfUid(rs, n, k)
      <4> DEFINE Of == {k \in 1..n : rs[k].event_uid = u}
      <4>1. Of \in SUBSET Nat /\ Of # {} /\ \A k \in Of : k <= n
        BY <2>1 DEF UidsTo
      <4>2. PICK k \in Of : \A j \in Of : k >= j
        <5> HIDE DEF Of
        <5>1. QED
          BY <2>1, <4>1, GreatestNat
      <4>3. ASSUME NEW j \in (k + 1)..n PROVE rs[j].event_uid # u
        <5>1. j \in 1..n /\ ~(k >= j)
          BY <2>1
        <5>2. QED
          BY <4>2, <5>1
      <4>4. QED
        BY <4>3 DEF LastOfUid
    <3>2. u \in DOMAIN mart /\ mart[u].row = rs[k] /\ mart'[u].row = rs[k]
      BY <2>1, <2>3, <3>1 DEF AfterRows
    <3>3. mart'[u].first_seen_at = mart[u].first_seen_at
      BY <2>1, <3>2 DEF AfterRows
    <3>4. /\ mart[u] = [row |-> mart[u].row, first_seen_at |-> mart[u].first_seen_at]
          /\ mart'[u] = [row |-> mart'[u].row, first_seen_at |-> mart'[u].first_seen_at]
      BY <1>1, <2>1, <3>2 DEF AfterRows, DagInv, Entries
    <3>5. QED
      BY <3>2, <3>3, <3>4
  <2>5. /\ mart' = [u \in DOMAIN mart |-> mart'[u]]
        /\ mart = [u \in DOMAIN mart |-> mart[u]]
    <3>1. DOMAIN mart \cup UidsTo(rs, n) = DOMAIN mart
      BY <2>4
    <3>2. QED
      BY <1>1, <2>1, <3>1 DEF AfterRows, DagInv, Entries
  <2>6. \A u \in DOMAIN mart : mart'[u] = mart[u]
    BY <2>1, <2>4 DEF AfterRows
  <2>7. QED
    BY <2>5, <2>6
<1>2. ASSUME DagInv, [Next]_vars PROVE [Rerun => mart' = mart]_vars
  <2>1. SUFFICES ASSUME Next, Rerun PROVE mart' = mart
    BY <1>2
  <2>2. CASE UpsertMart
    BY <1>1, <1>2, <2>1, <2>2
  <2>3. QED
    BY <2>1, <2>2 DEF Next, Tick, Arrive, Select, Crash
<1>3. QED
  BY <1>2, DagInvariance, PTL DEF Spec, RerunChangesNothing
=============================================================================
