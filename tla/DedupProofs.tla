----------------------------- MODULE DedupProofs -----------------------------
(***************************************************************************)
(* Theorems about Dedup, for every set of reports, all windows and inputs   *)
(* of any length.  The lemmas are about the operators of Clustering, so     *)
(* that they also serve where dedupe is one step (DedupeDagProofs).         *)
(***************************************************************************)
EXTENDS Dedup, SequenceTheorems, FiniteSetTheorems, WellFoundedInduction, TLAPS

\* A set of natural numbers that is not empty has a least element.
LEMMA LeastNat ==
  ASSUME NEW T \in SUBSET Nat, T # {}
  PROVE  \E m \in T : \A n \in T : m <= n
<1> DEFINE R == OpToRel(<, Nat)
<1>1. \E m \in T : \A n \in T : ~(<<n, m>> \in R)
  <2> HIDE DEF R
  <2> QED
    BY NatLessThanWellFounded, WFMin DEF R
<1>2. \A n, m \in Nat : n < m => <<n, m>> \in R
  BY DEF OpToRel
<1>3. PICK m \in T : \A n \in T : ~(<<n, m>> \in R)
  BY <1>1
<1>4. ASSUME NEW n \in T PROVE m <= n
  <2>1. ~(n < m)
    BY <1>2, <1>3
  <2>2. QED
    BY <2>1
<1>5. QED
  BY <1>4

\* A set of natural numbers that is bounded and not empty has a greatest element.
LEMMA GreatestNat ==
  ASSUME NEW T \in SUBSET Nat, T # {}, NEW bound \in Nat, \A n \in T : n <= bound
  PROVE  \E m \in T : \A n \in T : m >= n
<1>1. \A n \in T : n \in Nat /\ bound - n \in Nat
  OBVIOUS
<1>2. {bound - n : n \in T} \in SUBSET Nat /\ {bound - n : n \in T} # {}
  BY <1>1
<1>3. PICK d \in {bound - n : n \in T} : \A c \in {bound - n : n \in T} : d <= c
  BY <1>2, LeastNat
<1>4. PICK m \in T : d = bound - m
  BY <1>3
<1>5. ASSUME NEW n \in T PROVE m >= n
  <2>1. bound - m <= bound - n
    BY <1>3, <1>4
  <2>2. QED
    BY <1>1, <2>1
<1>6. QED
  BY <1>5

\* Induction up to a bound.
LEMMA BoundedInduction ==
  ASSUME NEW N \in Nat, NEW T, 0 \in T,
         \A n \in 0..(N - 1) : n \in T => n + 1 \in T
  PROVE  \A n \in 0..N : n \in T
<1> DEFINE Rest == {n \in 0..N : n \notin T}
<1>1. SUFFICES ASSUME Rest # {} PROVE FALSE
  OBVIOUS
<1>2. PICK m \in Rest : \A n \in Rest : m <= n
  <2>1. Rest \in SUBSET Nat
    OBVIOUS
  <2> HIDE DEF Rest
  <2>2. QED
    BY <1>1, <2>1, LeastNat
<1>3. m - 1 \in 0..(N - 1)
  BY <1>2
<1>4. m - 1 \in T
  BY <1>2, <1>3
<1>5. QED
  BY <1>2, <1>3, <1>4

\* Times in one bucket are less than the window apart, and times a window apart are
\* in different buckets.
LEMMA BucketWidth ==
  ASSUME NEW t \in Int, NEW u \in Int, Bucket(t) = Bucket(u)
  PROVE  Abs(t - u) < DT_WINDOW
<1> DEFINE D == DT_WINDOW
<1>1. D \in Nat /\ D > 0
  BY ClusteringAssumption
<1>2. \A x \in Int : /\ x \div D \in Int /\ x % D \in Int
                     /\ x = D * (x \div D) + (x % D)
                     /\ 0 <= x % D /\ x % D < D
  BY <1>1
<1>3. t \div D = u \div D
  BY DEF Bucket
<1>4. t - u = (t % D) - (u % D)
  BY <1>1, <1>2, <1>3
<1>5. QED
  BY <1>1, <1>2, <1>4 DEF Abs

\* Later times are in no earlier bucket.
LEMMA BucketsInOrder ==
  ASSUME NEW t \in Int, NEW u \in Int, t <= u
  PROVE  Bucket(t) <= Bucket(u)
<1> DEFINE D == DT_WINDOW
<1>1. D \in Nat /\ D > 0
  BY ClusteringAssumption
<1>2. \A x \in Int : /\ x \div D \in Int /\ x % D \in Int
                     /\ x = D * (x \div D) + (x % D)
                     /\ 0 <= x % D /\ x % D < D
  BY <1>1
<1>3. SUFFICES ASSUME u \div D <= (t \div D) - 1 PROVE FALSE
  BY <1>1, <1>2 DEF Bucket
<1>4. D * (u \div D) <= D * ((t \div D) - 1)
  BY <1>1, <1>2, <1>3
<1>5. D * ((t \div D) - 1) = D * (t \div D) - D
  BY <1>1, <1>2
<1>6. QED
  BY <1>1, <1>2, <1>4, <1>5

-----------------------------------------------------------------------------
(* What is so after each turn of the loop: s are the rows read, cs their    *)
(* clusters.                                                                *)

\* The positions of a cluster in the order of the input.
Increasing(c) == \A a, b \in DOMAIN c : a < b => c[a] < c[b]

InOrder(s) == \A i, j \in DOMAIN s : i <= j => s[i].time <= s[j].time

Typed(s, cs) ==
  /\ s \in Seq(Reports)
  /\ cs \in Seq(Seq(1..Len(s)) \ {<<>>})

EachInOne(s, cs) ==
  /\ \A i \in DOMAIN s : \E k \in DOMAIN cs : i \in Members(cs[k])
  /\ \A k, j \in DOMAIN cs : k # j => Members(cs[k]) \cap Members(cs[j]) = {}
  /\ \A k \in DOMAIN cs : \A a, b \in DOMAIN cs[k] : a < b => cs[k][a] < cs[k][b]

Silences(s, cs) ==
  \A k \in DOMAIN cs : \A a \in DOMAIN cs[k] :
    a > 1 => s[cs[k][a]].time - s[cs[k][a - 1]].time <= DT_WINDOW

OpenedInOrder(cs) == \A k, j \in DOMAIN cs : k <= j => cs[k][1] <= cs[j][1]

ClustersInv(s, cs) ==
  /\ Typed(s, cs)
  /\ InOrder(s)
  /\ EachInOne(s, cs)
  /\ Silences(s, cs)
  /\ OpenedInOrder(cs)

\* One turn of the loop: r comes after the rows s and makes t and ds of s and cs.
Assigned(s, cs, r, t, ds) ==
  /\ \A i \in DOMAIN s : s[i].time <= r.time
  /\ t = Append(s, r)
  /\ ds = Assign(s, cs, r)

LEMMA NoRows == ClustersInv(<<>>, <<>>)
BY DEF ClustersInv, Typed, InOrder, EachInOne, Silences, OpenedInOrder, Members

\* The end of a cluster is the time of the member added last.
LEMMA EndIsLast ==
  ASSUME NEW s \in Seq(Reports), InOrder(s),
         NEW c \in Seq(1..Len(s)), c # <<>>, Increasing(c)
  PROVE  /\ TMax(s, c) = s[c[Len(c)]].time
         /\ TMax(s, c) \in Int
         /\ c[Len(c)] \in 1..Len(s)
<1> DEFINE last == s[c[Len(c)]].time
<1>1. Len(c) \in DOMAIN c /\ c[Len(c)] \in 1..Len(s)
  OBVIOUS
<1>2. \A i \in 1..Len(s) : s[i].time \in Int
  BY ClusteringAssumption
<1>3. \A k \in DOMAIN c : c[k] \in 1..Len(s) /\ c[k] <= c[Len(c)]
  BY DEF Increasing
<1>4. last \in Times(s, c) /\ \A u \in Times(s, c) : u \in Int /\ last >= u
  BY <1>1, <1>2, <1>3 DEF Times, Members, InOrder
<1>5. TMax(s, c) \in Times(s, c) /\ \A u \in Times(s, c) : TMax(s, c) >= u
  BY <1>4 DEF TMax
<1>6. QED
  BY <1>1, <1>4, <1>5

\* min over the scores exists, so the loop's best is one of the candidates.
LEMMA BestIsCandidate ==
  ASSUME NEW s, NEW cs, NEW r, NEW end \in Int,
         Candidates(s, cs, r) # {},
         Candidates(s, cs, r) \subseteq 1..Len(cs), Len(cs) \in Nat,
         \A k \in Candidates(s, cs, r) : TMax(s, cs[k]) \in Int /\ TMax(s, cs[k]) <= end
  PROVE  Best(s, cs, r) \in Candidates(s, cs, r)
<1> DEFINE C == Candidates(s, cs, r)
           dt(k) == end - TMax(s, cs[k])
           Latest == {k \in C : \A j \in C : dt(k) <= dt(j)}
<1>1. \A k \in C : dt(k) \in Nat
  OBVIOUS
<1>2. Latest # {}
  <2>1. {dt(k) : k \in C} \in SUBSET Nat /\ {dt(k) : k \in C} # {}
    BY <1>1
  <2>2. PICK m \in {dt(k) : k \in C} : \A n \in {dt(k) : k \in C} : m <= n
    BY <2>1, LeastNat
  <2>3. PICK k \in C : m = dt(k)
    BY <2>2
  <2>4. \A j \in C : dt(k) <= dt(j)
    BY <2>2, <2>3
  <2>5. QED
    BY <2>4
<1>3. PICK k \in Latest : \A j \in Latest : j <= k
  <2>1. \A k \in Latest : k \in 1..Len(cs) /\ Len(cs) - k \in Nat
    OBVIOUS
  <2>2. {Len(cs) - k : k \in Latest} \in SUBSET Nat /\ {Len(cs) - k : k \in Latest} # {}
    BY <1>2, <2>1
  <2>3. PICK m \in {Len(cs) - k : k \in Latest} : \A n \in {Len(cs) - k : k \in Latest} : m <= n
    BY <2>2, LeastNat
  <2>4. PICK k \in Latest : m = Len(cs) - k
    BY <2>3
  <2>5. ASSUME NEW j \in Latest PROVE j <= k
    <3>1. Len(cs) - k <= Len(cs) - j
      BY <2>3, <2>4
    <3>2. QED
      BY <2>1, <3>1
  <2>6. QED
    BY <2>5
<1>4. \A j \in C :
        \/ TMax(s, cs[j]) < TMax(s, cs[k])
        \/ TMax(s, cs[j]) = TMax(s, cs[k]) /\ j <= k
  <2>1. SUFFICES ASSUME NEW j \in C, ~(TMax(s, cs[j]) < TMax(s, cs[k]))
                 PROVE  TMax(s, cs[j]) = TMax(s, cs[k]) /\ j <= k
    OBVIOUS
  <2>2. TMax(s, cs[j]) = TMax(s, cs[k])
    BY <2>1
  <2>3. j \in Latest
    BY <2>2
  <2>4. QED
    BY <1>3, <2>2, <2>3
<1>5. QED
  BY <1>4 DEF Best

LEMMA MembersAppend ==
  ASSUME NEW N, NEW c \in Seq(N), NEW i
  PROVE  Members(Append(c, i)) = Members(c) \cup {i}
<1> DEFINE l == Len(c)
           d == Append(c, i)
<1>1. /\ DOMAIN c = 1..l /\ l \in Nat
      /\ DOMAIN d = 1..(l + 1) /\ d[l + 1] = i
      /\ \A a \in 1..l : d[a] = c[a]
  OBVIOUS
<1> HIDE DEF l, d
<1>2. 1..(l + 1) = 1..l \cup {l + 1}
  BY <1>1
<1>3. QED
  BY <1>1, <1>2 DEF Members, d

\* What the invariant says of one cluster.
LEMMA ClusterFacts ==
  ASSUME NEW s, NEW cs, ClustersInv(s, cs), NEW k \in DOMAIN cs
  PROVE  /\ cs[k] \in Seq(1..Len(s))
         /\ cs[k] # <<>>
         /\ Increasing(cs[k])
BY DEF ClustersInv, Typed, EachInOne, Increasing

\* The row read next comes after all others.
LEMMA NextRow ==
  ASSUME NEW s, NEW cs, ClustersInv(s, cs), NEW r \in Reports, NEW t, NEW ds,
         Assigned(s, cs, r, t, ds)
  PROVE  /\ t \in Seq(Reports)
         /\ Len(t) = Len(s) + 1
         /\ t[Len(s) + 1] = r
         /\ \A i \in 1..Len(s) : t[i] = s[i]
         /\ InOrder(t)
<1>1. /\ t \in Seq(Reports)
      /\ Len(t) = Len(s) + 1
      /\ t[Len(s) + 1] = r
      /\ \A i \in 1..Len(s) : t[i] = s[i]
  BY DEF ClustersInv, Typed, Assigned
<1>2. \A i \in 1..Len(s) : s[i].time <= r.time
  BY DEF Assigned, ClustersInv, Typed
<1>3. r.time \in Int
  BY ClusteringAssumption
<1>4. InOrder(t)
  <2>1. SUFFICES ASSUME NEW i \in 1..(Len(s) + 1), NEW j \in 1..(Len(s) + 1), i <= j
                 PROVE  t[i].time <= t[j].time
    BY <1>1 DEF InOrder
  <2>2. CASE j \in 1..Len(s)
    <3>1. Len(s) \in Nat /\ DOMAIN s = 1..Len(s)
      BY DEF ClustersInv, Typed
    <3>2. i \in 1..Len(s)
      BY <2>1, <2>2, <3>1
    <3>3. s[i].time <= s[j].time
      BY <2>1, <2>2, <3>1, <3>2 DEF ClustersInv, InOrder
    <3>4. QED
      BY <1>1, <2>2, <3>2, <3>3
  <2>3. CASE j = Len(s) + 1
    BY <1>1, <1>2, <1>3, <2>1, <2>3
  <2>4. QED
    BY <2>2, <2>3
<1>5. QED
  BY <1>1, <1>4

\* The clusters the row does not join are as good as before.
LEMMA OldCluster ==
  ASSUME NEW s, NEW cs, ClustersInv(s, cs), NEW r \in Reports, NEW t, NEW ds,
         Assigned(s, cs, r, t, ds), NEW k \in DOMAIN cs
  PROVE  /\ cs[k] \in Seq(1..Len(t)) \ {<<>>}
         /\ Members(cs[k]) \subseteq 1..Len(s)
         /\ \A a \in DOMAIN cs[k] :
              a > 1 => t[cs[k][a]].time - t[cs[k][a - 1]].time <= DT_WINDOW
<1>1. cs[k] \in Seq(1..Len(s)) /\ cs[k] # <<>>
  BY ClusterFacts
<1>2. Len(t) = Len(s) + 1 /\ \A i \in 1..Len(s) : t[i] = s[i]
  BY NextRow
<1>3. Seq(1..Len(s)) \subseteq Seq(1..Len(t))
  <2>1. 1..Len(s) \subseteq 1..Len(t)
    BY <1>2 DEF ClustersInv, Typed
  <2>2. QED
    BY <2>1, SeqMonotonic
<1>4. \A a \in DOMAIN cs[k] :
        a > 1 => t[cs[k][a]].time - t[cs[k][a - 1]].time <= DT_WINDOW
  <2>1. SUFFICES ASSUME NEW a \in DOMAIN cs[k], a > 1
                 PROVE  t[cs[k][a]].time - t[cs[k][a - 1]].time <= DT_WINDOW
    OBVIOUS
  <2>2. a - 1 \in DOMAIN cs[k]
    BY <1>1, <2>1
  <2>3. cs[k][a] \in 1..Len(s) /\ cs[k][a - 1] \in 1..Len(s)
    BY <1>1, <2>2
  <2>4. s[cs[k][a]].time - s[cs[k][a - 1]].time <= DT_WINDOW
    BY <2>1 DEF ClustersInv, Silences
  <2>5. QED
    BY <1>2, <2>3, <2>4
<1>5. QED
  BY <1>1, <1>3, <1>4 DEF Members

\* No cluster takes the row: it opens one.
LEMMA RowOpensCluster ==
  ASSUME NEW s, NEW cs, ClustersInv(s, cs), NEW r \in Reports, NEW t, NEW ds,
         Assigned(s, cs, r, t, ds), Candidates(s, cs, r) = {}
  PROVE  ClustersInv(t, ds)
<1> DEFINE n == Len(s)
           m == Len(cs)
<1>1. ds = Append(cs, <<n + 1>>)
  BY DEF Assigned, Assign
<1>2. n \in Nat /\ m \in Nat /\ DOMAIN s = 1..n /\ DOMAIN cs = 1..m
  BY DEF ClustersInv, Typed
<1>3. t \in Seq(Reports) /\ Len(t) = n + 1 /\ DOMAIN t = 1..(n + 1) /\ InOrder(t)
  BY NextRow
<1>4. /\ DOMAIN ds = 1..(m + 1) /\ Len(ds) = m + 1
      /\ ds[m + 1] = <<n + 1>>
      /\ \A k \in 1..m : ds[k] = cs[k]
  BY <1>1 DEF ClustersInv, Typed
<1>5. \A k \in 1..m :
        /\ ds[k] \in Seq(1..(n + 1)) \ {<<>>}
        /\ Members(ds[k]) \subseteq 1..n
        /\ \A a \in DOMAIN ds[k] :
             a > 1 => t[ds[k][a]].time - t[ds[k][a - 1]].time <= DT_WINDOW
  BY <1>2, <1>3, <1>4, OldCluster
<1>6. Members(ds[m + 1]) = {n + 1}
  BY <1>4 DEF Members
<1>7. Typed(t, ds)
  <2>1. <<n + 1>> \in Seq(1..(n + 1)) \ {<<>>}
    BY <1>2
  <2>2. cs \in Seq(Seq(1..(n + 1)) \ {<<>>})
    BY <1>2, <1>4, <1>5 DEF ClustersInv, Typed
  <2>3. QED
    BY <1>1, <1>3, <2>1, <2>2 DEF Typed
<1>8. EachInOne(t, ds)
  <2>1. ASSUME NEW i \in 1..(n + 1)
        PROVE  \E k \in 1..(m + 1) : i \in Members(ds[k])
    <3>1. CASE i \in 1..n
      <4>1. PICK k \in 1..m : i \in Members(cs[k])
        BY <1>2, <3>1 DEF ClustersInv, EachInOne
      <4>2. ds[k] = cs[k] /\ k \in 1..(m + 1)
        BY <1>2, <1>4
      <4>3. QED
        BY <4>1, <4>2
    <3>2. CASE i = n + 1
      BY <1>2, <1>6, <3>2
    <3>3. QED
      BY <1>2, <3>1, <3>2
  <2>2. ASSUME NEW k \in 1..(m + 1), NEW j \in 1..(m + 1), k # j
        PROVE  Members(ds[k]) \cap Members(ds[j]) = {}
    <3>1. CASE k \in 1..m /\ j \in 1..m
      BY <1>2, <1>4, <2>2, <3>1 DEF ClustersInv, EachInOne
    <3>2. n + 1 \notin 1..n
      BY <1>2
    <3>3. CASE k = m + 1
      <4>1. j \in 1..m
        BY <1>2, <2>2, <3>3
      <4>2. Members(ds[j]) \subseteq 1..n
        BY <1>5, <4>1
      <4>3. QED
        BY <1>6, <3>2, <3>3, <4>2
    <3>4. CASE j = m + 1
      <4>1. k \in 1..m
        BY <1>2, <2>2, <3>4
      <4>2. Members(ds[k]) \subseteq 1..n
        BY <1>5, <4>1
      <4>3. QED
        BY <1>6, <3>2, <3>4, <4>2
    <3>5. QED
      BY <1>2, <3>1, <3>3, <3>4
  <2>3. ASSUME NEW k \in 1..(m + 1)
        PROVE  \A a, b \in DOMAIN ds[k] : a < b => ds[k][a] < ds[k][b]
    BY <1>2, <1>4 DEF ClustersInv, EachInOne
  <2>4. QED
    BY <1>3, <1>4, <2>1, <2>2, <2>3 DEF EachInOne
<1>9. Silences(t, ds)
  BY <1>4, <1>5 DEF Silences
<1>10. OpenedInOrder(ds)
  <2>1. \A k \in 1..m : ds[k][1] = cs[k][1] /\ cs[k][1] \in 1..n
    BY <1>2, <1>4, ClusterFacts
  <2>2. ds[m + 1][1] = n + 1
    BY <1>4
  <2>3. SUFFICES ASSUME NEW k \in 1..(m + 1), NEW j \in 1..(m + 1), k <= j
                 PROVE  ds[k][1] <= ds[j][1]
    BY <1>4 DEF OpenedInOrder
  <2>4. CASE j \in 1..m
    <3>1. k \in 1..m
      BY <1>2, <2>3, <2>4
    <3>2. cs[k][1] <= cs[j][1]
      BY <1>2, <2>3, <2>4, <3>1 DEF ClustersInv, OpenedInOrder
    <3>3. QED
      BY <2>1, <2>4, <3>1, <3>2
  <2>5. CASE j = m + 1
    <3>1. CASE k = m + 1
      BY <1>2, <2>2, <2>5, <3>1
    <3>2. CASE k \in 1..m
      BY <1>2, <2>1, <2>2, <2>5, <3>2
    <3>3. QED
      BY <1>2, <3>1, <3>2
  <2>6. QED
    BY <1>2, <2>4, <2>5
<1>11. QED
  BY <1>3, <1>7, <1>8, <1>9, <1>10 DEF ClustersInv

\* The cluster the loop picks exists and ended no longer than the window ago.
LEMMA BestIsInTime ==
  ASSUME NEW s, NEW cs, ClustersInv(s, cs), NEW r \in Reports, NEW t, NEW ds,
         Assigned(s, cs, r, t, ds), Candidates(s, cs, r) # {}
  PROVE  LET k == Best(s, cs, r)
         IN  /\ k \in 1..Len(cs) /\ k \in Candidates(s, cs, r)
             /\ r.time - s[cs[k][Len(cs[k])]].time <= DT_WINDOW
<1> DEFINE C == Candidates(s, cs, r)
           last(k) == s[cs[k][Len(cs[k])]].time
<1>1. C \subseteq 1..Len(cs) /\ Len(cs) \in Nat /\ DOMAIN cs = 1..Len(cs)
  BY DEF Candidates, Walked, ClustersInv, Typed
<1>2. \A k \in C : TMax(s, cs[k]) = last(k) /\ last(k) \in Int /\ last(k) <= r.time
  <2>1. SUFFICES ASSUME NEW k \in C
                 PROVE  TMax(s, cs[k]) = last(k) /\ last(k) \in Int /\ last(k) <= r.time
    OBVIOUS
  <2>2. s \in Seq(Reports) /\ InOrder(s)
    BY DEF ClustersInv, Typed
  <2>3. /\ TMax(s, cs[k]) = last(k)
        /\ TMax(s, cs[k]) \in Int
        /\ cs[k][Len(cs[k])] \in 1..Len(s)
    BY <1>1, <2>2, ClusterFacts, EndIsLast
  <2>4. last(k) <= r.time
    BY <2>2, <2>3 DEF Assigned
  <2>5. QED
    BY <2>3, <2>4
<1>3. r.time \in Int
  BY ClusteringAssumption
<1>4. Best(s, cs, r) \in C
  BY <1>1, <1>2, <1>3, BestIsCandidate
<1>5. ~Expired(s, cs[Best(s, cs, r)], r)
  <2>1. \A k \in C : k \in k..Len(cs)
    BY <1>1
  <2>2. QED
    BY <1>4, <2>1 DEF Candidates, Walked
<1>6. QED
  BY <1>1, <1>2, <1>3, <1>4, <1>5, ClusteringAssumption DEF Expired

\* The row joins the cluster the loop picked.
LEMMA RowJoinsCluster ==
  ASSUME NEW s, NEW cs, ClustersInv(s, cs), NEW r \in Reports, NEW t, NEW ds,
         Assigned(s, cs, r, t, ds), Candidates(s, cs, r) # {}
  PROVE  ClustersInv(t, ds)
<1> DEFINE n == Len(s)
           m == Len(cs)
           best == Best(s, cs, r)
           old == cs[best]
<1>1. ds = [cs EXCEPT ![best] = Append(@, n + 1)]
  BY DEF Assigned, Assign
<1>2. /\ n \in Nat /\ m \in Nat /\ DOMAIN s = 1..n /\ DOMAIN cs = 1..m
      /\ best \in 1..m
      /\ r.time - s[old[Len(old)]].time <= DT_WINDOW
  <2>1. n \in Nat /\ m \in Nat /\ DOMAIN s = 1..n /\ DOMAIN cs = 1..m
    BY DEF ClustersInv, Typed
  <2>2. best \in 1..m /\ r.time - s[old[Len(old)]].time <= DT_WINDOW
    BY BestIsInTime
  <2>3. QED
    BY <2>1, <2>2
<1> HIDE DEF best
<1>3. /\ t \in Seq(Reports) /\ Len(t) = n + 1 /\ DOMAIN t = 1..(n + 1)
      /\ InOrder(t) /\ t[n + 1] = r /\ \A i \in 1..n : t[i] = s[i]
  BY NextRow
<1>4. /\ DOMAIN ds = 1..m
      /\ ds[best] = Append(old, n + 1)
      /\ \A k \in 1..m : k # best => ds[k] = cs[k]
  BY <1>1, <1>2
<1>5. old \in Seq(1..n) /\ old # <<>> /\ Increasing(old) /\ Len(old) \in DOMAIN old
  BY <1>2, ClusterFacts
<1>6. /\ Len(ds[best]) = Len(old) + 1
      /\ ds[best][Len(old) + 1] = n + 1
      /\ \A a \in 1..Len(old) : ds[best][a] = old[a]
      /\ DOMAIN ds[best] = 1..(Len(old) + 1) /\ Len(old) \in Nat
  BY <1>4, <1>5
<1>7. Members(ds[best]) = Members(old) \cup {n + 1}
  BY <1>4, <1>5, MembersAppend
<1>8. \A k \in 1..m :
        /\ cs[k] \in Seq(1..(n + 1)) \ {<<>>}
        /\ Members(cs[k]) \subseteq 1..n
        /\ \A a \in DOMAIN cs[k] :
             a > 1 => t[cs[k][a]].time - t[cs[k][a - 1]].time <= DT_WINDOW
  BY <1>2, <1>3, OldCluster
<1>9. Typed(t, ds)
  <2>1. Append(old, n + 1) \in Seq(1..(n + 1)) \ {<<>>}
    <3>1. old \in Seq(1..(n + 1)) /\ n + 1 \in 1..(n + 1)
      BY <1>2, <1>4, <1>8
    <3>2. Append(old, n + 1) \in Seq(1..(n + 1))
      BY <3>1
    <3>3. Append(old, n + 1) # <<>>
      BY <3>1
    <3>4. QED
      BY <3>2, <3>3
  <2>2. cs \in Seq(Seq(1..(n + 1)) \ {<<>>})
    BY <1>2, <1>8 DEF ClustersInv, Typed
  <2>3. ds = [cs EXCEPT ![best] = Append(old, n + 1)]
    BY <1>1
  <2>4. ds \in Seq(Seq(1..(n + 1)) \ {<<>>})
    BY <1>2, <2>1, <2>2, <2>3, ExceptSeq
  <2>5. QED
    BY <1>3, <2>4 DEF Typed
<1>10. EachInOne(t, ds)
  <2>1. ASSUME NEW i \in 1..(n + 1)
        PROVE  \E k \in 1..m : i \in Members(ds[k])
    <3>1. CASE i \in 1..n
      <4>1. PICK k \in 1..m : i \in Members(cs[k])
        BY <1>2, <3>1 DEF ClustersInv, EachInOne
      <4>2. i \in Members(ds[k])
        BY <1>4, <1>7, <4>1
      <4>3. QED
        BY <4>2
    <3>2. CASE i = n + 1
      BY <1>2, <1>7, <3>2
    <3>3. QED
      BY <1>2, <3>1, <3>2
  <2>2. ASSUME NEW k \in 1..m, NEW j \in 1..m, k # j
        PROVE  Members(ds[k]) \cap Members(ds[j]) = {}
    <3>1. Members(cs[k]) \cap Members(cs[j]) = {}
      BY <1>2, <2>2 DEF ClustersInv, EachInOne
    <3>2. n + 1 \notin 1..n
      BY <1>2
    <3>3. n + 1 \notin Members(cs[k]) /\ n + 1 \notin Members(cs[j])
      BY <1>8, <3>2
    <3>4. QED
      BY <1>4, <1>7, <2>2, <3>1, <3>3
  <2>3. ASSUME NEW k \in 1..m, NEW a \in DOMAIN ds[k], NEW b \in DOMAIN ds[k], a < b
        PROVE  ds[k][a] < ds[k][b]
    <3>1. CASE k # best
      <4>1. ds[k] = cs[k] /\ Increasing(cs[k])
        BY <1>2, <1>4, <3>1, ClusterFacts
      <4>2. QED
        BY <2>3, <4>1 DEF Increasing
    <3>2. CASE k = best /\ b \in 1..Len(old)
      <4>1. a \in 1..Len(old) /\ DOMAIN old = 1..Len(old)
        <5>1. a \in 1..(Len(old) + 1) /\ a < b /\ b \in 1..Len(old) /\ Len(old) \in Nat
          BY <1>6, <2>3, <3>2
        <5>2. DOMAIN old = 1..Len(old)
          BY <1>5
        <5>3. QED
          BY <5>1, <5>2
      <4>2. ds[k][a] = old[a] /\ ds[k][b] = old[b]
        BY <1>6, <3>2, <4>1
      <4>3. old[a] < old[b]
        BY <1>5, <2>3, <3>2, <4>1 DEF Increasing
      <4>4. QED
        BY <4>2, <4>3
    <3>3. CASE k = best /\ b = Len(old) + 1
      <4>1. a \in 1..Len(old)
        BY <1>6, <2>3, <3>3
      <4>2. old[a] \in 1..n
        BY <1>5, <4>1
      <4>3. QED
        BY <1>2, <1>6, <3>3, <4>1, <4>2
    <3>4. QED
      BY <1>6, <3>1, <3>2, <3>3
  <2>4. QED
    BY <1>3, <1>4, <2>1, <2>2, <2>3 DEF EachInOne
<1>11. Silences(t, ds)
  <2>1. SUFFICES ASSUME NEW k \in 1..m, NEW a \in DOMAIN ds[k], a > 1
                 PROVE  t[ds[k][a]].time - t[ds[k][a - 1]].time <= DT_WINDOW
    BY <1>4 DEF Silences
  <2>2. CASE k # best
    BY <1>4, <1>8, <2>1, <2>2
  <2>3. CASE k = best /\ a \in 1..Len(old)
    <3>1. a - 1 \in 1..Len(old)
      BY <1>6, <2>1, <2>3
    <3>2. ds[k][a] = old[a] /\ ds[k][a - 1] = old[a - 1]
      BY <1>6, <2>3, <3>1
    <3>3. t[old[a]].time - t[old[a - 1]].time <= DT_WINDOW
      BY <1>2, <1>5, <1>8, <2>1, <2>3
    <3>4. QED
      BY <3>2, <3>3
  <2>4. CASE k = best /\ a = Len(old) + 1
    <3>1. Len(old) \in 1..Len(old) /\ a - 1 = Len(old) /\ old[Len(old)] \in 1..n
      BY <1>5, <1>6, <2>4
    <3>2. ds[k][a] = n + 1 /\ ds[k][a - 1] = old[Len(old)]
      BY <1>6, <2>4, <3>1
    <3>3. t[n + 1] = r /\ t[old[Len(old)]] = s[old[Len(old)]]
      BY <1>3, <3>1
    <3>4. QED
      BY <1>2, <3>2, <3>3
  <2>5. QED
    BY <1>6, <2>1, <2>2, <2>3, <2>4
<1>12. OpenedInOrder(ds)
  <2>1. ASSUME NEW k \in 1..m PROVE ds[k][1] = cs[k][1]
    <3>1. CASE k = best
      BY <1>5, <1>6, <3>1
    <3>2. CASE k # best
      BY <1>4, <3>2
    <3>3. QED
      BY <3>1, <3>2
  <2>2. QED
    BY <1>2, <1>4, <2>1 DEF ClustersInv, OpenedInOrder
<1>13. QED
  BY <1>3, <1>9, <1>10, <1>11, <1>12 DEF ClustersInv

\* Every turn keeps the invariant.
LEMMA AssignKeeps ==
  ASSUME NEW s, NEW cs, ClustersInv(s, cs), NEW r \in Reports, NEW t, NEW ds,
         Assigned(s, cs, r, t, ds)
  PROVE  ClustersInv(t, ds)
BY RowOpensCluster, RowJoinsCluster

\* A cluster starts with its first member.
LEMMA StartIsFirst ==
  ASSUME NEW s \in Seq(Reports), InOrder(s),
         NEW c \in Seq(1..Len(s)), c # <<>>, Increasing(c)
  PROVE  TMin(s, c) = s[c[1]].time
<1>1. 1 \in DOMAIN c /\ c[1] \in 1..Len(s)
  OBVIOUS
<1>2. \A i \in 1..Len(s) : s[i].time \in Int
  BY ClusteringAssumption
<1>3. \A k \in DOMAIN c : c[k] \in 1..Len(s) /\ c[1] <= c[k]
  BY DEF Increasing
<1>4. s[c[1]].time \in Times(s, c) /\ \A u \in Times(s, c) : u \in Int /\ s[c[1]].time <= u
  BY <1>1, <1>2, <1>3 DEF Times, Members, InOrder
<1>5. TMin(s, c) \in Times(s, c) /\ \A u \in Times(s, c) : TMin(s, c) <= u
  BY <1>4 DEF TMin
<1>6. QED
  BY <1>1, <1>2, <1>4, <1>5

LEMMA RankOfReport ==
  ASSUME NEW r \in Reports
  PROVE  PriorityIndex(r.source) \in 1..4
<1>1. r.source \in SourceNames
  BY ClusteringAssumption
<1>2. DOMAIN SOURCE_PRIORITY = 1..4
  BY DEF SOURCE_PRIORITY
<1>3. \E i \in DOMAIN SOURCE_PRIORITY : SOURCE_PRIORITY[i] = r.source
  BY <1>1 DEF SourceNames
<1>4. PriorityIndex(r.source) \in DOMAIN SOURCE_PRIORITY
  BY <1>3 DEF PriorityIndex
<1>5. QED
  BY <1>2, <1>4

\* Position j of cluster c holds the first of the best members.
Rank(s, c, k) == PriorityIndex(s[c[k]].source)
FirstOfBest(s, c, j) ==
  \A k \in DOMAIN c :
    Rank(s, c, j) < Rank(s, c, k) \/ (Rank(s, c, j) = Rank(s, c, k) /\ j <= k)

\* In order of time the preferred member is the first of the best.
LEMMA PreferredIsFirstOfBest ==
  ASSUME NEW s \in Seq(Reports), InOrder(s),
         NEW c \in Seq(1..Len(s)), c # <<>>, Increasing(c)
  PROVE  /\ \E j \in DOMAIN c : FirstOfBest(s, c, j)
         /\ \A j \in DOMAIN c : FirstOfBest(s, c, j) => Preferred(s, c) = s[c[j]]
<1> DEFINE before(j, k) ==
             \/ Rank(s, c, j) < Rank(s, c, k)
             \/ Rank(s, c, j) = Rank(s, c, k) /\ s[c[j]].time < s[c[k]].time
             \/ Rank(s, c, j) = Rank(s, c, k) /\ s[c[j]].time = s[c[k]].time /\ j <= k
<1>1. /\ DOMAIN c = 1..Len(c) /\ Len(c) \in Nat /\ Len(c) >= 1
      /\ \A k \in DOMAIN c : c[k] \in 1..Len(s) /\ c[k] \in DOMAIN s
  OBVIOUS
<1>2. \A k \in DOMAIN c : Rank(s, c, k) \in Nat /\ s[c[k]].time \in Int
  <2>1. SUFFICES ASSUME NEW k \in DOMAIN c
                 PROVE  Rank(s, c, k) \in Nat /\ s[c[k]].time \in Int
    OBVIOUS
  <2>2. s[c[k]] \in Reports
    BY <1>1
  <2>3. PriorityIndex(s[c[k]].source) \in 1..4
    BY <2>2, RankOfReport
  <2>4. s[c[k]].time \in Int
    BY <2>2, ClusteringAssumption
  <2>5. QED
    BY <2>3, <2>4 DEF Rank
<1>3. \A j, k \in DOMAIN c : j <= k => s[c[j]].time <= s[c[k]].time
  <2>1. SUFFICES ASSUME NEW j \in DOMAIN c, NEW k \in DOMAIN c, j <= k
                 PROVE  s[c[j]].time <= s[c[k]].time
    OBVIOUS
  <2>2. j = k \/ j < k
    BY <1>1, <2>1
  <2>3. c[j] <= c[k]
    BY <1>1, <2>2 DEF Increasing
  <2>4. QED
    BY <1>1, <2>3 DEF InOrder
<1>4. \A j, k \in DOMAIN c :
        before(j, k) <=> Rank(s, c, j) < Rank(s, c, k) \/ (Rank(s, c, j) = Rank(s, c, k) /\ j <= k)
  <2>1. SUFFICES ASSUME NEW j \in DOMAIN c, NEW k \in DOMAIN c
                 PROVE  before(j, k) <=>
                          \/ Rank(s, c, j) < Rank(s, c, k)
                          \/ Rank(s, c, j) = Rank(s, c, k) /\ j <= k
    OBVIOUS
  <2>2. j \in Int /\ k \in Int /\ s[c[j]].time \in Int /\ s[c[k]].time \in Int
    BY <1>1, <1>2
  <2>3. j <= k => s[c[j]].time <= s[c[k]].time
    BY <1>3
  <2>4. k <= j => s[c[k]].time <= s[c[j]].time
    BY <1>3
  <2>5. QED
    BY <2>2, <2>3, <2>4
<1>5. \E j \in DOMAIN c : FirstOfBest(s, c, j)
  <2> DEFINE ranks == {Rank(s, c, k) : k \in DOMAIN c}
  <2>1. ranks \in SUBSET Nat /\ ranks # {}
    BY <1>1, <1>2
  <2>2. PICK best \in ranks : \A x \in ranks : best <= x
    BY <2>1, LeastNat
  <2> DEFINE OfBest == {k \in DOMAIN c : Rank(s, c, k) = best}
  <2>3. OfBest \in SUBSET Nat /\ OfBest # {}
    BY <1>1
  <2> HIDE DEF OfBest
  <2>4. PICK j \in OfBest : \A k \in OfBest : j <= k
    BY <2>3, LeastNat
  <2>5. ASSUME NEW k \in DOMAIN c
        PROVE  Rank(s, c, j) < Rank(s, c, k) \/ (Rank(s, c, j) = Rank(s, c, k) /\ j <= k)
    <3>1. best <= Rank(s, c, k) /\ best \in Nat /\ Rank(s, c, k) \in Nat /\ Rank(s, c, j) = best
      BY <1>2, <2>1, <2>2, <2>4 DEF OfBest
    <3>2. CASE Rank(s, c, k) = best
      BY <2>4, <3>1, <3>2 DEF OfBest
    <3>3. CASE Rank(s, c, k) # best
      BY <3>1, <3>3
    <3>4. QED
      BY <3>2, <3>3
  <2>6. QED
    BY <2>4, <2>5 DEF FirstOfBest, OfBest
<1>6. ASSUME NEW j \in DOMAIN c, FirstOfBest(s, c, j)
      PROVE  Preferred(s, c) = s[c[j]]
  <2> DEFINE pos == CHOOSE i \in DOMAIN c : \A k \in DOMAIN c : before(i, k)
  <2>1. Preferred(s, c) = s[c[pos]]
    BY DEF Preferred, Rank
  <2>2. \A k \in DOMAIN c : before(j, k)
    BY <1>4, <1>6 DEF FirstOfBest
  <2>3. pos \in DOMAIN c /\ \A k \in DOMAIN c : before(pos, k)
    BY <2>2
  <2> HIDE DEF pos, before
  <2>4. before(pos, j) /\ before(j, pos)
    BY <2>2, <2>3
  <2>5. Rank(s, c, pos) \in Nat /\ Rank(s, c, j) \in Nat /\ pos \in Int /\ j \in Int
    BY <1>1, <1>2, <2>3
  <2>6. pos = j
    BY <1>4, <2>3, <2>4, <2>5
  <2>7. QED
    BY <2>1, <2>6
<1>7. QED
  BY <1>5, <1>6

\* The value kept for a source is that of its last member.
LEMMA LastMemberOfSource ==
  ASSUME NEW s, NEW cs, ClustersInv(s, cs), NEW k \in DOMAIN cs,
         NEW src \in ClusterSources(s, cs[k])
  PROVE  \E last \in DOMAIN cs[k] :
           /\ SourceValues(s, cs[k])[src] = s[cs[k][last]]
           /\ s[cs[k][last]].source = src
           /\ \A b \in DOMAIN cs[k] : s[cs[k][b]].source = src => b <= last
<1> DEFINE c == cs[k]
           Of == {a \in DOMAIN c : s[c[a]].source = src}
<1>1. DOMAIN c = 1..Len(c) /\ Len(c) \in Nat
  BY ClusterFacts
<1>2. Of \in SUBSET Nat /\ Of # {} /\ \A b \in Of : b <= Len(c)
  BY <1>1 DEF ClusterSources, Members
<1>3. \E b \in Of : \A d \in Of : b >= d
  BY <1>1, <1>2, GreatestNat
<1> DEFINE last == CHOOSE b \in DOMAIN c :
                     /\ s[c[b]].source = src
                     /\ \A d \in DOMAIN c : s[c[d]].source = src => d <= b
<1>4. /\ last \in DOMAIN c
      /\ s[c[last]].source = src
      /\ \A d \in DOMAIN c : s[c[d]].source = src => d <= last
  <2>1. \E b \in DOMAIN c :
          /\ s[c[b]].source = src
          /\ \A d \in DOMAIN c : s[c[d]].source = src => d <= b
    BY <1>1, <1>3
  <2>2. QED
    BY <2>1
<1>5. SourceValues(s, c)[src] = s[c[last]]
  BY DEF SourceValues
<1> HIDE DEF last
<1>6. QED
  BY <1>4, <1>5

\* Members are in the order of the input, so the last of a source is its latest.
LEMMA LatestOfSource ==
  ASSUME NEW s, NEW cs, ClustersInv(s, cs), NEW k \in DOMAIN cs, NEW i \in Members(cs[k])
  PROVE  LET kept == SourceValues(s, cs[k])[s[i].source]
         IN  kept.source = s[i].source /\ kept.time >= s[i].time
<1> DEFINE c == cs[k]
<1>1. c \in Seq(1..Len(s)) /\ Increasing(c)
  BY ClusterFacts
<1>2. /\ s \in Seq(Reports) /\ InOrder(s)
      /\ DOMAIN s = 1..Len(s) /\ Len(s) \in Nat
  BY DEF ClustersInv, Typed
<1>3. PICK a \in DOMAIN c : c[a] = i
  BY DEF Members
<1>4. s[i].source \in ClusterSources(s, c)
  BY DEF ClusterSources
<1>5. PICK last \in DOMAIN c :
        /\ SourceValues(s, c)[s[i].source] = s[c[last]]
        /\ s[c[last]].source = s[i].source
        /\ \A b \in DOMAIN c : s[c[b]].source = s[i].source => b <= last
  BY <1>4, LastMemberOfSource
<1>6. a <= last
  BY <1>3, <1>5
<1>7. c[a] <= c[last] /\ c[a] \in DOMAIN s /\ c[last] \in DOMAIN s
  <2>1. a \in Nat /\ last \in Nat /\ (a = last \/ a < last)
    BY <1>1, <1>6
  <2>2. c[a] \in DOMAIN s /\ c[last] \in DOMAIN s
    BY <1>1, <1>2
  <2>3. QED
    BY <1>2, <2>1, <2>2, <1>1 DEF Increasing
<1>8. s[c[a]].time <= s[c[last]].time
  BY <1>2, <1>7 DEF InOrder
<1>9. s[c[a]].time \in Int /\ s[c[last]].time \in Int
  BY <1>2, <1>7, ClusteringAssumption
<1>10. QED
  BY <1>3, <1>5, <1>8, <1>9

\* What report r may make of the mart row old of the cluster it joins.
KeepsOrImproves(old, new, r) ==
  \/ /\ new.event_uid = old.event_uid
     /\ Headline(new) = Headline(old)
  \/ /\ PriorityIndex(r.source) < PriorityIndex(old.preferred_source)
     /\ Headline(new) = <<r.source, r.place, r.magnitude>>

\* A row that joins a cluster keeps its uid and its headline, unless the row comes from
\* a better source than all members of the cluster; then it becomes the headline.
LEMMA JoiningRow ==
  ASSUME NEW s, NEW cs, ClustersInv(s, cs), NEW r \in Reports, NEW t, NEW ds,
         Assigned(s, cs, r, t, ds),
         NEW k \in DOMAIN cs,
         ds[k] = Append(cs[k], Len(s) + 1),
         InOrder(t), Increasing(ds[k])
  PROVE  KeepsOrImproves(ToMartRow(s, cs[k]), ToMartRow(t, ds[k]), r)
<1> DEFINE n == Len(s)
           c == cs[k]
           d == ds[k]
<1>1. /\ s \in Seq(Reports) /\ InOrder(s) /\ n \in Nat
      /\ c \in Seq(1..n) /\ c # <<>> /\ Increasing(c)
  <2>1. s \in Seq(Reports) /\ InOrder(s) /\ n \in Nat
    BY DEF ClustersInv, Typed
  <2>2. c \in Seq(1..n) /\ c # <<>> /\ Increasing(c)
    BY ClusterFacts
  <2>3. QED
    BY <2>1, <2>2
<1>2. /\ t \in Seq(Reports) /\ Len(t) = n + 1
      /\ t[n + 1] = r /\ \A i \in 1..n : t[i] = s[i]
  BY NextRow
<1> DEFINE l == Len(c)
<1>3. /\ l \in Nat /\ l >= 1 /\ DOMAIN c = 1..l
      /\ \A j \in 1..l : c[j] \in 1..n
  BY <1>1
<1>4. /\ d \in Seq(1..(n + 1)) /\ d # <<>> /\ DOMAIN d = 1..(l + 1)
      /\ d[l + 1] = n + 1 /\ \A j \in 1..l : d[j] = c[j]
  BY <1>1, <1>3
<1> HIDE DEF c, d, l
<1>5. /\ t[d[l + 1]] = r
      /\ \A j \in 1..l : t[d[j]] = s[c[j]]
  BY <1>2, <1>3, <1>4
<1>6. TMin(t, d) = TMin(s, c)
  <2>1. TMin(s, c) = s[c[1]].time
    BY <1>1, StartIsFirst DEF c
  <2>2. TMin(t, d) = t[d[1]].time
    BY <1>2, <1>4, StartIsFirst DEF d
  <2>3. QED
    BY <1>3, <1>5, <2>1, <2>2
<1>7. PICK j \in 1..l : FirstOfBest(s, c, j) /\ Preferred(s, c) = s[c[j]]
  BY <1>1, <1>3, PreferredIsFirstOfBest DEF c
<1>8. \A i \in DOMAIN d : FirstOfBest(t, d, i) => Preferred(t, d) = t[d[i]]
  <2>1. t \in Seq(Reports) /\ d \in Seq(1..Len(t)) /\ d # <<>> /\ Increasing(d)
    BY <1>2, <1>4 DEF d
  <2> HIDE DEF d
  <2>2. QED
    BY <2>1, PreferredIsFirstOfBest
<1>9. /\ \A i \in 1..l : Rank(t, d, i) = Rank(s, c, i) /\ Rank(s, c, i) \in Int
      /\ Rank(t, d, l + 1) = PriorityIndex(r.source)
      /\ PriorityIndex(r.source) \in Int
  <2>1. \A i \in 1..l : s[c[i]] \in Reports
    BY <1>1, <1>3
  <2>2. QED
    BY <1>5, <2>1, RankOfReport DEF Rank
<1>10. CASE PriorityIndex(r.source) < PriorityIndex(s[c[j]].source)
  <2>1. PriorityIndex(r.source) < Rank(s, c, j)
    BY <1>10 DEF Rank
  <2>2. FirstOfBest(t, d, l + 1)
    <3>1. SUFFICES ASSUME NEW i \in 1..(l + 1)
                   PROVE  \/ Rank(t, d, l + 1) < Rank(t, d, i)
                          \/ Rank(t, d, l + 1) = Rank(t, d, i) /\ l + 1 <= i
      BY <1>4 DEF FirstOfBest
    <3>2. CASE i = l + 1
      BY <1>3, <3>2
    <3>3. CASE i \in 1..l
      <4>1. Rank(s, c, j) < Rank(s, c, i) \/ Rank(s, c, j) = Rank(s, c, i)
        BY <1>3, <1>7, <3>3 DEF FirstOfBest
      <4>2. Rank(s, c, j) \in Int /\ Rank(s, c, i) \in Int
        BY <1>7, <1>9, <3>3
      <4>3. QED
        BY <1>9, <2>1, <3>3, <4>1, <4>2
    <3>4. QED
      BY <1>3, <3>2, <3>3
  <2>3. Preferred(t, d) = r
    <3>1. l + 1 \in DOMAIN d
      BY <1>3, <1>4
    <3>2. QED
      BY <1>5, <2>2, <3>1, <1>8
  <2>4. QED
    BY <1>7, <1>10, <2>3 DEF ToMartRow, Headline, KeepsOrImproves, c, d
<1>11. CASE ~(PriorityIndex(r.source) < PriorityIndex(s[c[j]].source))
  <2>1. ~(PriorityIndex(r.source) < Rank(s, c, j))
    BY <1>11 DEF Rank
  <2>2. FirstOfBest(t, d, j)
    <3>1. SUFFICES ASSUME NEW i \in 1..(l + 1)
                   PROVE  \/ Rank(t, d, j) < Rank(t, d, i)
                          \/ Rank(t, d, j) = Rank(t, d, i) /\ j <= i
      BY <1>4 DEF FirstOfBest
    <3>2. CASE i = l + 1
      BY <1>3, <1>7, <1>9, <2>1, <3>2
    <3>3. CASE i \in 1..l
      BY <1>3, <1>7, <1>9, <3>3 DEF FirstOfBest
    <3>4. QED
      BY <1>3, <3>2, <3>3
  <2>3. Preferred(t, d) = Preferred(s, c)
    <3>1. j \in DOMAIN d
      BY <1>3, <1>4
    <3>2. QED
      BY <1>5, <1>7, <2>2, <3>1, <1>8
  <2>4. EventUid(t, d) = EventUid(s, c)
    BY <1>6, <2>3 DEF EventUid
  <2>5. QED
    BY <2>3, <2>4 DEF ToMartRow, Headline, KeepsOrImproves, c, d
<1>12. QED
  BY <1>10, <1>11

-----------------------------------------------------------------------------
(* Sums over finite sets: the centroid and the average magnitude.          *)
Picked(T) == CHOOSE x \in T : TRUE

\* h has the sum of f over every subset of D.
IsSum(h, D, f) ==
  h = [T \in SUBSET D |-> IF T = {} THEN 0 ELSE f[Picked(T)] + h[T \ {Picked(T)}]]

LEMMA SumsExist ==
  ASSUME NEW D, IsFiniteSet(D), NEW f
  PROVE  \E h : IsSum(h, D, f)
<1> DEFINE Small(n) == {T \in SUBSET D : Cardinality(T) <= n}
           Body(h, T) == IF T = {} THEN 0 ELSE f[Picked(T)] + h[T \ {Picked(T)}]
           Good == {n \in Nat : \E h : h = [T \in Small(n) |-> Body(h, T)]}
<1>1. \A T \in SUBSET D : /\ IsFiniteSet(T)
                          /\ Cardinality(T) \in Nat
                          /\ Cardinality(T) <= Cardinality(D)
  BY FS_Subset, FS_CardinalityType
<1>2. \A n \in Nat : \A T \in Small(n + 1) : T # {} => T \ {Picked(T)} \in Small(n)
  <2>1. SUFFICES ASSUME NEW n \in Nat, NEW T \in Small(n + 1), T # {}
                 PROVE  T \ {Picked(T)} \in Small(n)
    OBVIOUS
  <2>2. Picked(T) \in T
    BY <2>1 DEF Picked
  <2>3. Cardinality(T \ {Picked(T)}) = Cardinality(T) - 1
    BY <1>1, <2>2, FS_RemoveElement
  <2>4. QED
    BY <1>1, <2>3
<1>3. 0 \in Good
  <2>1. \A T \in Small(0) : T = {}
    <3>1. SUFFICES ASSUME NEW T \in Small(0) PROVE T = {}
      OBVIOUS
    <3>2. Cardinality(T) = 0 /\ IsFiniteSet(T)
      BY <1>1
    <3>3. QED
      BY <3>2, FS_EmptySet
  <2> DEFINE h == [T \in Small(0) |-> 0]
  <2>2. h = [T \in Small(0) |-> Body(h, T)]
    BY <2>1
  <2> HIDE DEF h
  <2>3. QED
    BY <2>2
<1>4. ASSUME NEW n \in 0..(Cardinality(D) - 1), n \in Good
      PROVE  n + 1 \in Good
  <2>1. PICK h : h = [T \in Small(n) |-> Body(h, T)]
    BY <1>4
  <2> DEFINE g == [T \in Small(n + 1) |-> Body(h, T)]
  <2>2. n \in Nat /\ Small(n) \subseteq Small(n + 1)
    BY <1>1
  <2>3. \A T \in Small(n) : g[T] = h[T]
    <3>1. \A T \in Small(n) : g[T] = Body(h, T)
      BY <2>2
    <3>2. \A T \in Small(n) : h[T] = Body(h, T)
      BY <2>1
    <3> HIDE DEF g, Small
    <3>3. QED
      BY <3>1, <3>2
  <2>4. \A T \in Small(n + 1) : Body(g, T) = Body(h, T)
    <3> HIDE DEF g, Small
    <3>1. QED
      BY <1>2, <2>2, <2>3
  <2>5. g = [T \in Small(n + 1) |-> Body(g, T)]
    <3>1. g = [T \in Small(n + 1) |-> Body(h, T)]
      OBVIOUS
    <3> HIDE DEF g, Small, Body
    <3>2. QED
      BY <2>4, <3>1
  <2> HIDE DEF g, Body, Small
  <2>6. QED
    BY <2>2, <2>5
<1>5. Cardinality(D) \in Nat /\ Cardinality(D) \in 0..Cardinality(D)
  BY FS_CardinalityType
<1>6. Cardinality(D) \in Good
  <2> HIDE DEF Good
  <2> QED
    BY <1>3, <1>4, <1>5, BoundedInduction
<1>7. Small(Cardinality(D)) = SUBSET D
  BY <1>1
<1>8. QED
  BY <1>6, <1>7 DEF IsSum

\* A sum lies between the multiples of the bounds of its terms.
LEMMA SumBounds ==
  ASSUME NEW D, IsFiniteSet(D), NEW f, NEW h, IsSum(h, D, f),
         NEW lo \in Int, NEW hi \in Int,
         \A x \in D : f[x] \in Int /\ lo <= f[x] /\ f[x] <= hi
  PROVE  /\ h[D] \in Int
         /\ Cardinality(D) * lo <= h[D]
         /\ h[D] <= Cardinality(D) * hi
<1> DEFINE Bounded(T, n) == h[T] \in Int /\ n * lo <= h[T] /\ h[T] <= n * hi
           Good == {n \in Nat : \A T \in SUBSET D : Cardinality(T) = n => Bounded(T, n)}
<1>1. \A T \in SUBSET D : IsFiniteSet(T) /\ Cardinality(T) \in Nat
  BY FS_Subset, FS_CardinalityType
<1>2. \A T \in SUBSET D :
        h[T] = IF T = {} THEN 0 ELSE f[Picked(T)] + h[T \ {Picked(T)}]
  BY DEF IsSum
<1>3. 0 \in Good
  <2>1. \A T \in SUBSET D : Cardinality(T) = 0 => h[T] = 0
    BY <1>1, <1>2, FS_EmptySet
  <2>2. QED
    BY <2>1
<1>4. ASSUME NEW n \in 0..(Cardinality(D) - 1), n \in Good
      PROVE  n + 1 \in Good
  <2>1. SUFFICES ASSUME NEW T \in SUBSET D, Cardinality(T) = n + 1
                 PROVE  Bounded(T, n + 1)
    BY <1>4
  <2> DEFINE x == Picked(T)
  <2>2. T # {}
    BY <2>1, FS_EmptySet
  <2>3. x \in T
    BY <2>2 DEF Picked
  <2>4. Cardinality(T \ {x}) = n
    <3> HIDE DEF x
    <3>1. Cardinality(T \ {x}) = Cardinality(T) - 1
      BY <1>1, <2>3, FS_RemoveElement
    <3>2. QED
      BY <2>1, <3>1
  <2> HIDE DEF x
  <2>5. Bounded(T \ {x}, n)
    BY <1>4, <2>4
  <2>6. h[T] = f[x] + h[T \ {x}]
    BY <1>2, <2>2 DEF x
  <2>7. f[x] \in Int /\ lo <= f[x] /\ f[x] <= hi
    BY <2>3
  <2>8. (n + 1) * lo = n * lo + lo /\ (n + 1) * hi = n * hi + hi
    OBVIOUS
  <2>9. n * lo \in Int /\ n * hi \in Int
    OBVIOUS
  <2>10. QED
    BY <2>5, <2>6, <2>7, <2>8, <2>9
<1>5. Cardinality(D) \in Nat /\ Cardinality(D) \in 0..Cardinality(D)
  BY FS_CardinalityType
<1>6. Cardinality(D) \in Good
  <2> HIDE DEF Good
  <2> QED
    BY <1>3, <1>4, <1>5, BoundedInduction
<1>7. QED
  BY <1>6

\* p is as near to the mean as to each of the terms.
LEMMA NearMean ==
  ASSUME NEW D, IsFiniteSet(D), NEW f, NEW h, IsSum(h, D, f),
         NEW p \in Int, NEW W \in Nat,
         \A x \in D : f[x] \in Int /\ Abs(p - f[x]) <= W
  PROVE  Abs(p * Cardinality(D) - h[D]) <= W * Cardinality(D)
<1> DEFINE n == Cardinality(D)
<1>1. n \in Nat
  BY FS_CardinalityType
<1>2. p - W \in Int /\ p + W \in Int
  OBVIOUS
<1>3. \A x \in D : f[x] \in Int /\ p - W <= f[x] /\ f[x] <= p + W
  BY DEF Abs
<1>4. h[D] \in Int /\ n * (p - W) <= h[D] /\ h[D] <= n * (p + W)
  BY <1>2, <1>3, SumBounds
<1> HIDE DEF n
<1>5. /\ n * (p - W) = p * n - W * n
      /\ n * (p + W) = p * n + W * n
      /\ p * n \in Int /\ W * n \in Int
  BY <1>1
<1>6. QED
  BY <1>4, <1>5 DEF Abs, n

\* p is far from the mean of terms that are near to each other and all far from p.
LEMMA FarFromMean ==
  ASSUME NEW D, IsFiniteSet(D), D # {}, NEW f, NEW h, IsSum(h, D, f),
         NEW p \in Int, NEW W \in Nat,
         \A x \in D : f[x] \in Int /\ Abs(p - f[x]) > W,
         \A x, y \in D : Abs(f[x] - f[y]) <= W
  PROVE  ~(Abs(p * Cardinality(D) - h[D]) <= W * Cardinality(D))
<1> DEFINE n == Cardinality(D)
<1>1. n \in Nat /\ n >= 1
  BY FS_CardinalityType, FS_EmptySet
<1>2. PICK a \in D : TRUE
  OBVIOUS
<1>3. f[a] \in Int /\ Abs(p - f[a]) > W
  BY <1>2
<1>4. (\A x \in D : p + (W + 1) <= f[x]) \/ (\A x \in D : f[x] <= p - (W + 1))
  <2>1. ASSUME NEW x \in D
        PROVE  /\ f[a] > p => p + (W + 1) <= f[x]
               /\ ~(f[a] > p) => f[x] <= p - (W + 1)
    <3>1. f[x] \in Int /\ Abs(p - f[x]) > W /\ Abs(f[a] - f[x]) <= W
      BY <1>2
    <3>2. QED
      BY <1>3, <3>1 DEF Abs
  <2>2. QED
    BY <2>1
<1>5. /\ h[D] \in Int
      /\ (\A x \in D : p + (W + 1) <= f[x]) => n * (p + (W + 1)) <= h[D]
      /\ (\A x \in D : f[x] <= p - (W + 1)) => h[D] <= n * (p - (W + 1))
  <2>1. ASSUME \A x \in D : p + (W + 1) <= f[x]
        PROVE  h[D] \in Int /\ n * (p + (W + 1)) <= h[D]
    <3>1. \A x \in D : f[x] <= f[a] + W
      BY <1>2, <1>3 DEF Abs
    <3>2. p + (W + 1) \in Int /\ f[a] + W \in Int
      BY <1>3
    <3>3. QED
      BY <2>1, <3>1, <3>2, SumBounds
  <2>2. ASSUME \A x \in D : f[x] <= p - (W + 1)
        PROVE  h[D] \in Int /\ h[D] <= n * (p - (W + 1))
    <3>1. \A x \in D : f[a] - W <= f[x]
      BY <1>2, <1>3 DEF Abs
    <3>2. p - (W + 1) \in Int /\ f[a] - W \in Int
      BY <1>3
    <3>3. QED
      BY <2>2, <3>1, <3>2, SumBounds
  <2>3. QED
    BY <1>4, <2>1, <2>2
<1> HIDE DEF n
<1>6. /\ n * (p + (W + 1)) = p * n + W * n + n
      /\ n * (p - (W + 1)) = p * n - W * n - n
      /\ p * n \in Int /\ W * n \in Int /\ W * n >= 0
  BY <1>1
<1>7. QED
  BY <1>1, <1>4, <1>5, <1>6 DEF Abs, n

PlaceSum(s, c) == MapThenSumSet(LAMBDA k : s[c[k]].place, DOMAIN c)

WithMagnitude(s, c) == {k \in DOMAIN c : s[c[k]].magnitude # NoMag}
MagnitudeSum(s, c) == MapThenSumSet(LAMBDA k : s[c[k]].magnitude, WithMagnitude(s, c))

LEMMA PlaceSumIsSum ==
  ASSUME NEW s, NEW c, IsFiniteSet(DOMAIN c)
  PROVE  \E h : /\ IsSum(h, DOMAIN c, [k \in DOMAIN c |-> s[c[k]].place])
                /\ PlaceSum(s, c) = h[DOMAIN c]
<1> DEFINE D == DOMAIN c
           f == [k \in D |-> s[c[k]].place]
           Body(h, T) == IF T = {} THEN 0 ELSE s[c[Picked(T)]].place + h[T \ {Picked(T)}]
           Solves(h) == h = [T \in SUBSET D |-> Body(h, T)]
           sum == CHOOSE h : Solves(h)
<1>1. PlaceSum(s, c) = sum[D]
  BY Zenon DEF PlaceSum, MapThenSumSet, MapThenFoldSet, Picked
<1>2. ASSUME NEW h PROVE Solves(h) <=> IsSum(h, D, f)
  <2>1. \A T \in SUBSET D : T # {} => f[Picked(T)] = s[c[Picked(T)]].place
    BY DEF Picked
  <2> HIDE DEF f, D
  <2>2. [T \in SUBSET D |-> Body(h, T)]
          = [T \in SUBSET D |-> IF T = {} THEN 0 ELSE f[Picked(T)] + h[T \ {Picked(T)}]]
    BY <2>1
  <2>3. QED
    BY <2>2 DEF IsSum
<1>3. \E h : Solves(h)
  BY <1>2, SumsExist
<1>4. Solves(sum)
  <2> HIDE DEF Solves
  <2> QED
    BY <1>3, Zenon
<1> HIDE DEF Solves, sum, f
<1>5. QED
  BY <1>1, <1>2, <1>4 DEF f

LEMMA MagnitudeSumIsSum ==
  ASSUME NEW s, NEW c, IsFiniteSet(WithMagnitude(s, c))
  PROVE  \E h : /\ IsSum(h, WithMagnitude(s, c), [k \in DOMAIN c |-> s[c[k]].magnitude])
                /\ MagnitudeSum(s, c) = h[WithMagnitude(s, c)]
<1> DEFINE D == WithMagnitude(s, c)
           f == [k \in DOMAIN c |-> s[c[k]].magnitude]
           Body(h, T) == IF T = {} THEN 0 ELSE s[c[Picked(T)]].magnitude + h[T \ {Picked(T)}]
           Solves(h) == h = [T \in SUBSET D |-> Body(h, T)]
           sum == CHOOSE h : Solves(h)
<1>1. MagnitudeSum(s, c) = sum[D]
  BY Zenon DEF MagnitudeSum, MapThenSumSet, MapThenFoldSet, Picked
<1>2. ASSUME NEW h PROVE Solves(h) <=> IsSum(h, D, f)
  <2>1. \A T \in SUBSET D : T # {} => f[Picked(T)] = s[c[Picked(T)]].magnitude
    BY DEF Picked, WithMagnitude
  <2> HIDE DEF f, D
  <2>2. [T \in SUBSET D |-> Body(h, T)]
          = [T \in SUBSET D |-> IF T = {} THEN 0 ELSE f[Picked(T)] + h[T \ {Picked(T)}]]
    BY <2>1
  <2>3. QED
    BY <2>2 DEF IsSum
<1>3. \E h : Solves(h)
  BY <1>2, SumsExist
<1>4. Solves(sum)
  <2> HIDE DEF Solves
  <2> QED
    BY <1>3, Zenon
<1> HIDE DEF Solves, sum, f
<1>5. QED
  BY <1>1, <1>2, <1>4 DEF f

\* The two tests of the loop.
LEMMA TestsAreOfMeans ==
  ASSUME NEW s, NEW c, NEW r
  PROVE  /\ NearCentroid(s, c, r) <=>
              Abs(r.place * Len(c) - PlaceSum(s, c)) <= DIST_WINDOW * Len(c)
         /\ MagnitudeFits(s, c, r) <=>
              \/ r.magnitude = NoMag
              \/ Cardinality(WithMagnitude(s, c)) = 0
              \/ Abs(r.magnitude * Cardinality(WithMagnitude(s, c)) - MagnitudeSum(s, c))
                   <= DM_WINDOW * Cardinality(WithMagnitude(s, c))
BY Zenon DEF NearCentroid, PlaceSum, MagnitudeFits, MagnitudeSum, WithMagnitude

\* What the tests need of a cluster.
LEMMA MembersOfCluster ==
  ASSUME NEW s \in Seq(Reports), NEW c \in Seq(1..Len(s)), c # <<>>
  PROVE  /\ IsFiniteSet(DOMAIN c) /\ Cardinality(DOMAIN c) = Len(c) /\ DOMAIN c # {}
         /\ \A k \in DOMAIN c : /\ c[k] \in Members(c) /\ s[c[k]].place \in Int
                                /\ s[c[k]].magnitude \in Int \cup {NoMag}
<1>1. DOMAIN c = 1..Len(c) /\ Len(c) \in Nat /\ Len(c) # 0
  OBVIOUS
<1>2. IsFiniteSet(DOMAIN c) /\ Cardinality(DOMAIN c) = Len(c) /\ DOMAIN c # {}
  <2>1. \A n \in Nat : IsFiniteSet(1..n) /\ Cardinality(1..n) = n
    BY FS_Interval
  <2>2. QED
    BY <1>1, <2>1
<1>3. ASSUME NEW k \in DOMAIN c
      PROVE  /\ c[k] \in Members(c) /\ s[c[k]].place \in Int
             /\ s[c[k]].magnitude \in Int \cup {NoMag}
  <2>1. s[c[k]] \in Reports
    OBVIOUS
  <2>2. QED
    BY <2>1, ClusteringAssumption DEF Members
<1>4. QED
  BY <1>2, <1>3

\* A report that is close to every member of a cluster matches it.
LEMMA CloseMatches ==
  ASSUME NEW s \in Seq(Reports), NEW c \in Seq(1..Len(s)), c # <<>>, NEW r \in Reports,
         \A i \in Members(c) : Close(s[i], r)
  PROVE  Matches(s, c, r)
<1> DEFINE D == DOMAIN c
           E == WithMagnitude(s, c)
           place == [k \in D |-> s[c[k]].place]
           magnitude == [k \in D |-> s[c[k]].magnitude]
<1>1. /\ IsFiniteSet(D) /\ Cardinality(D) = Len(c)
      /\ \A k \in D : /\ c[k] \in Members(c) /\ s[c[k]].place \in Int
                      /\ s[c[k]].magnitude \in Int \cup {NoMag}
  BY MembersOfCluster
<1>2. r.place \in Int /\ DIST_WINDOW \in Nat /\ DM_WINDOW \in Nat
  BY ClusteringAssumption
<1>3. NearCentroid(s, c, r)
  <2>1. PICK h : IsSum(h, D, place) /\ PlaceSum(s, c) = h[D]
    BY <1>1, PlaceSumIsSum
  <2>2. \A k \in D : place[k] \in Int /\ Abs(r.place - place[k]) <= DIST_WINDOW
    BY <1>1, <1>2 DEF Close, Abs
  <2> HIDE DEF place, D
  <2>3. Abs(r.place * Len(c) - PlaceSum(s, c)) <= DIST_WINDOW * Len(c)
    BY <1>1, <1>2, <2>1, <2>2, NearMean
  <2>4. QED
    BY <2>3, TestsAreOfMeans
<1>4. CASE r.magnitude = NoMag
  BY <1>3, <1>4, TestsAreOfMeans DEF Matches
<1>5. CASE r.magnitude # NoMag
  <2>1. IsFiniteSet(E) /\ E \subseteq D
    <3>1. E \subseteq D
      BY DEF WithMagnitude
    <3>2. QED
      BY <1>1, <3>1, FS_Subset
  <2>2. PICK h : IsSum(h, E, magnitude) /\ MagnitudeSum(s, c) = h[E]
    BY <2>1, MagnitudeSumIsSum
  <2>3. r.magnitude \in Int
    BY <1>5, ClusteringAssumption
  <2>4. ASSUME NEW k \in E
        PROVE  magnitude[k] \in Int /\ Abs(r.magnitude - magnitude[k]) <= DM_WINDOW
    <3>1. k \in D /\ s[c[k]].magnitude \in Int /\ Close(s[c[k]], r) /\ s[c[k]].magnitude # NoMag
      BY <1>1, <2>1 DEF WithMagnitude
    <3>2. QED
      BY <1>2, <1>5, <2>3, <3>1 DEF Close, Abs
  <2> HIDE DEF magnitude, E
  <2>5. Abs(r.magnitude * Cardinality(E) - MagnitudeSum(s, c)) <= DM_WINDOW * Cardinality(E)
    BY <1>2, <2>1, <2>2, <2>3, <2>4, NearMean
  <2>6. QED
    BY <1>3, <2>5, TestsAreOfMeans DEF Matches, E
<1>6. QED
  BY <1>4, <1>5

\* A report that is apart from every member of a cluster of close reports does not.
LEMMA ApartDiffers ==
  ASSUME NEW s \in Seq(Reports), NEW c \in Seq(1..Len(s)), c # <<>>, NEW r \in Reports,
         \A i, j \in Members(c) : Close(s[i], s[j]),
         \/ \A i \in Members(c) : Elsewhere(s[i], r)
         \/ \A i \in Members(c) : WeakerOrStronger(s[i], r)
  PROVE  ~Matches(s, c, r)
<1> DEFINE D == DOMAIN c
           E == WithMagnitude(s, c)
           place == [k \in D |-> s[c[k]].place]
           magnitude == [k \in D |-> s[c[k]].magnitude]
<1>1. /\ IsFiniteSet(D) /\ Cardinality(D) = Len(c) /\ D # {}
      /\ \A k \in D : /\ c[k] \in Members(c) /\ s[c[k]].place \in Int
                      /\ s[c[k]].magnitude \in Int \cup {NoMag}
  BY MembersOfCluster
<1>2. r.place \in Int /\ DIST_WINDOW \in Nat /\ DM_WINDOW \in Nat
  BY ClusteringAssumption
<1>3. CASE \A i \in Members(c) : Elsewhere(s[i], r)
  <2>1. PICK h : IsSum(h, D, place) /\ PlaceSum(s, c) = h[D]
    BY <1>1, PlaceSumIsSum
  <2>2. \A k \in D : place[k] \in Int /\ Abs(r.place - place[k]) > DIST_WINDOW
    BY <1>1, <1>2, <1>3 DEF Elsewhere, Abs
  <2>3. \A j, k \in D : Abs(place[j] - place[k]) <= DIST_WINDOW
    BY <1>1 DEF Close
  <2> HIDE DEF place, D
  <2>4. ~(Abs(r.place * Len(c) - PlaceSum(s, c)) <= DIST_WINDOW * Len(c))
    BY <1>1, <1>2, <2>1, <2>2, <2>3, FarFromMean
  <2>5. QED
    BY <2>4, TestsAreOfMeans DEF Matches
<1>4. CASE \A i \in Members(c) : WeakerOrStronger(s[i], r)
  <2>1. \A k \in D : /\ s[c[k]].magnitude # NoMag /\ s[c[k]].magnitude \in Int
                     /\ Abs(s[c[k]].magnitude - r.magnitude) > DM_WINDOW
    BY <1>1, <1>4 DEF WeakerOrStronger
  <2>2. E = D
    BY <2>1 DEF WithMagnitude
  <2>3. r.magnitude # NoMag
    BY <1>1, <1>4 DEF WeakerOrStronger
  <2>4. r.magnitude \in Int
    BY <2>3, ClusteringAssumption
  <2>5. PICK h : IsSum(h, E, magnitude) /\ MagnitudeSum(s, c) = h[E]
    BY <1>1, <2>2, MagnitudeSumIsSum
  <2>6. \A k \in D : magnitude[k] \in Int /\ Abs(r.magnitude - magnitude[k]) > DM_WINDOW
    BY <1>2, <2>1, <2>4 DEF Abs
  <2>7. \A j, k \in D : Abs(magnitude[j] - magnitude[k]) <= DM_WINDOW
    BY <1>1, <2>1 DEF Close
  <2> HIDE DEF magnitude, D, E
  <2>8. ~(Abs(r.magnitude * Cardinality(E) - MagnitudeSum(s, c)) <= DM_WINDOW * Cardinality(E))
    BY <1>1, <1>2, <2>2, <2>4, <2>5, <2>6, <2>7, FarFromMean
  <2>9. Cardinality(E) # 0
    BY <1>1, <2>2, FS_EmptySet
  <2>10. QED
    BY <2>3, <2>8, <2>9, TestsAreOfMeans DEF Matches, E
<1>5. QED
  BY <1>3, <1>4

-----------------------------------------------------------------------------
(* Two quakes that are apart are recovered.  In all lemmas the rows s and   *)
(* the report r of the next turn come from two quakes, as q says.           *)
Labels(s) == [DOMAIN s -> {1, 2}]

Restricted(q, s) == [i \in DOMAIN s |-> q[i]]

\* The two quakes as the next report sees them: its own and the other one.
LEMMA NextOfQuakes ==
  ASSUME NEW s, NEW cs, ClustersInv(s, cs), NEW r \in Reports, NEW t, NEW ds,
         Assigned(s, cs, r, t, ds),
         NEW q \in Labels(t), TwoQuakes(t, q)
  PROVE  LET p == Restricted(q, s)
             x == q[Len(s) + 1]
             y == 3 - x
         IN  /\ p \in Labels(s) /\ TwoQuakes(s, p)
             /\ x \in {1, 2} /\ y \in {1, 2} /\ x # y
             /\ Reporting(t, q, x) = Reporting(s, p, x) \cup {Len(s) + 1}
             /\ Reporting(t, q, y) = Reporting(s, p, y)
             /\ \A i \in Reporting(s, p, x) : Close(s[i], r)
             /\ \/ \A i \in Reporting(s, p, y) : LaterOrEarlier(s[i], r)
                \/ \A i \in Reporting(s, p, y) : Elsewhere(s[i], r)
                \/ \A i \in Reporting(s, p, y) : WeakerOrStronger(s[i], r)
<1> DEFINE n == Len(s)
           p == Restricted(q, s)
           x == q[n + 1]
           y == 3 - x
<1>1. /\ n \in Nat /\ DOMAIN s = 1..n /\ s \in Seq(Reports)
      /\ DOMAIN t = 1..(n + 1) /\ t \in Seq(Reports)
      /\ t[n + 1] = r /\ \A i \in 1..n : t[i] = s[i]
  <2>1. n \in Nat /\ DOMAIN s = 1..n /\ s \in Seq(Reports)
    BY DEF ClustersInv, Typed
  <2>2. t \in Seq(Reports) /\ Len(t) = n + 1 /\ t[n + 1] = r /\ \A i \in 1..n : t[i] = s[i]
    BY NextRow
  <2>3. QED
    BY <2>1, <2>2
<1> HIDE DEF n
<1>2. \A i \in 1..(n + 1) : q[i] \in {1, 2}
  BY <1>1 DEF Labels
<1>3. x \in {1, 2} /\ y \in {1, 2} /\ x # y
  BY <1>1, <1>2
<1>4. p \in Labels(s) /\ \A i \in 1..n : p[i] = q[i]
  BY <1>1, <1>2 DEF Labels, Restricted
<1> HIDE DEF p, x, y
<1>5. Reporting(t, q, x) = Reporting(s, p, x) \cup {n + 1}
  BY <1>1, <1>4 DEF Reporting, x
<1>6. Reporting(t, q, y) = Reporting(s, p, y)
  <2>1. q[n + 1] # y
    BY <1>3 DEF x
  <2>2. QED
    BY <1>1, <1>4, <2>1 DEF Reporting
<1>7. \A z \in {1, 2} : Reporting(s, p, z) \subseteq Reporting(t, q, z)
  BY <1>1, <1>4 DEF Reporting
<1>8. \A z \in {1, 2} : \A i \in Reporting(s, p, z) : i \in 1..n /\ t[i] = s[i]
  BY <1>1 DEF Reporting
<1>9. TwoQuakes(s, p)
  <2>1. \A i, j \in DOMAIN s : p[i] = p[j] => Close(s[i], s[j])
    BY <1>1, <1>4 DEF TwoQuakes
  <2>2. \/ ApartInTime(s, Reporting(s, p, 1), Reporting(s, p, 2))
        \/ ApartInSpace(s, Reporting(s, p, 1), Reporting(s, p, 2))
        \/ ApartInMagnitude(s, Reporting(s, p, 1), Reporting(s, p, 2))
    BY <1>7, <1>8 DEF TwoQuakes, ApartInTime, ApartInSpace, ApartInMagnitude
  <2>3. QED
    BY <2>1, <2>2 DEF TwoQuakes
<1>10. ASSUME NEW i \in Reporting(s, p, x) PROVE Close(s[i], r)
  <2>1. i \in DOMAIN t /\ n + 1 \in DOMAIN t /\ q[i] = q[n + 1] /\ t[i] = s[i]
    BY <1>1, <1>4 DEF Reporting, x
  <2>2. QED
    BY <1>1, <2>1 DEF TwoQuakes
<1>11. \/ \A i \in Reporting(s, p, y) : LaterOrEarlier(s[i], r)
       \/ \A i \in Reporting(s, p, y) : Elsewhere(s[i], r)
       \/ \A i \in Reporting(s, p, y) : WeakerOrStronger(s[i], r)
  <2>1. n + 1 \in Reporting(t, q, x)
    BY <1>5
  <2>2. (x = 1 /\ y = 2) \/ (x = 2 /\ y = 1)
    BY <1>3
  <2>3. /\ r.time \in Int /\ r.place \in Int /\ r.magnitude \in Int \cup {NoMag}
        /\ \A i \in Reporting(s, p, y) : /\ i \in Reporting(t, q, y) /\ t[i] = s[i]
                                        /\ s[i].time \in Int /\ s[i].place \in Int
                                        /\ s[i].magnitude \in Int \cup {NoMag}
    <3>1. \A i \in Reporting(s, p, y) : s[i] \in Reports
      BY <1>1, <1>3, <1>8
    <3>2. \A i \in Reporting(s, p, y) : i \in Reporting(t, q, y) /\ t[i] = s[i]
      BY <1>3, <1>7, <1>8
    <3>3. QED
      BY <3>1, <3>2, ClusteringAssumption
  <2>4. CASE ApartInTime(t, Reporting(t, q, 1), Reporting(t, q, 2))
    <3>1. \A i \in Reporting(s, p, y) : LaterOrEarlier(t[i], r) \/ LaterOrEarlier(r, t[i])
      BY <1>1, <2>1, <2>2, <2>3, <2>4 DEF ApartInTime
    <3>2. \A i \in Reporting(s, p, y) : LaterOrEarlier(s[i], r)
      BY <2>3, <3>1, ClusteringAssumption DEF LaterOrEarlier, Abs
    <3>3. QED
      BY <3>2
  <2>5. CASE ApartInSpace(t, Reporting(t, q, 1), Reporting(t, q, 2))
    <3>1. \A i \in Reporting(s, p, y) : Elsewhere(t[i], r) \/ Elsewhere(r, t[i])
      BY <1>1, <2>1, <2>2, <2>3, <2>5 DEF ApartInSpace
    <3>2. \A i \in Reporting(s, p, y) : Elsewhere(s[i], r)
      BY <2>3, <3>1, ClusteringAssumption DEF Elsewhere, Abs
    <3>3. QED
      BY <3>2
  <2>6. CASE ApartInMagnitude(t, Reporting(t, q, 1), Reporting(t, q, 2))
    <3>1. \A i \in Reporting(s, p, y) : WeakerOrStronger(t[i], r) \/ WeakerOrStronger(r, t[i])
      BY <1>1, <2>1, <2>2, <2>3, <2>6 DEF ApartInMagnitude
    <3>2. ASSUME NEW i \in Reporting(s, p, y) PROVE WeakerOrStronger(s[i], r)
      <4>1. /\ NoMag \notin {s[i].magnitude, r.magnitude}
            /\ \/ Abs(s[i].magnitude - r.magnitude) > DM_WINDOW
               \/ Abs(r.magnitude - s[i].magnitude) > DM_WINDOW
        BY <2>3, <3>1 DEF WeakerOrStronger
      <4>2. s[i].magnitude \in Int /\ r.magnitude \in Int
        BY <2>3, <4>1
      <4>3. QED
        BY <4>1, <4>2, ClusteringAssumption DEF WeakerOrStronger, Abs
    <3>3. QED
      BY <3>2
  <2>7. QED
    BY <2>4, <2>5, <2>6 DEF TwoQuakes
<1>12. QED
  BY <1>3, <1>4, <1>5, <1>6, <1>9, <1>10, <1>11 DEF n, p, x, y

\* The cluster of the report's own quake is reached and matches: no cluster that was
\* opened later can be expired, since the first report of this one is close to r.
LEMMA OwnCluster ==
  ASSUME NEW s, NEW cs, ClustersInv(s, cs), NEW r \in Reports, NEW t, NEW ds,
         Assigned(s, cs, r, t, ds),
         NEW k \in DOMAIN cs, \A i \in Members(cs[k]) : Close(s[i], r)
  PROVE  k \in Candidates(s, cs, r)
<1>1. /\ s \in Seq(Reports) /\ InOrder(s) /\ DOMAIN s = 1..Len(s)
      /\ DOMAIN cs = 1..Len(cs) /\ Len(cs) \in Nat
  BY DEF ClustersInv, Typed
<1>2. \A j \in DOMAIN cs : /\ cs[j] \in Seq(1..Len(s)) /\ cs[j] # <<>> /\ Increasing(cs[j])
                           /\ cs[j][1] \in Members(cs[j])
                           /\ Members(cs[j]) \subseteq 1..Len(s)
  <2>1. SUFFICES ASSUME NEW j \in DOMAIN cs
                 PROVE  /\ cs[j] \in Seq(1..Len(s)) /\ cs[j] # <<>> /\ Increasing(cs[j])
                        /\ cs[j][1] \in Members(cs[j])
                        /\ Members(cs[j]) \subseteq 1..Len(s)
    OBVIOUS
  <2>2. cs[j] \in Seq(1..Len(s)) /\ cs[j] # <<>> /\ Increasing(cs[j])
    BY ClusterFacts
  <2>3. QED
    BY <2>2 DEF Members
<1>3. Matches(s, cs[k], r)
  BY <1>1, <1>2, CloseMatches
<1>4. ASSUME NEW j \in k..Len(cs) PROVE ~Expired(s, cs[j], r)
  <2>1. j \in DOMAIN cs /\ k <= j
    BY <1>1
  <2> DEFINE last == cs[j][Len(cs[j])]
  <2>2. TMax(s, cs[j]) = s[last].time /\ last \in 1..Len(s)
    BY <1>1, <1>2, <2>1, EndIsLast
  <2>3. cs[k][1] <= cs[j][1] /\ cs[j][1] <= last
    <3>1. cs[k][1] <= cs[j][1]
      BY <2>1 DEF ClustersInv, OpenedInOrder
    <3>2. 1 \in DOMAIN cs[j] /\ Len(cs[j]) \in DOMAIN cs[j] /\ 1 <= Len(cs[j])
      BY <1>2, <2>1
    <3>3. 1 = Len(cs[j]) \/ 1 < Len(cs[j])
      BY <3>2
    <3>4. Increasing(cs[j]) /\ cs[j][1] \in 1..Len(s)
      BY <1>2, <2>1
    <3>5. cs[j][1] <= last
      BY <2>2, <3>2, <3>3, <3>4 DEF Increasing
    <3>6. QED
      BY <3>1, <3>5
  <2>4. cs[k][1] \in DOMAIN s /\ cs[j][1] \in DOMAIN s /\ last \in DOMAIN s
    BY <1>1, <1>2, <2>1, <2>2
  <2>5. s[cs[k][1]].time <= s[last].time
    <3>1. cs[k][1] <= last
      BY <1>1, <2>3, <2>4
    <3>2. QED
      BY <1>1, <2>4, <3>1 DEF InOrder
  <2>6. Abs(s[cs[k][1]].time - r.time) <= DT_WINDOW
    BY <1>2 DEF Close
  <2>7. s[cs[k][1]].time \in Int /\ s[last].time \in Int /\ r.time \in Int
    BY <1>1, <2>4, ClusteringAssumption
  <2> HIDE DEF last
  <2>8. QED
    BY <2>2, <2>5, <2>6, <2>7, ClusteringAssumption DEF Expired, Abs
<1>5. QED
  BY <1>3, <1>4 DEF Candidates, Walked

\* A cluster of the other quake is expired or does not match.
LEMMA OtherCluster ==
  ASSUME NEW s, NEW cs, ClustersInv(s, cs), NEW r \in Reports, NEW t, NEW ds,
         Assigned(s, cs, r, t, ds),
         NEW k \in DOMAIN cs,
         \A i, j \in Members(cs[k]) : Close(s[i], s[j]),
         \/ \A i \in Members(cs[k]) : LaterOrEarlier(s[i], r)
         \/ \A i \in Members(cs[k]) : Elsewhere(s[i], r)
         \/ \A i \in Members(cs[k]) : WeakerOrStronger(s[i], r)
  PROVE  k \notin Candidates(s, cs, r)
<1>1. /\ s \in Seq(Reports) /\ InOrder(s) /\ DOMAIN s = 1..Len(s)
      /\ DOMAIN cs = 1..Len(cs) /\ Len(cs) \in Nat
  BY DEF ClustersInv, Typed
<1>2. cs[k] \in Seq(1..Len(s)) /\ cs[k] # <<>> /\ Increasing(cs[k])
  BY ClusterFacts
<1>3. CASE \A i \in Members(cs[k]) : LaterOrEarlier(s[i], r)
  <2> DEFINE last == cs[k][Len(cs[k])]
  <2>1. TMax(s, cs[k]) = s[last].time /\ last \in 1..Len(s)
    BY <1>1, <1>2, EndIsLast
  <2>2. last \in Members(cs[k])
    BY <1>2 DEF Members
  <2>3. s[last].time <= r.time
    BY <1>1, <2>1 DEF Assigned
  <2>4. s[last].time \in Int /\ r.time \in Int
    BY <1>1, <2>1, ClusteringAssumption
  <2>5. Abs(s[last].time - r.time) > DT_WINDOW
    BY <1>3, <2>2 DEF LaterOrEarlier
  <2> HIDE DEF last
  <2>6. Expired(s, cs[k], r)
    BY <2>1, <2>3, <2>4, <2>5, ClusteringAssumption DEF Expired, Abs
  <2>7. k \in k..Len(cs)
    BY <1>1
  <2>8. QED
    BY <2>6, <2>7 DEF Candidates, Walked
<1>4. CASE \/ \A i \in Members(cs[k]) : Elsewhere(s[i], r)
           \/ \A i \in Members(cs[k]) : WeakerOrStronger(s[i], r)
  BY <1>1, <1>2, <1>4, ApartDiffers DEF Candidates
<1>5. QED
  BY <1>3, <1>4

\* Clusters are apart and not empty, so no two of them are the same quake.
LEMMA DifferentClusters ==
  ASSUME NEW s, NEW cs, ClustersInv(s, cs), NEW k \in DOMAIN cs, NEW j \in DOMAIN cs, k # j
  PROVE  Members(cs[k]) # {} /\ Members(cs[k]) # Members(cs[j])
<1>1. Members(cs[k]) # {}
  <2>1. cs[k] \in Seq(1..Len(s)) /\ cs[k] # <<>>
    BY ClusterFacts
  <2>2. QED
    BY <2>1 DEF Members
<1>2. Members(cs[k]) \cap Members(cs[j]) = {}
  BY DEF ClustersInv, EachInOne
<1>3. QED
  BY <1>1, <1>2

\* Every turn recovers the quakes of the rows so far.
LEMMA TurnRecovers ==
  ASSUME NEW s, NEW cs, ClustersInv(s, cs), NEW r \in Reports, NEW t, NEW ds,
         Assigned(s, cs, r, t, ds),
         NEW q \in Labels(t), TwoQuakes(t, q),
         Recovers(s, cs, Restricted(q, s))
  PROVE  Recovers(t, ds, q)
<1> DEFINE n == Len(s)
           m == Len(cs)
           p == Restricted(q, s)
           x == q[n + 1]
           y == 3 - x
           Own == Reporting(s, p, x)
           Other == Reporting(s, p, y)
           C == Candidates(s, cs, r)
<1>1. /\ p \in Labels(s) /\ TwoQuakes(s, p)
      /\ x \in {1, 2} /\ y \in {1, 2} /\ x # y
      /\ Reporting(t, q, x) = Own \cup {n + 1}
      /\ Reporting(t, q, y) = Other
      /\ \A i \in Own : Close(s[i], r)
      /\ \/ \A i \in Other : LaterOrEarlier(s[i], r)
         \/ \A i \in Other : Elsewhere(s[i], r)
         \/ \A i \in Other : WeakerOrStronger(s[i], r)
  BY NextOfQuakes
<1>2. n \in Nat /\ DOMAIN s = 1..n /\ DOMAIN cs = 1..m /\ m \in Nat
  BY DEF ClustersInv, Typed
<1> HIDE DEF n, m, p, x, y
<1>3. {1, 2} = {x, y}
  BY <1>1
<1>4. {Members(cs[k]) : k \in 1..m} = {Own, Other} \ {{}}
  <2>1. {Reporting(s, p, z) : z \in {1, 2}} = {Own, Other}
    BY <1>3
  <2>2. {Members(cs[k]) : k \in DOMAIN cs} = {Reporting(s, p, z) : z \in {1, 2}} \ {{}}
    BY Zenon DEF Recovers, p
  <2> HIDE DEF Own, Other
  <2>3. QED
    BY <1>2, <2>1, <2>2
<1>5. SUFFICES {Members(ds[k]) : k \in DOMAIN ds} = {Own \cup {n + 1}, Other} \ {{}}
  <2>1. {Reporting(t, q, z) : z \in {1, 2}} = {Own \cup {n + 1}, Other}
    BY <1>1, <1>3
  <2>2. QED
    BY <2>1 DEF Recovers
<1>6. \A i, j \in Other : Close(s[i], s[j])
  BY <1>1 DEF TwoQuakes, Reporting
<1> HIDE DEF Own, Other
<1>7. ASSUME NEW k \in 1..m, Members(cs[k]) = Own PROVE k \in C
  BY <1>1, <1>2, <1>7, OwnCluster
<1>8. ASSUME NEW k \in 1..m, Members(cs[k]) = Other PROVE k \notin C
  BY <1>1, <1>2, <1>6, <1>8, OtherCluster
<1>9. C \subseteq 1..m
  BY <1>2 DEF Candidates, Walked
<1>10. \A k \in 1..m : Members(cs[k]) \in {Own, Other}
  BY <1>4
<1> HIDE DEF C
<1>11. Own \cap Other = {} /\ Own \subseteq 1..n /\ Other \subseteq 1..n
  BY <1>1, <1>2 DEF Own, Other, Reporting
<1>12. CASE Own = {}
  <2>1. \A k \in 1..m : Members(cs[k]) = Other
    BY <1>4, <1>12
  <2>2. C = {}
    BY <1>8, <1>9, <2>1
  <2>3. ds = Append(cs, <<n + 1>>)
    BY <2>2 DEF Assigned, Assign, C, n
  <2>4. /\ DOMAIN ds = 1..(m + 1)
        /\ ds[m + 1] = <<n + 1>>
        /\ \A k \in 1..m : ds[k] = cs[k]
    BY <1>2, <2>3 DEF ClustersInv, Typed, m
  <2>5. Members(ds[m + 1]) = {n + 1}
    BY <2>4 DEF Members
  <2>6. 1..(m + 1) = 1..m \cup {m + 1}
    BY <1>2
  <2>7. {Members(ds[k]) : k \in DOMAIN ds} = {Members(cs[k]) : k \in 1..m} \cup {{n + 1}}
    <3>1. \A k \in 1..m : Members(ds[k]) = Members(cs[k])
      BY <2>4
    <3>2. DOMAIN ds = 1..m \cup {m + 1}
      BY <2>4, <2>6
    <3> HIDE DEF m
    <3>3. QED
      BY <2>5, <3>1, <3>2, Zenon
  <2>8. QED
    BY <1>4, <1>12, <2>7
<1>13. CASE Own # {}
  <2>1. PICK own \in 1..m : Members(cs[own]) = Own
    BY <1>4, <1>13
  <2>2. \A k \in 1..m : k # own => Members(cs[k]) = Other
    <3>1. ASSUME NEW k \in 1..m, k # own PROVE Members(cs[k]) # Own
      BY <1>2, <2>1, <3>1, DifferentClusters
    <3>2. QED
      BY <1>10, <3>1
  <2>3. C = {own}
    BY <1>7, <1>8, <1>9, <2>1, <2>2
  <2>4. Best(s, cs, r) = own
    BY <2>3, BestIsInTime DEF C
  <2>5. ds = [cs EXCEPT ![own] = Append(@, n + 1)]
    BY <2>3, <2>4 DEF Assigned, Assign, C, n
  <2>6. /\ DOMAIN ds = 1..m
        /\ ds[own] = Append(cs[own], n + 1)
        /\ \A k \in 1..m : k # own => ds[k] = cs[k]
    BY <1>2, <2>5
  <2>7. Members(ds[own]) = Own \cup {n + 1}
    <3>1. cs[own] \in Seq(1..n)
      BY <1>2, <2>1, ClusterFacts DEF n
    <3>2. QED
      BY <2>1, <2>6, <3>1, MembersAppend
  <2>8. {Members(ds[k]) : k \in DOMAIN ds}
          = {Members(cs[k]) : k \in 1..m \ {own}} \cup {Own \cup {n + 1}}
    BY <2>1, <2>6, <2>7
  <2>9. {Members(cs[k]) : k \in 1..m \ {own}} = {Other} \ {{}}
    <3>1. \A k \in 1..m : Members(cs[k]) \in {Own, Other} \ {{}}
      BY <1>4
    <3>2. Other # {} => \E k \in 1..m : Members(cs[k]) = Other
      BY <1>4
    <3>3. Other # {} => Other # Own
      BY <1>11
    <3>4. QED
      BY <2>1, <2>2, <3>1, <3>2, <3>3
  <2>10. QED
    BY <2>8, <2>9
<1>14. QED
  BY <1>12, <1>13

\* Points in one cell of the grid are less than the grid apart.
LEMMA CellWidth ==
  ASSUME NEW x \in Int, NEW y \in Int, Round(x) = Round(y)
  PROVE  Abs(x - y) < GRID
<1> DEFINE h == GRID \div 2
           a == x + h
           b == y + h
<1>1. GRID \in Nat /\ GRID > 0 /\ h \in Int
  BY ClusteringAssumption
<1>2. a \in Int /\ b \in Int /\ a - b = x - y /\ a \div GRID = b \div GRID
  BY <1>1 DEF Round
<1> HIDE DEF a, b
<1>3. \A z \in Int : /\ z \div GRID \in Int /\ z % GRID \in Int
                     /\ z = GRID * (z \div GRID) + (z % GRID)
                     /\ 0 <= z % GRID /\ z % GRID < GRID
  BY <1>1
<1>4. a - b = (a % GRID) - (b % GRID)
  BY <1>1, <1>2, <1>3
<1>5. QED
  BY <1>1, <1>2, <1>3, <1>4 DEF Abs

\* Clusters that are quakes apart in time or space do not share an event_uid.
LEMMA ClustersHaveOwnUid ==
  ASSUME GRID <= 2 * DIST_WINDOW + 1,
         NEW s, NEW cs, ClustersInv(s, cs),
         NEW q, Recovers(s, cs, q),
         \/ ApartInTime(s, Reporting(s, q, 1), Reporting(s, q, 2))
         \/ ApartInSpace(s, Reporting(s, q, 1), Reporting(s, q, 2)),
         NEW k \in DOMAIN cs, NEW j \in DOMAIN cs, k # j
  PROVE  EventUid(s, cs[k]) # EventUid(s, cs[j])
<1> DEFINE A == Reporting(s, q, 1)
           B == Reporting(s, q, 2)
           placeOf(c) == Preferred(s, c).place
<1>1. s \in Seq(Reports) /\ InOrder(s) /\ DOMAIN s = 1..Len(s)
  BY DEF ClustersInv, Typed
<1>2. ASSUME NEW i \in DOMAIN cs
      PROVE  /\ \E a \in Members(cs[i]) : TMin(s, cs[i]) = s[a].time
             /\ \E a \in Members(cs[i]) : placeOf(cs[i]) = s[a].place
             /\ \A a \in Members(cs[i]) : s[a].time \in Int /\ s[a].place \in Int
             /\ Members(cs[i]) \in {A, B}
  <2> DEFINE c == cs[i]
  <2>1. c \in Seq(1..Len(s)) /\ c # <<>> /\ Increasing(c)
    BY ClusterFacts
  <2>2. \A a \in DOMAIN c : c[a] \in Members(c)
    BY DEF Members
  <2>3. TMin(s, c) = s[c[1]].time /\ 1 \in DOMAIN c
    BY <1>1, <2>1, StartIsFirst
  <2>4. PICK best \in DOMAIN c : Preferred(s, c) = s[c[best]]
    BY <1>1, <2>1, PreferredIsFirstOfBest
  <2>5. \A a \in Members(c) : s[a] \in Reports
    BY <1>1, <2>1 DEF Members
  <2>6. Members(c) \in {A, B}
    BY DEF Recovers
  <2> HIDE DEF c
  <2>7. QED
    BY <2>2, <2>3, <2>4, <2>5, <2>6, ClusteringAssumption DEF c
<1>3. Members(cs[k]) # Members(cs[j])
  BY DifferentClusters
<1>4. \/ Members(cs[k]) = A /\ Members(cs[j]) = B
      \/ Members(cs[k]) = B /\ Members(cs[j]) = A
  BY <1>2, <1>3
<1> HIDE DEF A, B, placeOf
<1>5. CASE ApartInTime(s, A, B)
  <2>1. \A a \in Members(cs[k]), b \in Members(cs[j]) :
          Abs(s[a].time - s[b].time) > DT_WINDOW \/ Abs(s[b].time - s[a].time) > DT_WINDOW
    BY <1>4, <1>5 DEF ApartInTime, LaterOrEarlier
  <2>2. PICK a \in Members(cs[k]), b \in Members(cs[j]) :
          TMin(s, cs[k]) = s[a].time /\ TMin(s, cs[j]) = s[b].time
    BY <1>2
  <2>3. /\ TMin(s, cs[k]) \in Int /\ TMin(s, cs[j]) \in Int
        /\ \/ Abs(TMin(s, cs[k]) - TMin(s, cs[j])) > DT_WINDOW
           \/ Abs(TMin(s, cs[j]) - TMin(s, cs[k])) > DT_WINDOW
    BY <1>2, <2>1, <2>2
  <2>4. Bucket(TMin(s, cs[k])) # Bucket(TMin(s, cs[j]))
    <3>1. DT_WINDOW \in Nat
      BY ClusteringAssumption
    <3>2. SUFFICES ASSUME Bucket(TMin(s, cs[k])) = Bucket(TMin(s, cs[j])) PROVE FALSE
      OBVIOUS
    <3>3. Abs(TMin(s, cs[k]) - TMin(s, cs[j])) < DT_WINDOW
      BY <2>3, <3>2, BucketWidth
    <3>4. QED
      BY <2>3, <3>1, <3>3 DEF Abs
  <2>5. QED
    BY <2>4 DEF EventUid
<1>6. CASE ApartInSpace(s, A, B)
  <2>1. \A a \in Members(cs[k]), b \in Members(cs[j]) :
          \/ Abs(s[a].place - s[b].place) > 2 * DIST_WINDOW
          \/ Abs(s[b].place - s[a].place) > 2 * DIST_WINDOW
    BY <1>4, <1>6 DEF ApartInSpace, Elsewhere
  <2>2. PICK a \in Members(cs[k]), b \in Members(cs[j]) :
          placeOf(cs[k]) = s[a].place /\ placeOf(cs[j]) = s[b].place
    BY <1>2
  <2> DEFINE x == placeOf(cs[k])
             z == placeOf(cs[j])
  <2>3. /\ x \in Int /\ z \in Int
        /\ Abs(x - z) > 2 * DIST_WINDOW \/ Abs(z - x) > 2 * DIST_WINDOW
    BY <1>2, <2>1, <2>2
  <2>4. Round(x) # Round(z)
    <3> HIDE DEF x, z
    <3>1. DIST_WINDOW \in Nat /\ GRID \in Nat
      BY ClusteringAssumption
    <3>2. SUFFICES ASSUME Round(x) = Round(z) PROVE FALSE
      OBVIOUS
    <3>3. Abs(x - z) < GRID
      BY <2>3, <3>2, CellWidth
    <3>4. QED
      BY <2>3, <3>1, <3>3 DEF Abs
  <2>5. QED
    BY <2>4 DEF EventUid, placeOf
<1>7. QED
  BY <1>5, <1>6 DEF A, B

-----------------------------------------------------------------------------
(* The loop.                                                               *)
DedupInv == ClustersInv(rows, clusters)

LEMMA DedupInvMeans ==
  ASSUME DedupInv
  PROVE  LoopTypeOK /\ InOrder(rows) /\ EveryRowInOneCluster /\ NoLongSilence
BY DEF DedupInv, ClustersInv, Typed, EachInOne, Silences, LoopTypeOK, EveryRowInOneCluster,
   NoLongSilence

LEMMA InitInvariant == LoopInit => DedupInv
BY NoRows DEF LoopInit, DedupInv

\* A turn of the machine is a turn of the loop.
LEMMA TurnAssigns ==
  ASSUME NEW r \in Reports, Turn(r)
  PROVE  Assigned(rows, clusters, r, rows', clusters')
BY DEF Turn, Assigned

LEMMA NextInvariant ==
  ASSUME DedupInv, [LoopNext]_loopVars
  PROVE  DedupInv'
<1>1. ASSUME NEW r \in Reports, Turn(r)
      PROVE  DedupInv'
  BY <1>1, TurnAssigns, AssignKeeps DEF DedupInv
<1>2. CASE UNCHANGED loopVars
  BY <1>2 DEF loopVars, DedupInv, ClustersInv, Typed, InOrder, EachInOne, Silences, OpenedInOrder
<1>3. QED
  BY <1>1, <1>2 DEF LoopNext

-----------------------------------------------------------------------------
THEOREM Invariance == LoopSpec => []DedupInv
<1>1. QED
  BY InitInvariant, NextInvariant, PTL DEF LoopSpec

\* The loop's variables keep their types: no cluster is ever empty.
THEOREM TypeCorrect == LoopSpec => []LoopTypeOK
<1>1. DedupInv => LoopTypeOK
  BY DedupInvMeans
<1>2. QED
  BY <1>1, Invariance, PTL

\* dedup.py:224-229 partitions the rows, whatever the windows and the input.
THEOREM Partition == LoopSpec => []EveryRowInOneCluster
<1>1. DedupInv => EveryRowInOneCluster
  BY DedupInvMeans
<1>2. QED
  BY <1>1, Invariance, PTL

\* No silence in a cluster is longer than the window, however long it lasts.
THEOREM SilenceBounded == LoopSpec => []NoLongSilence
<1>1. DedupInv => NoLongSilence
  BY DedupInvMeans
<1>2. QED
  BY <1>1, Invariance, PTL

LEMMA NextRecovers ==
  ASSUME DedupInv, QuakesRecovered, [LoopNext]_loopVars
  PROVE  QuakesRecovered'
<1>1. ASSUME NEW r \in Reports, Turn(r)
      PROVE  QuakesRecovered'
  <2>1. SUFFICES ASSUME NEW q \in Labels(rows'), TwoQuakes(rows', q)
                 PROVE  Recovers(rows', clusters', q)
    BY DEF QuakesRecovered, Labels
  <2>2. ClustersInv(rows, clusters) /\ Assigned(rows, clusters, r, rows', clusters')
    BY <1>1, TurnAssigns DEF DedupInv
  <2>3. Restricted(q, rows) \in Labels(rows) /\ TwoQuakes(rows, Restricted(q, rows))
    BY <2>1, <2>2, NextOfQuakes
  <2>4. Recovers(rows, clusters, Restricted(q, rows))
    BY <2>3 DEF QuakesRecovered, Labels
  <2>5. QED
    BY <2>1, <2>2, <2>4, TurnRecovers
<1>2. CASE UNCHANGED loopVars
  BY <1>2 DEF loopVars, QuakesRecovered
<1>3. QED
  BY <1>1, <1>2 DEF LoopNext

\* 03_mart.sql:4: for inputs of any length, the clusters of two quakes that are apart in
\* time, space or magnitude, each with its reports close together, are the quakes.
THEOREM OneClusterPerQuake == LoopSpec => []QuakesRecovered
<1>1. LoopInit => QuakesRecovered
  BY DEF LoopInit, QuakesRecovered, Recovers, Reporting
<1>2. DedupInv /\ QuakesRecovered /\ [LoopNext]_loopVars => QuakesRecovered'
  BY NextRecovers
<1>3. QED
  BY <1>1, <1>2, Invariance, PTL DEF LoopSpec

\* dedup.py:146-152: quakes apart in time or space have an event_uid each, provided the
\* grid is not wider than the distance that keeps quakes apart.
THEOREM OneUidPerQuake ==
  ASSUME GRID <= 2 * DIST_WINDOW + 1
  PROVE  LoopSpec => []QuakesHaveOwnUid
<1>1. DedupInv /\ QuakesRecovered => QuakesHaveOwnUid
  <2>1. SUFFICES ASSUME DedupInv, QuakesRecovered, NEW q \in Labels(rows), TwoQuakes(rows, q),
                        \/ ApartInTime(rows, Reporting(rows, q, 1), Reporting(rows, q, 2))
                        \/ ApartInSpace(rows, Reporting(rows, q, 1), Reporting(rows, q, 2)),
                        NEW k \in DOMAIN clusters, NEW j \in DOMAIN clusters, k # j
                 PROVE  EventUid(rows, clusters[k]) # EventUid(rows, clusters[j])
    BY DEF QuakesHaveOwnUid, MartRows, ToMartRow, Labels
  <2>2. Recovers(rows, clusters, q)
    BY <2>1 DEF QuakesRecovered, Labels
  <2>3. QED
    BY <2>1, <2>2, ClustersHaveOwnUid DEF DedupInv
<1>2. QED
  BY <1>1, Invariance, OneClusterPerQuake, PTL

\* The early exit of dedup.py:209-211 misses nothing while the clusters end in the
\* order in which they were opened.
THEOREM EarlyExitInOrder == LoopSpec => []EarlyExitSoundInOrder
<1>1. ASSUME DedupInv PROVE EarlyExitSoundInOrder
  <2>1. DOMAIN clusters = 1..Len(clusters) /\ Len(clusters) \in Nat
    BY <1>1, DedupInvMeans DEF LoopTypeOK
  <2>2. \A k \in DOMAIN clusters : TMax(rows, clusters[k]) \in Int
    <3>1. rows \in Seq(Reports) /\ InOrder(rows)
      BY <1>1, DedupInvMeans DEF LoopTypeOK
    <3>2. \A k \in DOMAIN clusters :
            /\ clusters[k] \in Seq(1..Len(rows))
            /\ clusters[k] # <<>>
            /\ Increasing(clusters[k])
      BY <1>1, ClusterFacts DEF DedupInv
    <3>3. QED
      BY <3>1, <3>2, EndIsLast
  <2>3. ASSUME InTimeOrder, NEW r \in Upcoming
        PROVE  Unexpired(r) = Walked(rows, clusters, r)
    <3>1. r.time \in Int
      BY ClusteringAssumption DEF Upcoming
    <3>2. ASSUME NEW k \in Walked(rows, clusters, r)
          PROVE  k \in Unexpired(r)
      <4>1. k \in DOMAIN clusters /\ k \in k..Len(clusters)
        BY <2>1 DEF Walked
      <4>2. QED
        BY <4>1 DEF Walked, Unexpired
    <3>3. ASSUME NEW k \in Unexpired(r), NEW j \in k..Len(clusters)
          PROVE  ~Expired(rows, clusters[j], r)
      <4>1. /\ k \in DOMAIN clusters /\ j \in DOMAIN clusters
            /\ k = j \/ k < j
        BY <2>1 DEF Unexpired
      <4>2. TMax(rows, clusters[k]) <= TMax(rows, clusters[j])
        BY <2>2, <2>3, <4>1 DEF InTimeOrder
      <4>3. ~(r.time - TMax(rows, clusters[k]) > DT_WINDOW)
        BY DEF Unexpired, Expired
      <4>4. QED
        BY <2>2, <3>1, <4>1, <4>2, <4>3, ClusteringAssumption DEF Expired
    <3>4. Unexpired(r) \subseteq Walked(rows, clusters, r)
      BY <3>3 DEF Unexpired, Walked
    <3>5. QED
      BY <3>2, <3>4
  <2>4. QED
    BY <2>3 DEF EarlyExitSoundInOrder
<1>2. QED
  BY <1>1, Invariance, PTL

\* The breakdown of a mart row holds the latest report of every source: members are
\* in the order of the input, and the last member of a source overwrites the others.
THEOREM BreakdownHoldsLatest == LoopSpec => []BreakdownIsLatest
<1>1. DedupInv => BreakdownIsLatest
  BY LatestOfSource DEF DedupInv, BreakdownIsLatest
<1>2. QED
  BY <1>1, Invariance, PTL

\* dedup.py:146-147: for every input, a mart row is renamed by a better source only.
THEOREM RenamedByBetterSource == LoopSpec => OnlyABetterSourceRenames
<1> DEFINE Kept == \A k \in DOMAIN clusters : clusters'[k] # clusters[k] =>
             LET old == ToMartRow(rows, clusters[k])
                 new == ToMartRow(rows', clusters'[k])
                 r == rows'[Len(rows')]
             IN  \/ /\ new.event_uid = old.event_uid
                    /\ Headline(new) = Headline(old)
                 \/ /\ PriorityIndex(r.source) < PriorityIndex(old.preferred_source)
                    /\ Headline(new) = <<r.source, r.place, r.magnitude>>
<1>1. ASSUME DedupInv, DedupInv', NEW r \in Reports, Turn(r), NEW k \in DOMAIN clusters,
             clusters'[k] # clusters[k]
      PROVE  LET old == ToMartRow(rows, clusters[k])
                 new == ToMartRow(rows', clusters'[k])
                 last == rows'[Len(rows')]
             IN  \/ /\ new.event_uid = old.event_uid
                    /\ Headline(new) = Headline(old)
                 \/ /\ PriorityIndex(last.source) < PriorityIndex(old.preferred_source)
                    /\ Headline(new) = <<last.source, last.place, last.magnitude>>
  <2>1. DOMAIN clusters = 1..Len(clusters) /\ Len(clusters) \in Nat
    BY <1>1, DedupInvMeans DEF LoopTypeOK
  <2>2. Candidates(rows, clusters, r) # {}
    <3>1. SUFFICES ASSUME Candidates(rows, clusters, r) = {} PROVE FALSE
      OBVIOUS
    <3>2. clusters' = Append(clusters, <<Len(rows) + 1>>)
      BY <1>1, <3>1 DEF Turn, Assign
    <3>3. clusters'[k] = clusters[k]
      BY <1>1, <3>2 DEF DedupInv, LoopTypeOK
    <3>4. QED
      BY <1>1, <3>3
  <2> DEFINE best == Best(rows, clusters, r)
  <2>3. clusters' = [clusters EXCEPT ![best] = Append(@, Len(rows) + 1)]
    BY <1>1, <2>2 DEF Turn, Assign
  <2> HIDE DEF best
  <2>4. k = best /\ clusters'[k] = Append(clusters[k], Len(rows) + 1)
    BY <1>1, <2>3
  <2>5. InOrder(rows') /\ Increasing(clusters'[k])
    <3>1. k \in DOMAIN clusters'
      BY <1>1, <2>3
    <3>2. InOrder(rows') /\ EachInOne(rows', clusters')
      BY <1>1 DEF DedupInv, ClustersInv
    <3>3. QED
      BY <3>1, <3>2 DEF EachInOne, Increasing
  <2>6. rows'[Len(rows')] = r
    <3>1. rows \in Seq(Reports) /\ rows' = Append(rows, r)
      BY <1>1, DedupInvMeans DEF LoopTypeOK, Turn
    <3>2. QED
      BY <3>1
  <2>7. QED
    <3>1. ClustersInv(rows, clusters) /\ Assigned(rows, clusters, r, rows', clusters')
      BY <1>1, TurnAssigns DEF DedupInv
    <3>2. KeepsOrImproves(ToMartRow(rows, clusters[k]), ToMartRow(rows', clusters'[k]), r)
      <4>1. clusters'[k] = Append(clusters[k], Len(rows) + 1)
        BY <2>4
      <4>2. InOrder(rows') /\ Increasing(clusters'[k])
        BY <2>5
      <4>3. QED
        BY <3>1, <4>1, <4>2, JoiningRow
    <3>3. QED
      BY <2>6, <3>2 DEF KeepsOrImproves
<1>2. DedupInv /\ DedupInv' /\ [LoopNext]_loopVars => [Kept]_loopVars
  <2>1. SUFFICES ASSUME DedupInv, DedupInv', LoopNext PROVE Kept
    BY DEF loopVars
  <2>2. PICK r \in Reports : Turn(r)
    BY <2>1 DEF LoopNext
  <2>3. QED
    BY <1>1, <2>1, <2>2
<1>3. LoopSpec => [][Kept]_loopVars
  BY <1>2, Invariance, PTL DEF LoopSpec
<1>4. QED
  BY <1>3 DEF OnlyABetterSourceRenames
=============================================================================
