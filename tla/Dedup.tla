-------------------------------- MODULE Dedup --------------------------------
(***************************************************************************)
(* The loop of common/dedup.py, fed with every non-decreasing stream of    *)
(* reports, so that each state of this machine is the state of the loop    *)
(* after some prefix of some input.                                        *)
(***************************************************************************)
EXTENDS Clustering

CONSTANT MaxRows  \* bound on the length of the input

ASSUME DedupAssumption == MaxRows \in Nat

VARIABLES
  rows,      \* the rows read so far, in the order of the sort
  clusters   \* the clusters made of them

loopVars == <<rows, clusters>>

-----------------------------------------------------------------------------
LoopInit ==
  /\ rows = <<>>
  /\ clusters = <<>>

\* One turn of the loop: the next row of the sorted input is assigned.
Turn(r) ==
  /\ Len(rows) < MaxRows
  /\ \A i \in DOMAIN rows : rows[i].time <= r.time
  /\ rows' = Append(rows, r)
  /\ clusters' = Assign(rows, clusters, r)

LoopNext == \E r \in Reports : Turn(r)

LoopSpec == LoopInit /\ [][LoopNext]_loopVars

-----------------------------------------------------------------------------
(* Properties.                                                             *)
MartRows == [k \in DOMAIN clusters |-> ToMartRow(rows, clusters[k])]

LoopTypeOK ==
  /\ rows \in Seq(Reports)
  /\ clusters \in Seq(Seq(1..Len(rows)) \ {<<>>})

\* dedup.py:224-229: however clusters compete for rows, every row ends in one
\* cluster, once, and clusters list their rows in the order of the input.
EveryRowInOneCluster ==
  /\ \A i \in DOMAIN rows : \E k \in DOMAIN clusters : i \in Members(clusters[k])
  /\ \A k, j \in DOMAIN clusters :
       k # j => Members(clusters[k]) \cap Members(clusters[j]) = {}
  /\ \A k \in DOMAIN clusters : \A a, b \in DOMAIN clusters[k] :
       a < b => clusters[k][a] < clusters[k][b]

\* dedup.py:208-211: a cluster may last longer than the window, but no silence in
\* it is longer than the window.
NoLongSilence ==
  \A k \in DOMAIN clusters : \A a \in DOMAIN clusters[k] :
    a > 1 => rows[clusters[k][a]].time - rows[clusters[k][a - 1]].time <= DT_WINDOW

(* Reports that belong together, and quakes that are apart: q labels each    *)
(* of the rows s with the quake it reports.  Twice the distance window keeps *)
(* a quake away from any point between reports of another, on a map as on a  *)
(* line.                                                                     *)
Close(a, b) ==
  /\ Abs(a.time - b.time) <= DT_WINDOW
  /\ Abs(a.place - b.place) <= DIST_WINDOW
  /\ a.magnitude = NoMag \/ b.magnitude = NoMag \/ Abs(a.magnitude - b.magnitude) <= DM_WINDOW

LaterOrEarlier(a, b) == Abs(a.time - b.time) > DT_WINDOW
Elsewhere(a, b) == Abs(a.place - b.place) > 2 * DIST_WINDOW
WeakerOrStronger(a, b) ==
  /\ NoMag \notin {a.magnitude, b.magnitude}
  /\ Abs(a.magnitude - b.magnitude) > DM_WINDOW

ApartInTime(s, A, B) == \A i \in A, j \in B : LaterOrEarlier(s[i], s[j])
ApartInSpace(s, A, B) == \A i \in A, j \in B : Elsewhere(s[i], s[j])
ApartInMagnitude(s, A, B) == \A i \in A, j \in B : WeakerOrStronger(s[i], s[j])

Reporting(s, q, x) == {i \in DOMAIN s : q[i] = x}

TwoQuakes(s, q) ==
  /\ \A i, j \in DOMAIN s : q[i] = q[j] => Close(s[i], s[j])
  /\ LET A == Reporting(s, q, 1)
         B == Reporting(s, q, 2)
     IN  ApartInTime(s, A, B) \/ ApartInSpace(s, A, B) \/ ApartInMagnitude(s, A, B)

\* The clusters cs of the rows s are the quakes.
Recovers(s, cs, q) ==
  {Members(cs[k]) : k \in DOMAIN cs} = {Reporting(s, q, x) : x \in {1, 2}} \ {{}}

\* 03_mart.sql:4, one row per real world earthquake: when the reports of each quake
\* fit the windows and the quakes are further apart, the clusters are the quakes,
\* the early exit of dedup.py:209-211 notwithstanding.
QuakesRecovered ==
  \A q \in [DOMAIN rows -> {1, 2}] : TwoQuakes(rows, q) => Recovers(rows, clusters, q)

\* dedup.py:146-152: the time bucket is as wide as the window and the grid finer than
\* the distance, so quakes apart in time or space get different event_uids and
\* upsert_mart keeps both.
QuakesHaveOwnUid ==
  \A q \in [DOMAIN rows -> {1, 2}] :
    LET A == Reporting(rows, q, 1)
        B == Reporting(rows, q, 2)
    IN  TwoQuakes(rows, q) /\ (ApartInTime(rows, A, B) \/ ApartInSpace(rows, A, B)) =>
          \A k, j \in DOMAIN clusters :
            k # j => MartRows[k].event_uid # MartRows[j].event_uid

\* dedup.py:154-166: of the reports of one source in a cluster source_values keeps
\* the last one appended, and no report of that source in the cluster is later.
BreakdownIsLatest ==
  \A k \in DOMAIN clusters : \A i \in Members(clusters[k]) :
    LET kept == SourceValues(rows, clusters[k])[rows[i].source]
    IN  kept.source = rows[i].source /\ kept.time >= rows[i].time

Headline(row) == <<row.preferred_source, row.place, row.magnitude>>

\* dedup.py:146-147: the uid does not change when the event arrives again via a slow
\* source.  A later report changes uid or headline of a row only when its source
\* comes before the preferred one in SOURCE_PRIORITY, and it becomes the headline.
OnlyABetterSourceRenames ==
  [][\A k \in DOMAIN clusters : clusters'[k] # clusters[k] =>
       LET old == ToMartRow(rows, clusters[k])
           new == ToMartRow(rows', clusters'[k])
           r == rows'[Len(rows')]
       IN  \/ /\ new.event_uid = old.event_uid
              /\ Headline(new) = Headline(old)
           \/ /\ PriorityIndex(r.source) < PriorityIndex(old.preferred_source)
              /\ Headline(new) = <<r.source, r.place, r.magnitude>>]_loopVars

InTimeOrder ==
  \A k, j \in DOMAIN clusters : k < j => TMax(rows, clusters[k]) <= TMax(rows, clusters[j])

Unexpired(r) == {k \in DOMAIN clusters : ~Expired(rows, clusters[k], r)}

Upcoming == {r \in Reports : \A i \in DOMAIN rows : rows[i].time <= r.time}

\* dedup.py:209-211 stops at the first expired cluster.  It misses nothing as long as
\* no older cluster has been extended past a newer one.
EarlyExitSoundInOrder ==
  InTimeOrder => \A r \in Upcoming : Unexpired(r) = Walked(rows, clusters, r)

\* The comment at dedup.py:210: anything older cannot be a match either.
EarlyExitSound ==
  \A r \in Upcoming : \A k \in Unexpired(r) :
    Matches(rows, clusters[k], r) => k \in Walked(rows, clusters, r)
=============================================================================
