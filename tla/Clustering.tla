----------------------------- MODULE Clustering -----------------------------
(***************************************************************************)
(* common/dedup.py as operators: what one turn of its loop does with the    *)
(* clusters, and the mart row made of a cluster.  s is a sequence of        *)
(* reports sorted by time, c a cluster (a sequence of positions in s, in    *)
(* the order they were added) and cs the clusters in the order they were    *)
(* opened.                                                                  *)
(*                                                                          *)
(* Places are points of a line with integer coordinates and times integers; *)
(* the comparisons with centroid and average magnitude are exact.           *)
(***************************************************************************)
EXTENDS Integers, SequencesExt

CONSTANTS
  Reports,        \* what a row may say: time, place, magnitude, source
  NoMag,          \* magnitude None
  DT_WINDOW,      \* seconds between a report and the end of its cluster
  DIST_WINDOW,    \* distance from the centroid of its cluster
  DM_WINDOW,      \* difference from the average magnitude of its cluster
  GRID            \* latitude and longitude are rounded to this in event_uid

SOURCE_PRIORITY == <<"AFAD", "KOERI", "EMSC", "USGS">>
SourceNames == {SOURCE_PRIORITY[i] : i \in DOMAIN SOURCE_PRIORITY}

ASSUME ClusteringAssumption ==
  /\ DT_WINDOW \in Nat \ {0}
  /\ DIST_WINDOW \in Nat
  /\ DM_WINDOW \in Nat
  /\ GRID \in Nat \ {0}
  /\ NoMag \notin Int
  /\ \A r \in Reports :
       /\ r.time \in Int
       /\ r.place \in Int
       /\ r.source \in SourceNames
       /\ r.magnitude \in Int \cup {NoMag}

-----------------------------------------------------------------------------
(* The loop of dedupe.                                                     *)
Abs(x) == IF x < 0 THEN -x ELSE x

Members(c) == {c[k] : k \in DOMAIN c}
Times(s, c) == {s[i].time : i \in Members(c)}

TMin(s, c) == CHOOSE t \in Times(s, c) : \A u \in Times(s, c) : t <= u
TMax(s, c) == CHOOSE t \in Times(s, c) : \A u \in Times(s, c) : t >= u

\* haversine_km(row, centroid) <= dist_km_window
NearCentroid(s, c, r) ==
  LET n == Len(c)
      sum == MapThenSumSet(LAMBDA k : s[c[k]].place, DOMAIN c)
  IN  Abs(r.place * n - sum) <= DIST_WINDOW * n

\* abs(ev_mag - c_mag) <= dm_window, unless one of them is None
MagnitudeFits(s, c, r) ==
  LET with == {k \in DOMAIN c : s[c[k]].magnitude # NoMag}
      n == Cardinality(with)
      sum == MapThenSumSet(LAMBDA k : s[c[k]].magnitude, with)
  IN  r.magnitude = NoMag \/ n = 0 \/ Abs(r.magnitude * n - sum) <= DM_WINDOW * n

\* Mutant: the subtraction the other way round.
ExpiredSwapped(s, c, r) == TMax(s, c) - r.time > DT_WINDOW

Expired(s, c, r) == r.time - TMax(s, c) > DT_WINDOW

\* Mutant: no magnitude test.
MatchesAnyMagnitude(s, c, r) == NearCentroid(s, c, r)

Matches(s, c, r) == NearCentroid(s, c, r) /\ MagnitudeFits(s, c, r)

\* Mutant: clusters walked oldest first.
WalkedForward(s, cs, r) == {k \in DOMAIN cs : \A j \in 1..k : ~Expired(s, cs[j], r)}

\* The clusters the walk reaches: newest first, up to the first expired one.
Walked(s, cs, r) == {k \in DOMAIN cs : \A j \in k..Len(cs) : ~Expired(s, cs[j], r)}

Candidates(s, cs, r) == {k \in Walked(s, cs, r) : Matches(s, cs[k], r)}

\* The smallest dt, which is the latest t_max; the newest among equals.
Best(s, cs, r) ==
  CHOOSE k \in Candidates(s, cs, r) :
    \A j \in Candidates(s, cs, r) :
      \/ TMax(s, cs[j]) < TMax(s, cs[k])
      \/ TMax(s, cs[j]) = TMax(s, cs[k]) /\ j <= k

\* Mutant: the row joins every cluster it matches.
AssignToAll(s, cs, r) ==
  IF Candidates(s, cs, r) = {}
    THEN Append(cs, <<Len(s) + 1>>)
    ELSE [k \in DOMAIN cs |->
            IF k \in Candidates(s, cs, r) THEN Append(cs[k], Len(s) + 1) ELSE cs[k]]

\* Mutant: a new cluster is opened without its first row.
AssignOpensEmpty(s, cs, r) ==
  IF Candidates(s, cs, r) = {}
    THEN Append(cs, <<>>)
    ELSE [cs EXCEPT ![Best(s, cs, r)] = Append(@, Len(s) + 1)]

\* The loop body: row r, next after the rows s, joins a cluster or opens one.
Assign(s, cs, r) ==
  IF Candidates(s, cs, r) = {}
    THEN Append(cs, <<Len(s) + 1>>)
    ELSE [cs EXCEPT ![Best(s, cs, r)] = Append(@, Len(s) + 1)]

-----------------------------------------------------------------------------
(* to_mart_row                                                             *)
PriorityIndex(source) == CHOOSE i \in DOMAIN SOURCE_PRIORITY : SOURCE_PRIORITY[i] = source

\* Mutant: among reports of one priority the last wins.
PreferredLatest(s, c) ==
  LET rank(k) == PriorityIndex(s[c[k]].source)
  IN  s[c[CHOOSE j \in DOMAIN c : \A k \in DOMAIN c :
            \/ rank(j) < rank(k)
            \/ rank(j) = rank(k) /\ j >= k]]

\* min() of the members by (priority, time): the first such member.
Preferred(s, c) ==
  LET rank(k) == PriorityIndex(s[c[k]].source)
      before(j, k) ==
        \/ rank(j) < rank(k)
        \/ rank(j) = rank(k) /\ s[c[j]].time < s[c[k]].time
        \/ rank(j) = rank(k) /\ s[c[j]].time = s[c[k]].time /\ j <= k
  IN  s[c[CHOOSE j \in DOMAIN c : \A k \in DOMAIN c : before(j, k)]]

Bucket(t) == t \div DT_WINDOW
Round(x) == (x + GRID \div 2) \div GRID

\* Mutant: the uid is the time bucket alone.
UidOfBucket(s, c) == <<Bucket(TMin(s, c))>>

\* Mutant: the uid is the grid cell alone.
UidOfCell(s, c) == <<Round(Preferred(s, c).place)>>

EventUid(s, c) == <<Bucket(TMin(s, c)), Round(Preferred(s, c).place)>>

ClusterSources(s, c) == {s[i].source : i \in Members(c)}

\* Mutant: the first report of a source is kept.
SourceValuesFirst(s, c) ==
  [src \in ClusterSources(s, c) |->
     s[c[CHOOSE k \in DOMAIN c :
           /\ s[c[k]].source = src
           /\ \A j \in DOMAIN c : s[c[j]].source = src => k <= j]]]

\* The report kept under each source is that of its last member.
SourceValues(s, c) ==
  [src \in ClusterSources(s, c) |->
     s[c[CHOOSE k \in DOMAIN c :
           /\ s[c[k]].source = src
           /\ \A j \in DOMAIN c : s[c[j]].source = src => j <= k]]]

ToMartRow(s, c) ==
  [event_uid |-> EventUid(s, c),
   event_time |-> TMin(s, c),
   place |-> Preferred(s, c).place,
   magnitude |-> Preferred(s, c).magnitude,
   preferred_source |-> Preferred(s, c).source,
   agreement_level |-> Cardinality(ClusterSources(s, c)),
   source_values |-> SourceValues(s, c)]

\* The clusters after each prefix of rows that are sorted already.
Clusterings(s) ==
  LET cs[n \in 0..Len(s)] ==
        IF n = 0 THEN <<>> ELSE Assign(SubSeq(s, 1, n - 1), cs[n - 1], s[n])
  IN  cs

\* dedupe, up to the mart rows.
Clustered(s) == Clusterings(s)[Len(s)]
=============================================================================
