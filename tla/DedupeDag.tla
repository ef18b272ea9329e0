------------------------------ MODULE DedupeDag ------------------------------
(***************************************************************************)
(* dags/dedupe_dag.py: the task dedupe_window clusters the reports of the  *)
(* last 30 days, over and over, and upserts a row per cluster into         *)
(* mart.fact_earthquakes (common/db.py upsert_mart), while the harmonize   *)
(* tasks add reports to harmonized.events, late ones among them.           *)
(*                                                                         *)
(* A report stands for its row of harmonized.events, whose columns that    *)
(* the SELECT reads never change once written.  updated_at is in SyncEs.   *)
(***************************************************************************)
EXTENDS Clustering

CONSTANTS
  WINDOW,    \* DEDUPE_WINDOW_DAYS
  MaxClock   \* bound on the clock

ASSUME DedupeDagAssumption ==
  /\ WINDOW \in Nat
  /\ MaxClock \in Nat

VARIABLES
  clock,   \* datetime.now() of the Airflow worker
  harm,    \* harmonized.events
  cutoff,  \* of the task's last SELECT
  batch,   \* the rows of the SELECT, sorted; <<>> if the task is not running
  mart,    \* mart.fact_earthquakes by event_uid: [row, first_seen_at]
  (* history variable: read by properties only *)
  last     \* the batch of the last pass that was committed

vars == <<clock, harm, cutoff, batch, mart, last>>

InWindow == {r \in harm : r.time >= clock - WINDOW}

\* The rows as sorted() leaves them: the SELECT has no ORDER BY and the sort is
\* stable, so rows of the same time may come in either order.
Sorted(S) ==
  {s \in SetToSeqs(S) : \A i, j \in DOMAIN s : i < j => s[i].time <= s[j].time}

MartRowsOf(s) == [k \in DOMAIN Clustered(s) |-> ToMartRow(s, Clustered(s)[k])]

TypeOK ==
  /\ clock \in Nat
  /\ harm \subseteq Reports
  /\ cutoff \in Int
  /\ batch \in Seq(harm)
  /\ last \in Seq(harm)
  /\ \A u \in DOMAIN mart :
       /\ mart[u].row.event_uid = u
       /\ mart[u].row.agreement_level \in 1..4
       /\ mart[u].first_seen_at \in Int

Init ==
  /\ clock = 0
  /\ harm = {}
  /\ cutoff = -WINDOW
  /\ batch = <<>>
  /\ mart = <<>>
  /\ last = <<>>

-----------------------------------------------------------------------------
Tick ==
  /\ clock < MaxClock
  /\ clock' = clock + 1
  /\ UNCHANGED <<harm, cutoff, batch, mart, last>>

\* upsert_harmonized commits a report, soon after its quake or long after.
Arrive ==
  /\ \E r \in Reports \ harm :
       /\ r.time <= clock
       /\ harm' = harm \cup {r}
  /\ UNCHANGED <<clock, cutoff, batch, mart, last>>

\* Mutant: the cutoff itself is left out.
SelectAfterCutoff ==
  /\ batch = <<>>
  /\ cutoff' = clock - WINDOW
  /\ batch' \in Sorted({r \in InWindow : r.time > cutoff'}) \ {<<>>}
  /\ UNCHANGED <<clock, harm, mart, last>>

\* run_dedupe up to the call of dedupe; without rows it returns.
Select ==
  /\ batch = <<>>
  /\ cutoff' = clock - WINDOW
  /\ batch' \in Sorted(InWindow) \ {<<>>}
  /\ UNCHANGED <<clock, harm, mart, last>>

FirstSeen(m, row) ==
  IF row.event_uid \in DOMAIN m THEN m[row.event_uid].first_seen_at ELSE row.event_time

\* The mart with this row under its event_uid; first_seen_at is never overwritten.
Put(m, row) ==
  [u \in DOMAIN m \cup {row.event_uid} |->
     IF u = row.event_uid THEN [row |-> row, first_seen_at |-> FirstSeen(m, row)] ELSE m[u]]

\* Mutant: DO NOTHING.
FirstWins(m, row) == IF row.event_uid \in DOMAIN m THEN m ELSE Put(m, row)

\* Mutant: a pass adds to the agreement level.
Accumulates(m, row) ==
  IF row.event_uid \in DOMAIN m
    THEN Put(m, [row EXCEPT !.agreement_level = @ + m[row.event_uid].row.agreement_level])
    ELSE Put(m, row)

\* INSERT ... ON CONFLICT (event_uid) DO UPDATE.
Upserted(m, row) == Put(m, row)

EndPass ==
  /\ batch # <<>>
  /\ batch' = <<>>
  /\ last' = batch

\* executemany: the mart after each of the rows.
Upserts(m, rowsOf) ==
  LET after[n \in 0..Len(rowsOf)] ==
        IF n = 0 THEN m ELSE Upserted(after[n - 1], rowsOf[n])
  IN  after

\* dedupe and upsert_mart: the rows go one after the other, in one transaction, so
\* of two clusters with the same event_uid the later one stays.
UpsertMart ==
  /\ EndPass
  /\ mart' = Upserts(mart, MartRowsOf(batch))[Len(MartRowsOf(batch))]
  /\ UNCHANGED <<clock, harm, cutoff>>

\* The task is killed, or the database fails it.  Airflow's retry is a new SELECT.
Crash ==
  /\ batch # <<>>
  /\ batch' = <<>>
  /\ UNCHANGED <<clock, harm, cutoff, mart, last>>

Next == Tick \/ Arrive \/ Select \/ UpsertMart \/ Crash

Spec == Init /\ [][Next]_vars

\* The scheduler starts the task every two minutes for ever, and not every attempt
\* is killed (one that is, over the rows of the pass before, does no harm here).
FairSpec == Spec /\ SF_vars(Select) /\ SF_batch(EndPass)

-----------------------------------------------------------------------------
(* Properties.                                                             *)
ReportsOf(u) == Range(mart[u].row.source_values)

OwnUids(s) ==
  \A k, j \in DOMAIN MartRowsOf(s) :
    k # j => MartRowsOf(s)[k].event_uid # MartRowsOf(s)[j].event_uid

\* dedupe_dag.py:17-19: a report that comes late is in the mart after the next pass,
\* under an old event_uid or a new one.  Either it is in a row's breakdown or a
\* later report of its source is; only clusters with one event_uid hide each other.
PassReflected ==
  OwnUids(last) =>
    \A r \in Range(last) : \E u \in DOMAIN mart :
      /\ mart[u].row.event_time <= r.time
      /\ r.source \in DOMAIN mart[u].row.source_values
      /\ mart[u].row.source_values[r.source].time >= r.time
      /\ ReportsOf(u) \subseteq Range(last)

\* db.py:138-141: event_time is overwritten and first_seen_at is not, but the bucket
\* in event_uid keeps the two within the window of each other.
FirstSeenWithinWindow ==
  \A u \in DOMAIN mart :
    Abs(mart[u].row.event_time - mart[u].first_seen_at) < DT_WINDOW

\* dedupe_dag.py:39-47: a row whose time bucket lies before the cutoff's keeps what it
\* says, whatever quakes follow it at the same place.  A row in the cutoff's own
\* bucket has no such protection: of its reports some may have left the window, and
\* the rest, or a later quake in its cell, is upserted under its event_uid.
OldRowsKept ==
  [][\A u \in DOMAIN mart :
       Bucket(mart[u].row.event_time) < Bucket(cutoff) =>
         u \in DOMAIN mart' /\ mart'[u] = mart[u]]_vars

\* dedupe_dag.py:11-12, idempotent across retries and re-runs: a pass over the rows
\* of the pass before changes nothing, provided no two of them have the same time.
RerunChangesNothing ==
  [][/\ batch # <<>>
     /\ Range(batch) = Range(last)
     /\ \A r, q \in Range(batch) : r.time = q.time => r = q
     => mart' = mart]_vars

\* Every report takes part in a pass that is committed, unless it leaves the window.
EveryReportDeduped ==
  \A r \in Reports : r \in harm ~> r \in Range(last) \/ r.time < clock - WINDOW

\* 03_mart.sql:4, one row per real world earthquake, and dedup.py:146-147, the
\* event_uid does not change when the event re-arrives via a slow source: no
\* report is in the breakdown of two rows.
OneRowPerQuake == \A u, v \in DOMAIN mart : u # v => ReportsOf(u) \cap ReportsOf(v) = {}
=============================================================================
