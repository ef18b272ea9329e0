------------------------------- MODULE SyncEs -------------------------------
(***************************************************************************)
(* dags/sync_es_dag.py: the task bulk_index copies rows of                 *)
(* mart.fact_earthquakes that changed since its watermark on updated_at    *)
(* into the Elasticsearch index, beside the dedupe task, the one writer of *)
(* the table (db.py upsert_mart, called by dags/dedupe_dag.py).            *)
(*                                                                         *)
(* A pass of dedupe is one transaction: all the rows it writes get its     *)
(* NOW(), fixed when it begins.  A row's content is its version, which a   *)
(* pass may or may not change; it always bumps updated_at.                 *)
(***************************************************************************)
EXTENDS Naturals, FiniteSetsExt

CONSTANTS
  Uids,       \* event_uid values
  BatchSize,  \* LIMIT of the SELECT (2000)
  MaxPasses,  \* bound on the passes of dedupe
  MaxLate     \* bound on the document writes of failed requests still to come

ASSUME SyncAssumption ==
  /\ IsFiniteSet(Uids)
  /\ BatchSize \in Nat \ {0}
  /\ MaxPasses \in Nat
  /\ MaxLate \in Nat

VARIABLES
  mart,      \* committed rows: [version, updated_at], by event_uid
  passes,    \* passes begun, which is also the clock: NOW() of the last one
  writing,   \* the rows of the pass whose transaction is open, {} if none
  wm,        \* harmonized._watermarks['sync_es::mart'], 0 if absent
  pc,        \* the task: "idle", "fetched" or "indexed"
  batch,     \* the rows the SELECT returned
  es,        \* the version of each document of the index
  late,      \* document writes of failed requests that may still be applied
  (* history variable: read by properties only *)
  why        \* why the last attempt to bring a row to the index left it stale

martVars == <<mart, passes, writing>>
vars == <<mart, passes, writing, wm, pc, batch, es, late, why>>

MartRow == [version : Nat, updated_at : Nat]

TypeOK ==
  /\ DOMAIN mart \subseteq Uids
  /\ mart \in [DOMAIN mart -> MartRow]
  /\ passes \in Nat
  /\ writing \subseteq Uids
  /\ wm \in Nat
  /\ pc \in {"idle", "fetched", "indexed"}
  /\ DOMAIN batch \subseteq Uids
  /\ batch \in [DOMAIN batch -> MartRow]
  /\ batch = <<>> <=> pc = "idle"
  /\ DOMAIN es \subseteq Uids
  /\ es \in [DOMAIN es -> Nat]
  /\ late \subseteq Uids \X Nat
  /\ why \in [Uids -> {"", "cut", "refused", "overwritten"}]

Init ==
  /\ mart = <<>>
  /\ passes = 0
  /\ writing = {}
  /\ wm = 0
  /\ pc = "idle"
  /\ batch = <<>>
  /\ es = <<>>
  /\ late = {}
  /\ why = [u \in Uids |-> ""]

-----------------------------------------------------------------------------
(* The dedupe task: max_active_runs=1, so one pass at a time, each later   *)
(* than the one before.                                                    *)

\* upsert_mart begins.  A row of the table is among the rows it writes as long as
\* its event is in the 30-day window and its event_uid still comes out of dedupe.
BeginPass ==
  /\ writing = {}
  /\ passes < MaxPasses
  /\ writing' \in (SUBSET Uids) \ {{}}
  /\ passes' = passes + 1
  /\ UNCHANGED <<mart, wm, pc, batch, es, late, why>>

\* Mutant: the table is truncated first.
Truncated(changed) == [u \in writing |-> [version |-> 1, updated_at |-> passes]]

\* The rows after the pass, which gives new content to those of changed.
Upserted(changed) ==
  [u \in DOMAIN mart \cup writing |->
     IF u \notin writing THEN mart[u]
     ELSE [version |-> IF u \notin DOMAIN mart THEN 1
                       ELSE IF u \in changed THEN mart[u].version + 1
                       ELSE mart[u].version,
           updated_at |-> passes]]

CommitPass ==
  /\ writing # {}
  /\ \E changed \in SUBSET (writing \cap DOMAIN mart) : mart' = Upserted(changed)
  /\ writing' = {}
  /\ UNCHANGED <<passes, wm, pc, batch, es, late, why>>

AbortPass ==
  /\ writing # {}
  /\ writing' = {}
  /\ UNCHANGED <<mart, passes, wm, pc, batch, es, late, why>>

-----------------------------------------------------------------------------
(* The sync task.                                                          *)

\* WHERE updated_at > watermark
Changed == {u \in DOMAIN mart : mart[u].updated_at > wm}

\* ORDER BY updated_at LIMIT BatchSize
IsFirst(B, S) ==
  /\ B \subseteq S
  /\ Cardinality(B) <= BatchSize
  /\ B # S => Cardinality(B) = BatchSize
  /\ \A u \in B, v \in S \ B : mart[u].updated_at <= mart[v].updated_at

\* Mutant: no early return (as the guard of Fetch).
NoGuard == TRUE

\* Without rows, "no mart rows to sync", the task returns.
SomeRows == Changed # {}

Fetch ==
  /\ pc = "idle"
  /\ SomeRows
  /\ \E B \in SUBSET Changed :
       /\ IsFirst(B, Changed)
       /\ batch' = [u \in B |-> mart[u]]
  /\ pc' = "fetched"
  /\ UNCHANGED <<martVars, wm, es, late, why>>

EndTask == pc' = "idle" /\ batch' = <<>>

\* The index after the documents of D were written over it, by doc id.
Indexed(D) ==
  [u \in DOMAIN es \cup D |-> IF u \in D THEN batch[u].version ELSE es[u]]

\* helpers.bulk(raise_on_error=False): documents Elasticsearch refuses are counted
\* and logged, and the task goes on.
BulkIndex ==
  /\ pc = "fetched"
  /\ \E refused \in SUBSET DOMAIN batch :
       /\ es' = Indexed(DOMAIN batch \ refused)
       /\ why' = [u \in Uids |-> IF u \in refused THEN "refused"
                                 ELSE IF u \in DOMAIN batch THEN ""
                                 ELSE why[u]]
  /\ pc' = "indexed"
  /\ UNCHANGED <<martVars, wm, batch, late>>

\* A request fails or times out and helpers.bulk raises: some documents were
\* written, others may be written later by a request nobody waits for any more.
BulkRaises ==
  /\ pc = "fetched"
  /\ \E D \in SUBSET DOMAIN batch : \E L \in SUBSET (DOMAIN batch \ D) :
       /\ Cardinality(late) + Cardinality(L) <= MaxLate
       /\ es' = Indexed(D)
       /\ late' = late \cup {<<u, batch[u].version>> : u \in L}
       /\ why' = [u \in Uids |-> IF u \in D THEN "" ELSE why[u]]
  /\ EndTask
  /\ UNCHANGED <<martVars, wm>>

LateWrite ==
  /\ \E d \in late :
       /\ late' = late \ {d}
       /\ es' = [u \in DOMAIN es \cup {d[1]} |-> IF u = d[1] THEN d[2] ELSE es[u]]
       /\ why' = IF d[1] \in DOMAIN es /\ es[d[1]] > d[2]
                   THEN [why EXCEPT ![d[1]] = "overwritten"]
                   ELSE why
  /\ UNCHANGED <<martVars, wm, pc, batch>>

\* Mutant: the watermark is the time of the run.
TimeOfRun == passes

\* Mutant: the watermark is not moved.
OldWatermark == wm

\* max(updated_at) of the batch
NewWatermark == Max({batch[u].updated_at : u \in DOMAIN batch})

\* set_watermark, whatever the bulk request achieved.
SetWatermark ==
  /\ pc = "indexed"
  /\ wm' = NewWatermark
  /\ why' = [u \in Uids |->
               IF u \in Changed \ DOMAIN batch /\ mart[u].updated_at <= wm'
                 THEN "cut" ELSE why[u]]
  /\ EndTask
  /\ UNCHANGED <<martVars, es, late>>

Crash ==
  /\ pc # "idle"
  /\ EndTask
  /\ UNCHANGED <<martVars, wm, es, late, why>>

Next ==
  \/ BeginPass \/ CommitPass \/ AbortPass
  \/ Fetch \/ BulkIndex \/ BulkRaises \/ LateWrite \/ SetWatermark \/ Crash

Spec == Init /\ [][Next]_vars

\* The scheduler starts the task every two minutes for ever; an attempt is not
\* killed at the same point every time.
FairSpec ==
  /\ Spec
  /\ SF_vars(Fetch)
  /\ SF_vars(BulkIndex)
  /\ SF_vars(SetWatermark)

-----------------------------------------------------------------------------
(* Properties. *)
Current(u) == u \in DOMAIN es /\ es[u] = mart[u].version

\* The last pass that wrote the row is that of time t.
BumpedAt(u, t) == u \in DOMAIN mart /\ mart[u].updated_at = t

\* The watermark passes a row only if its document is current, or Elasticsearch
\* refused it, or the LIMIT cut it off, or a forgotten request undid it
\* (sync_es_dag.py:65-85).  A pass that commits late is never overtaken: there is
\* one pass at a time.
StaleDocsExplained ==
  \A u \in DOMAIN mart : mart[u].updated_at <= wm => Current(u) \/ why[u] # ""

\* A document, and a document write of a failed request that may still be applied,
\* carry a version their row has had: the index never shows, nor can be made to
\* show, what the mart never held (sync_es_dag.py:36-83).  It may show an older one.
IndexFollowsMart ==
  /\ \A u \in DOMAIN es : u \in DOMAIN mart /\ es[u] \in 1..mart[u].version
  /\ \A d \in late : d[1] \in DOMAIN mart /\ d[2] \in 1..mart[d[1]].version

\* A row bumped at t and not bumped since reaches the index in the end, unless it is
\* left stale for one of the reasons above.  A row that keeps being bumped is always
\* the youngest and may wait for ever while the LIMIT lets older ones go first.
RowsReachTheIndex ==
  \A u \in Uids, t \in 1..MaxPasses :
    BumpedAt(u, t) ~> ~BumpedAt(u, t) \/ Current(u) \/ why[u] # ""

\* sync_es_dag.py:3-5 as it reads: any row newer than the watermark is indexed, so
\* the watermark leaves no stale document behind when Elasticsearch takes them all.
NothingSkipped ==
  \A u \in DOMAIN mart :
    mart[u].updated_at <= wm /\ why[u] \notin {"refused", "overwritten"} => Current(u)
=============================================================================
