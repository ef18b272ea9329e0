------------------------------ MODULE Harmonize ------------------------------
(***************************************************************************)
(* dags/harmonize_dag.py for one source: the task harmonize_<source> copies *)
(* new rows of raw.<source>_events into harmonized.events, keeping its      *)
(* place with a watermark on received_at.  It runs beside the writers of    *)
(* the table (RawTable).  max_active_runs=1 gives one task per source.      *)
(*                                                                          *)
(* The task is three transactions with crashes in between: the SELECT, the  *)
(* upsert of the mapped rows, the store of the watermark.  get_watermark is *)
(* part of the first: only this task writes its watermark.                  *)
(***************************************************************************)
EXTENDS RawTable, Mapping

CONSTANTS
  Source,     \* the source of this task
  BatchSize   \* LIMIT of the SELECT (5000)

ASSUME HarmonizeAssumption ==
  /\ Source \in Sources
  /\ BatchSize \in Nat \ {0}
  /\ IsFiniteSet(Events)

VARIABLES
  wm,         \* harmonized._watermarks['harmonize::<source>'], 0 if absent
  pc,         \* the task: "idle", "fetched" or "upserted"
  batch,      \* the rows the SELECT returned, by event_id
  harm,       \* the rows of harmonized.events of this source, by event_id
  (* history variables: read by properties only *)
  seen,       \* the events that were visible to the SELECT of this attempt
  overtaken,  \* rows committed too late: below a watermark that never saw them
  cut         \* rows the SELECT saw, left out by its LIMIT and passed since

taskVars == <<wm, pc, batch, harm, seen>>
vars == <<raw, tx, now, wm, pc, batch, harm, seen, overtaken, cut>>

HarmRow == [event_time : {"timestamp"}, archive_uri : UriOrNull]

TypeOK ==
  /\ RawTypeOK
  /\ wm \in Nat
  /\ pc \in {"idle", "fetched", "upserted"}
  /\ DOMAIN batch \subseteq Events
  /\ batch \in [DOMAIN batch -> RawRow]
  /\ DOMAIN harm \subseteq Events
  /\ harm \in [DOMAIN harm -> HarmRow]
  /\ seen \subseteq Events
  /\ overtaken \subseteq DOMAIN raw
  /\ cut \subseteq DOMAIN raw

Init ==
  /\ RawInit
  /\ wm = 0
  /\ pc = "idle"
  /\ batch = <<>>
  /\ harm = <<>>
  /\ seen = {}
  /\ overtaken = {}
  /\ cut = {}

-----------------------------------------------------------------------------
(* The writers.  A commit that makes a row visible at or below the watermark *)
(* has been overtaken by it.                                                 *)
Write ==
  \/ /\ \/ \E w \in PythonWriters : BeginUpsert(w)
        \/ \E w \in NifiWriters : BeginPutSQL(w)
        \/ \E w \in Writers : Abort(w)
     /\ UNCHANGED <<taskVars, overtaken, cut>>
  \/ \E w \in Writers :
       /\ Commit(w)
       /\ overtaken' = overtaken \cup
            {e \in DOMAIN raw' \ DOMAIN raw : raw'[e].received_at <= wm}
       /\ UNCHANGED <<taskVars, cut>>

-----------------------------------------------------------------------------
\* Mutant: no WHERE.
Everything == DOMAIN raw

\* WHERE received_at > watermark
New == {e \in DOMAIN raw : raw[e].received_at > wm}

\* Mutant: LIMIT without ORDER BY.
IsSome(B, S) ==
  /\ B \subseteq S
  /\ Cardinality(B) <= BatchSize
  /\ B # S => Cardinality(B) = BatchSize

\* ORDER BY received_at LIMIT BatchSize: the earliest rows, in no particular
\* order among equals.
IsFirst(B, S) ==
  /\ B \subseteq S
  /\ Cardinality(B) <= BatchSize
  /\ B # S => Cardinality(B) = BatchSize
  /\ \A e \in B, f \in S \ B : raw[e].received_at <= raw[f].received_at

Fetch ==
  /\ pc = "idle"
  /\ New # {}       \* "nothing new since": the task returns
  /\ \E B \in SUBSET New :
       /\ IsFirst(B, New)
       /\ batch' = [e \in B |-> raw[e]]
  /\ seen' = DOMAIN raw
  /\ pc' = "fetched"
  /\ UNCHANGED <<rawVars, wm, harm, overtaken, cut>>

\* The fetched rows the mapper does not turn into None.
Canonical == {e \in DOMAIN batch : ~MapsToNone(Source, batch[e].payload)}

\* Mutant: event_time is nullable.
NeverRefused == FALSE

\* One row the table refuses aborts the transaction of the whole batch.
Refused == \E e \in Canonical : ~Accepted(Source, batch[e].payload)

\* upsert_harmonized: every canonical row in one transaction, overwriting.
Upsert ==
  /\ pc = "fetched"
  /\ ~Refused
  /\ harm' = [e \in DOMAIN harm \cup Canonical |->
                IF e \in Canonical
                  THEN [event_time |-> EventTime(Source, batch[e].payload),
                        archive_uri |-> batch[e].archive_uri]
                  ELSE harm[e]]
  /\ pc' = "upserted"
  /\ UNCHANGED <<rawVars, wm, batch, seen, overtaken, cut>>

EndTask ==
  /\ pc' = "idle"
  /\ batch' = <<>>
  /\ seen' = {}
  /\ UNCHANGED <<rawVars, harm>>

\* The task fails with nothing written; its retry starts from the same watermark.
UpsertRefused ==
  /\ pc = "fetched"
  /\ Refused
  /\ EndTask
  /\ UNCHANGED <<wm, overtaken, cut>>

\* max(r["received_at"] for r in rows), over all fetched rows, mapped or not.
NewestFetched ==
  {t \in {batch[e].received_at : e \in DOMAIN batch} :
     \A f \in DOMAIN batch : batch[f].received_at <= t}

\* Mutant: the watermark is stored before the upsert.
SetWatermarkEarly ==
  /\ pc = "fetched"
  /\ wm' \in NewestFetched
  /\ UNCHANGED <<rawVars, pc, batch, harm, seen, overtaken, cut>>

\* Mutant: the watermark is not stored.
ForgetWatermark == pc = "upserted" /\ EndTask /\ UNCHANGED <<wm, overtaken, cut>>

\* set_watermark(max(received_at)).  The rows it passes without having fetched
\* them are recorded in the history.
SetWatermark ==
  /\ pc = "upserted"
  /\ wm' \in NewestFetched
  /\ LET passed == {e \in New \ DOMAIN batch : raw[e].received_at <= wm'}
     IN  /\ overtaken' = overtaken \cup (passed \ seen)
         /\ cut' = cut \cup (passed \cap seen)
  /\ EndTask

\* The worker dies or loses the database between two transactions.
Crash == pc # "idle" /\ EndTask /\ UNCHANGED <<wm, overtaken, cut>>

Next == Write \/ Fetch \/ Upsert \/ UpsertRefused \/ SetWatermark \/ Crash

Spec == Init /\ [][Next]_vars

\* The scheduler starts the task every two minutes for ever, and not every
\* attempt is killed at the same point: a step that keeps becoming possible is
\* taken in the end.  Nothing is assumed of the writers.
Fairness == SF_vars(Fetch) /\ SF_vars(Upsert) /\ SF_vars(SetWatermark)

FairSpec == Spec /\ Fairness

-----------------------------------------------------------------------------
(* Properties. *)

\* Written to harmonized.events, or skipped because the mapper returned None.
Handled(e) == e \in DOMAIN harm \/ MapsToNone(Source, raw[e].payload)

\* The watermark covers what it passed (harmonize_dag.py:58-68): a raw row at
\* or below it has been handled, unless it committed after the watermark had
\* overtaken it or the LIMIT cut it off from rows received at the same instant.
\* In particular a refused row holds the watermark below it for ever.
WatermarkCovers ==
  \A e \in DOMAIN raw :
    raw[e].received_at <= wm => Handled(e) \/ e \in overtaken \/ e \in cut

\* ORDER BY and LIMIT (harmonize_dag.py:48-50) lose a visible row in one way
\* only: it shares its received_at with a row that was fetched and handled.
CutIsATie ==
  \A e \in cut : \E f \in DOMAIN raw \ (cut \cup overtaken) :
    raw[f].received_at = raw[e].received_at /\ Handled(f)

\* Silver follows bronze (harmonize_dag.py:59-66, db.py:92-122): a harmonized
\* row has a raw row the mapper accepts, and its archive_uri may lag behind the
\* raw one but never names another blob.
HarmFromRaw ==
  \A e \in DOMAIN harm :
    /\ e \in DOMAIN raw
    /\ ~MapsToNone(Source, raw[e].payload)
    /\ harm[e].archive_uri \in {NoUri, raw[e].archive_uri}

\* Re-running the task after a crash, with rows and uris arriving meanwhile, never
\* takes back a harmonized row or an audit handle it already had (db.py:106-117
\* overwrites archive_uri with what the SELECT saw).
AuditHandleKept ==
  [][\A e \in DOMAIN harm :
       /\ e \in DOMAIN harm'
       /\ harm[e].archive_uri # NoUri => harm'[e] = harm[e]]_vars

\* set_watermark stores whatever it is given (db.py:187-189), yet no retry, tie
\* or late commit moves a watermark back.
WatermarkNeverRegresses == [][wm' >= wm]_vars

\* Every visible row is handled in the end, or was lost in one of the two ways
\* above, or some row of the table is one the database refuses.
EveryRowSettled ==
  \A e \in Events :
    e \in DOMAIN raw ~>
      \/ e \in DOMAIN raw /\ Handled(e)
      \/ e \in overtaken \cup cut
      \/ \E p \in DOMAIN raw : Poisonous(Source, raw[p].payload)

\* harmonize_dag.py:3-5 as it reads: new rows are read by watermark, mapped and
\* upserted, so a row the watermark has passed was handled.
NothingLost ==
  \A e \in DOMAIN raw : raw[e].received_at <= wm => Handled(e)

\* mapping.py:5-9: None is returned for a row with a required field missing, so
\* whatever the mappers return has an event_time.
UnusableRowsSkipped ==
  pc = "fetched" =>
    \A e \in Canonical : EventTime(Source, batch[e].payload) # "null"
=============================================================================
