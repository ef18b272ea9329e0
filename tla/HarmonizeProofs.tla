-------------------------- MODULE HarmonizeProofs --------------------------
(***************************************************************************)
(* Theorems about Harmonize and the check beside it, for every set of      *)
(* events, writers and uris, every batch size and every bound on the clock.*)
(***************************************************************************)
EXTENDS QualityCheck, RawTableProofs, FiniteSetTheorems, TLAPS

\* What an attempt knows about the rows it fetched, whatever the writers do.
Working == pc # "idle"

BatchFromRaw ==
  Working =>
    /\ DOMAIN batch \subseteq DOMAIN raw \cap seen
    /\ \A e \in DOMAIN batch :
         /\ batch[e].received_at = raw[e].received_at
         /\ batch[e].payload = raw[e].payload
         /\ batch[e].received_at > wm
         /\ batch[e].archive_uri \in {NoUri, raw[e].archive_uri}

\* The rows the SELECT left out are not older than the ones it returned.
BatchIsFirst ==
  Working =>
    \A e \in DOMAIN batch, f \in seen \ DOMAIN batch :
      raw[f].received_at > wm => raw[e].received_at <= raw[f].received_at

UpsertDone == pc = "upserted" => \A e \in DOMAIN batch : Handled(e)

\* A handle that silver has is also in the batch about to overwrite it.
BatchKeepsHandles ==
  Working =>
    \A e \in DOMAIN batch \cap DOMAIN harm :
      harm[e].archive_uri # NoUri => batch[e].archive_uri = harm[e].archive_uri

\* What the history variables record is at or below the watermark.
HistoryPassed ==
  \A e \in overtaken \cup cut : raw[e].received_at <= wm

SeenInRaw == seen \subseteq DOMAIN raw

IInv ==
  /\ TypeOK
  /\ SeenInRaw
  /\ BatchFromRaw
  /\ BatchIsFirst
  /\ UpsertDone
  /\ BatchKeepsHandles
  /\ HistoryPassed
  /\ WatermarkCovers
  /\ CutIsATie
  /\ HarmFromRaw

-----------------------------------------------------------------------------
LEMMA InitInvariant == Init => IInv
<1> SUFFICES ASSUME Init PROVE IInv
  OBVIOUS
<1>1. TypeOK
  BY RawAssumption DEF Init, RawInit, TypeOK, RawTypeOK
<1>2. QED
  BY <1>1 DEF Init, RawInit, IInv, Working, SeenInRaw, BatchFromRaw, BatchIsFirst,
     UpsertDone, BatchKeepsHandles, HistoryPassed, WatermarkCovers, CutIsATie, HarmFromRaw

\* Opening or dropping a transaction concerns nobody but the writer.
LEMMA StartInvariant ==
  ASSUME IInv, UNCHANGED <<taskVars, overtaken, cut>>, NEW w \in Writers,
         NEW rows, DOMAIN rows \subseteq Events, rows \in [DOMAIN rows -> Payloads],
         NEW uri \in UriOrNull, Start(w, rows, uri)
  PROVE  IInv'
<1>1. RawTypeOK' /\ raw' = raw
  BY StartTypes DEF IInv, TypeOK
<1>2. TypeOK'
  BY <1>1 DEF IInv, TypeOK, taskVars
<1>3. QED
  BY <1>1, <1>2 DEF taskVars, IInv, Working, SeenInRaw, BatchFromRaw, BatchIsFirst,
     UpsertDone, BatchKeepsHandles, HistoryPassed, WatermarkCovers, CutIsATie,
     HarmFromRaw, Handled

LEMMA AbortInvariant ==
  ASSUME IInv, UNCHANGED <<taskVars, overtaken, cut>>, NEW w \in Writers, Abort(w)
  PROVE  IInv'
<1>1. TypeOK'
  <2>1. RawTypeOK'
    BY CloseTypes DEF IInv, TypeOK
  <2>2. QED
    BY <2>1 DEF IInv, TypeOK, taskVars, Abort
<1>2. QED
  BY <1>1 DEF taskVars, Abort, IInv, Working, SeenInRaw, BatchFromRaw, BatchIsFirst,
     UpsertDone, BatchKeepsHandles, HistoryPassed, WatermarkCovers, CutIsATie,
     HarmFromRaw, Handled

LEMMA CommitInvariant ==
  ASSUME IInv, NEW w \in Writers, Commit(w), UNCHANGED <<taskVars, cut>>,
         overtaken' = overtaken \cup
           {e \in DOMAIN raw' \ DOMAIN raw : raw'[e].received_at <= wm}
  PROVE  IInv'
<1>1. /\ DOMAIN raw \subseteq DOMAIN raw'
      /\ DOMAIN raw' \subseteq Events
      /\ raw' \in [DOMAIN raw' -> RawRow]
      /\ \A e \in DOMAIN raw :
           /\ raw'[e].received_at = raw[e].received_at
           /\ raw'[e].payload = raw[e].payload
           /\ raw[e].archive_uri # NoUri => raw'[e].archive_uri = raw[e].archive_uri
  BY CommitOnlyAdds DEF IInv, TypeOK
<1>2. UNCHANGED <<wm, pc, batch, harm, seen, cut>>
  BY DEF taskVars
<1>3. TypeOK'
  <2>1. RawTypeOK'
    BY CloseTypes DEF IInv, TypeOK
  <2>2. overtaken' \subseteq DOMAIN raw'
    BY <1>1 DEF IInv, TypeOK
  <2>3. QED
    BY <1>1, <1>2, <2>1, <2>2 DEF IInv, TypeOK
<1>4. SeenInRaw' /\ BatchFromRaw' /\ BatchKeepsHandles'
  BY <1>1, <1>2 DEF IInv, SeenInRaw, BatchFromRaw, BatchKeepsHandles, Working
<1>5. BatchIsFirst'
  BY <1>1, <1>2 DEF IInv, SeenInRaw, BatchFromRaw, BatchIsFirst, Working
<1>6. \A e \in DOMAIN raw : Handled(e) => Handled(e)'
  BY <1>1, <1>2 DEF Handled
<1>7. UpsertDone'
  BY <1>2, <1>6 DEF IInv, UpsertDone, BatchFromRaw, Working
<1>8. HistoryPassed'
  BY <1>1, <1>2 DEF IInv, TypeOK, HistoryPassed
<1>9. WatermarkCovers'
  BY <1>1, <1>2, <1>6 DEF IInv, WatermarkCovers
<1>10. CutIsATie'
  BY <1>1, <1>2, <1>6 DEF IInv, TypeOK, CutIsATie
<1>11. HarmFromRaw'
  BY <1>1, <1>2 DEF IInv, HarmFromRaw
<1>12. QED
  BY <1>3, <1>4, <1>5, <1>7, <1>8, <1>9, <1>10, <1>11 DEF IInv

LEMMA FetchInvariant ==
  ASSUME IInv, Fetch
  PROVE  IInv'
<1>1. PICK B \in SUBSET New : IsFirst(B, New) /\ batch' = [e \in B |-> raw[e]]
  BY DEF Fetch
<1>2. /\ DOMAIN batch' = B
      /\ \A e \in B : batch'[e] = raw[e] /\ e \in DOMAIN raw /\ raw[e].received_at > wm
  BY <1>1 DEF New
<1>3. /\ seen' = DOMAIN raw /\ pc' = "fetched"
      /\ UNCHANGED <<raw, tx, now, wm, harm, overtaken, cut>>
  BY DEF Fetch, rawVars
<1>4. TypeOK'
  <2>1. batch' \in [DOMAIN batch' -> RawRow]
    BY <1>1, <1>2 DEF IInv, TypeOK, RawTypeOK
  <2>2. QED
    BY <1>2, <1>3, <2>1 DEF IInv, TypeOK, RawTypeOK
<1>5. SeenInRaw' /\ BatchFromRaw'
  BY <1>2, <1>3 DEF SeenInRaw, BatchFromRaw
<1>6. BatchIsFirst'
  BY <1>1, <1>2, <1>3 DEF BatchIsFirst, IsFirst, New
<1>7. BatchKeepsHandles'
  <2>1. \A e \in B \cap DOMAIN harm :
          harm[e].archive_uri # NoUri => batch'[e].archive_uri = harm[e].archive_uri
    BY <1>2 DEF IInv, HarmFromRaw
  <2>2. QED
    BY <1>2, <1>3, <2>1 DEF BatchKeepsHandles, Working
<1>8. (UpsertDone /\ HistoryPassed /\ WatermarkCovers /\ CutIsATie /\ HarmFromRaw)'
  BY <1>3 DEF IInv, UpsertDone, HistoryPassed, WatermarkCovers, CutIsATie, HarmFromRaw, Handled
<1>9. QED
  BY <1>4, <1>5, <1>6, <1>7, <1>8 DEF IInv

LEMMA UpsertInvariant ==
  ASSUME IInv, Upsert
  PROVE  IInv'
<1>1. /\ pc = "fetched" /\ pc' = "upserted"
      /\ UNCHANGED <<raw, tx, now, wm, batch, seen, overtaken, cut>>
  BY DEF Upsert, rawVars
<1>2. /\ DOMAIN harm' = DOMAIN harm \cup Canonical
      /\ \A e \in Canonical :
           harm'[e] = [event_time |-> "timestamp", archive_uri |-> batch[e].archive_uri]
      /\ \A e \in DOMAIN harm \ Canonical : harm'[e] = harm[e]
  BY DEF Upsert, Refused, Accepted
<1>3. \A e \in Canonical :
        /\ e \in DOMAIN batch /\ e \in DOMAIN raw
        /\ ~MapsToNone(Source, raw[e].payload)
        /\ batch[e] \in RawRow
        /\ batch[e].archive_uri \in {NoUri, raw[e].archive_uri}
  BY <1>1 DEF IInv, TypeOK, BatchFromRaw, Working, Canonical
<1>4. TypeOK'
  <2>1. \A e \in DOMAIN harm' : harm'[e] \in HarmRow
    BY <1>2, <1>3 DEF IInv, TypeOK, HarmRow, RawRow
  <2>2. harm' \in [DOMAIN harm' -> HarmRow]
    BY <2>1 DEF Upsert
  <2>3. DOMAIN harm' \subseteq Events
    BY <1>2, <1>3 DEF IInv, TypeOK
  <2>4. QED
    BY <1>1, <2>2, <2>3 DEF IInv, TypeOK, RawTypeOK
<1>5. (SeenInRaw /\ BatchFromRaw /\ BatchIsFirst /\ HistoryPassed)'
  BY <1>1 DEF IInv, SeenInRaw, BatchFromRaw, BatchIsFirst, HistoryPassed, Working
<1>6. UpsertDone'
  BY <1>1, <1>2 DEF IInv, UpsertDone, Handled, Canonical, BatchFromRaw, Working
<1>7. BatchKeepsHandles'
  <2>1. \A e \in Canonical : harm'[e].archive_uri = batch[e].archive_uri
    BY <1>2
  <2>2. \A e \in (DOMAIN batch \cap DOMAIN harm) \ Canonical :
          harm'[e].archive_uri # NoUri => batch[e].archive_uri = harm'[e].archive_uri
    BY <1>1, <1>2 DEF IInv, BatchKeepsHandles, Working
  <2>3. \A e \in DOMAIN batch \cap DOMAIN harm' :
          harm'[e].archive_uri # NoUri => batch[e].archive_uri = harm'[e].archive_uri
    BY <1>2, <2>1, <2>2
  <2>4. QED
    BY <1>1, <2>3 DEF BatchKeepsHandles
<1>8. (WatermarkCovers /\ CutIsATie)'
  BY <1>1, <1>2 DEF IInv, WatermarkCovers, CutIsATie, Handled
<1>9. HarmFromRaw'
  BY <1>1, <1>2, <1>3 DEF IInv, HarmFromRaw
<1>10. QED
  BY <1>4, <1>5, <1>6, <1>7, <1>8, <1>9 DEF IInv

\* The attempt ends with nothing written: a refused row or a crash.
LEMMA GiveUpInvariant ==
  ASSUME IInv, UpsertRefused \/ Crash
  PROVE  IInv'
<1>1. /\ pc' = "idle" /\ batch' = <<>> /\ seen' = {}
      /\ UNCHANGED <<raw, tx, now, wm, harm, overtaken, cut>>
  BY DEF UpsertRefused, Crash, EndTask, rawVars
<1>2. TypeOK'
  BY <1>1 DEF IInv, TypeOK, RawTypeOK
<1>3. QED
  BY <1>1, <1>2 DEF IInv, Working, SeenInRaw, BatchFromRaw, BatchIsFirst, UpsertDone,
     BatchKeepsHandles, HistoryPassed, WatermarkCovers, CutIsATie, HarmFromRaw, Handled

LEMMA SetWatermarkInvariant ==
  ASSUME IInv, SetWatermark
  PROVE  IInv' /\ wm' > wm
<1> DEFINE passed == {e \in New \ DOMAIN batch : raw[e].received_at <= wm'}
<1>1. /\ pc = "upserted" /\ pc' = "idle" /\ batch' = <<>> /\ seen' = {}
      /\ UNCHANGED <<raw, tx, now, harm>>
      /\ overtaken' = overtaken \cup (passed \ seen)
      /\ cut' = cut \cup (passed \cap seen)
  BY DEF SetWatermark, EndTask, rawVars
<1>2. PICK m \in DOMAIN batch :
        /\ \A f \in DOMAIN batch : batch[f].received_at <= batch[m].received_at
        /\ wm' = batch[m].received_at
  BY DEF SetWatermark, NewestFetched
<1>3. /\ m \in DOMAIN raw /\ wm' = raw[m].received_at /\ wm' \in Nat /\ wm \in Nat
      /\ wm' > wm
  BY <1>1, <1>2 DEF IInv, TypeOK, RawTypeOK, RawRow, BatchFromRaw, Working
<1>4. \A e \in DOMAIN raw : raw[e].received_at \in Nat
  BY DEF IInv, TypeOK, RawTypeOK, RawRow
<1>5. passed \subseteq DOMAIN raw /\ \A e \in passed : raw[e].received_at > wm
  BY DEF New
<1>6. TypeOK'
  BY <1>1, <1>3, <1>5 DEF IInv, TypeOK, RawTypeOK
<1>7. (SeenInRaw /\ BatchFromRaw /\ BatchIsFirst /\ UpsertDone /\ BatchKeepsHandles)'
  BY <1>1 DEF SeenInRaw, BatchFromRaw, BatchIsFirst, UpsertDone, BatchKeepsHandles, Working
<1>8. HistoryPassed'
  BY <1>1, <1>3, <1>4, <1>5 DEF IInv, TypeOK, HistoryPassed
<1>9. WatermarkCovers'
  BY <1>1, <1>3, <1>4 DEF IInv, WatermarkCovers, UpsertDone, New, Handled
<1>10. CutIsATie'
  <2> SUFFICES ASSUME NEW e \in cut'
               PROVE  \E f \in DOMAIN raw \ (cut' \cup overtaken') :
                        raw[f].received_at = raw[e].received_at /\ Handled(f)
    BY <1>1 DEF CutIsATie, Handled
  <2>1. CASE e \in cut
    <3>1. PICK f \in DOMAIN raw \ (cut \cup overtaken) :
            raw[f].received_at = raw[e].received_at /\ Handled(f)
      BY <2>1 DEF IInv, CutIsATie
    <3>2. f \notin passed
      BY <1>4, <1>5, <2>1, <3>1, <1>3 DEF IInv, TypeOK, HistoryPassed
    <3>3. QED
      BY <1>1, <3>1, <3>2
  <2>2. CASE e \in passed \cap seen
    <3>1. raw[e].received_at = raw[m].received_at
      BY <1>1, <1>2, <1>3, <1>4, <2>2 DEF IInv, BatchIsFirst, Working, New
    <3>2. m \notin cut' \cup overtaken'
      BY <1>1, <1>2, <1>3, <1>4 DEF IInv, HistoryPassed
    <3>3. Handled(m)
      BY <1>1, <1>2 DEF IInv, UpsertDone
    <3>4. QED
      BY <1>3, <3>1, <3>2, <3>3
  <2>3. QED
    BY <1>1, <2>1, <2>2
<1>11. HarmFromRaw'
  BY <1>1 DEF IInv, HarmFromRaw
<1>12. QED
  BY <1>3, <1>6, <1>7, <1>8, <1>9, <1>10, <1>11 DEF IInv

-----------------------------------------------------------------------------
LEMMA NextInvariant ==
  ASSUME IInv, [Next]_vars
  PROVE  IInv'
<1>1. CASE Write
  <2>1. ASSUME NEW w \in PythonWriters, BeginUpsert(w),
               UNCHANGED <<taskVars, overtaken, cut>>
        PROVE  IInv'
    <3>1. PICK rows \in Reports, uri \in Uris : Start(w, rows, uri)
      BY <2>1 DEF BeginUpsert
    <3>2. w \in Writers /\ uri \in UriOrNull
      BY DEF Writers, UriOrNull
    <3>3. DOMAIN rows \subseteq Events /\ rows \in [DOMAIN rows -> Payloads]
      BY DEF Reports
    <3>4. QED
      BY <2>1, <3>1, <3>2, <3>3, StartInvariant
  <2>2. ASSUME NEW w \in NifiWriters, BeginPutSQL(w),
               UNCHANGED <<taskVars, overtaken, cut>>
        PROVE  IInv'
    <3>1. PICK rows \in Reports : Start(w, rows, NoUri)
      BY <2>2 DEF BeginPutSQL
    <3>2. w \in Writers /\ NoUri \in UriOrNull
      BY DEF Writers, UriOrNull
    <3>3. DOMAIN rows \subseteq Events /\ rows \in [DOMAIN rows -> Payloads]
      BY DEF Reports
    <3>4. QED
      BY <2>2, <3>1, <3>2, <3>3, StartInvariant
  <2>3. ASSUME NEW w \in Writers, Abort(w), UNCHANGED <<taskVars, overtaken, cut>>
        PROVE  IInv'
    BY <2>3, AbortInvariant
  <2>4. ASSUME NEW w \in Writers, Commit(w), UNCHANGED <<taskVars, cut>>,
               overtaken' = overtaken \cup
                 {e \in DOMAIN raw' \ DOMAIN raw : raw'[e].received_at <= wm}
        PROVE  IInv'
    BY <2>4, CommitInvariant
  <2>5. QED
    BY <1>1, <2>1, <2>2, <2>3, <2>4 DEF Write
<1>2. CASE Fetch
  BY <1>2, FetchInvariant
<1>3. CASE Upsert
  BY <1>3, UpsertInvariant
<1>4. CASE UpsertRefused \/ Crash
  BY <1>4, GiveUpInvariant
<1>5. CASE SetWatermark
  BY <1>5, SetWatermarkInvariant
<1>6. CASE UNCHANGED vars
  BY <1>6 DEF vars, IInv, TypeOK, RawTypeOK, Working, SeenInRaw, BatchFromRaw, BatchIsFirst,
     UpsertDone, BatchKeepsHandles, HistoryPassed, WatermarkCovers, CutIsATie,
     HarmFromRaw, Handled
<1>7. QED
  BY <1>1, <1>2, <1>3, <1>4, <1>5, <1>6 DEF Next

\* The inductive invariant holds in every reachable state.
THEOREM Invariance == Spec => []IInv
<1>1. QED
  BY InitInvariant, NextInvariant, PTL DEF Spec

\* The variables keep their types whatever the writers and the task do.
THEOREM TypeCorrect == Spec => []TypeOK
<1>1. IInv => TypeOK
  BY DEF IInv
<1>2. QED
  BY <1>1, Invariance, PTL

\* The watermark of harmonize_dag.py:67-68 only passes rows that were handled,
\* late rows and tied rows apart.
THEOREM Covered == Spec => []WatermarkCovers
<1>1. IInv => WatermarkCovers
  BY DEF IInv
<1>2. QED
  BY <1>1, Invariance, PTL

\* The LIMIT of harmonize_dag.py:50 loses rows only among equal received_at.
THEOREM OnlyTiesAreCut == Spec => []CutIsATie
<1>1. IInv => CutIsATie
  BY DEF IInv
<1>2. QED
  BY <1>1, Invariance, PTL

\* Every harmonized row has a raw row, and never another blob's uri.
THEOREM SilverFollowsBronze == Spec => []HarmFromRaw
<1>1. IInv => HarmFromRaw
  BY DEF IInv
<1>2. QED
  BY <1>1, Invariance, PTL

\* No interleaving moves the watermark back, though set_watermark would let it.
THEOREM WatermarkMonotone == Spec => WatermarkNeverRegresses
<1>1. IInv /\ [Next]_vars => [wm' >= wm]_vars
  <2> SUFFICES ASSUME IInv, Next PROVE wm' >= wm
    OBVIOUS
  <2>1. wm \in Nat
    BY DEF IInv, TypeOK
  <2>2. CASE SetWatermark
    BY <2>1, <2>2, SetWatermarkInvariant, NextInvariant DEF IInv, TypeOK
  <2>3. CASE ~SetWatermark
    <3>1. wm' = wm
      BY <2>3 DEF Next, Write, taskVars, Fetch, Upsert, UpsertRefused, EndTask, Crash
    <3>2. QED
      BY <2>1, <3>1
  <2>4. QED
    BY <2>2, <2>3
<1>2. QED
  BY <1>1, Invariance, PTL DEF Spec, WatermarkNeverRegresses

\* A re-run never takes back a harmonized row, nor an archive_uri it had.
THEOREM HandlesKept == Spec => AuditHandleKept
<1> DEFINE Kept == \A e \in DOMAIN harm :
                     /\ e \in DOMAIN harm'
                     /\ harm[e].archive_uri # NoUri => harm'[e] = harm[e]
<1>1. IInv /\ [Next]_vars => [Kept]_vars
  <2> SUFFICES ASSUME IInv, Next PROVE Kept
    OBVIOUS
  <2>1. CASE Upsert
    <3> SUFFICES ASSUME NEW e \in DOMAIN harm
                 PROVE  /\ e \in DOMAIN harm'
                        /\ harm[e].archive_uri # NoUri => harm'[e] = harm[e]
      OBVIOUS
    <3>1. DOMAIN harm' = DOMAIN harm \cup Canonical
      BY <2>1 DEF Upsert
    <3>2. CASE e \in Canonical
      <4>1. harm'[e] = [event_time |-> "timestamp", archive_uri |-> batch[e].archive_uri]
        BY <2>1, <3>2 DEF Upsert, Refused, Accepted
      <4>2. harm[e].archive_uri # NoUri => batch[e].archive_uri = harm[e].archive_uri
        BY <2>1, <3>2 DEF Upsert, IInv, BatchKeepsHandles, Working, Canonical
      <4>3. harm[e] \in HarmRow
        BY DEF IInv, TypeOK
      <4>4. harm[e] = [event_time |-> "timestamp", archive_uri |-> harm[e].archive_uri]
        BY <4>3 DEF HarmRow
      <4>5. QED
        BY <3>1, <4>1, <4>2, <4>4
    <3>3. CASE e \notin Canonical
      BY <2>1, <3>1, <3>3 DEF Upsert
    <3>4. QED
      BY <3>2, <3>3
  <2>2. CASE ~Upsert
    <3>1. harm' = harm
      BY <2>2 DEF Next, Write, taskVars, Fetch, UpsertRefused, SetWatermark,
         EndTask, Crash
    <3>2. QED
      BY <3>1
  <2>3. QED
    BY <2>1, <2>2
<1>2. QED
  BY <1>1, Invariance, PTL DEF Spec, AuditHandleKept

-----------------------------------------------------------------------------
(* The check beside the task. *)

CountTypeOK == rawTotal = {} \/ \E n \in Nat : rawTotal = {n}

\* There are never more harmonized rows than raw rows, at one moment.
LEMMA HarmonizedAtMostRaw ==
  ASSUME IInv
  PROVE  /\ Cardinality(DOMAIN raw) \in Nat
         /\ Cardinality(DOMAIN harm) \in Nat
         /\ Cardinality(DOMAIN harm) <= Cardinality(DOMAIN raw)
<1>1. DOMAIN harm \subseteq DOMAIN raw
  BY DEF IInv, HarmFromRaw
<1>2. IsFiniteSet(DOMAIN raw)
  <2>1. IsFiniteSet(Events) /\ DOMAIN raw \in SUBSET Events
    BY HarmonizeAssumption DEF IInv, TypeOK, RawTypeOK
  <2>2. QED
    BY <2>1, FS_Subset
<1>3. IsFiniteSet(DOMAIN harm) /\ Cardinality(DOMAIN harm) <= Cardinality(DOMAIN raw)
  BY <1>1, <1>2, FS_Subset
<1>4. QED
  BY <1>2, <1>3, FS_CardinalityType

\* The check of quality_check_dag.py:57-74 leaves the theorems about the task alone ...
LEMMA CheckedNextInvariant ==
  ASSUME IInv, CountTypeOK, [CheckedNext]_checkedVars
  PROVE  IInv' /\ CountTypeOK'
<1>1. IInv'
  <2>1. [Next]_vars
    BY DEF CheckedNext, CountRaw, CheckPasses, CheckFails, CheckCrash, checkedVars
  <2>2. QED
    BY <2>1, NextInvariant
<1>2. CASE CountRaw
  BY <1>1, <1>2, HarmonizedAtMostRaw DEF CountRaw, CountTypeOK
<1>3. CASE CheckPasses \/ CheckFails \/ CheckCrash
  BY <1>1, <1>3 DEF CheckPasses, CheckFails, CheckCrash, CountTypeOK
<1>4. CASE UNCHANGED rawTotal
  BY <1>1, <1>4 DEF CountTypeOK
<1>5. QED
  BY <1>2, <1>3, <1>4 DEF CheckedNext, checkedVars

\* ... and fails only because rows were ingested between its two counts.
THEOREM FailuresExplained == CheckedSpec => FailsOnlyByGrowth
<1>1. CheckedInit => IInv /\ CountTypeOK
  BY InitInvariant DEF CheckedInit, CountTypeOK
<1>2. IInv /\ CountTypeOK /\ [CheckedNext]_checkedVars
        => [CheckFails => \A n \in rawTotal : Cardinality(DOMAIN raw) > n]_checkedVars
  <2> SUFFICES ASSUME IInv, CountTypeOK, CheckFails, NEW m \in rawTotal
               PROVE  Cardinality(DOMAIN raw) > m
    OBVIOUS
  <2>1. m \in Nat /\ rawTotal = {m}
    BY DEF CountTypeOK
  <2>2. Cardinality(DOMAIN harm) > m
    BY <2>1 DEF CheckFails, MoreHarmonized
  <2>3. QED
    BY <2>1, <2>2, HarmonizedAtMostRaw
<1>3. QED
  BY <1>1, <1>2, CheckedNextInvariant, PTL DEF CheckedSpec, FailsOnlyByGrowth
=============================================================================
