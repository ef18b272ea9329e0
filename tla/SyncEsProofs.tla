---------------------------- MODULE SyncEsProofs ----------------------------
(***************************************************************************)
(* Theorems about SyncEs, for every set of event_uids, every batch size and *)
(* any number of passes and late writes.                                    *)
(***************************************************************************)
EXTENDS SyncEs, FiniteSetTheorems, WellFoundedInduction, TLAPS

\* A set of natural numbers that is bounded and not empty has a greatest element.
LEMMA GreatestNat ==
  ASSUME NEW T \in SUBSET Nat, T # {}, NEW bound \in Nat, \A n \in T : n <= bound
  PROVE  \E m \in T : \A n \in T : m >= n
<1> DEFINE R == OpToRel(<, Nat)
           Gaps == {bound - n : n \in T}
<1>1. Gaps \subseteq Nat /\ Gaps # {}
  <2>1. \A n \in T : bound - n \in Nat
    OBVIOUS
  <2>2. QED
    BY <2>1
<1>2. \E d \in Gaps : \A e \in Gaps : ~(<<e, d>> \in R)
  <2> HIDE DEF R, Gaps
  <2> QED
    BY <1>1, NatLessThanWellFounded, WFMin DEF R
<1>3. \A d, e \in Nat : e < d => <<e, d>> \in R
  BY DEF OpToRel
<1>4. PICK d \in Gaps : \A e \in Gaps : ~(<<e, d>> \in R)
  BY <1>2
<1>5. PICK m \in T : d = bound - m
  BY <1>4
<1>6. ASSUME NEW n \in T PROVE m >= n
  <2>1. bound - n \in Gaps
    OBVIOUS
  <2>2. ~(bound - n < bound - m)
    BY <1>1, <1>3, <1>4, <1>5, <2>1
  <2>3. QED
    BY <2>2
<1>7. QED
  BY <1>6

\* t is the time of a pass that has been committed or given up.
Past(t) == t <= passes /\ (writing # {} => t < passes)

RowsArePast == \A u \in DOMAIN mart : Past(mart[u].updated_at) /\ mart[u].version > 0

WatermarkIsPast == Past(wm)

\* A row bumped since the SELECT is newer than everything the SELECT returned.
BumpedSince(u) == \A v \in DOMAIN batch : batch[v].updated_at < mart[u].updated_at

BatchFromMart ==
  \A u \in DOMAIN batch :
    /\ u \in DOMAIN mart
    /\ Past(batch[u].updated_at)
    /\ batch[u].updated_at > wm
    /\ batch[u].version \in 1..mart[u].version
    /\ batch[u] = mart[u] \/ BumpedSince(u)

\* After the bulk request a document of the batch is current, or stale for a reason.
BulkDone ==
  pc = "indexed" => \A u \in DOMAIN batch : Current(u) \/ why[u] # "" \/ BumpedSince(u)

SyncInv ==
  /\ TypeOK
  /\ RowsArePast
  /\ WatermarkIsPast
  /\ BatchFromMart
  /\ BulkDone
  /\ IndexFollowsMart
  /\ StaleDocsExplained

-----------------------------------------------------------------------------
LEMMA EmptyFunction == ASSUME NEW S PROVE DOMAIN <<>> = {} /\ <<>> \in [{} -> S]
OBVIOUS

LEMMA InitInvariant == Init => SyncInv
<1> SUFFICES ASSUME Init PROVE SyncInv
  OBVIOUS
<1>1. DOMAIN mart = {} /\ DOMAIN batch = {} /\ DOMAIN es = {} /\ late = {} /\ writing = {}
  BY EmptyFunction DEF Init
<1>2. TypeOK
  <2>1. mart \in [DOMAIN mart -> MartRow] /\ batch \in [DOMAIN batch -> MartRow]
    BY <1>1, EmptyFunction DEF Init
  <2>2. es \in [DOMAIN es -> Nat]
    BY <1>1, EmptyFunction DEF Init
  <2>3. QED
    BY <1>1, <2>1, <2>2 DEF Init, TypeOK
<1>3. RowsArePast /\ BatchFromMart /\ StaleDocsExplained
  BY <1>1 DEF RowsArePast, BatchFromMart, StaleDocsExplained
<1>4. WatermarkIsPast
  <2>1. wm = 0 /\ passes = 0 /\ writing = {}
    BY DEF Init
  <2>2. QED
    BY <2>1 DEF WatermarkIsPast, Past
<1>5. BulkDone /\ IndexFollowsMart
  BY <1>1 DEF Init, BulkDone, IndexFollowsMart
<1>6. QED
  BY <1>2, <1>3, <1>4, <1>5 DEF SyncInv

\* A pass begins: rows and watermark stay behind it.
LEMMA BeginPassInvariant == SyncInv /\ BeginPass => SyncInv'
<1> SUFFICES ASSUME SyncInv, BeginPass PROVE SyncInv'
  OBVIOUS
<1>1. /\ UNCHANGED <<mart, wm, pc, batch, es, late, why>>
      /\ passes' = passes + 1 /\ passes \in Nat /\ writing = {} /\ writing' \subseteq Uids
  BY DEF BeginPass, SyncInv, TypeOK
<1>2. \A t \in Nat : Past(t) => Past(t)'
  BY <1>1 DEF Past
<1>3. TypeOK'
  <2>1. passes' \in Nat
    BY <1>1
  <2>2. QED
    BY <1>1, <2>1, Zenon DEF SyncInv, TypeOK
<1>4. \A u \in DOMAIN mart : mart[u].updated_at \in Nat
  BY DEF SyncInv, TypeOK, MartRow
<1>5. \A u \in DOMAIN batch : batch[u].updated_at \in Nat
  BY DEF SyncInv, TypeOK, MartRow
<1>6. RowsArePast'
  BY <1>1, <1>2, <1>4 DEF SyncInv, RowsArePast
<1>7. WatermarkIsPast'
  BY <1>1, <1>2 DEF SyncInv, TypeOK, WatermarkIsPast
<1>8. BatchFromMart'
  BY <1>1, <1>2, <1>5 DEF SyncInv, BatchFromMart, BumpedSince
<1>9. BulkDone' /\ IndexFollowsMart' /\ StaleDocsExplained'
  BY <1>1 DEF SyncInv, BulkDone, BumpedSince, IndexFollowsMart, StaleDocsExplained, Current
<1>10. QED
  BY <1>3, <1>6, <1>7, <1>8, <1>9 DEF SyncInv

LEMMA AbortPassInvariant == SyncInv /\ AbortPass => SyncInv'
<1> SUFFICES ASSUME SyncInv, AbortPass PROVE SyncInv'
  OBVIOUS
<1>1. UNCHANGED <<mart, passes, wm, pc, batch, es, late, why>> /\ writing' = {}
  BY DEF AbortPass
<1>2. \A t : Past(t) => Past(t)'
  BY <1>1 DEF Past
<1>3. TypeOK'
  BY <1>1 DEF SyncInv, TypeOK
<1>4. RowsArePast' /\ WatermarkIsPast' /\ BatchFromMart'
  BY <1>1, <1>2 DEF SyncInv, RowsArePast, WatermarkIsPast, BatchFromMart, BumpedSince
<1>5. BulkDone' /\ IndexFollowsMart' /\ StaleDocsExplained'
  BY <1>1 DEF SyncInv, BulkDone, BumpedSince, IndexFollowsMart, StaleDocsExplained, Current
<1>6. QED
  BY <1>3, <1>4, <1>5 DEF SyncInv

\* What the rows a pass has committed look like.
LEMMA UpsertedFacts ==
  ASSUME SyncInv, NEW changed, writing # {}
  PROVE  /\ DOMAIN Upserted(changed) = DOMAIN mart \cup writing
         /\ Upserted(changed) \in [DOMAIN mart \cup writing -> MartRow]
         /\ \A u \in DOMAIN mart \cup writing : Upserted(changed)[u].version > 0
         /\ \A u \in writing : Upserted(changed)[u].updated_at = passes
         /\ \A u \in DOMAIN mart \ writing : Upserted(changed)[u] = mart[u]
         /\ \A u \in DOMAIN mart : mart[u].version <= Upserted(changed)[u].version
<1> DEFINE M == Upserted(changed)
<1>1. DOMAIN M = DOMAIN mart \cup writing
  BY DEF Upserted
<1>2. passes \in Nat /\ \A u \in DOMAIN mart : mart[u] \in MartRow /\ mart[u].version > 0
  BY DEF SyncInv, TypeOK, RowsArePast
<1>3. \A u \in DOMAIN mart \ writing : M[u] = mart[u]
  BY DEF Upserted
<1>4. ASSUME NEW u \in writing, u \notin DOMAIN mart
      PROVE  M[u] = [version |-> 1, updated_at |-> passes]
  BY <1>4 DEF Upserted
<1>5. ASSUME NEW u \in writing, u \in DOMAIN mart
      PROVE  \/ M[u] = [version |-> mart[u].version + 1, updated_at |-> passes]
             \/ M[u] = [version |-> mart[u].version, updated_at |-> passes]
  BY <1>5 DEF Upserted
<1>6. ASSUME NEW u \in writing
      PROVE  /\ M[u] \in MartRow /\ M[u].version > 0 /\ M[u].updated_at = passes
             /\ u \in DOMAIN mart => mart[u].version <= M[u].version
  <2>1. CASE u \notin DOMAIN mart
    BY <1>2, <1>4, <2>1 DEF MartRow
  <2>2. CASE u \in DOMAIN mart
    <3>1. mart[u].version \in Nat /\ mart[u].version > 0
      BY <1>2, <2>2 DEF MartRow
    <3>2. CASE M[u] = [version |-> mart[u].version + 1, updated_at |-> passes]
      BY <1>2, <3>1, <3>2 DEF MartRow
    <3>3. CASE M[u] = [version |-> mart[u].version, updated_at |-> passes]
      BY <1>2, <3>1, <3>3 DEF MartRow
    <3>4. QED
      BY <1>5, <2>2, <3>2, <3>3
  <2>3. QED
    BY <2>1, <2>2
<1>7. ASSUME NEW u \in DOMAIN mart \ writing
      PROVE  M[u] \in MartRow /\ M[u].version > 0 /\ mart[u].version <= M[u].version
  BY <1>2, <1>3 DEF MartRow
<1>8. M \in [DOMAIN mart \cup writing -> MartRow]
  BY <1>1, <1>6, <1>7 DEF Upserted
<1>9. QED
  BY <1>1, <1>3, <1>6, <1>7, <1>8

\* A pass commits: every row it wrote is newer than the watermark and the batch.
LEMMA CommitPassInvariant == SyncInv /\ CommitPass => SyncInv'
<1> SUFFICES ASSUME SyncInv, CommitPass PROVE SyncInv'
  OBVIOUS
<1>1. PICK changed \in SUBSET (writing \cap DOMAIN mart) : mart' = Upserted(changed)
  BY DEF CommitPass
<1>2. UNCHANGED <<passes, wm, pc, batch, es, late, why>> /\ writing # {} /\ writing' = {}
  BY DEF CommitPass
<1>3. /\ DOMAIN mart' = DOMAIN mart \cup writing
      /\ mart' \in [DOMAIN mart \cup writing -> MartRow]
      /\ \A u \in DOMAIN mart' : mart'[u].version > 0
      /\ \A u \in writing : mart'[u].updated_at = passes
      /\ \A u \in DOMAIN mart \ writing : mart'[u] = mart[u]
      /\ \A u \in DOMAIN mart : mart[u].version <= mart'[u].version
  BY <1>1, <1>2, UpsertedFacts
<1>4. TypeOK'
  <2>1. DOMAIN mart' \subseteq Uids
    BY <1>3 DEF SyncInv, TypeOK
  <2>2. mart' \in [DOMAIN mart' -> MartRow]
    BY <1>3
  <2>3. QED
    BY <1>2, <2>1, <2>2, Zenon DEF SyncInv, TypeOK
<1>5. passes \in Nat /\ wm \in Nat /\ wm < passes
  BY <1>2 DEF SyncInv, TypeOK, WatermarkIsPast, Past
<1>6. \A t : Past(t) => t <= passes' /\ Past(t)' /\ t < passes
  BY <1>2 DEF Past
<1>7. RowsArePast'
  <2>1. ASSUME NEW u \in DOMAIN mart' PROVE Past(mart[u].updated_at)'
    <3>1. CASE u \in writing
      <4>1. mart'[u].updated_at = passes /\ passes' = passes /\ writing' = {}
        BY <1>2, <1>3, <3>1
      <4>2. QED
        BY <1>5, <4>1 DEF Past
    <3>2. CASE u \notin writing
      BY <1>3, <1>6, <2>1, <3>2 DEF SyncInv, RowsArePast
    <3>3. QED
      BY <3>1, <3>2
  <2>2. QED
    BY <1>3, <2>1 DEF RowsArePast
<1>8. WatermarkIsPast'
  BY <1>2, <1>6 DEF SyncInv, WatermarkIsPast
<1>9. \A u \in writing : BumpedSince(u)'
  BY <1>2, <1>3, <1>6 DEF SyncInv, BatchFromMart, BumpedSince
<1>10. \A u \in DOMAIN mart \ writing : BumpedSince(u) => BumpedSince(u)'
  BY <1>2, <1>3 DEF BumpedSince
<1>11. \A u \in DOMAIN mart, n \in Nat : n \in 1..mart[u].version => n \in 1..mart'[u].version
  <2>1. \A u \in DOMAIN mart : mart[u].version \in Nat /\ mart'[u].version \in Nat
    BY <1>3 DEF SyncInv, TypeOK, MartRow
  <2>2. QED
    BY <1>3, <2>1
<1>12. BatchFromMart'
  <2>1. ASSUME NEW u \in DOMAIN batch
        PROVE  /\ u \in DOMAIN mart'
               /\ Past(batch[u].updated_at)'
               /\ batch[u].updated_at > wm
               /\ batch[u].version \in 1..mart'[u].version
               /\ batch[u] = mart'[u] \/ BumpedSince(u)'
    <3>1. u \in DOMAIN mart /\ batch[u].version \in Nat
      BY DEF SyncInv, TypeOK, MartRow, BatchFromMart
    <3>2. batch[u] = mart'[u] \/ BumpedSince(u)'
      BY <1>3, <1>9, <1>10, <3>1 DEF SyncInv, BatchFromMart
    <3>3. batch[u].version \in 1..mart'[u].version
      BY <1>11, <3>1 DEF SyncInv, BatchFromMart
    <3>4. Past(batch[u].updated_at)'
      BY <1>2, <1>6 DEF SyncInv, BatchFromMart
    <3>5. u \in DOMAIN mart' /\ batch[u].updated_at > wm
      BY <1>3, <3>1 DEF SyncInv, BatchFromMart
    <3>6. QED
      BY <3>2, <3>3, <3>4, <3>5
  <2>2. QED
    BY <1>2, <2>1 DEF BatchFromMart
<1>13. \A u \in DOMAIN mart \ writing : Current(u) => Current(u)'
  BY <1>2, <1>3 DEF Current
<1>14. BulkDone'
  <2>1. ASSUME pc = "indexed", NEW u \in DOMAIN batch
        PROVE  Current(u)' \/ why[u] # "" \/ BumpedSince(u)'
    <3>1. u \in DOMAIN mart
      BY DEF SyncInv, BatchFromMart
    <3>2. QED
      BY <1>9, <1>10, <1>13, <2>1, <3>1 DEF SyncInv, BulkDone
  <2>2. QED
    BY <1>2, <2>1 DEF BulkDone
<1>15. IndexFollowsMart'
  <2>1. \A u \in DOMAIN es : es[u] \in Nat
    BY DEF SyncInv, TypeOK
  <2>2. \A d \in late : d[2] \in Nat
    BY DEF SyncInv, TypeOK
  <2>3. QED
    BY <1>2, <1>3, <1>11, <2>1, <2>2 DEF SyncInv, IndexFollowsMart
<1>16. StaleDocsExplained'
  <2>1. ASSUME NEW u \in DOMAIN mart', mart'[u].updated_at <= wm
        PROVE  Current(u)' \/ why[u] # ""
    <3>1. u \notin writing
      BY <1>3, <1>5, <2>1
    <3>2. u \in DOMAIN mart \ writing /\ mart[u].updated_at <= wm
      BY <1>3, <2>1, <3>1
    <3>3. QED
      BY <1>13, <3>2 DEF SyncInv, StaleDocsExplained
  <2>2. QED
    BY <1>2, <2>1 DEF StaleDocsExplained
<1>17. QED
  BY <1>4, <1>7, <1>8, <1>12, <1>14, <1>15, <1>16 DEF SyncInv

-----------------------------------------------------------------------------
\* The task ends without a write: its batch is gone.
LEMMA EndTaskFacts == EndTask => DOMAIN batch' = {} /\ batch' \in [{} -> MartRow]
BY EmptyFunction DEF EndTask

LEMMA CrashInvariant == SyncInv /\ Crash => SyncInv'
<1> SUFFICES ASSUME SyncInv, Crash PROVE SyncInv'
  OBVIOUS
<1>1. UNCHANGED <<mart, passes, writing, wm, es, late, why>>
  BY DEF Crash, martVars
<1>2. pc' = "idle" /\ batch' = <<>> /\ DOMAIN batch' = {} /\ batch' \in [DOMAIN batch' -> MartRow]
  BY EndTaskFacts DEF Crash, EndTask
<1>3. TypeOK'
  BY <1>1, <1>2 DEF SyncInv, TypeOK
<1>4. RowsArePast' /\ WatermarkIsPast' /\ IndexFollowsMart' /\ StaleDocsExplained'
  BY <1>1 DEF SyncInv, RowsArePast, WatermarkIsPast, Past, IndexFollowsMart,
     StaleDocsExplained, Current
<1>5. BatchFromMart' /\ BulkDone'
  BY <1>2 DEF BatchFromMart, BulkDone
<1>6. QED
  BY <1>3, <1>4, <1>5 DEF SyncInv

\* The SELECT returns at least one row when there is one to return.
LEMMA FetchInvariant == SyncInv /\ Fetch => SyncInv'
<1> SUFFICES ASSUME SyncInv, Fetch PROVE SyncInv'
  OBVIOUS
<1>1. PICK B \in SUBSET Changed : IsFirst(B, Changed) /\ batch' = [u \in B |-> mart[u]]
  BY DEF Fetch
<1>2. UNCHANGED <<mart, passes, writing, wm, es, late, why>> /\ pc' = "fetched" /\ Changed # {}
  BY DEF Fetch, martVars, SomeRows
<1>3. DOMAIN batch' = B /\ \A u \in B : batch'[u] = mart[u]
  BY <1>1
<1>4. B # {}
  <2>1. SUFFICES ASSUME B = {} PROVE FALSE
    OBVIOUS
  <2>2. Cardinality(B) = BatchSize
    BY <1>1, <1>2, <2>1 DEF IsFirst
  <2>3. Cardinality(B) = 0
    BY <2>1, FS_EmptySet
  <2>4. QED
    BY <2>2, <2>3, SyncAssumption DEF SyncAssumption
<1>5. TypeOK'
  <2>1. batch' # <<>>
    BY <1>3, <1>4, EmptyFunction
  <2>2. DOMAIN batch' \subseteq Uids
    BY <1>3 DEF SyncInv, TypeOK, Changed
  <2>3. batch' \in [DOMAIN batch' -> MartRow]
    BY <1>1, <1>3 DEF SyncInv, TypeOK, Changed
  <2>4. QED
    BY <1>2, <2>1, <2>2, <2>3, Zenon DEF SyncInv, TypeOK
<1>6. RowsArePast' /\ WatermarkIsPast' /\ IndexFollowsMart' /\ StaleDocsExplained'
  BY <1>2 DEF SyncInv, RowsArePast, WatermarkIsPast, Past, IndexFollowsMart,
     StaleDocsExplained, Current
<1>7. BatchFromMart'
  <2>1. ASSUME NEW u \in B
        PROVE  /\ u \in DOMAIN mart /\ mart[u].updated_at > wm
               /\ Past(mart[u].updated_at) /\ mart[u].version \in 1..mart[u].version
    <3>1. u \in DOMAIN mart /\ mart[u].updated_at > wm
      BY DEF Changed
    <3>2. Past(mart[u].updated_at) /\ mart[u].version > 0 /\ mart[u].version \in Nat
      BY <3>1 DEF SyncInv, TypeOK, MartRow, RowsArePast
    <3>3. QED
      BY <3>1, <3>2
  <2>2. \A t : Past(t) => Past(t)'
    BY <1>2 DEF Past
  <2>3. QED
    BY <1>2, <1>3, <2>1, <2>2 DEF BatchFromMart
<1>8. BulkDone'
  BY <1>2 DEF BulkDone
<1>9. QED
  BY <1>5, <1>6, <1>7, <1>8 DEF SyncInv

-----------------------------------------------------------------------------
\* Documents written from the batch: each is a version its row has had.
LEMMA IndexedFacts ==
  ASSUME SyncInv, NEW D \in SUBSET DOMAIN batch, es' = Indexed(D), mart' = mart
  PROVE  /\ DOMAIN es' \subseteq Uids
         /\ es' \in [DOMAIN es' -> Nat]
         /\ \A u \in DOMAIN es' : u \in DOMAIN mart /\ es'[u] \in 1..mart[u].version
         /\ \A u \in D : Current(u)' \/ BumpedSince(u)
         /\ \A u : u \notin D /\ Current(u) => Current(u)'
<1>1. DOMAIN es' = DOMAIN es \cup D
  BY DEF Indexed
<1>2. \A u \in D : es'[u] = batch[u].version
  BY DEF Indexed
<1>3. \A u \in DOMAIN es \ D : es'[u] = es[u]
  BY DEF Indexed
<1>4. DOMAIN es' \subseteq Uids
  BY <1>1 DEF SyncInv, TypeOK
<1>5. \A u \in D : batch[u].version \in Nat
  BY DEF SyncInv, TypeOK, MartRow
<1>6. \A u \in DOMAIN es : es[u] \in Nat
  BY DEF SyncInv, TypeOK
<1>7. es' \in [DOMAIN es' -> Nat]
  BY <1>1, <1>2, <1>3, <1>5, <1>6 DEF Indexed
<1>8. \A u \in DOMAIN es' : u \in DOMAIN mart /\ es'[u] \in 1..mart[u].version
  BY <1>1, <1>2, <1>3 DEF SyncInv, BatchFromMart, IndexFollowsMart
<1>9. \A u \in D : Current(u)' \/ BumpedSince(u)
  BY <1>1, <1>2 DEF SyncInv, BatchFromMart, Current
<1>10. \A u : u \notin D /\ Current(u) => Current(u)'
  BY <1>1, <1>3 DEF Current
<1>11. QED
  BY <1>4, <1>7, <1>8, <1>9, <1>10

\* A row of the batch has not been passed by the watermark.
LEMMA BatchIsNew == SyncInv => \A u \in DOMAIN batch : mart[u].updated_at > wm
<1> SUFFICES ASSUME SyncInv, NEW u \in DOMAIN batch PROVE mart[u].updated_at > wm
  OBVIOUS
<1>1. u \in DOMAIN mart /\ batch[u].updated_at > wm
  BY DEF SyncInv, BatchFromMart
<1>2. wm \in Nat /\ batch[u].updated_at \in Nat /\ mart[u].updated_at \in Nat
  BY <1>1 DEF SyncInv, TypeOK, MartRow
<1>3. CASE batch[u] = mart[u]
  BY <1>1, <1>3
<1>4. CASE BumpedSince(u)
  BY <1>1, <1>2, <1>4 DEF BumpedSince
<1>5. QED
  BY <1>3, <1>4 DEF SyncInv, BatchFromMart

LEMMA BulkIndexInvariant == SyncInv /\ BulkIndex => SyncInv'
<1> SUFFICES ASSUME SyncInv, BulkIndex PROVE SyncInv'
  OBVIOUS
<1>1. PICK refused \in SUBSET DOMAIN batch :
        /\ es' = Indexed(DOMAIN batch \ refused)
        /\ why' = [u \in Uids |-> IF u \in refused THEN "refused"
                                  ELSE IF u \in DOMAIN batch THEN "" ELSE why[u]]
  BY DEF BulkIndex
<1>2. UNCHANGED <<mart, passes, writing, wm, batch, late>> /\ pc = "fetched" /\ pc' = "indexed"
  BY DEF BulkIndex, martVars
<1> DEFINE D == DOMAIN batch \ refused
<1>3. /\ DOMAIN es' \subseteq Uids
      /\ es' \in [DOMAIN es' -> Nat]
      /\ \A u \in DOMAIN es' : u \in DOMAIN mart /\ es'[u] \in 1..mart[u].version
      /\ \A u \in D : Current(u)' \/ BumpedSince(u)
      /\ \A u : u \notin D /\ Current(u) => Current(u)'
  BY <1>1, <1>2, IndexedFacts
<1>4. DOMAIN mart \subseteq Uids /\ DOMAIN batch \subseteq DOMAIN mart
  BY DEF SyncInv, TypeOK, BatchFromMart
<1>5. why' \in [Uids -> {"", "cut", "refused", "overwritten"}]
  BY <1>1 DEF SyncInv, TypeOK
<1>6. TypeOK'
  <2>1. batch # <<>>
    BY <1>2 DEF SyncInv, TypeOK
  <2>2. QED
    BY <1>2, <1>3, <1>5, <2>1, Zenon DEF SyncInv, TypeOK
<1>7. \A t : Past(t) => Past(t)'
  BY <1>2 DEF Past
<1>8. RowsArePast' /\ WatermarkIsPast' /\ BatchFromMart'
  BY <1>2, <1>7 DEF SyncInv, RowsArePast, WatermarkIsPast, BatchFromMart, BumpedSince
<1>9. BulkDone'
  <2>1. ASSUME NEW u \in DOMAIN batch
        PROVE  Current(u)' \/ why'[u] # "" \/ BumpedSince(u)
    <3>1. CASE u \in refused
      BY <1>1, <1>4, <3>1
    <3>2. CASE u \in D
      BY <1>3, <3>2
    <3>3. QED
      BY <3>1, <3>2
  <2>2. \A u : BumpedSince(u)' <=> BumpedSince(u)
    BY <1>2 DEF BumpedSince
  <2>3. QED
    BY <1>2, <2>1, <2>2 DEF BulkDone
<1>10. IndexFollowsMart'
  BY <1>2, <1>3 DEF SyncInv, IndexFollowsMart
<1>11. StaleDocsExplained'
  <2>1. ASSUME NEW u \in DOMAIN mart, mart[u].updated_at <= wm
        PROVE  Current(u)' \/ why'[u] # ""
    <3>1. mart[u].updated_at \in Nat /\ wm \in Nat
      BY DEF SyncInv, TypeOK, MartRow
    <3>2. u \notin DOMAIN batch
      BY <2>1, <3>1, BatchIsNew
    <3>3. why'[u] = why[u]
      BY <1>1, <1>4, <3>2
    <3>4. Current(u) \/ why[u] # ""
      BY <2>1 DEF SyncInv, StaleDocsExplained
    <3>5. QED
      BY <1>3, <3>2, <3>3, <3>4
  <2>2. QED
    BY <1>2, <2>1 DEF StaleDocsExplained
<1>12. QED
  BY <1>6, <1>8, <1>9, <1>10, <1>11 DEF SyncInv

LEMMA BulkRaisesInvariant == SyncInv /\ BulkRaises => SyncInv'
<1> SUFFICES ASSUME SyncInv, BulkRaises PROVE SyncInv'
  OBVIOUS
<1>1. PICK D \in SUBSET DOMAIN batch, L \in SUBSET DOMAIN batch :
        /\ es' = Indexed(D)
        /\ late' = late \cup {<<u, batch[u].version>> : u \in L}
        /\ why' = [u \in Uids |-> IF u \in D THEN "" ELSE why[u]]
  BY DEF BulkRaises
<1>2. UNCHANGED <<mart, passes, writing, wm>>
  BY DEF BulkRaises, martVars
<1>3. pc' = "idle" /\ batch' = <<>> /\ DOMAIN batch' = {} /\ batch' \in [DOMAIN batch' -> MartRow]
  BY EndTaskFacts DEF BulkRaises, EndTask
<1>4. /\ DOMAIN es' \subseteq Uids
      /\ es' \in [DOMAIN es' -> Nat]
      /\ \A u \in DOMAIN es' : u \in DOMAIN mart /\ es'[u] \in 1..mart[u].version
      /\ \A u : u \notin D /\ Current(u) => Current(u)'
  BY <1>1, <1>2, IndexedFacts
<1>5. \A u \in L : /\ u \in Uids /\ batch[u].version \in Nat
                   /\ u \in DOMAIN mart /\ batch[u].version \in 1..mart[u].version
  BY DEF SyncInv, TypeOK, MartRow, BatchFromMart
<1>6. late' \subseteq Uids \X Nat
  <2>1. late \subseteq Uids \X Nat
    BY DEF SyncInv, TypeOK
  <2>2. \A u \in L : <<u, batch[u].version>> \in Uids \X Nat
    BY <1>5
  <2>3. QED
    BY <1>1, <2>1, <2>2
<1>7. why' \in [Uids -> {"", "cut", "refused", "overwritten"}]
  BY <1>1 DEF SyncInv, TypeOK
<1>8. TypeOK'
  BY <1>2, <1>3, <1>4, <1>6, <1>7, Zenon DEF SyncInv, TypeOK
<1>9. RowsArePast' /\ WatermarkIsPast'
  BY <1>2 DEF SyncInv, RowsArePast, WatermarkIsPast, Past
<1>10. BatchFromMart' /\ BulkDone'
  BY <1>3 DEF BatchFromMart, BulkDone
<1>11. IndexFollowsMart'
  <2>1. ASSUME NEW d \in late' PROVE d[1] \in DOMAIN mart /\ d[2] \in 1..mart[d[1]].version
    <3>1. CASE d \in late
      BY <3>1 DEF SyncInv, IndexFollowsMart
    <3>2. CASE \E u \in L : d = <<u, batch[u].version>>
      BY <1>5, <3>2
    <3>3. QED
      BY <1>1, <3>1, <3>2
  <2>2. QED
    BY <1>2, <1>4, <2>1 DEF IndexFollowsMart
<1>12. StaleDocsExplained'
  <2>1. ASSUME NEW u \in DOMAIN mart, mart[u].updated_at <= wm
        PROVE  Current(u)' \/ why'[u] # ""
    <3>1. mart[u].updated_at \in Nat /\ wm \in Nat /\ u \in Uids
      BY DEF SyncInv, TypeOK, MartRow
    <3>2. u \notin D
      BY <2>1, <3>1, BatchIsNew
    <3>3. why'[u] = why[u]
      BY <1>1, <3>1, <3>2
    <3>4. Current(u) \/ why[u] # ""
      BY <2>1 DEF SyncInv, StaleDocsExplained
    <3>5. QED
      BY <1>4, <3>2, <3>3, <3>4
  <2>2. QED
    BY <1>2, <2>1 DEF StaleDocsExplained
<1>13. QED
  BY <1>8, <1>9, <1>10, <1>11, <1>12 DEF SyncInv

\* A forgotten request brings a document to a version its row has had: a document that
\* was current and no longer is was overwritten by an older one.
LEMMA LateWriteInvariant == SyncInv /\ LateWrite => SyncInv'
<1> SUFFICES ASSUME SyncInv, LateWrite PROVE SyncInv'
  OBVIOUS
<1>1. PICK d \in late :
        /\ late' = late \ {d}
        /\ es' = [u \in DOMAIN es \cup {d[1]} |-> IF u = d[1] THEN d[2] ELSE es[u]]
        /\ why' = IF d[1] \in DOMAIN es /\ es[d[1]] > d[2]
                    THEN [why EXCEPT ![d[1]] = "overwritten"]
                    ELSE why
  BY DEF LateWrite
<1>2. UNCHANGED <<mart, passes, writing, wm, pc, batch>>
  BY DEF LateWrite, martVars
<1>3. d[1] \in Uids /\ d[2] \in Nat /\ d[1] \in DOMAIN mart /\ d[2] \in 1..mart[d[1]].version
  BY DEF SyncInv, TypeOK, IndexFollowsMart
<1>4. /\ DOMAIN es' = DOMAIN es \cup {d[1]}
      /\ es'[d[1]] = d[2]
      /\ \A u \in DOMAIN es : u # d[1] => es'[u] = es[u]
  BY <1>1
<1>5. \A u \in DOMAIN es : es[u] \in Nat /\ u \in DOMAIN mart /\ es[u] \in 1..mart[u].version
  BY DEF SyncInv, TypeOK, IndexFollowsMart
<1>6. es' \in [DOMAIN es' -> Nat]
  BY <1>1, <1>3, <1>4, <1>5
<1>7. why' \in [Uids -> {"", "cut", "refused", "overwritten"}]
  BY <1>1 DEF SyncInv, TypeOK
<1>8. TypeOK'
  <2>1. DOMAIN es' \subseteq Uids /\ late' \subseteq Uids \X Nat
    BY <1>1, <1>3, <1>4 DEF SyncInv, TypeOK
  <2>2. QED
    BY <1>2, <1>6, <1>7, <2>1, Zenon DEF SyncInv, TypeOK
<1>9. RowsArePast' /\ WatermarkIsPast' /\ BatchFromMart'
  BY <1>2 DEF SyncInv, RowsArePast, WatermarkIsPast, Past, BatchFromMart, BumpedSince
<1>10. ASSUME NEW u \in DOMAIN mart, Current(u) \/ why[u] # ""
       PROVE  Current(u)' \/ why'[u] # ""
  <2>1. why \in [Uids -> {"", "cut", "refused", "overwritten"}] /\ u \in Uids /\ mart[u].version \in Nat
    BY DEF SyncInv, TypeOK, MartRow
  <2>2. CASE u # d[1]
    <3>1. why'[u] = why[u]
      BY <1>1, <2>1, <2>2
    <3>2. Current(u) => Current(u)'
      BY <1>2, <1>4, <2>2 DEF Current
    <3>3. QED
      BY <1>10, <3>1, <3>2
  <2>3. CASE u = d[1] /\ d[1] \in DOMAIN es /\ es[d[1]] > d[2]
    BY <1>1, <2>1, <2>3
  <2>4. CASE u = d[1] /\ ~(d[1] \in DOMAIN es /\ es[d[1]] > d[2])
    <3>1. why' = why
      BY <1>1, <2>4
    <3>2. ASSUME Current(u) PROVE Current(u)'
      <4>1. u \in DOMAIN es /\ es[u] = mart[u].version
        BY <3>2 DEF Current
      <4>2. d[2] = mart[u].version
        <5>1. mart[u].version \in Nat
          BY <2>1
        <5>2. d[2] \in Nat /\ d[2] \in 1..mart[u].version
          BY <1>3, <2>4
        <5>3. ~(mart[u].version > d[2])
          BY <2>4, <4>1
        <5>4. QED
          BY <5>1, <5>2, <5>3
      <4>3. QED
        BY <1>2, <1>4, <2>4, <4>2 DEF Current
    <3>3. QED
      BY <1>10, <3>1, <3>2
  <2>5. QED
    BY <2>2, <2>3, <2>4
<1>11. BulkDone'
  <2>1. \A u : BumpedSince(u)' <=> BumpedSince(u)
    BY <1>2 DEF BumpedSince
  <2>2. DOMAIN batch \subseteq DOMAIN mart
    BY DEF SyncInv, BatchFromMart
  <2>3. QED
    BY <1>2, <1>10, <2>1, <2>2 DEF SyncInv, BulkDone
<1>12. IndexFollowsMart'
  BY <1>1, <1>2, <1>3, <1>4, <1>5 DEF SyncInv, IndexFollowsMart
<1>13. StaleDocsExplained'
  BY <1>2, <1>10 DEF SyncInv, StaleDocsExplained
<1>14. QED
  BY <1>8, <1>9, <1>11, <1>12, <1>13 DEF SyncInv

-----------------------------------------------------------------------------
\* The new watermark is the time of a row of the batch, and of none before another.
LEMMA NewWatermarkFacts ==
  ASSUME SyncInv, DOMAIN batch # {}
  PROVE  /\ \E v \in DOMAIN batch : NewWatermark = batch[v].updated_at
         /\ \A v \in DOMAIN batch : batch[v].updated_at <= NewWatermark
<1> DEFINE T == {batch[u].updated_at : u \in DOMAIN batch}
<1>1. \A u \in DOMAIN batch : batch[u].updated_at \in Nat /\ batch[u].updated_at <= passes
  BY DEF SyncInv, TypeOK, MartRow, BatchFromMart, Past
<1>2. T \in SUBSET Nat /\ T # {} /\ passes \in Nat /\ \A n \in T : n <= passes
  BY <1>1 DEF SyncInv, TypeOK
<1>3. \E m \in T : \A n \in T : m >= n
  <2> HIDE DEF T
  <2> QED
    BY <1>2, GreatestNat
<1>4. NewWatermark \in T /\ \A n \in T : NewWatermark >= n
  BY <1>3 DEF NewWatermark, Max
<1>5. QED
  BY <1>1, <1>2, <1>4

\* The watermark passes the rows of the batch, and rows the LIMIT cut off: a row bumped
\* since the SELECT stays ahead of it.
LEMMA SetWatermarkInvariant == SyncInv /\ SetWatermark => SyncInv'
<1> SUFFICES ASSUME SyncInv, SetWatermark PROVE SyncInv'
  OBVIOUS
<1>1. /\ wm' = NewWatermark
      /\ why' = [u \in Uids |-> IF u \in Changed \ DOMAIN batch /\ mart[u].updated_at <= wm'
                                  THEN "cut" ELSE why[u]]
  BY DEF SetWatermark
<1>2. UNCHANGED <<mart, passes, writing, es, late>> /\ pc = "indexed"
  BY DEF SetWatermark, martVars
<1>3. pc' = "idle" /\ batch' = <<>> /\ DOMAIN batch' = {} /\ batch' \in [DOMAIN batch' -> MartRow]
  BY EndTaskFacts DEF SetWatermark, EndTask
<1>4. DOMAIN batch # {}
  <2>1. batch # <<>> /\ batch \in [DOMAIN batch -> MartRow]
    BY <1>2 DEF SyncInv, TypeOK
  <2>2. DOMAIN batch = {} => batch = <<>>
    BY <2>1, EmptyFunction
  <2>3. QED
    BY <2>1, <2>2
<1>5. PICK v \in DOMAIN batch : wm' = batch[v].updated_at
  BY <1>1, <1>4, NewWatermarkFacts
<1>6. wm' \in Nat /\ Past(wm')
  BY <1>5 DEF SyncInv, TypeOK, MartRow, BatchFromMart
<1>7. why' \in [Uids -> {"", "cut", "refused", "overwritten"}]
  BY <1>1 DEF SyncInv, TypeOK
<1>8. TypeOK'
  BY <1>2, <1>3, <1>6, <1>7, Zenon DEF SyncInv, TypeOK
<1>9. RowsArePast' /\ IndexFollowsMart'
  BY <1>2 DEF SyncInv, RowsArePast, Past, IndexFollowsMart
<1>10. WatermarkIsPast'
  BY <1>2, <1>6 DEF WatermarkIsPast, Past
<1>11. BatchFromMart' /\ BulkDone'
  BY <1>3 DEF BatchFromMart, BulkDone
<1>12. StaleDocsExplained'
  <2>1. ASSUME NEW u \in DOMAIN mart, mart[u].updated_at <= wm'
        PROVE  Current(u) \/ why'[u] # ""
    <3>1. u \in Uids /\ mart[u].updated_at \in Nat /\ wm \in Nat
      BY DEF SyncInv, TypeOK, MartRow
    <3>2. why[u] # "" => why'[u] # ""
      BY <1>1, <3>1
    <3>3. CASE u \in DOMAIN batch
      <4>1. ~BumpedSince(u)
        BY <1>5, <1>6, <2>1, <3>1 DEF BumpedSince
      <4>2. QED
        BY <1>2, <3>2, <3>3, <4>1 DEF SyncInv, BulkDone
    <3>4. CASE u \notin DOMAIN batch /\ mart[u].updated_at > wm
      BY <1>1, <2>1, <3>1, <3>4 DEF Changed
    <3>5. CASE mart[u].updated_at <= wm
      BY <3>2, <3>5 DEF SyncInv, StaleDocsExplained
    <3>6. mart[u].updated_at > wm \/ mart[u].updated_at <= wm
      BY <3>1
    <3>7. QED
      BY <3>3, <3>4, <3>5, <3>6, Zenon
  <2>2. \A u : Current(u)' <=> Current(u)
    BY <1>2 DEF Current
  <2>3. QED
    BY <1>2, <2>1, <2>2 DEF StaleDocsExplained
<1>13. QED
  BY <1>8, <1>9, <1>10, <1>11, <1>12 DEF SyncInv

-----------------------------------------------------------------------------
LEMMA StutterInvariant == SyncInv /\ UNCHANGED vars => SyncInv'
<1> SUFFICES ASSUME SyncInv, UNCHANGED vars PROVE SyncInv'
  OBVIOUS
<1>1. UNCHANGED <<mart, passes, writing, wm, pc, batch, es, late, why>>
  BY DEF vars
<1>2. TypeOK'
  BY <1>1 DEF SyncInv, TypeOK
<1>3. RowsArePast' /\ WatermarkIsPast' /\ BatchFromMart' /\ BulkDone'
  BY <1>1 DEF SyncInv, RowsArePast, WatermarkIsPast, Past, BatchFromMart, BulkDone,
     BumpedSince, Current
<1>4. IndexFollowsMart' /\ StaleDocsExplained'
  BY <1>1 DEF SyncInv, IndexFollowsMart, StaleDocsExplained, Current
<1>5. QED
  BY <1>2, <1>3, <1>4 DEF SyncInv

LEMMA NextInvariant == SyncInv /\ [Next]_vars => SyncInv'
BY BeginPassInvariant, CommitPassInvariant, AbortPassInvariant, FetchInvariant,
   BulkIndexInvariant, BulkRaisesInvariant, LateWriteInvariant, SetWatermarkInvariant,
   CrashInvariant, StutterInvariant DEF Next

\* SyncInv holds in every reachable state.
THEOREM Invariance == Spec => []SyncInv
BY InitInvariant, NextInvariant, PTL DEF Spec

\* The task has a batch, of typed rows, exactly while it is not idle.
THEOREM TypeCorrect == Spec => []TypeOK
<1>1. SyncInv => TypeOK
  BY DEF SyncInv
<1>2. QED
  BY <1>1, Invariance, PTL

\* Documents, and the document writes of failed requests that may still be applied, are
\* versions their rows have had: a crash, a refused document or a forgotten request never
\* puts the index ahead of the table.
THEOREM IndexBehindMart == Spec => []IndexFollowsMart
<1>1. SyncInv => IndexFollowsMart
  BY DEF SyncInv
<1>2. QED
  BY <1>1, Invariance, PTL

\* A stale document behind the watermark was refused by Elasticsearch, cut off by the
\* LIMIT or overwritten by a forgotten request: these are the only ways to lose a row.
THEOREM StalenessExplained == Spec => []StaleDocsExplained
<1>1. SyncInv => StaleDocsExplained
  BY DEF SyncInv
<1>2. QED
  BY <1>1, Invariance, PTL
-----------------------------------------------------------------------------
(* Progress for any number of passes, as far as a step can tell: while u is  *)
(* not bumped nothing joins the rows the task has to take before it passes   *)
(* u, and every batch moves the watermark up.                                *)

\* The rows the watermark has not passed, from the oldest to u.
Ahead(u) == {v \in DOMAIN mart : mart[v].updated_at \in (wm + 1)..mart[u].updated_at}

Bumped(u) == mart'[u].updated_at # mart[u].updated_at

LEMMA WatermarkRises == SyncInv /\ SetWatermark => wm' > wm
<1> SUFFICES ASSUME SyncInv, SetWatermark PROVE wm' > wm
  OBVIOUS
<1>1. wm' = NewWatermark /\ pc = "indexed"
  BY DEF SetWatermark
<1>2. DOMAIN batch # {}
  <2>1. batch # <<>> /\ batch \in [DOMAIN batch -> MartRow]
    BY <1>1 DEF SyncInv, TypeOK
  <2>2. DOMAIN batch = {} => batch = <<>>
    BY <2>1, EmptyFunction
  <2>3. QED
    BY <2>1, <2>2
<1>3. PICK v \in DOMAIN batch : wm' = batch[v].updated_at
  BY <1>1, <1>2, NewWatermarkFacts
<1>4. QED
  BY <1>3 DEF SyncInv, BatchFromMart

LEMMA CommitJoinsBehind ==
  ASSUME SyncInv, CommitPass, NEW u \in DOMAIN mart, ~Bumped(u)
  PROVE  Ahead(u)' \subseteq Ahead(u)
<1>1. PICK changed \in SUBSET (writing \cap DOMAIN mart) : mart' = Upserted(changed)
  BY DEF CommitPass
<1>2. wm' = wm /\ writing # {}
  BY DEF CommitPass
<1>3. /\ DOMAIN mart' = DOMAIN mart \cup writing
      /\ \A v \in writing : mart'[v].updated_at = passes
      /\ \A v \in DOMAIN mart \ writing : mart'[v] = mart[v]
  BY <1>1, <1>2, UpsertedFacts
<1>4. mart[u].updated_at \in Nat /\ passes \in Nat /\ mart[u].updated_at < passes /\ wm \in Nat
  BY <1>2 DEF SyncInv, TypeOK, MartRow, RowsArePast, Past
<1>5. ASSUME NEW v \in DOMAIN mart', mart'[v].updated_at \in (wm + 1)..mart[u].updated_at
      PROVE  v \in DOMAIN mart \ writing
  BY <1>3, <1>4, <1>5
<1>6. mart'[u].updated_at = mart[u].updated_at
  BY DEF Bumped
<1>7. QED
  BY <1>2, <1>3, <1>5, <1>6 DEF Ahead

\* A pass of dedupe, however many there are and whenever it commits, puts no row in front
\* of one it does not bump (passes run one at a time and NOW() is that of their begin), and
\* a batch never leaves the watermark where it was: a row that is no longer bumped is
\* passed after finitely many batches (sync_es_dag.py:58-85, db.py:202).
THEOREM NoOvertaking ==
  Spec => [][/\ \A u \in DOMAIN mart : ~Bumped(u) => Ahead(u)' \subseteq Ahead(u)
             /\ SetWatermark => wm' > wm]_vars
<1> DEFINE Step == /\ \A u \in DOMAIN mart : ~Bumped(u) => Ahead(u)' \subseteq Ahead(u)
                   /\ SetWatermark => wm' > wm
<1>1. SyncInv /\ [Next]_vars => [Step]_vars
  <2> SUFFICES ASSUME SyncInv, Next PROVE Step
    OBVIOUS
  <2>1. SetWatermark => wm' > wm
    BY WatermarkRises
  <2>2. ASSUME NEW u \in DOMAIN mart, ~Bumped(u) PROVE Ahead(u)' \subseteq Ahead(u)
    <3>1. CASE CommitPass
      BY <2>2, <3>1, CommitJoinsBehind
    <3>2. CASE SetWatermark
      <4>1. mart' = mart /\ wm' > wm
        BY <2>1, <3>2 DEF SetWatermark, martVars
      <4>2. wm \in Nat /\ wm' \in Nat /\ \A v \in DOMAIN mart : mart[v].updated_at \in Nat
        <5>1. SyncInv'
          BY <3>2, NextInvariant, <2>2 DEF Next
        <5>2. QED
          BY <5>1 DEF SyncInv, TypeOK, MartRow
      <4>3. QED
        BY <4>1, <4>2 DEF Ahead
    <3>3. CASE UNCHANGED <<mart, wm>>
      BY <3>3 DEF Ahead
    <3>4. QED
      BY <3>1, <3>2, <3>3 DEF Next, BeginPass, AbortPass, Fetch, BulkIndex, BulkRaises,
         LateWrite, Crash, martVars
  <2>3. QED
    BY <2>1, <2>2
<1>2. QED
  BY <1>1, Invariance, PTL DEF Spec
=============================================================================
