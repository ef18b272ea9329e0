---------------------------- MODULE QualityCheck ----------------------------
(***************************************************************************)
(* The task no_orphan_harmonized of dags/quality_check_dag.py, beside the  *)
(* writers of a raw table and its harmonize task: it counts the raw rows,  *)
(* then the harmonized rows in a second transaction, and fails if there    *)
(* are more of these.  The other two tasks of the DAG read once and log.   *)
(***************************************************************************)
EXTENDS Harmonize

VARIABLE rawTotal   \* {raw_total} while the task is between its two counts, else {}

checkedVars == <<vars, rawTotal>>

CheckedInit == Init /\ rawTotal = {}

CountRaw ==
  /\ rawTotal = {}
  /\ rawTotal' = {Cardinality(DOMAIN raw)}
  /\ UNCHANGED vars

\* Mutant: equal counts are a failure, too.
NotLess == \E n \in rawTotal : Cardinality(DOMAIN harm) >= n

\* int(harm_total) > int(raw_total)
MoreHarmonized == \E n \in rawTotal : Cardinality(DOMAIN harm) > n

CheckPasses ==
  /\ rawTotal # {}
  /\ ~MoreHarmonized
  /\ rawTotal' = {}
  /\ UNCHANGED vars

\* raise AssertionError: the task is red, and is run again.
CheckFails ==
  /\ rawTotal # {}
  /\ MoreHarmonized
  /\ rawTotal' = {}
  /\ UNCHANGED vars

\* The worker dies between the counts.
CheckCrash == rawTotal # {} /\ rawTotal' = {} /\ UNCHANGED vars

CheckedNext ==
  \/ Next /\ UNCHANGED rawTotal
  \/ CountRaw \/ CheckPasses \/ CheckFails \/ CheckCrash

CheckedSpec == CheckedInit /\ [][CheckedNext]_checkedVars

\* The fairness of harmonize; the checks take no part in it.
CheckedFairSpec == CheckedSpec /\ Fairness

-----------------------------------------------------------------------------
(* Properties. *)

\* quality_check_dag.py:57-74: a failed check tells of rows ingested between its
\* two counts, never of a row harmonized out of nothing.  (Its message blames the
\* harmonize DAG.)
FailsOnlyByGrowth == [][CheckFails => \A n \in rawTotal : Cardinality(DOMAIN raw) > n]_checkedVars
=============================================================================
