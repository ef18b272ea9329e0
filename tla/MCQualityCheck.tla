--------------------------- MODULE MCQualityCheck ---------------------------
(* A small instance of QualityCheck. *)
EXTENDS QualityCheck, TLC

CONSTANTS e1, e2

\* Two events: e2 may be anything.
Reported2 ==
  e1 :> {[coords |-> TRUE, time |-> "valid"]} @@
  e2 :> {[coords |-> TRUE, time |-> "valid"], [coords |-> FALSE, time |-> "valid"],
         [coords |-> TRUE, time |-> "absent"]}
=============================================================================
