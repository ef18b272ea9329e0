---------------------------- MODULE MCHarmonize ----------------------------
(* Small instances of Harmonize. *)
EXTENDS Harmonize, TLC

CONSTANTS e1, e2, e3

ok == [coords |-> TRUE, time |-> "valid"]
noCoords == [coords |-> FALSE, time |-> "valid"]
noTime == [coords |-> TRUE, time |-> "absent"]

\* Three events: e1 is usable, e2 never is, e3 may lack its time.
Reported3 == e1 :> {ok} @@ e2 :> {noCoords} @@ e3 :> {ok, noTime}

\* Two events: e2 may be anything.
Reported2 == e1 :> {ok} @@ e2 :> {ok, noCoords, noTime}
=============================================================================
