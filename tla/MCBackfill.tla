----------------------------- MODULE MCBackfill -----------------------------
(* A small instance of Backfill: a window of two days, AFAD's chunks of one  *)
(* day, an event on the border of the chunks and one at the end.  The second *)
(* version of the parsers gives another payload, overlooks e1 in one body    *)
(* and raises on the other.                                                  *)
EXTENDS Backfill, TLC

CONSTANTS e1, e2

ReportedTwo == e1 :> {"p1", "p2"} @@ e2 :> {"p1", "p2"}
OriginTwoDays == e1 :> 1 @@ e2 :> 2
Old == "one" :> (e1 :> "p1") @@ "both" :> (e1 :> "p1" @@ e2 :> "p1") @@ "none" :> <<>>
New == "both" :> (e2 :> "p2") @@ "none" :> <<>>
ParserOf == "old" :> Old @@ "new" :> New
ReplayParserOf == "old" :> Old @@ "new" :> ("one" :> (e1 :> "p2") @@ "both" :> (e2 :> "p2"))
=============================================================================
