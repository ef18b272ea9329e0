---------------------------- MODULE MCRawWriters ----------------------------
(* A small instance of RawWriters.  One payload per event: received_at, which *)
(* differs between transactions, shows who was seen first.                   *)
EXTENDS RawWriters, TLC

CONSTANTS e1, e2

MCReported == e1 :> {"p1"} @@ e2 :> {"p2"}
=============================================================================
