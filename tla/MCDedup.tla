------------------------------ MODULE MCDedup ------------------------------
(* A small instance of Dedup: times around twice the window, places on both *)
(* sides of the distance window and beyond twice of it.                     *)
EXTENDS Dedup

MCReports ==
  {[time |-> t, place |-> p, source |-> x[1], magnitude |-> x[2]] :
     t \in 0..4, p \in {0, 1, 3},
     x \in {<<"AFAD", 3>>, <<"KOERI", NoMag>>, <<"USGS", 5>>}}
=============================================================================
