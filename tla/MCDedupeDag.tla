----------------------------- MODULE MCDedupeDag -----------------------------
(* A small instance of DedupeDag: a quake reported by three agencies, two of *)
(* them at the same time, and by one of them again; later two quakes of      *)
(* different magnitude at one place, in one time bucket.                     *)
EXTENDS DedupeDag

Report(t, p, m, s) == [time |-> t, place |-> p, magnitude |-> m, source |-> s]

MCReports ==
  {Report(1, 0, 3, "KOERI"), Report(1, 1, 4, "USGS"), Report(2, 1, NoMag, "AFAD"),
   Report(3, 1, 3, "KOERI"), Report(4, 0, 7, "EMSC"), Report(5, 0, 3, "KOERI")}
=============================================================================
