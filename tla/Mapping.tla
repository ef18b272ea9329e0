------------------------------- MODULE Mapping -------------------------------
(***************************************************************************)
(* common/mapping.py: the per-source mappers from a raw payload to a row   *)
(* of harmonized.events.  A payload is abstracted to the two things that   *)
(* decide its fate: whether latitude and longitude are numbers, and what   *)
(* its time field holds.  Every other field is optional.                   *)
(***************************************************************************)
Sources == {"AFAD", "KOERI", "EMSC", "USGS"}

\* _f(latitude) and _f(longitude) are not None; what the time field holds.
Payload == [coords : BOOLEAN, time : {"absent", "garbled", "valid"}]

\* The mapper returns None: no coordinates; KOERI alone also checks its time.
MapsToNone(source, payload) ==
  \/ ~payload.coords
  \/ source = "KOERI" /\ payload.time # "valid"

\* event_time of the row a mapper returns: AFAD and USGS turn a time they
\* cannot read into None, EMSC passes the field on as it is.
EventTime(source, payload) ==
  CASE payload.time = "valid" -> "timestamp"
    [] payload.time = "absent" -> "null"
    [] payload.time = "garbled" -> IF source = "EMSC" THEN "text" ELSE "null"

\* What harmonized.events takes: event_time TIMESTAMPTZ NOT NULL, so a NULL or
\* a text that is not a timestamp raises and aborts the transaction.
Accepted(source, payload) == EventTime(source, payload) = "timestamp"

\* A payload whose mapped row the database refuses.
Poisonous(source, payload) ==
  ~MapsToNone(source, payload) /\ ~Accepted(source, payload)
=============================================================================
