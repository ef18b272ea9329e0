------------------------------ MODULE Backfill ------------------------------
(***************************************************************************)
(* The backfill container (src/backfill/ingest.py) at work on the raw      *)
(* table of one source, beside live_ingest and NiFi.  In historical mode   *)
(* it fetches, archives and upserts chunk by chunk of its window; in       *)
(* replay mode it parses the archived blobs again, with the parser shipped *)
(* by then, and upserts what that finds.  Its upserts are those of         *)
(* RawTable; this module adds the archive, the parsers and the loop, with  *)
(* what the failure of each call does to the loop.                         *)
(***************************************************************************)
EXTENDS RawTable

CONSTANTS
  Source,      \* the source whose turn it is
  Container,   \* the writer that is the container
  Origin,      \* Origin[e]: when e happened, in days from the start of the window
  Days,        \* DAYS, the length of the window
  Responses,   \* the bodies an agency may answer with
  Versions,    \* the versions of common/sources.py that may be shipped
  FetchParser, \* FetchParser[v][b]: the records fetch_<source> of v finds in body b
  ReplayParser \* ReplayParser[v][b]: those parse_<source>_bytes of v finds in it

\* The records of one body: some events, each with a payload.
Records == UNION {[S -> Payloads] : S \in SUBSET Events}

\* A parser raises on the bodies outside its domain; nothing more is known of it, nor of
\* how the two parsers of a version, or two versions, are related.
IsParser(p) == DOMAIN p \subseteq Responses /\ p \in [DOMAIN p -> Records]

\* What the theorems assume of them; an instance for TLC is in MCBackfill.
BackfillAssumption ==
  /\ Container \in PythonWriters
  /\ Days \in Nat \ {0}
  /\ \A v \in Versions : IsParser(FetchParser[v]) /\ IsParser(ReplayParser[v])

VARIABLES
  blobs,   \* MinIO: the body archived under each uri
  version, \* the version w's process runs, or its next one will
  mode,    \* "off" while no container runs, else MODE
  cursor,  \* of daterange_days
  keys,    \* replay: the listed blobs still to be read
  hand,    \* hand[w]: {[uri, rows]} of the blob w works on and its records, or {}
  owed     \* history: blobs whose records this run must have stored at its end

loopVars == <<mode, cursor, keys, owed>>
vars == <<rawVars, blobs, version, hand, loopVars>>

TypeOK ==
  /\ RawTypeOK
  /\ DOMAIN blobs \subseteq Uris
  /\ blobs \in [DOMAIN blobs -> Responses]
  /\ version \in [PythonWriters -> Versions]
  /\ mode \in {"off", "historical", "replay"}
  /\ cursor \in 0..Days
  /\ keys \subseteq DOMAIN blobs
  /\ hand \in [PythonWriters -> {{}} \cup {{h} : h \in [uri : DOMAIN blobs, rows : Records]}]
  /\ owed \subseteq DOMAIN blobs

Init ==
  /\ RawInit
  /\ blobs = <<>>
  /\ version \in [PythonWriters -> Versions]
  /\ mode = "off"
  /\ cursor = 0
  /\ keys = {}
  /\ hand = [w \in PythonWriters |-> {}]
  /\ owed = {}

-----------------------------------------------------------------------------
(* What live_ingest and the container have in common: a response is parsed    *)
(* and archived under a new key (archive_key ends in a random uuid), then     *)
(* upserted.                                                                  *)
Take(w, u, rows) == hand' = [hand EXCEPT ![w] = {[uri |-> u, rows |-> rows]}]
LetGo(w) == hand' = [hand EXCEPT ![w] = {}]

\* The fetch raises, and archives nothing, when the parser does.
Archive(w, u, body) ==
  /\ u \notin DOMAIN blobs
  /\ body \in DOMAIN FetchParser[version[w]]
  /\ blobs' = [v \in DOMAIN blobs \cup {u} |-> IF v = u THEN body ELSE blobs[v]]
  /\ Take(w, u, FetchParser[version[w]][body])
  /\ UNCHANGED <<rawVars, version>>

\* upsert_raw without records returns before it connects.
NothingToWrite(w) ==
  /\ \E h \in hand[w] : DOMAIN h.rows = {}
  /\ LetGo(w)
  /\ UNCHANGED <<rawVars, blobs, version>>

BeginUpsertOf(w) ==
  /\ \E h \in hand[w] : DOMAIN h.rows # {} /\ Start(w, h.rows, h.uri)
  /\ UNCHANGED <<blobs, version, hand>>

CommitUpsert(w) ==
  /\ Commit(w)
  /\ LetGo(w)
  /\ UNCHANGED <<blobs, version>>

\* An exception on the way, or the end of the process: an open transaction is undone.
Fail(w) ==
  /\ \/ Abort(w)
     \/ w \notin DOMAIN tx /\ UNCHANGED rawVars
  /\ LetGo(w)
  /\ UNCHANGED <<blobs, version>>

\* Another version of the parsers is deployed; a process keeps the one it started with.
Ship(w) ==
  /\ hand[w] = {}
  /\ w = Container => mode = "off"
  /\ \E v \in Versions : version' = [version EXCEPT ![w] = v]
  /\ UNCHANGED <<rawVars, blobs, hand, loopVars>>

-----------------------------------------------------------------------------
(* Start and end of the container. *)
Free(m) == mode = m /\ hand[Container] = {}

Off == mode' = "off" /\ cursor' = 0 /\ keys' = {} /\ owed' = {}

StartHistorical ==
  /\ mode = "off"
  /\ mode' = "historical"
  /\ UNCHANGED <<rawVars, blobs, version, hand, cursor, keys, owed>>

\* keys = list(list_keys(prefix)): the blobs there are now, and no later ones.
StartReplay ==
  /\ mode = "off"
  /\ mode' = "replay"
  /\ keys' = DOMAIN blobs
  /\ owed' = DOMAIN blobs
  /\ UNCHANGED <<rawVars, blobs, version, hand, cursor>>

\* The end of the loop over this source.
Finish ==
  /\ \/ Free("historical") /\ cursor = Days
     \/ Free("replay") /\ keys = {}
  /\ Off
  /\ UNCHANGED <<rawVars, blobs, version, hand>>

\* The container is killed, or put_blob raises where nothing catches it.
Killed ==
  /\ mode # "off"
  /\ Fail(Container)
  /\ Off

-----------------------------------------------------------------------------
(* run_historical *)

\* The put and the upsert are inside the try, with the fetch.
Guarded == Source \in {"USGS", "KOERI"}

\* chunk_days; USGS and KOERI are fetched in one shot.
ChunkDays == CASE Source = "AFAD" -> 1 [] Source = "EMSC" -> 7 [] OTHER -> Days

\* daterange_days: min(cursor + delta, end)
NextCursor == IF cursor + ChunkDays < Days THEN cursor + ChunkDays ELSE Days

\* What may be in the response to a chunk.  Windows include both ends, so that
\* chunks may share an event; KOERI has no window.
InChunk ==
  IF Source = "KOERI" THEN Events
  ELSE {e \in Events : cursor <= Origin[e] /\ Origin[e] <= NextCursor}

FetchChunk ==
  /\ Free("historical") /\ cursor < Days
  /\ \E u \in Uris, body \in Responses :
       /\ Archive(Container, u, body)
       /\ DOMAIN FetchParser[version[Container]][body] \subseteq InChunk
       /\ owed' = owed \cup {u}
  /\ cursor' = NextCursor
  /\ UNCHANGED <<mode, keys>>

\* A warning, and the next chunk.  For a guarded source, put_blob may have failed
\* as well.
FetchFails ==
  /\ Free("historical") /\ cursor < Days
  /\ cursor' = NextCursor
  /\ UNCHANGED <<rawVars, blobs, version, hand, mode, keys, owed>>

-----------------------------------------------------------------------------
(* run_replay *)

\* get_blob, and the parser shipped now; the uri is the blob's own.
ReadBlob ==
  /\ Free("replay")
  /\ \E u \in keys :
       /\ blobs[u] \in DOMAIN ReplayParser[version[Container]]
       /\ Take(Container, u, ReplayParser[version[Container]][blobs[u]])
       /\ keys' = keys \ {u}
  /\ UNCHANGED <<rawVars, blobs, version, mode, cursor, owed>>

\* get_blob or the parser fails: a warning, and the next key.
SkipBlob ==
  /\ Free("replay")
  /\ \E u \in keys : keys' = keys \ {u} /\ owed' = owed \ {u}
  /\ UNCHANGED <<rawVars, blobs, version, hand, mode, cursor>>

\* The records this run finds in blob u.  The fetch decodes a KOERI page as it guesses and
\* replay as iso-8859-9; for the other sources the two parsers of today are the same.
Parsed(u) ==
  LET parser == IF mode = "replay" THEN ReplayParser ELSE FetchParser
  IN  parser[version[Container]][blobs[u]]

-----------------------------------------------------------------------------
UpsertContainer ==
  /\ \/ NothingToWrite(Container)
     \/ BeginUpsertOf(Container)
     \/ CommitUpsert(Container)
  /\ UNCHANGED loopVars

\* upsert_raw raises.  For USGS and KOERI in historical mode that is a warning;
\* everywhere else nothing catches it.
UpsertRaises ==
  /\ hand[Container] # {}
  /\ Fail(Container)
  /\ IF Guarded /\ mode = "historical"
       THEN /\ owed' = owed \ {h.uri : h \in hand[Container]}
            /\ UNCHANGED <<mode, cursor, keys>>
       ELSE Off

\* live_ingest: a task fetches and upserts, or dies; its retry fetches anew.
Live(w) ==
  /\ \/ hand[w] = {} /\ \E u \in Uris, body \in Responses : Archive(w, u, body)
     \/ NothingToWrite(w)
     \/ BeginUpsertOf(w)
     \/ CommitUpsert(w)
     \/ hand[w] # {} /\ Fail(w)
  /\ UNCHANGED loopVars

PutSQL(w) ==
  /\ BeginPutSQL(w) \/ Commit(w) \/ Abort(w)
  /\ UNCHANGED <<blobs, version, hand, loopVars>>

Next ==
  \/ StartHistorical \/ StartReplay \/ Finish \/ Killed
  \/ FetchChunk \/ FetchFails \/ ReadBlob \/ SkipBlob
  \/ UpsertContainer \/ UpsertRaises
  \/ \E w \in PythonWriters : Ship(w)
  \/ \E w \in PythonWriters \ {Container} : Live(w)
  \/ \E w \in NifiWriters : PutSQL(w)

Spec == Init /\ [][Next]_vars

-----------------------------------------------------------------------------
(* Properties. *)

\* In the table, and with an audit handle.
Stored(e) == e \in DOMAIN raw /\ raw[e].archive_uri # NoUri

\* ingest.py:61-113 and 146-157: a run that comes to its end has stored every record its
\* parser finds in a response it fetched, or in a blob that was in the archive when its
\* replay began, except those a warning names; whoever wrote the table meanwhile.
EndMeansStored ==
  [][Finish => \A u \in owed : \A e \in DOMAIN Parsed(u) : Stored(e)]_vars

\* db.py:61-69 under replay (ingest.py:11-13 and 146-157): no run, however often the
\* archive is replayed and whatever the parser shipped by then makes of a blob, changes
\* what a row says, when it was first seen or the handle it has.
RowsKept ==
  [][\A e \in DOMAIN raw :
       /\ e \in DOMAIN raw'
       /\ raw'[e].received_at = raw[e].received_at
       /\ raw'[e].payload = raw[e].payload
       /\ raw[e].archive_uri # NoUri => raw'[e].archive_uri = raw[e].archive_uri]_vars

\* p finds e in the body.
Finds(p, body, e) == body \in DOMAIN p /\ e \in DOMAIN p[body]

\* The archive covers the table (ingest.py:69-70, live_ingest_dag.py:35-36): what a
\* handle names is in the archive, and some parser finds the event in it.  Not every
\* one need: a parser shipped later may find it no more.
HandlesResolve ==
  \A e \in DOMAIN raw :
    raw[e].archive_uri # NoUri =>
      /\ raw[e].archive_uri \in DOMAIN blobs
      /\ \E v \in Versions, parser \in {FetchParser, ReplayParser} :
           Finds(parser[v], blobs[raw[e].archive_uri], e)
=============================================================================
