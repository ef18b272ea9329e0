------------------------------ MODULE RawTable ------------------------------
(***************************************************************************)
(* The contract of one table raw.<source>_events (sql/01_raw_tables.sql)   *)
(* as its readers see it: a row appears, or gets its archive_uri, at the   *)
(* COMMIT of the transaction that wrote it, and carries as received_at the *)
(* NOW() of that transaction, which Postgres fixes when the transaction    *)
(* BEGINS.  Two kinds of client write it: the Python writers, which call   *)
(* db.upsert_raw with all the rows of one fetch and the uri of the blob    *)
(* they archived, and NiFi's PutSQL, one row per transaction and no uri.   *)
(*                                                                         *)
(* An upsert is one step here, at its commit; RawWriters takes it apart    *)
(* into locked row-by-row statements and is shown to implement this        *)
(* module.                                                                 *)
(***************************************************************************)
EXTENDS Naturals, FiniteSets

CONSTANTS
  Events,         \* event_id values of the source
  Reported,       \* Reported[e]: the payloads the agency may report for e
  PythonWriters,  \* live_ingest task, backfill container
  NifiWriters,    \* NiFi PutSQL connections
  Uris, NoUri,    \* archive_uri values, and NULL
  MaxTime         \* bound on the database clock

ASSUME RawAssumption ==
  /\ MaxTime \in Nat
  /\ NoUri \notin Uris
  /\ PythonWriters \cap NifiWriters = {}

VARIABLES
  raw,  \* the committed rows, by event_id
  tx,   \* the open transactions, by writer
  now   \* the database clock

rawVars == <<raw, tx, now>>

Writers == PythonWriters \cup NifiWriters
Payloads == UNION {Reported[e] : e \in Events}
UriOrNull == Uris \cup {NoUri}

\* sql/01: received_at and payload are NOT NULL, archive_uri may be NULL.
RawRow == [received_at : Nat, payload : Payloads, archive_uri : UriOrNull]

RawTypeOK ==
  /\ DOMAIN raw \subseteq Events
  /\ raw \in [DOMAIN raw -> RawRow]
  /\ DOMAIN tx \subseteq Writers
  /\ \A w \in DOMAIN tx :
       /\ tx[w].at \in Nat
       /\ tx[w].uri \in UriOrNull
       /\ DOMAIN tx[w].rows \subseteq Events
       /\ tx[w].rows \in [DOMAIN tx[w].rows -> Payloads]
  /\ now \in Nat

RawInit ==
  /\ raw = <<>>
  /\ tx = <<>>
  /\ now = 1

-----------------------------------------------------------------------------
(* A transaction starts: NOW() is the clock, which may or may not have moved *)
(* on since the previous one started.                                        *)
Start(w, rows, uri) ==
  /\ w \notin DOMAIN tx
  /\ now' \in {t \in {now, now + 1} : t <= MaxTime}
  /\ tx' = [v \in DOMAIN tx \cup {w} |->
              IF v = w THEN [at |-> now', rows |-> rows, uri |-> uri] ELSE tx[v]]
  /\ raw' = raw

\* The records of one response: some events, each with a reported payload.
Reports == {r \in UNION {[S -> Payloads] : S \in (SUBSET Events) \ {{}}} :
              \A e \in DOMAIN r : r[e] \in Reported[e]}

\* upsert_raw opens its transaction (an empty list of records returns early).
BeginUpsert(w) ==
  \E rows \in Reports, uri \in Uris : Start(w, rows, uri)

\* PutSQL with Batch Size 1: INSERT ... ON CONFLICT (event_id) DO NOTHING.
BeginPutSQL(w) ==
  \E rows \in Reports, e \in Events : DOMAIN rows = {e} /\ Start(w, rows, NoUri)

\* Mutant: archive_uri = EXCLUDED.archive_uri.
Excluded(a, b) == b

\* SQL COALESCE on two archive_uri values.
Coalesce(a, b) == IF a # NoUri THEN a ELSE b

\* What INSERT ... ON CONFLICT (event_id) leaves for e: a new row, or the
\* first-seen row with its archive_uri filled if it was NULL.  For NiFi's
\* NULL uri this is DO NOTHING.
Upserted(e, t) ==
  IF e \in DOMAIN raw
    THEN [raw[e] EXCEPT !.archive_uri = Coalesce(raw[e].archive_uri, t.uri)]
    ELSE [received_at |-> t.at, payload |-> t.rows[e], archive_uri |-> t.uri]

Close(w) == tx' = [v \in DOMAIN tx \ {w} |-> tx[v]]

Commit(w) ==
  /\ w \in DOMAIN tx
  /\ raw' = [e \in DOMAIN raw \cup DOMAIN tx[w].rows |->
               IF e \in DOMAIN tx[w].rows THEN Upserted(e, tx[w]) ELSE raw[e]]
  /\ Close(w)
  /\ now' = now

\* The writer dies, loses its connection or is a deadlock victim: nothing of
\* the transaction is left.
Abort(w) ==
  /\ w \in DOMAIN tx
  /\ Close(w)
  /\ UNCHANGED <<raw, now>>

RawNext ==
  \/ \E w \in PythonWriters : BeginUpsert(w)
  \/ \E w \in NifiWriters : BeginPutSQL(w)
  \/ \E w \in Writers : Commit(w) \/ Abort(w)

RawSpec == RawInit /\ [][RawNext]_rawVars
=============================================================================
