----------------------------- MODULE RawWriters -----------------------------
(***************************************************************************)
(* The writers of one table raw.<source>_events as they run: the tasks of  *)
(* dags/live_ingest_dag.py and the backfill container fetch a response,    *)
(* archive it in MinIO, and upsert its records row by row in one           *)
(* transaction (common/db.py upsert_raw); NiFi's PutSQL inserts one row    *)
(* per transaction.  Rows are locked from the statement that writes them   *)
(* to the end of its transaction, so writers wait for each other and may   *)
(* deadlock.  Seen from outside, all this is RawTable.                     *)
(***************************************************************************)
EXTENDS Naturals, SequencesExt

CONSTANTS
  Events, Reported,              \* as in RawTable
  PythonWriters, NifiWriters,
  Uris, NoUri,                   \* one uri per archive key; bounds the fetches
  MaxTime

\* A response lists finitely many events.
ASSUME WritersAssumption ==
  /\ NoUri \notin Uris
  /\ PythonWriters \cap NifiWriters = {}
  /\ IsFiniteSet(Events)

VARIABLES
  raw,    \* committed rows, by event_id
  now,    \* database clock
  blobs,  \* MinIO: the records archived under each uri
  job     \* what each writer at work is doing

vars == <<raw, now, blobs, job>>

Writers == PythonWriters \cup NifiWriters

\* The transaction of each writer that has one open.
OpenTx ==
  [w \in {v \in DOMAIN job : job[v].pc = "writing"} |->
     [at |-> job[w].at, rows |-> job[w].rows, uri |-> job[w].uri]]

Table == INSTANCE RawTable WITH tx <- OpenTx

\* pc: "archived" holds a response and has put its blob, "writing" has an
\* open transaction, whose uncommitted row versions are in written; order is the
\* order of the records and next the statement to run.
JobOK(w) ==
  /\ job[w] \in [pc : {"archived", "writing"}, rows : [DOMAIN job[w].rows -> Table!Payloads],
                 order : Seq(DOMAIN job[w].rows), next : 1..(Len(job[w].order) + 1),
                 uri : Table!UriOrNull, at : Nat,
                 written : [DOMAIN job[w].written -> Table!RawRow]]
  /\ DOMAIN job[w].rows \subseteq Events
  /\ DOMAIN job[w].written \subseteq DOMAIN job[w].rows

TypeOK ==
  /\ Table!RawTypeOK
  /\ DOMAIN blobs \subseteq Uris
  /\ \A u \in DOMAIN blobs : DOMAIN blobs[u] \subseteq Events
  /\ DOMAIN job \subseteq Writers
  /\ \A w \in DOMAIN job : JobOK(w)

Init ==
  /\ raw = <<>>
  /\ now = 1
  /\ blobs = <<>>
  /\ job = <<>>

-----------------------------------------------------------------------------
Put(w, j) == job' = [v \in DOMAIN job \cup {w} |-> IF v = w THEN j ELSE job[v]]
Drop(w) == job' = [v \in DOMAIN job \ {w} |-> job[v]]

\* Mutant: keys without the uuid, so that a later fetch may put its blob over an
\* earlier one.
AnyKey == Uris

\* archive_key ends in a random uuid: no key is used twice.
NewKey == Uris \ DOMAIN blobs

PutBlob(u, records) ==
  blobs' = [v \in DOMAIN blobs \cup {u} |-> IF v = u THEN records ELSE blobs[v]]

\* fetch_<source> and _archive: the response, with some records or none, is put
\* in MinIO under a new key.  The response lists the records in an order of its own,
\* each event once.  A fetch that fails has changed nothing and is no step.
FetchAndArchive(w) ==
  /\ w \notin DOMAIN job
  /\ \E u \in NewKey, rows \in Table!Reports \cup {<<>>} :
       /\ PutBlob(u, rows)
       /\ \E order \in SetToSeqs(DOMAIN rows) :
            Put(w, [pc |-> "archived", rows |-> rows, order |-> order, next |-> 1,
                    uri |-> u, at |-> 0, written |-> <<>>])
  /\ UNCHANGED <<raw, now>>

\* upsert_raw without records returns before it connects.
NothingToWrite(w) ==
  /\ w \in DOMAIN job
  /\ job[w].pc = "archived"
  /\ job[w].order = <<>>
  /\ Drop(w)
  /\ UNCHANGED <<raw, now, blobs>>

Tick == now' \in {t \in {now, now + 1} : t <= MaxTime}

\* upsert_raw: the first statement opens the transaction and fixes NOW().
BeginUpsert(w) ==
  /\ w \in DOMAIN job
  /\ job[w].pc = "archived"
  /\ job[w].order # <<>>
  /\ Tick
  /\ Put(w, [job[w] EXCEPT !.pc = "writing", !.at = now'])
  /\ UNCHANGED <<raw, blobs>>

\* PutSQL takes one flow file, the row of one record: Batch Size 1, no uri.
BeginPutSQL(w) ==
  /\ w \notin DOMAIN job
  /\ Tick
  /\ \E e \in Events : \E p \in Reported[e] :
       Put(w, [pc |-> "writing", rows |-> [f \in {e} |-> p], order |-> <<e>>, next |-> 1,
               uri |-> NoUri, at |-> now', written |-> <<>>])
  /\ UNCHANGED <<raw, blobs>>

-----------------------------------------------------------------------------
(* The statements.                                                         *)
Writing(w) == w \in DOMAIN job /\ job[w].pc = "writing"
Pending(w) == Writing(w) /\ job[w].next <= Len(job[w].order)
Target(w) == job[w].order[job[w].next]

\* v makes w wait: it has an uncommitted version of the row w is about to
\* write.  DO NOTHING does not wait for an update of a row that exists.
Blocks(v, w) ==
  /\ v # w
  /\ Writing(v)
  /\ Pending(w)
  /\ Target(w) \in DOMAIN job[v].written
  /\ w \in PythonWriters \/ Target(w) \notin DOMAIN raw

\* Mutant: received_at and payload are overwritten too.
Overwrites(w, e) ==
  IF e \in DOMAIN raw /\ w \in NifiWriters THEN {}
  ELSE {[received_at |-> job[w].at, payload |-> job[w].rows[e], archive_uri |-> job[w].uri]}

\* Mutant: DO NOTHING for every writer, as the live_ingest DAG describes itself.
DoesNothing(w, e) ==
  IF e \in DOMAIN raw THEN {}
  ELSE {[received_at |-> job[w].at, payload |-> job[w].rows[e], archive_uri |-> job[w].uri]}

\* Mutant: payload and archive_uri change places among the parameters.
SwapsColumns(w, e) ==
  IF e \in DOMAIN raw THEN {}
  ELSE {[received_at |-> job[w].at, payload |-> job[w].uri, archive_uri |-> job[w].rows[e]]}

\* The version an INSERT ... ON CONFLICT leaves, if it writes at all: DO UPDATE
\* for the Python writers, DO NOTHING for NiFi.
Versions(w, e) ==
  IF e \notin DOMAIN raw
    THEN {[received_at |-> job[w].at, payload |-> job[w].rows[e], archive_uri |-> job[w].uri]}
    ELSE IF w \in PythonWriters
      THEN {[raw[e] EXCEPT !.archive_uri = Table!Coalesce(raw[e].archive_uri, job[w].uri)]}
      ELSE {}

Statement(w) ==
  /\ Pending(w)
  /\ \A v \in Writers : ~Blocks(v, w)
  /\ LET e == Target(w)
         new == Versions(w, e)
     IN  Put(w, [job[w] EXCEPT
           !.next = @ + 1,
           !.written = [f \in DOMAIN job[w].written \cup {g \in {e} : new # {}} |->
                          IF f = e THEN CHOOSE r \in new : TRUE ELSE job[w].written[f]]])
  /\ UNCHANGED <<raw, now, blobs>>

Committed(w) ==
  /\ raw' = [e \in DOMAIN raw \cup DOMAIN job[w].written |->
               IF e \in DOMAIN job[w].written THEN job[w].written[e] ELSE raw[e]]
  /\ Drop(w)
  /\ UNCHANGED <<now, blobs>>

\* Mutant: a transaction may end before its last statement.
CommitHalfway(w) == Writing(w) /\ Committed(w)

\* Mutant: a transaction that wrote nothing is left open.
CommitIfWritten(w) == Writing(w) /\ ~Pending(w) /\ job[w].written # <<>> /\ Committed(w)

\* conn.commit() after the last statement: the versions become the rows.
Commit(w) == Writing(w) /\ ~Pending(w) /\ Committed(w)

\* Writers that wait for each other in a circle.  Postgres picks one of them,
\* and its transaction fails with a deadlock error.
Deadlocked(w) ==
  \E C \in SUBSET Writers :
    /\ w \in C
    /\ \A v \in C : \E u \in C : Blocks(u, v)
    /\ \A u \in C : \E v \in C : Blocks(u, v)

DeadlockVictim(w) ==
  /\ Deadlocked(w)
  /\ Drop(w)
  /\ UNCHANGED <<raw, now, blobs>>

\* The task or container is killed, or MinIO or Postgres fail it: whatever was
\* not committed is gone, the blob stays.  Airflow starts over with a new fetch.
Crash(w) ==
  /\ w \in DOMAIN job
  /\ Drop(w)
  /\ UNCHANGED <<raw, now, blobs>>

Next ==
  \/ \E w \in PythonWriters :
       FetchAndArchive(w) \/ NothingToWrite(w) \/ BeginUpsert(w)
  \/ \E w \in NifiWriters : BeginPutSQL(w)
  \/ \E w \in Writers : Statement(w) \/ Commit(w) \/ DeadlockVictim(w) \/ Crash(w)

\* An open transaction goes on: row locks are granted in the order they were
\* asked for (so a writer is not passed over for ever), and deadlocks are
\* detected.  Nothing makes a writer start.
Spec == Init /\ [][Next]_vars

FairSpec ==
  /\ Spec
  /\ \A w \in Writers :
       SF_vars(Statement(w)) /\ WF_vars(Commit(w)) /\ WF_vars(DeadlockVictim(w))

-----------------------------------------------------------------------------
(* Properties. *)

\* Locks, private versions, waits and aborts together are a table whose upserts
\* happen at once, at their commit (db.py:78-90 beside install_flow.py:406-442).
ImplementsTable == Table!RawSpec

\* A row's archive_uri names a blob that exists and holds that event: the blob is
\* put before the transaction begins (live_ingest_dag.py:35-36) and the two
\* writers' COALESCE never mixes handles up (db.py:81-82).
UriResolves ==
  \A e \in DOMAIN raw :
    raw[e].archive_uri # NoUri =>
      raw[e].archive_uri \in DOMAIN blobs /\ e \in DOMAIN blobs[raw[e].archive_uri]

\* db.py:61-69 and 81-82: whichever writer comes first, once a Python upsert of an event
\* has committed the row has a handle.  live_ingest_dag.py:7-8 and 72-73 say otherwise,
\* that both writers use DO NOTHING: then a row NiFi was first to insert would keep NULL.
WritersReconcile ==
  [][\A w \in PythonWriters : Commit(w) =>
       \A e \in DOMAIN job[w].rows : e \in DOMAIN raw' /\ raw'[e].archive_uri # NoUri]_vars

\* db.py:66-69: what was first seen of an event stays, and a handle is never
\* overwritten, however the transactions of the writers overlap.
FirstSeenKept ==
  [][\A e \in DOMAIN raw :
       /\ e \in DOMAIN raw'
       /\ raw'[e].received_at = raw[e].received_at
       /\ raw'[e].payload = raw[e].payload
       /\ raw[e].archive_uri # NoUri => raw'[e].archive_uri = raw[e].archive_uri]_vars

\* Two responses that list common events in different orders cannot hold each
\* other's transactions up for ever: each ends, committed or aborted.
UpsertsEnd == \A w \in Writers : Writing(w) ~> ~Writing(w)
=============================================================================
