-------------------------- MODULE RawWritersProofs --------------------------
(***************************************************************************)
(* The writers of RawWriters, with their locks, private row versions,      *)
(* waits, deadlocks and crashes, implement the table of RawTable, and keep *)
(* its handles, for every number of writers, events, keys and clock ticks. *)
(***************************************************************************)
EXTENDS RawWriters, FiniteSetTheorems, TLAPS

(***************************************************************************)
(* The inductive invariant.  What makes a transaction appear atomic is     *)
(* WrittenSoFar: a private version, once written, is the one an upsert of  *)
(* the whole response would still make at this moment, because no other    *)
(* writer can touch the row (Exclusive) and rows are never deleted.        *)
(***************************************************************************)
\* The events whose statements have run.
Done(w) == {job[w].order[i] : i \in 1..(job[w].next - 1)}

\* The statements are one for each record.
ListsRows(w) ==
  /\ \A e \in DOMAIN job[w].rows : \E i \in DOMAIN job[w].order : job[w].order[i] = e
  /\ IsInjective(job[w].order)

\* A Python writer's blob is in MinIO before its transaction starts; NiFi has none.
Archived(w) ==
  IF w \in PythonWriters
    THEN /\ job[w].rows \in Table!Reports \cup {<<>>}
         /\ job[w].uri \in DOMAIN blobs
         /\ blobs[job[w].uri] = job[w].rows
    ELSE job[w].pc = "writing" /\ job[w].uri = NoUri

NotStarted(w) == job[w].pc = "archived" => job[w].next = 1

WrittenSoFar(w) ==
  /\ DOMAIN job[w].written \subseteq Done(w)
  /\ \A e \in Done(w) \ DOMAIN job[w].written : w \notin PythonWriters /\ e \in DOMAIN raw
  /\ \A e \in DOMAIN job[w].written : job[w].written[e] = Table!Upserted(e, job[w])

JobInv(w) == JobOK(w) /\ ListsRows(w) /\ Archived(w) /\ NotStarted(w) /\ WrittenSoFar(w)

\* No two transactions hold versions of one row: the row locks.
Exclusive ==
  \A v, w \in DOMAIN job : v # w => DOMAIN job[v].written \cap DOMAIN job[w].written = {}

IInv ==
  /\ TypeOK
  /\ \A w \in DOMAIN job : JobInv(w)
  /\ Exclusive
  /\ UriResolves

-----------------------------------------------------------------------------
(* The jobs and the transactions the table sees.                           *)

LEMMA PutEffect ==
  ASSUME NEW w, NEW j, Put(w, j)
  PROVE  /\ DOMAIN job' = DOMAIN job \cup {w}
         /\ job'[w] = j
         /\ \A v \in DOMAIN job : v # w => job'[v] = job[v]
BY DEF Put

LEMMA DropEffect ==
  ASSUME NEW w, Drop(w)
  PROVE  /\ DOMAIN job' = DOMAIN job \ {w}
         /\ \A v \in DOMAIN job' : job'[v] = job[v]
BY DEF Drop

\* A first statement opens a transaction with the time, rows and uri of the job.
LEMMA PutOpens ==
  ASSUME NEW w, NEW j, Put(w, j), ~Writing(w), j.pc = "writing"
  PROVE  /\ w \notin DOMAIN OpenTx
         /\ OpenTx' = [v \in DOMAIN OpenTx \cup {w} |->
                         IF v = w THEN [at |-> j.at, rows |-> j.rows, uri |-> j.uri]
                                  ELSE OpenTx[v]]
<1>1. /\ DOMAIN job' = DOMAIN job \cup {w}
      /\ job'[w] = j
      /\ \A v \in DOMAIN job : v # w => job'[v] = job[v]
  BY PutEffect
<1>2. DOMAIN OpenTx = {v \in DOMAIN job : job[v].pc = "writing"}
  BY DEF OpenTx
<1>3. DOMAIN OpenTx' = {v \in DOMAIN job' : job'[v].pc = "writing"}
  BY DEF OpenTx
<1>4. w \notin DOMAIN OpenTx
  BY <1>2 DEF Writing
<1>5. DOMAIN OpenTx' = DOMAIN OpenTx \cup {w}
  BY <1>1, <1>2, <1>3
<1>6. ASSUME NEW v \in DOMAIN OpenTx \cup {w}
      PROVE  OpenTx'[v] = IF v = w THEN [at |-> j.at, rows |-> j.rows, uri |-> j.uri]
                                   ELSE OpenTx[v]
  <2>1. OpenTx'[v] = [at |-> job'[v].at, rows |-> job'[v].rows, uri |-> job'[v].uri]
    BY <1>5 DEF OpenTx
  <2>2. CASE v = w
    BY <1>1, <2>1, <2>2
  <2>3. CASE v # w
    <3>1. v \in DOMAIN job
      BY <1>2, <2>3
    <3>2. OpenTx[v] = [at |-> job[v].at, rows |-> job[v].rows, uri |-> job[v].uri]
      BY <2>3 DEF OpenTx
    <3>3. QED
      BY <1>1, <2>1, <2>3, <3>1, <3>2
  <2>4. QED
    BY <2>2, <2>3
<1>7. QED
  BY <1>4, <1>5, <1>6 DEF OpenTx

\* A statement, or a fetch, does not show.
LEMMA PutKeeps ==
  ASSUME NEW w, NEW j, Put(w, j),
         \/ ~Writing(w) /\ j.pc = "archived"
         \/ /\ Writing(w) /\ j.pc = "writing"
            /\ j.at = job[w].at /\ j.rows = job[w].rows /\ j.uri = job[w].uri
  PROVE  OpenTx' = OpenTx
<1>1. /\ DOMAIN job' = DOMAIN job \cup {w}
      /\ job'[w] = j
      /\ \A v \in DOMAIN job : v # w => job'[v] = job[v]
  BY PutEffect
<1>2. DOMAIN OpenTx' = DOMAIN OpenTx
  <2>1. DOMAIN OpenTx = {v \in DOMAIN job : job[v].pc = "writing"}
    BY DEF OpenTx
  <2>2. DOMAIN OpenTx' = {v \in DOMAIN job' : job'[v].pc = "writing"}
    BY DEF OpenTx
  <2>3. QED
    BY <1>1, <2>1, <2>2 DEF Writing
<1>3. ASSUME NEW v \in DOMAIN OpenTx
      PROVE  OpenTx'[v] = OpenTx[v]
  <2>1. OpenTx[v] = [at |-> job[v].at, rows |-> job[v].rows, uri |-> job[v].uri]
    BY DEF OpenTx
  <2>2. OpenTx'[v] = [at |-> job'[v].at, rows |-> job'[v].rows, uri |-> job'[v].uri]
    BY <1>2 DEF OpenTx
  <2>3. v \in DOMAIN job /\ job[v].pc = "writing"
    BY DEF OpenTx
  <2>4. CASE v # w
    BY <1>1, <2>1, <2>2, <2>3, <2>4
  <2>5. CASE v = w
    BY <1>1, <2>1, <2>2, <2>3, <2>5 DEF Writing
  <2>6. QED
    BY <2>4, <2>5
<1>4. QED
  BY <1>2, <1>3 DEF OpenTx

\* The end of a transaction closes it; the end of any other job does not show.
LEMMA DropCloses ==
  ASSUME NEW w, Drop(w)
  PROVE  OpenTx' = [v \in DOMAIN OpenTx \ {w} |-> OpenTx[v]]
<1>1. DOMAIN OpenTx' = DOMAIN OpenTx \ {w}
  BY DropEffect DEF OpenTx
<1>2. ASSUME NEW v \in DOMAIN OpenTx \ {w}
      PROVE  OpenTx'[v] = OpenTx[v]
  BY DropEffect DEF OpenTx
<1>3. QED
  BY <1>1, <1>2 DEF OpenTx

LEMMA DropKeeps ==
  ASSUME NEW w, Drop(w), ~Writing(w)
  PROVE  OpenTx' = OpenTx
<1>1. w \notin DOMAIN OpenTx
  BY DEF OpenTx, Writing
<1>2. OpenTx' = [v \in DOMAIN OpenTx |-> OpenTx[v]]
  BY <1>1, DropCloses
<1>3. QED
  BY <1>2 DEF OpenTx

\* An open transaction, as the table sees it.
LEMMA OpenTxOfJob ==
  ASSUME NEW w, Writing(w)
  PROVE  /\ w \in DOMAIN OpenTx
         /\ OpenTx[w] = [at |-> job[w].at, rows |-> job[w].rows, uri |-> job[w].uri]
BY DEF OpenTx, Writing

-----------------------------------------------------------------------------
(* The operators. *)

\* An order of a finite set lists all of it.
LEMMA SeqsListTheSet ==
  ASSUME NEW S, IsFiniteSet(S), NEW f \in SetToSeqs(S)
  PROVE  /\ f \in Seq(S)
         /\ \A e \in S : \E i \in DOMAIN f : f[i] = e
         /\ IsInjective(f)
<1> DEFINE D == 1..Cardinality(S)
<1>1. Cardinality(S) \in Nat
  BY FS_CardinalityType
<1>2. f \in [D -> S] /\ \A i, j \in D : i # j => f[i] # f[j]
  BY DEF SetToSeqs
<1>3. f \in Seq(S)
  BY <1>1, <1>2
<1>4. f \in Injection(D, S)
  BY <1>2 DEF Injection, IsInjective
<1>5. Cardinality(D) = Cardinality(S)
  BY <1>1, FS_Interval
<1>6. f \in Surjection(D, S)
  BY <1>4, <1>5, FS_Injection
<1>7. QED
  BY <1>2, <1>3, <1>4, <1>6 DEF Surjection, Injection

\* An INSERT leaves the version an upsert by the whole transaction would leave:
\* for NiFi, which has no uri, that is the row as it is.
LEMMA VersionIsUpserted ==
  ASSUME NEW w, NEW e, NEW r \in Versions(w, e)
  PROVE  r = Table!Upserted(e, job[w])
BY DEF Versions, Table!Upserted

LEMMA UpsertedByNiFi ==
  ASSUME NEW e \in DOMAIN raw, raw[e] \in Table!RawRow, NEW t, t.uri = NoUri
  PROVE  Table!Upserted(e, t) = raw[e]
BY DEF Table!Upserted, Table!Coalesce, Table!RawRow

\* What an upsert leaves is a row, that keeps what the row before it had.
LEMMA UpsertedType ==
  ASSUME NEW w \in DOMAIN job, JobOK(w), NEW e \in DOMAIN job[w].rows,
         raw \in [DOMAIN raw -> Table!RawRow]
  PROVE  /\ Table!Upserted(e, job[w]) \in Table!RawRow
         /\ job[w].uri # NoUri => Table!Upserted(e, job[w]).archive_uri # NoUri
         /\ \/ Table!Upserted(e, job[w]).archive_uri = job[w].uri
            \/ e \in DOMAIN raw /\ Table!Upserted(e, job[w]).archive_uri = raw[e].archive_uri
         /\ e \in DOMAIN raw =>
              /\ Table!Upserted(e, job[w]).received_at = raw[e].received_at
              /\ Table!Upserted(e, job[w]).payload = raw[e].payload
              /\ raw[e].archive_uri # NoUri =>
                   Table!Upserted(e, job[w]).archive_uri = raw[e].archive_uri
<1>1. CASE e \in DOMAIN raw
  BY <1>1 DEF Table!Upserted, Table!Coalesce, Table!RawRow, JobOK
<1>2. CASE e \notin DOMAIN raw
  BY <1>2 DEF Table!Upserted, Table!RawRow, JobOK
<1>3. QED
  BY <1>1, <1>2

\* At its commit a transaction has run all its statements, and its versions with
\* the rows it left alone are the whole upsert on the table as it is now.
LEMMA CommitUpsertsAll ==
  ASSUME IInv, NEW w \in Writers, Commit(w)
  PROVE  /\ DOMAIN raw' = DOMAIN raw \cup DOMAIN job[w].rows
         /\ \A e \in DOMAIN raw' :
              raw'[e] = IF e \in DOMAIN job[w].rows THEN Table!Upserted(e, job[w]) ELSE raw[e]
<1>1. w \in DOMAIN job /\ JobInv(w)
  BY DEF Commit, Writing, IInv
<1>2. DOMAIN raw' = DOMAIN raw \cup DOMAIN job[w].written
  BY DEF Commit, Committed
<1>3. \A e \in DOMAIN raw' :
        raw'[e] = IF e \in DOMAIN job[w].written THEN job[w].written[e] ELSE raw[e]
  BY <1>2 DEF Commit, Committed
<1>4. \A e \in DOMAIN job[w].rows : e \in Done(w)
  <2>1. job[w].next = Len(job[w].order) + 1
    BY <1>1 DEF Commit, Writing, Pending, JobInv, JobOK
  <2>2. job[w].order \in Seq(DOMAIN job[w].rows)
    BY <1>1 DEF JobInv, JobOK
  <2>3. DOMAIN job[w].order = 1..(job[w].next - 1)
    BY <2>1, <2>2
  <2>4. QED
    BY <1>1, <2>3 DEF JobInv, ListsRows, Done
<1>5. DOMAIN job[w].written \subseteq DOMAIN job[w].rows
  BY <1>1 DEF JobInv, JobOK
<1>6. ASSUME NEW e \in DOMAIN job[w].rows \ DOMAIN job[w].written
      PROVE  e \in DOMAIN raw /\ Table!Upserted(e, job[w]) = raw[e]
  <2>1. e \in DOMAIN raw /\ w \notin PythonWriters
    BY <1>1, <1>4 DEF JobInv, WrittenSoFar
  <2>2. job[w].uri = NoUri
    BY <1>1, <2>1 DEF JobInv, Archived
  <2>3. raw[e] \in Table!RawRow
    BY <2>1 DEF IInv, TypeOK, Table!RawTypeOK
  <2>4. QED
    BY <2>1, <2>2, <2>3, UpsertedByNiFi
<1>7. \A e \in DOMAIN job[w].written : job[w].written[e] = Table!Upserted(e, job[w])
  BY <1>1 DEF JobInv, WrittenSoFar
<1>8. QED
  BY <1>2, <1>3, <1>5, <1>6, <1>7

-----------------------------------------------------------------------------
(* The inductive step.                                                     *)

\* The types of the table follow from those of the rows and the jobs.
LEMMA TableTypes ==
  ASSUME DOMAIN raw' \subseteq Events, raw' \in [DOMAIN raw' -> Table!RawRow],
         now' \in Nat, DOMAIN job' \subseteq Writers, \A w \in DOMAIN job' : JobOK(w)'
  PROVE  Table!RawTypeOK'
<1>1. DOMAIN OpenTx' \subseteq DOMAIN job'
  BY DEF OpenTx
<1>2. ASSUME NEW w \in DOMAIN OpenTx'
      PROVE  OpenTx'[w] = [at |-> job'[w].at, rows |-> job'[w].rows, uri |-> job'[w].uri]
  BY DEF OpenTx
<1>3. ASSUME NEW w \in DOMAIN OpenTx'
      PROVE  /\ OpenTx'[w].at \in Nat
             /\ OpenTx'[w].uri \in Table!UriOrNull
             /\ DOMAIN OpenTx'[w].rows \subseteq Events
             /\ OpenTx'[w].rows \in [DOMAIN OpenTx'[w].rows -> Table!Payloads]
  BY <1>1, <1>2 DEF JobOK
<1>4. DOMAIN OpenTx' \subseteq Table!Writers
  BY <1>1 DEF Writers, Table!Writers
<1>5. QED
  BY <1>3, <1>4 DEF Table!RawTypeOK

\* A job keeps its invariant while others work: blobs are never replaced, rows never
\* deleted, and the rows it has versions of are not touched.
LEMMA OthersUntouched ==
  ASSUME NEW v \in DOMAIN job, JobInv(v), job'[v] = job[v],
         \A u \in DOMAIN blobs : u \in DOMAIN blobs' /\ blobs'[u] = blobs[u],
         DOMAIN raw \subseteq DOMAIN raw',
         \A e \in DOMAIN job[v].written :
           /\ e \in DOMAIN raw' => e \in DOMAIN raw
           /\ e \in DOMAIN raw => raw'[e] = raw[e]
  PROVE  JobInv(v)'
<1>1. JobOK(v)' /\ ListsRows(v)' /\ NotStarted(v)'
  BY DEF JobInv, JobOK, ListsRows, NotStarted
<1>2. Archived(v)'
  BY DEF JobInv, Archived, Table!Reports, Table!Payloads
<1>3. Done(v)' = Done(v)
  BY DEF Done
<1>4. \A e \in DOMAIN job[v].written : Table!Upserted(e, job[v])' = Table!Upserted(e, job[v])
  BY DEF Table!Upserted, Table!Coalesce
<1>5. WrittenSoFar(v)'
  BY <1>3, <1>4 DEF JobInv, WrittenSoFar
<1>6. QED
  BY <1>1, <1>2, <1>5 DEF JobInv

\* While the table stands still, its handles resolve.
LEMMA BlobsStay ==
  ASSUME UriResolves, raw' = raw,
         \A u \in DOMAIN blobs : u \in DOMAIN blobs' /\ blobs'[u] = blobs[u]
  PROVE  UriResolves'
BY DEF UriResolves

\* A step that changes the job of w only: what is left to show is about that job.
LEMMA OneJobChanges ==
  ASSUME IInv, NEW w \in Writers, NEW j, Put(w, j), raw' = raw, now' \in Nat,
         \A u \in DOMAIN blobs : u \in DOMAIN blobs' /\ blobs'[u] = blobs[u],
         DOMAIN blobs' \subseteq Uris,
         \A u \in DOMAIN blobs' : DOMAIN blobs'[u] \subseteq Events,
         JobInv(w)',
         \A v \in DOMAIN job : v # w => DOMAIN job[v].written \cap DOMAIN j.written = {}
  PROVE  IInv'
<1>1. /\ DOMAIN job' = DOMAIN job \cup {w}
      /\ job'[w] = j
      /\ \A v \in DOMAIN job : v # w => job'[v] = job[v]
  BY PutEffect
<1>2. ASSUME NEW v \in DOMAIN job' PROVE JobInv(v)'
  <2>1. CASE v = w
    BY <2>1
  <2>2. CASE v # w
    <3>1. v \in DOMAIN job /\ JobInv(v) /\ job'[v] = job[v]
      BY <1>1, <2>2 DEF IInv
    <3>2. QED
      BY <3>1, OthersUntouched
  <2>3. QED
    BY <2>1, <2>2
<1>3. DOMAIN job' \subseteq Writers
  BY <1>1 DEF IInv, TypeOK
<1>4. \A v \in DOMAIN job' : JobOK(v)'
  BY <1>2 DEF JobInv
<1>5. Table!RawTypeOK'
  BY <1>3, <1>4, TableTypes DEF IInv, TypeOK, Table!RawTypeOK
<1>6. TypeOK'
  BY <1>3, <1>4, <1>5 DEF TypeOK
<1>7. Exclusive'
  BY <1>1 DEF IInv, Exclusive
<1>8. UriResolves'
  BY BlobsStay DEF IInv
<1>9. QED
  BY <1>2, <1>6, <1>7, <1>8 DEF IInv

LEMMA FetchInvariant ==
  ASSUME IInv, NEW w \in PythonWriters, FetchAndArchive(w)
  PROVE  IInv' /\ OpenTx' = OpenTx
<1> w \in Writers
  BY DEF Writers
<1>1. PICK u \in NewKey, rows \in Table!Reports \cup {<<>>} :
        /\ PutBlob(u, rows)
        /\ \E order \in SetToSeqs(DOMAIN rows) :
             Put(w, [pc |-> "archived", rows |-> rows, order |-> order, next |-> 1,
                     uri |-> u, at |-> 0, written |-> <<>>])
  BY DEF FetchAndArchive
<1>2. PICK order \in SetToSeqs(DOMAIN rows) :
        Put(w, [pc |-> "archived", rows |-> rows, order |-> order, next |-> 1,
                uri |-> u, at |-> 0, written |-> <<>>])
  BY <1>1
<1> DEFINE j == [pc |-> "archived", rows |-> rows, order |-> order, next |-> 1,
                 uri |-> u, at |-> 0, written |-> <<>>]
<1>3. raw' = raw /\ now' = now /\ w \notin DOMAIN job
  BY DEF FetchAndArchive
<1>4. DOMAIN rows \subseteq Events /\ rows \in [DOMAIN rows -> Table!Payloads]
  <2>1. CASE rows \in Table!Reports
    BY <2>1 DEF Table!Reports
  <2>2. CASE rows = <<>>
    BY <2>2
  <2>3. QED
    BY <2>1, <2>2
<1>5. /\ DOMAIN blobs' = DOMAIN blobs \cup {u}
      /\ blobs'[u] = rows
      /\ \A v \in DOMAIN blobs : v # u => blobs'[v] = blobs[v]
      /\ u \in Uris \ DOMAIN blobs
  BY <1>1 DEF PutBlob, NewKey
<1>6. \A v \in DOMAIN blobs : v \in DOMAIN blobs' /\ blobs'[v] = blobs[v]
  BY <1>5
<1>7. /\ DOMAIN blobs' \subseteq Uris
      /\ \A v \in DOMAIN blobs' : DOMAIN blobs'[v] \subseteq Events
  BY <1>4, <1>5 DEF IInv, TypeOK
<1>8. IsFiniteSet(DOMAIN rows)
  BY <1>4, WritersAssumption, FS_Subset
<1>9. /\ order \in Seq(DOMAIN rows) /\ IsInjective(order)
      /\ \A e \in DOMAIN rows : \E i \in DOMAIN order : order[i] = e
  BY <1>8, SeqsListTheSet
<1>10. job'[w] = j
  BY <1>2, PutEffect
<1>11. JobInv(w)'
  <2>1. JobOK(w)'
    <3>1. <<>> \in [DOMAIN <<>> -> Table!RawRow] /\ DOMAIN <<>> = {}
      OBVIOUS
    <3>2. u \in Table!UriOrNull
      BY <1>5 DEF Table!UriOrNull
    <3>3. 1 \in 1..(Len(order) + 1)
      BY <1>9
    <3>4. QED
      BY <1>4, <1>9, <1>10, <3>1, <3>2, <3>3 DEF JobOK
  <2>2. ListsRows(w)' /\ NotStarted(w)'
    BY <1>9, <1>10 DEF ListsRows, NotStarted
  <2>3. Archived(w)'
    BY <1>5, <1>10 DEF Archived, Table!Reports, Table!Payloads
  <2>4. WrittenSoFar(w)'
    BY <1>10 DEF WrittenSoFar, Done
  <2>5. QED
    BY <2>1, <2>2, <2>3, <2>4 DEF JobInv
<1>12. IInv'
  <2>1. now' \in Nat
    BY <1>3 DEF IInv, TypeOK, Table!RawTypeOK
  <2>2. DOMAIN j.written = {}
    OBVIOUS
  <2>3. Put(w, j)
    BY <1>2
  <2> HIDE DEF j
  <2>4. QED
    BY <1>3, <1>6, <1>7, <1>11, <2>1, <2>2, <2>3, OneJobChanges
<1>13. OpenTx' = OpenTx
  <2>1. ~Writing(w) /\ j.pc = "archived" /\ Put(w, j)
    BY <1>2, <1>3 DEF Writing
  <2> HIDE DEF j
  <2>2. QED
    BY <2>1, PutKeeps
<1>14. QED
  BY <1>12, <1>13

\* upsert_raw opens its transaction with the whole response and its uri.
LEMMA BeginUpsertInvariant ==
  ASSUME IInv, NEW w \in PythonWriters, BeginUpsert(w)
  PROVE  IInv' /\ Table!BeginUpsert(w)
<1> w \in Writers
  BY DEF Writers
<1> DEFINE j == [job[w] EXCEPT !.pc = "writing", !.at = now']
<1>1. /\ w \in DOMAIN job /\ job[w].pc = "archived" /\ job[w].order # <<>>
      /\ Put(w, j) /\ raw' = raw /\ blobs' = blobs
  BY DEF BeginUpsert
<1>2. JobInv(w)
  BY <1>1 DEF IInv
<1>3. now' \in {t \in {now, now + 1} : t <= MaxTime} /\ now' \in Nat
  BY DEF BeginUpsert, Tick, IInv, TypeOK, Table!RawTypeOK
<1>4. /\ j.pc = "writing" /\ j.at = now' /\ j.rows = job[w].rows /\ j.order = job[w].order
      /\ j.next = job[w].next /\ j.uri = job[w].uri /\ j.written = job[w].written
  BY <1>2 DEF JobInv, JobOK
<1>5. j \in [pc : {"archived", "writing"}, rows : [DOMAIN job[w].rows -> Table!Payloads],
             order : Seq(DOMAIN job[w].rows), next : 1..(Len(job[w].order) + 1),
             uri : Table!UriOrNull, at : Nat,
             written : [DOMAIN job[w].written -> Table!RawRow]]
  BY <1>2, <1>3 DEF JobInv, JobOK
<1>6. job'[w] = j
  BY <1>1, PutEffect
<1>7. DOMAIN job[w].written = {} /\ Done(w) = {}
  BY <1>1, <1>2 DEF JobInv, NotStarted, WrittenSoFar, Done
<1> HIDE DEF j
<1>8. JobInv(w)'
  <2>1. JobOK(w)'
    BY <1>2, <1>4, <1>5, <1>6 DEF JobInv, JobOK
  <2>2. ListsRows(w)' /\ NotStarted(w)'
    BY <1>2, <1>4, <1>6 DEF JobInv, ListsRows, NotStarted
  <2>3. Archived(w)'
    BY <1>1, <1>2, <1>4, <1>6 DEF JobInv, Archived, Table!Reports, Table!Payloads
  <2>4. WrittenSoFar(w)'
    BY <1>1, <1>4, <1>6, <1>7 DEF WrittenSoFar, Done
  <2>5. QED
    BY <2>1, <2>2, <2>3, <2>4 DEF JobInv
<1>9. IInv'
  <2>1. /\ DOMAIN blobs \subseteq Uris
        /\ \A u \in DOMAIN blobs : DOMAIN blobs[u] \subseteq Events
    BY DEF IInv, TypeOK
  <2>2. QED
    BY <1>1, <1>3, <1>4, <1>7, <1>8, <2>1, OneJobChanges
<1>10. Table!BeginUpsert(w)
  <2>1. ~Writing(w)
    BY <1>1 DEF Writing
  <2>2. /\ w \notin DOMAIN OpenTx
        /\ OpenTx' = [v \in DOMAIN OpenTx \cup {w} |->
                        IF v = w THEN [at |-> now', rows |-> job[w].rows, uri |-> job[w].uri]
                                 ELSE OpenTx[v]]
    <3>1. /\ w \notin DOMAIN OpenTx
          /\ OpenTx' = [v \in DOMAIN OpenTx \cup {w} |->
                          IF v = w THEN [at |-> j.at, rows |-> j.rows, uri |-> j.uri]
                                   ELSE OpenTx[v]]
      <4>1. Put(w, j) /\ j.pc = "writing"
        BY <1>1, <1>4
      <4>2. QED
        BY <2>1, <4>1, PutOpens
    <3>2. QED
      BY <1>4, <3>1
  <2>3. Table!Start(w, job[w].rows, job[w].uri)
    BY <1>1, <1>3, <2>2 DEF Table!Start
  <2>4. job[w].rows # <<>>
    <3>1. job[w].order \in Seq(DOMAIN job[w].rows)
      BY <1>2 DEF JobInv, JobOK
    <3>2. DOMAIN job[w].rows # {}
      BY <1>1, <3>1
    <3>3. QED
      BY <3>2
  <2>5. job[w].rows \in Table!Reports /\ job[w].uri \in Uris
    BY <1>2, <2>4 DEF JobInv, Archived, IInv, TypeOK
  <2>6. QED
    BY <2>3, <2>5 DEF Table!BeginUpsert
<1>11. QED
  BY <1>9, <1>10

\* PutSQL's flow file is a report of one event.
LEMMA BeginPutSQLInvariant ==
  ASSUME IInv, NEW w \in NifiWriters, BeginPutSQL(w)
  PROVE  IInv' /\ Table!BeginPutSQL(w)
<1> w \in Writers
  BY DEF Writers
<1>0. PICK e \in Events : \E p \in Reported[e] :
        Put(w, [pc |-> "writing", rows |-> [f \in {e} |-> p], order |-> <<e>>, next |-> 1,
                uri |-> NoUri, at |-> now', written |-> <<>>])
  BY DEF BeginPutSQL
<1>1. PICK p \in Reported[e] :
        Put(w, [pc |-> "writing", rows |-> [f \in {e} |-> p], order |-> <<e>>, next |-> 1,
                uri |-> NoUri, at |-> now', written |-> <<>>])
  BY <1>0
<1> DEFINE rows == [f \in {e} |-> p]
           j == [pc |-> "writing", rows |-> rows, order |-> <<e>>, next |-> 1,
                 uri |-> NoUri, at |-> now', written |-> <<>>]
<1>2. raw' = raw /\ blobs' = blobs /\ w \notin DOMAIN job /\ Put(w, j)
  BY <1>1 DEF BeginPutSQL
<1>3. now' \in {t \in {now, now + 1} : t <= MaxTime} /\ now' \in Nat
  BY DEF BeginPutSQL, Tick, IInv, TypeOK, Table!RawTypeOK
<1>4. rows \in Table!Reports /\ DOMAIN rows = {e} /\ rows \in [{e} -> Table!Payloads]
  <2>1. rows \in [{e} -> Table!Payloads] /\ DOMAIN rows = {e}
    BY DEF Table!Payloads
  <2>2. \A f \in DOMAIN rows : rows[f] \in Reported[f]
    BY <2>1
  <2>3. {e} \in (SUBSET Events) \ {{}}
    OBVIOUS
  <2> HIDE DEF rows
  <2>4. QED
    BY <2>1, <2>2, <2>3 DEF Table!Reports
<1>5. job'[w] = j
  BY <1>2, PutEffect
<1>6. w \notin PythonWriters
  BY WritersAssumption
<1> HIDE DEF rows
<1>7. JobInv(w)'
  <2>1. JobOK(w)'
    <3>1. <<>> \in [DOMAIN <<>> -> Table!RawRow] /\ DOMAIN <<>> = {}
      OBVIOUS
    <3>2. NoUri \in Table!UriOrNull
      BY DEF Table!UriOrNull
    <3>3. <<e>> \in Seq({e}) /\ 1 \in 1..(Len(<<e>>) + 1)
      OBVIOUS
    <3>4. QED
      BY <1>3, <1>4, <1>5, <3>1, <3>2, <3>3 DEF JobOK
  <2>2. ListsRows(w)' /\ NotStarted(w)'
    BY <1>4, <1>5 DEF ListsRows, NotStarted, IsInjective
  <2>3. Archived(w)'
    BY <1>5, <1>6 DEF Archived
  <2>4. WrittenSoFar(w)'
    BY <1>5 DEF WrittenSoFar, Done
  <2>5. QED
    BY <2>1, <2>2, <2>3, <2>4 DEF JobInv
<1>8. /\ j.pc = "writing" /\ j.at = now' /\ j.rows = rows /\ j.uri = NoUri
      /\ DOMAIN j.written = {}
  OBVIOUS
<1> HIDE DEF j
<1>9. IInv'
  <2>1. /\ DOMAIN blobs \subseteq Uris
        /\ \A u \in DOMAIN blobs : DOMAIN blobs[u] \subseteq Events
    BY DEF IInv, TypeOK
  <2>2. QED
    BY <1>2, <1>3, <1>7, <1>8, <2>1, OneJobChanges
<1>10. Table!BeginPutSQL(w)
  <2>1. ~Writing(w)
    BY <1>2 DEF Writing
  <2>2. /\ w \notin DOMAIN OpenTx
        /\ OpenTx' = [v \in DOMAIN OpenTx \cup {w} |->
                        IF v = w THEN [at |-> j.at, rows |-> j.rows, uri |-> j.uri]
                                 ELSE OpenTx[v]]
    BY <1>2, <1>8, <2>1, PutOpens
  <2>3. Table!Start(w, rows, NoUri)
    BY <1>2, <1>3, <1>8, <2>2 DEF Table!Start
  <2>4. QED
    BY <1>4, <2>3 DEF Table!BeginPutSQL
<1>11. QED
  BY <1>9, <1>10

\* A statement waits for the row's lock, so no other transaction has a version of
\* the row, and its own is what an upsert would leave there.
LEMMA StatementInvariant ==
  ASSUME IInv, NEW w \in Writers, Statement(w)
  PROVE  IInv' /\ OpenTx' = OpenTx
<1> DEFINE e == Target(w)
           new == Versions(w, e)
           now_written == [f \in DOMAIN job[w].written \cup {g \in {e} : new # {}} |->
                             IF f = e THEN CHOOSE r \in new : TRUE ELSE job[w].written[f]]
           j == [job[w] EXCEPT !.next = @ + 1, !.written = now_written]
<1>1. /\ w \in DOMAIN job /\ job[w].pc = "writing" /\ job[w].next <= Len(job[w].order)
      /\ \A v \in Writers : ~Blocks(v, w)
      /\ Put(w, j) /\ raw' = raw /\ now' = now /\ blobs' = blobs
  BY DEF Statement, Pending, Writing
<1>2. JobInv(w)
  BY <1>1 DEF IInv
<1>3. /\ j.pc = job[w].pc /\ j.at = job[w].at /\ j.rows = job[w].rows
      /\ j.order = job[w].order /\ j.uri = job[w].uri
      /\ j.next = job[w].next + 1 /\ j.written = now_written
  BY <1>2 DEF JobInv, JobOK
<1>4. job[w].next \in DOMAIN job[w].order /\ e \in DOMAIN job[w].rows
  BY <1>1, <1>2 DEF JobInv, JobOK, Target
<1>5. \A r \in new : r = Table!Upserted(e, job[w])
  BY VersionIsUpserted
<1>6. /\ DOMAIN now_written = DOMAIN job[w].written \cup {g \in {e} : new # {}}
      /\ \A f \in DOMAIN now_written :
           now_written[f] = IF f = e THEN Table!Upserted(e, job[w]) ELSE job[w].written[f]
  <2>1. new # {} => (CHOOSE r \in new : TRUE) = Table!Upserted(e, job[w])
    BY <1>5
  <2>2. DOMAIN now_written = DOMAIN job[w].written \cup {g \in {e} : new # {}}
    OBVIOUS
  <2>3. ASSUME NEW f \in DOMAIN now_written
        PROVE  now_written[f] = IF f = e THEN CHOOSE r \in new : TRUE ELSE job[w].written[f]
    OBVIOUS
  <2>4. e \notin DOMAIN job[w].written
    <3>1. job[w].next \in Nat /\ DOMAIN job[w].order = 1..Len(job[w].order)
      BY <1>2 DEF JobInv, JobOK
    <3>2. ASSUME NEW i \in 1..(job[w].next - 1) PROVE job[w].order[i] # e
      BY <1>1, <1>2, <1>4, <3>1, <3>2 DEF JobInv, ListsRows, IsInjective, Target
    <3>3. e \notin Done(w)
      BY <3>2 DEF Done
    <3>4. QED
      BY <1>2, <3>3 DEF JobInv, WrittenSoFar
  <2>5. ASSUME NEW f \in DOMAIN now_written, f = e PROVE new # {}
    BY <2>2, <2>4, <2>5
  <2> HIDE DEF new, now_written
  <2>6. QED
    BY <2>1, <2>2, <2>3, <2>5
<1>7. new = {} => w \notin PythonWriters /\ e \in DOMAIN raw
  BY DEF Versions
<1>8. new # {} => w \in PythonWriters \/ e \notin DOMAIN raw
  BY DEF Versions
<1>9. job'[w] = j
  BY <1>1, PutEffect
<1>10. now_written \in [DOMAIN now_written -> Table!RawRow]
  <2>1. Table!Upserted(e, job[w]) \in Table!RawRow
    BY <1>1, <1>2, <1>4, UpsertedType DEF JobInv, IInv, TypeOK, Table!RawTypeOK
  <2>2. \A f \in DOMAIN job[w].written : job[w].written[f] \in Table!RawRow
    BY <1>2 DEF JobInv, JobOK
  <2>3. \A f \in DOMAIN now_written : now_written[f] \in Table!RawRow
    BY <1>6, <2>1, <2>2
  <2> HIDE DEF new
  <2>4. now_written = [f \in DOMAIN now_written |-> now_written[f]]
    BY <1>6
  <2> HIDE DEF now_written
  <2>5. QED
    BY <2>3, <2>4
<1> HIDE DEF new, now_written
<1>11. JobOK(w)'
  <2>1. j \in [pc : {"archived", "writing"}, rows : [DOMAIN job[w].rows -> Table!Payloads],
               order : Seq(DOMAIN job[w].rows), next : 1..(Len(job[w].order) + 1),
               uri : Table!UriOrNull, at : Nat,
               written : [DOMAIN now_written -> Table!RawRow]]
    <3>1. job[w].next + 1 \in 1..(Len(job[w].order) + 1)
      BY <1>1, <1>2 DEF JobInv, JobOK
    <3>2. QED
      BY <1>2, <1>10, <3>1 DEF JobInv, JobOK
  <2> HIDE DEF j
  <2>2. QED
    BY <1>2, <1>3, <1>4, <1>6, <1>9, <2>1 DEF JobInv, JobOK
<1> HIDE DEF e, j
<1>12. Done(w)' = Done(w) \cup {e}
  <2>1. job[w].next \in Nat /\ job[w].next >= 1
    BY <1>2 DEF JobInv, JobOK
  <2>2. Done(w)' = {job[w].order[i] : i \in 1..job[w].next}
    BY <1>3, <1>9, <2>1 DEF Done
  <2>3. 1..job[w].next = (1..(job[w].next - 1)) \cup {job[w].next}
    BY <2>1
  <2>4. e = job[w].order[job[w].next]
    BY DEF e, Target
  <2>5. QED
    BY <2>2, <2>3, <2>4 DEF Done
<1>13. JobInv(w)'
  <2>1. ListsRows(w)' /\ NotStarted(w)'
    BY <1>1, <1>2, <1>3, <1>9 DEF JobInv, ListsRows, NotStarted
  <2>2. Archived(w)'
    BY <1>1, <1>2, <1>3, <1>9 DEF JobInv, Archived, Table!Reports, Table!Payloads
  <2>3. \A f : Table!Upserted(f, job[w])' = Table!Upserted(f, job[w])
    BY <1>1, <1>3, <1>9 DEF Table!Upserted, Table!Coalesce
  <2>4. DOMAIN now_written \subseteq Done(w)'
    BY <1>2, <1>6, <1>12 DEF JobInv, WrittenSoFar
  <2>5. \A f \in Done(w)' \ DOMAIN now_written : w \notin PythonWriters /\ f \in DOMAIN raw
    BY <1>2, <1>6, <1>7, <1>12 DEF JobInv, WrittenSoFar
  <2>6. \A f \in DOMAIN now_written : now_written[f] = Table!Upserted(f, job[w])
    BY <1>2, <1>6 DEF JobInv, WrittenSoFar
  <2>7. WrittenSoFar(w)'
    BY <1>1, <1>3, <1>9, <2>3, <2>4, <2>5, <2>6 DEF WrittenSoFar
  <2>8. QED
    BY <1>11, <2>1, <2>2, <2>7 DEF JobInv
<1>14. ASSUME NEW v \in DOMAIN job, v # w
       PROVE  DOMAIN job[v].written \cap DOMAIN j.written = {}
  <2>1. DOMAIN job[v].written \cap DOMAIN job[w].written = {}
    BY <1>1, <1>14 DEF IInv, Exclusive
  <2>2. ASSUME new # {} PROVE e \notin DOMAIN job[v].written
    <3>1. CASE ~Writing(v)
      <4>1. job[v].pc = "archived" /\ JobInv(v)
        BY <1>14, <3>1 DEF Writing, IInv, JobInv, JobOK
      <4>2. DOMAIN job[v].written = {}
        BY <4>1 DEF JobInv, NotStarted, WrittenSoFar, Done
      <4>3. QED
        BY <4>2
    <3>2. CASE Writing(v)
      <4>1. v \in Writers
        BY <1>14 DEF IInv, TypeOK
      <4>2. QED
        BY <1>1, <1>8, <1>14, <2>2, <3>2, <4>1 DEF Blocks, Pending, Writing, e
    <3>3. QED
      BY <3>1, <3>2
  <2>3. QED
    BY <1>3, <1>6, <2>1, <2>2
<1>15. IInv'
  <2>1. /\ now \in Nat /\ DOMAIN blobs \subseteq Uris
        /\ \A u \in DOMAIN blobs : DOMAIN blobs[u] \subseteq Events
    BY DEF IInv, TypeOK, Table!RawTypeOK
  <2>2. QED
    BY <1>1, <1>13, <1>14, <2>1, OneJobChanges
<1>16. OpenTx' = OpenTx
  BY <1>1, <1>3, PutKeeps DEF Writing
<1>17. QED
  BY <1>15, <1>16

\* The end of a transaction without its versions, and of a job that had not begun one.
LEMMA DropInvariant ==
  ASSUME IInv, NEW w \in DOMAIN job, Drop(w), UNCHANGED <<raw, now, blobs>>
  PROVE  /\ IInv'
         /\ Table!Abort(w) \/ UNCHANGED Table!rawVars
<1>1. DOMAIN job' = DOMAIN job \ {w} /\ \A v \in DOMAIN job' : job'[v] = job[v]
  BY DropEffect
<1>2. \A v \in DOMAIN job' : JobInv(v)'
  BY <1>1, OthersUntouched DEF IInv
<1>3. TypeOK'
  <2>1. DOMAIN job' \subseteq Writers /\ \A v \in DOMAIN job' : JobOK(v)'
    BY <1>1, <1>2 DEF IInv, TypeOK, JobInv
  <2>2. Table!RawTypeOK'
    BY <2>1, TableTypes DEF IInv, TypeOK, Table!RawTypeOK
  <2>3. QED
    BY <2>1, <2>2 DEF IInv, TypeOK
<1>4. Exclusive' /\ UriResolves'
  BY <1>1, BlobsStay DEF IInv, Exclusive
<1>5. ASSUME Writing(w) PROVE Table!Abort(w)
  BY <1>5, OpenTxOfJob, DropCloses DEF Table!Abort, Table!Close
<1>6. ASSUME ~Writing(w) PROVE UNCHANGED Table!rawVars
  <2>1. OpenTx' = OpenTx
    BY <1>6, DropKeeps
  <2>2. QED
    BY <2>1 DEF Table!rawVars
<1>7. QED
  BY <1>2, <1>3, <1>4, <1>5, <1>6 DEF IInv

\* A commit is the upsert of the whole response at once.
LEMMA CommitInvariant ==
  ASSUME IInv, NEW w \in Writers, Commit(w)
  PROVE  IInv' /\ Table!Commit(w)
<1>1. /\ Writing(w) /\ Drop(w) /\ now' = now /\ blobs' = blobs
      /\ w \in DOMAIN job /\ JobInv(w)
  BY DEF Commit, Committed, Writing, IInv
<1>2. DOMAIN job' = DOMAIN job \ {w} /\ \A v \in DOMAIN job' : job'[v] = job[v]
  BY <1>1, DropEffect
<1>3. /\ DOMAIN raw' = DOMAIN raw \cup DOMAIN job[w].rows
      /\ \A e \in DOMAIN raw' :
           raw'[e] = IF e \in DOMAIN job[w].rows THEN Table!Upserted(e, job[w]) ELSE raw[e]
  BY CommitUpsertsAll
<1>4. /\ DOMAIN raw' = DOMAIN raw \cup DOMAIN job[w].written
      /\ \A e \in DOMAIN raw' :
           raw'[e] = IF e \in DOMAIN job[w].written THEN job[w].written[e] ELSE raw[e]
  BY DEF Commit, Committed
<1>5. ASSUME NEW v \in DOMAIN job' PROVE JobInv(v)'
  <2>1. v \in DOMAIN job /\ v # w /\ JobInv(v) /\ job'[v] = job[v]
    BY <1>2 DEF IInv
  <2>2. DOMAIN job[v].written \cap DOMAIN job[w].written = {}
    BY <1>1, <2>1 DEF IInv, Exclusive
  <2>3. ASSUME NEW e \in DOMAIN job[v].written
        PROVE  /\ e \in DOMAIN raw' => e \in DOMAIN raw
               /\ e \in DOMAIN raw => raw'[e] = raw[e]
    BY <1>4, <2>2
  <2>4. QED
    BY <1>1, <1>4, <2>1, <2>3, OthersUntouched
<1>6. DOMAIN raw' \subseteq Events /\ raw' \in [DOMAIN raw' -> Table!RawRow]
  <2>1. DOMAIN raw \subseteq Events /\ raw \in [DOMAIN raw -> Table!RawRow]
    BY DEF IInv, TypeOK, Table!RawTypeOK
  <2>2. DOMAIN job[w].rows \subseteq Events
    BY <1>1 DEF JobInv, JobOK
  <2>3. \A e \in DOMAIN raw' : raw'[e] \in Table!RawRow
    BY <1>1, <1>3, <2>1, UpsertedType DEF JobInv
  <2>4. raw' = [e \in DOMAIN raw' |-> raw'[e]]
    BY DEF Commit, Committed
  <2>5. QED
    BY <1>3, <2>1, <2>2, <2>3, <2>4
<1>7. TypeOK'
  <2>1. DOMAIN job' \subseteq Writers /\ \A v \in DOMAIN job' : JobOK(v)'
    BY <1>2, <1>5 DEF IInv, TypeOK, JobInv
  <2>2. Table!RawTypeOK'
    BY <1>1, <1>6, <2>1, TableTypes DEF IInv, TypeOK, Table!RawTypeOK
  <2>3. QED
    BY <1>1, <2>1, <2>2 DEF IInv, TypeOK
<1>8. Exclusive'
  BY <1>2 DEF IInv, Exclusive
<1>9. UriResolves'
  <2>1. ASSUME NEW e \in DOMAIN raw', raw'[e].archive_uri # NoUri
        PROVE  /\ raw'[e].archive_uri \in DOMAIN blobs
               /\ e \in DOMAIN blobs[raw'[e].archive_uri]
    <3>1. CASE e \in DOMAIN raw /\ raw'[e].archive_uri = raw[e].archive_uri
      BY <2>1, <3>1 DEF IInv, UriResolves
    <3>2. CASE e \in DOMAIN job[w].rows /\ raw'[e].archive_uri = job[w].uri
      BY <1>1, <2>1, <3>2 DEF JobInv, Archived
    <3>3. \/ e \in DOMAIN raw /\ raw'[e].archive_uri = raw[e].archive_uri
          \/ e \in DOMAIN job[w].rows /\ raw'[e].archive_uri = job[w].uri
      BY <1>1, <1>3, UpsertedType DEF JobInv, IInv, TypeOK, Table!RawTypeOK
    <3>4. QED
      BY <3>1, <3>2, <3>3
  <2>2. QED
    BY <1>1, <2>1 DEF UriResolves
<1>10. Table!Commit(w)
  <2>1. /\ w \in DOMAIN OpenTx
        /\ OpenTx[w] = [at |-> job[w].at, rows |-> job[w].rows, uri |-> job[w].uri]
    BY <1>1, OpenTxOfJob
  <2>2. OpenTx[w].rows = job[w].rows
    BY <2>1
  <2>3. \A e \in DOMAIN job[w].rows : Table!Upserted(e, OpenTx[w]) = Table!Upserted(e, job[w])
    BY <2>1 DEF Table!Upserted
  <2>4. raw' = [e \in DOMAIN raw \cup DOMAIN OpenTx[w].rows |->
                  IF e \in DOMAIN OpenTx[w].rows THEN Table!Upserted(e, OpenTx[w]) ELSE raw[e]]
    <3>1. raw' = [e \in DOMAIN raw' |-> raw'[e]]
      BY DEF Commit, Committed
    <3>2. QED
      BY <1>3, <2>2, <2>3, <3>1
  <2>5. QED
    BY <1>1, <2>1, <2>4, DropCloses DEF Table!Commit, Table!Close
<1>11. QED
  BY <1>5, <1>7, <1>8, <1>9, <1>10 DEF IInv

\* Every step of the writers keeps the invariant and is a step of the table, or none.
LEMMA StepInvariant ==
  ASSUME IInv, [Next]_vars
  PROVE  IInv' /\ [Table!RawNext]_(Table!rawVars)
<1>1. ASSUME NEW w \in PythonWriters, FetchAndArchive(w)
      PROVE  IInv' /\ UNCHANGED Table!rawVars
  BY <1>1, FetchInvariant DEF FetchAndArchive, Table!rawVars
<1>2. ASSUME NEW w \in PythonWriters, BeginUpsert(w)
      PROVE  IInv' /\ Table!RawNext
  BY <1>2, BeginUpsertInvariant DEF Table!RawNext
<1>3. ASSUME NEW w \in NifiWriters, BeginPutSQL(w)
      PROVE  IInv' /\ Table!RawNext
  BY <1>3, BeginPutSQLInvariant DEF Table!RawNext
<1>4. ASSUME NEW w \in Writers, Statement(w)
      PROVE  IInv' /\ UNCHANGED Table!rawVars
  BY <1>4, StatementInvariant DEF Statement, Table!rawVars
<1>5. ASSUME NEW w \in Writers, Commit(w)
      PROVE  IInv' /\ Table!RawNext
  BY <1>5, CommitInvariant DEF Table!RawNext, Writers, Table!Writers
<1>6. ASSUME NEW w \in Writers, NothingToWrite(w) \/ DeadlockVictim(w) \/ Crash(w)
      PROVE  IInv' /\ (Table!RawNext \/ UNCHANGED Table!rawVars)
  <2>1. w \in DOMAIN job
    BY <1>6 DEF NothingToWrite, DeadlockVictim, Crash, Deadlocked, Blocks, Pending, Writing
  <2>2. Drop(w) /\ UNCHANGED <<raw, now, blobs>>
    BY <1>6 DEF NothingToWrite, DeadlockVictim, Crash
  <2>3. QED
    BY <2>1, <2>2, DropInvariant DEF Table!RawNext, Writers, Table!Writers
<1>7. CASE UNCHANGED vars
  <2>1. raw' = raw /\ now' = now /\ blobs' = blobs /\ job' = job
    BY <1>7 DEF vars
  <2>2. OpenTx' = OpenTx
    BY <2>1 DEF OpenTx
  <2>3. \A v \in DOMAIN job : JobInv(v)'
    BY <2>1, OthersUntouched DEF IInv
  <2>4. TypeOK' /\ Exclusive' /\ UriResolves'
    <3>1. \A v \in DOMAIN job' : JobOK(v)'
      BY <2>1, <2>3 DEF JobInv
    <3>2. Table!RawTypeOK'
      BY <2>1, <3>1, TableTypes DEF IInv, TypeOK, Table!RawTypeOK
    <3>3. QED
      BY <2>1, <3>1, <3>2, BlobsStay DEF IInv, TypeOK, Exclusive
  <2>5. QED
    BY <2>1, <2>2, <2>3, <2>4 DEF IInv, Table!rawVars
<1>8. QED
  BY <1>1, <1>2, <1>3, <1>4, <1>5, <1>6, <1>7 DEF Next, Writers

\* At the start nobody is at work and the table is empty.
LEMMA InitInvariant == Init => IInv /\ Table!RawInit
<1> SUFFICES ASSUME Init PROVE IInv /\ Table!RawInit
  OBVIOUS
<1>1. raw = <<>> /\ now = 1 /\ blobs = <<>> /\ job = <<>>
  BY DEF Init
<1>2. DOMAIN <<>> = {}
  OBVIOUS
<1>3. OpenTx = <<>>
  <2>1. DOMAIN OpenTx = {}
    BY <1>1, <1>2 DEF OpenTx
  <2>2. QED
    BY <1>2, <2>1 DEF OpenTx
<1>4. Table!RawInit
  BY <1>1, <1>3 DEF Table!RawInit
<1>5. Table!RawTypeOK
  BY <1>1, <1>2, <1>3 DEF Table!RawTypeOK
<1>6. QED
  BY <1>1, <1>2, <1>4, <1>5 DEF IInv, TypeOK, Exclusive, UriResolves

-----------------------------------------------------------------------------
(* The theorems.                                                           *)

LEMMA Invariance == Spec => []IInv
BY InitInvariant, StepInvariant, PTL DEF Spec

\* Whatever the writers do, the rows, blobs, jobs and versions keep their types.
THEOREM TypeCorrect == Spec => []TypeOK
<1>1. IInv => TypeOK
  BY DEF IInv
<1>2. QED
  BY <1>1, Invariance, PTL

\* Every archive_uri in the table names a blob that holds the event
\* (live_ingest_dag.py:35-36, db.py:81-82).
THEOREM HandlesResolve == Spec => []UriResolves
<1>1. IInv => UriResolves
  BY DEF IInv
<1>2. QED
  BY <1>1, Invariance, PTL

\* Row-by-row statements under row locks, deadlocks and crashes included, are
\* upserts that happen at once when they commit (db.py:78-90).
THEOREM Implementation == Spec => ImplementsTable
<1>1. Init => Table!RawInit
  BY InitInvariant
<1>2. IInv /\ [Next]_vars => [Table!RawNext]_(Table!rawVars)
  BY StepInvariant
<1>3. QED
  BY <1>1, <1>2, Invariance, PTL DEF Spec, ImplementsTable, Table!RawSpec

\* Once a Python upsert has committed, each of its rows has a handle, also the ones
\* NiFi inserted first (db.py:61-69).
THEOREM Reconciliation == Spec => WritersReconcile
<1>1. ASSUME IInv, NEW w \in PythonWriters, Commit(w), NEW e \in DOMAIN job[w].rows
      PROVE  e \in DOMAIN raw' /\ raw'[e].archive_uri # NoUri
  <2>1. w \in Writers /\ w \in DOMAIN job /\ JobInv(w)
    BY <1>1 DEF Writers, Commit, Writing, IInv
  <2>2. e \in DOMAIN raw' /\ raw'[e] = Table!Upserted(e, job[w])
    BY <1>1, <2>1, CommitUpsertsAll
  <2>3. job[w].uri # NoUri
    BY <1>1, <2>1, WritersAssumption DEF JobInv, Archived, IInv, TypeOK
  <2>4. QED
    BY <1>1, <2>1, <2>2, <2>3, UpsertedType DEF JobInv, IInv, TypeOK, Table!RawTypeOK
<1>2. IInv => [\A w \in PythonWriters : Commit(w) =>
                 \A e \in DOMAIN job[w].rows :
                   e \in DOMAIN raw' /\ raw'[e].archive_uri # NoUri]_vars
  BY <1>1
<1>3. QED
  BY <1>2, Invariance, PTL DEF WritersReconcile

\* What was first seen of an event stays, and no handle is overwritten, however the
\* transactions overlap (db.py:66-69).
THEOREM FirstSeenStays == Spec => FirstSeenKept
<1> DEFINE Kept(e) == /\ e \in DOMAIN raw'
                      /\ raw'[e].received_at = raw[e].received_at
                      /\ raw'[e].payload = raw[e].payload
                      /\ raw[e].archive_uri # NoUri => raw'[e].archive_uri = raw[e].archive_uri
<1>1. ASSUME IInv, NEW w \in Writers, Commit(w), NEW e \in DOMAIN raw
      PROVE  Kept(e)
  <2>1. w \in DOMAIN job /\ JobInv(w)
    BY <1>1 DEF Commit, Writing, IInv
  <2>2. e \in DOMAIN raw'
    BY <1>1, CommitUpsertsAll
  <2>3. CASE e \in DOMAIN job[w].rows
    <3>1. raw'[e] = Table!Upserted(e, job[w])
      BY <1>1, <2>2, <2>3, CommitUpsertsAll
    <3>2. QED
      BY <1>1, <2>1, <2>2, <2>3, <3>1, UpsertedType DEF JobInv, IInv, TypeOK, Table!RawTypeOK
  <2>4. CASE e \notin DOMAIN job[w].rows
    BY <1>1, <2>2, <2>4, CommitUpsertsAll
  <2>5. QED
    BY <2>3, <2>4
<1>2. ASSUME [Next]_vars
      PROVE  raw' = raw \/ \E w \in Writers : Commit(w)
  BY <1>2 DEF Next, vars, FetchAndArchive, NothingToWrite, BeginUpsert, BeginPutSQL,
     Statement, DeadlockVictim, Crash
<1>3. IInv /\ [Next]_vars => [\A e \in DOMAIN raw : Kept(e)]_vars
  BY <1>1, <1>2
<1>4. QED
  BY <1>3, Invariance, PTL DEF Spec, FirstSeenKept
=============================================================================
