--------------------------- MODULE RawTableProofs ---------------------------
(***************************************************************************)
(* What the transactions of RawTable do to the table and to its types, for *)
(* the proofs about the modules that read it and write it.                 *)
(***************************************************************************)
EXTENDS RawTable, TLAPS

\* What a commit may do to the table: add rows, and fill archive_uri where it
\* was NULL.  Rows and everything else in them stay.
LEMMA CommitOnlyAdds ==
  ASSUME RawTypeOK, NEW w \in Writers, Commit(w)
  PROVE  /\ DOMAIN raw \subseteq DOMAIN raw'
         /\ DOMAIN raw' \subseteq Events
         /\ raw' \in [DOMAIN raw' -> RawRow]
         /\ \A e \in DOMAIN raw :
              /\ raw'[e].received_at = raw[e].received_at
              /\ raw'[e].payload = raw[e].payload
              /\ raw[e].archive_uri # NoUri => raw'[e].archive_uri = raw[e].archive_uri
<1>1. DOMAIN raw' = DOMAIN raw \cup DOMAIN tx[w].rows
  BY DEF Commit
<1>2. \A e \in DOMAIN raw' :
        raw'[e] = IF e \in DOMAIN tx[w].rows THEN Upserted(e, tx[w]) ELSE raw[e]
  BY <1>1 DEF Commit
<1>3. /\ DOMAIN tx[w].rows \subseteq Events
      /\ tx[w].rows \in [DOMAIN tx[w].rows -> Payloads]
      /\ tx[w].at \in Nat
      /\ tx[w].uri \in UriOrNull
  BY DEF Commit, RawTypeOK
<1>4. \A e \in DOMAIN raw : raw[e] \in RawRow
  BY DEF RawTypeOK
<1>5. ASSUME NEW e \in DOMAIN raw
      PROVE  /\ raw'[e] \in RawRow
             /\ raw'[e].received_at = raw[e].received_at
             /\ raw'[e].payload = raw[e].payload
             /\ raw[e].archive_uri # NoUri => raw'[e].archive_uri = raw[e].archive_uri
  BY <1>1, <1>2, <1>3, <1>4 DEF Upserted, Coalesce, RawRow
<1>6. ASSUME NEW e \in DOMAIN raw' \ DOMAIN raw
      PROVE  raw'[e] \in RawRow
  <2>1. e \in DOMAIN tx[w].rows /\ e \notin DOMAIN raw
    BY <1>1
  <2>2. raw'[e] = [received_at |-> tx[w].at, payload |-> tx[w].rows[e],
                   archive_uri |-> tx[w].uri]
    BY <1>2, <2>1 DEF Upserted
  <2>3. tx[w].rows[e] \in Payloads
    BY <1>3, <2>1
  <2>4. QED
    BY <1>3, <2>2, <2>3 DEF RawRow
<1>7. raw' \in [DOMAIN raw' -> RawRow]
  BY <1>1, <1>5, <1>6 DEF Commit
<1>8. QED
  BY <1>1, <1>3, <1>5, <1>7 DEF RawTypeOK

\* The types of the table, transaction by transaction.
LEMMA StartTypes ==
  ASSUME RawTypeOK, NEW w \in Writers, NEW rows, NEW uri \in UriOrNull,
         DOMAIN rows \subseteq Events, rows \in [DOMAIN rows -> Payloads],
         Start(w, rows, uri)
  PROVE  /\ RawTypeOK'
         /\ raw' = raw
         /\ DOMAIN tx' = DOMAIN tx \cup {w}
         /\ tx'[w].rows = rows /\ tx'[w].uri = uri
         /\ \A v \in DOMAIN tx \ {w} : tx'[v] = tx[v]
<1>1. raw' = raw /\ now' \in Nat
  BY DEF RawTypeOK, Start
<1>2. DOMAIN tx' = DOMAIN tx \cup {w}
  BY DEF Start
<1>3. \A v \in DOMAIN tx' : tx'[v] = IF v = w THEN [at |-> now', rows |-> rows, uri |-> uri]
                                              ELSE tx[v]
  BY DEF Start
<1>4. DOMAIN tx' \subseteq Writers
  BY <1>2 DEF RawTypeOK
<1>5. ASSUME NEW v \in DOMAIN tx'
      PROVE  /\ tx'[v].at \in Nat
             /\ tx'[v].uri \in UriOrNull
             /\ DOMAIN tx'[v].rows \subseteq Events
             /\ tx'[v].rows \in [DOMAIN tx'[v].rows -> Payloads]
  BY <1>1, <1>2, <1>3, <1>5 DEF RawTypeOK
<1>6. RawTypeOK'
  BY <1>1, <1>4, <1>5 DEF RawTypeOK
<1>7. QED
  BY <1>1, <1>2, <1>3, <1>6

LEMMA CloseTypes ==
  ASSUME RawTypeOK, NEW w \in Writers, Commit(w) \/ Abort(w)
  PROVE  /\ RawTypeOK'
         /\ DOMAIN tx' = DOMAIN tx \ {w}
         /\ \A v \in DOMAIN tx' : tx'[v] = tx[v]
<1>1. /\ DOMAIN tx' = DOMAIN tx \ {w}
      /\ \A v \in DOMAIN tx' : tx'[v] = tx[v]
  BY DEF Commit, Abort, Close
<1>2. DOMAIN raw' \subseteq Events /\ raw' \in [DOMAIN raw' -> RawRow]
  <2>1. CASE Commit(w)
    BY <2>1, CommitOnlyAdds
  <2>2. CASE Abort(w)
    BY <2>2 DEF Abort, RawTypeOK
  <2>3. QED
    BY <2>1, <2>2
<1>3. now' = now
  BY DEF Commit, Abort
<1>4. RawTypeOK'
  BY <1>1, <1>2, <1>3 DEF RawTypeOK
<1>5. QED
  BY <1>1, <1>4

\* Committed rows have the uri of the transaction, unless they had one before.
LEMMA CommitGivesHandles ==
  ASSUME NEW w \in Writers, Commit(w), tx[w].uri # NoUri, NEW e \in DOMAIN tx[w].rows
  PROVE  e \in DOMAIN raw' /\ raw'[e].archive_uri # NoUri
<1>1. e \in DOMAIN raw' /\ raw'[e] = Upserted(e, tx[w])
  BY DEF Commit
<1>2. Upserted(e, tx[w]).archive_uri # NoUri
  BY DEF Upserted, Coalesce
<1>3. QED
  BY <1>1, <1>2

\* A handle is one the row had, or the uri of the transaction that holds the event.
LEMMA CommitHandleOrigin ==
  ASSUME RawTypeOK, NEW w \in Writers, Commit(w), NEW e \in DOMAIN raw'
  PROVE  \/ e \in DOMAIN raw /\ raw'[e].archive_uri = raw[e].archive_uri
         \/ e \in DOMAIN tx[w].rows /\ raw'[e].archive_uri = tx[w].uri
<1>1. raw'[e] = IF e \in DOMAIN tx[w].rows THEN Upserted(e, tx[w]) ELSE raw[e]
  BY DEF Commit
<1>2. e \in DOMAIN raw \/ e \in DOMAIN tx[w].rows
  BY DEF Commit
<1>3. CASE e \notin DOMAIN tx[w].rows
  BY <1>1, <1>2, <1>3
<1>4. CASE e \in DOMAIN tx[w].rows /\ e \in DOMAIN raw
  BY <1>1, <1>4 DEF Upserted, Coalesce, RawTypeOK, RawRow
<1>5. CASE e \in DOMAIN tx[w].rows /\ e \notin DOMAIN raw
  BY <1>1, <1>5 DEF Upserted
<1>6. QED
  BY <1>3, <1>4, <1>5
=============================================================================
