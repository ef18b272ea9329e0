--------------------------- MODULE BackfillProofs ---------------------------
(***************************************************************************)
(* Theorems about Backfill, for every source, every window, every number   *)
(* of runs of the container, any writers, events and clock, and any        *)
(* parsers, shipped in any order.                                          *)
(***************************************************************************)
EXTENDS Backfill, RawTableProofs

\* Some parser finds e in the body.
Found(body, e) ==
  \E v \in Versions, parser \in {FetchParser, ReplayParser} : Finds(parser[v], body, e)

\* What a Python writer has in hand was read from the archived body.
HandIsRead ==
  \A w \in PythonWriters : \A h \in hand[w] : \A e \in DOMAIN h.rows : Found(blobs[h.uri], e)

\* An open transaction of a Python writer writes what it has in hand.
WritesItsBlob ==
  \A w \in PythonWriters \cap DOMAIN tx :
    /\ hand[w] = {[uri |-> tx[w].uri, rows |-> tx[w].rows]}
    /\ DOMAIN tx[w].rows # {}

NifiHasNoUri == \A w \in NifiWriters \cap DOMAIN tx : tx[w].uri = NoUri

Idle ==
  /\ mode = "off" => hand[Container] = {} /\ owed = {}
  /\ mode # "replay" => keys = {}

\* What the container has in hand is what this run reads in the blob.
HandIsOwn == \A h \in hand[Container] : h.rows = Parsed(h.uri)

AllStored(u) == \A e \in DOMAIN Parsed(u) : Stored(e)

InHand(u) == \E h \in hand[Container] : h.uri = u

\* What is owed is still to be read, in hand, or stored.
OwedOrStored == \A u \in owed : u \in keys \/ InHand(u) \/ AllStored(u)

\* What the calls keep; the loop has no say in it.
TableInv ==
  /\ RawTypeOK
  /\ HandIsRead
  /\ WritesItsBlob
  /\ NifiHasNoUri
  /\ HandlesResolve

\* The types without those of the table, the archive and the hands.
LoopTypes ==
  /\ mode \in {"off", "historical", "replay"}
  /\ cursor \in 0..Days
  /\ keys \subseteq DOMAIN blobs
  /\ owed \subseteq DOMAIN blobs

\* The types of the archive, the versions and the hands.
BlobTypes ==
  /\ DOMAIN blobs \subseteq Uris
  /\ blobs \in [DOMAIN blobs -> Responses]
  /\ version \in [PythonWriters -> Versions]
  /\ hand \in [PythonWriters -> {{}} \cup {{h} : h \in [uri : DOMAIN blobs, rows : Records]}]

Base == TableInv /\ BlobTypes

IInv ==
  /\ Base
  /\ LoopTypes
  /\ Idle
  /\ HandIsOwn
  /\ OwedOrStored

-----------------------------------------------------------------------------
(* One call, whoever makes it: what it does to the table, the archive and the  *)
(* hands.                                                                      *)

\* What every call guarantees to everybody else.
Grows ==
  /\ DOMAIN blobs \subseteq DOMAIN blobs'
  /\ \A u \in DOMAIN blobs : blobs'[u] = blobs[u]
  /\ \A e \in DOMAIN raw : Stored(e) => Stored(e)'

LEMMA PutSQLCall ==
  ASSUME Base, NEW w \in NifiWriters, PutSQL(w)
  PROVE  Base' /\ Grows
<1>0. w \in Writers /\ w \notin PythonWriters /\ NoUri \in UriOrNull
  BY RawAssumption DEF Writers, UriOrNull
<1>1. UNCHANGED <<blobs, version, hand>>
  BY DEF PutSQL
<1>2. BlobTypes' /\ HandIsRead'
  BY <1>1 DEF Base, BlobTypes, TableInv, HandIsRead
<1>3. CASE BeginPutSQL(w)
  <2>1. PICK rows \in Reports : Start(w, rows, NoUri)
    BY <1>3 DEF BeginPutSQL
  <2>2. DOMAIN rows \subseteq Events /\ rows \in [DOMAIN rows -> Payloads]
    BY DEF Reports
  <2>3. /\ RawTypeOK' /\ raw' = raw
        /\ DOMAIN tx' = DOMAIN tx \cup {w} /\ tx'[w].uri = NoUri
        /\ \A v \in DOMAIN tx \ {w} : tx'[v] = tx[v]
    BY <1>0, <2>1, <2>2, StartTypes DEF Base, TableInv
  <2>4. WritesItsBlob'
    BY <1>0, <1>1, <2>3 DEF Base, TableInv, WritesItsBlob
  <2>5. NifiHasNoUri'
    BY <2>3 DEF Base, TableInv, NifiHasNoUri
  <2>6. HandlesResolve' /\ Grows
    BY <1>1, <2>3 DEF Base, TableInv, HandlesResolve, Grows, Stored
  <2>7. QED
    BY <1>2, <2>3, <2>4, <2>5, <2>6 DEF Base, TableInv
<1>4. CASE Commit(w) \/ Abort(w)
  <2>1. /\ RawTypeOK'
        /\ DOMAIN tx' = DOMAIN tx \ {w}
        /\ \A v \in DOMAIN tx' : tx'[v] = tx[v]
    BY <1>0, <1>4, CloseTypes DEF Base, TableInv
  <2>2. WritesItsBlob' /\ NifiHasNoUri'
    BY <1>1, <2>1 DEF Base, TableInv, WritesItsBlob, NifiHasNoUri
  <2>3. HandlesResolve' /\ Grows
    <3>1. CASE Commit(w)
      <4>1. tx[w].uri = NoUri
        BY <3>1 DEF Base, TableInv, NifiHasNoUri, Commit
      <4>2. \A e \in DOMAIN raw' : raw'[e].archive_uri # NoUri =>
              e \in DOMAIN raw /\ raw'[e].archive_uri = raw[e].archive_uri
        BY <1>0, <3>1, <4>1, CommitHandleOrigin DEF Base, TableInv
      <4>3. HandlesResolve'
        BY <1>1, <4>2 DEF Base, TableInv, HandlesResolve
      <4>4. Grows
        BY <1>0, <1>1, <3>1, CommitOnlyAdds DEF Base, TableInv, Grows, Stored
      <4>5. QED
        BY <4>3, <4>4
    <3>2. CASE Abort(w)
      BY <1>1, <3>2 DEF Base, TableInv, HandlesResolve, Grows, Stored, Abort
    <3>3. QED
      BY <1>4, <3>1, <3>2
  <2>4. QED
    BY <1>2, <2>1, <2>2, <2>3 DEF Base, TableInv
<1>5. QED
  BY <1>3, <1>4 DEF PutSQL

LEMMA RecordsFacts ==
  ASSUME NEW rows \in Records
  PROVE  DOMAIN rows \subseteq Events /\ rows \in [DOMAIN rows -> Payloads]
BY DEF Records

\* What w has in hand, and what the rest of the hands are after it took or let go.
LEMMA HandFacts ==
  ASSUME BlobTypes, NEW w \in PythonWriters, NEW h \in hand[w]
  PROVE  hand[w] = {h} /\ h \in [uri : DOMAIN blobs, rows : Records]
BY DEF BlobTypes

\* A body parsed anew, by a parser of the version w runs.
LEMMA TakeCall ==
  ASSUME Base, NEW w \in PythonWriters, hand[w] = {}, NEW u, NEW rows \in Records,
         Take(w, u, rows), u \in DOMAIN blobs',
         \A e \in DOMAIN rows : Found(blobs'[u], e),
         blobs' \in [DOMAIN blobs' -> Responses], DOMAIN blobs' \subseteq Uris,
         DOMAIN blobs \subseteq DOMAIN blobs', \A v \in DOMAIN blobs : blobs'[v] = blobs[v],
         UNCHANGED <<rawVars, version>>
  PROVE  /\ Base' /\ Grows
         /\ hand'[w] = {[uri |-> u, rows |-> rows]}
         /\ \A v \in PythonWriters \ {w} : hand'[v] = hand[v]
<1> DEFINE h == [uri |-> u, rows |-> rows]
<1>1. hand' = [hand EXCEPT ![w] = {h}]
      /\ raw' = raw /\ tx' = tx /\ now' = now /\ version' = version
  BY DEF Take, rawVars
<1>2. /\ hand'[w] = {h}
      /\ \A v \in PythonWriters \ {w} : hand'[v] = hand[v]
  BY <1>1 DEF Base, BlobTypes
<1>3. hand' \in [PythonWriters -> {{}} \cup {{g} : g \in [uri : DOMAIN blobs', rows : Records]}]
  <2>1. {h} \in {{}} \cup {{g} : g \in [uri : DOMAIN blobs', rows : Records]}
    OBVIOUS
  <2>2. [uri : DOMAIN blobs, rows : Records] \subseteq [uri : DOMAIN blobs', rows : Records]
    OBVIOUS
  <2>3. \A v \in PythonWriters :
          hand[v] \in {{}} \cup {{g} : g \in [uri : DOMAIN blobs', rows : Records]}
    BY <2>2 DEF Base, BlobTypes
  <2>4. hand \in [PythonWriters -> {{}} \cup {{g} : g \in [uri : DOMAIN blobs', rows : Records]}]
    BY <2>3 DEF Base, BlobTypes
  <2>5. QED
    BY <1>1, <2>1, <2>4
<1>4. BlobTypes'
  BY <1>1, <1>3 DEF Base, BlobTypes
<1>5. HandIsRead'
  <2>1. ASSUME NEW v \in PythonWriters, NEW g \in hand'[v], NEW e \in DOMAIN g.rows
        PROVE  Found(blobs'[g.uri], e)
    <3>1. CASE v = w
      BY <1>2, <2>1, <3>1
    <3>2. CASE v # w
      <4>1. g \in hand[v] /\ g.uri \in DOMAIN blobs
        BY <1>2, <2>1, <3>2, HandFacts DEF Base
      <4>2. QED
        BY <2>1, <4>1 DEF Base, TableInv, HandIsRead
    <3>3. QED
      BY <3>1, <3>2
  <2>2. QED
    BY <2>1 DEF HandIsRead, Found
<1>6. w \notin DOMAIN tx
  BY DEF Base, TableInv, WritesItsBlob
<1>7. WritesItsBlob'
  BY <1>1, <1>2, <1>6 DEF Base, TableInv, WritesItsBlob
<1>8. RawTypeOK' /\ NifiHasNoUri'
  BY <1>1 DEF Base, TableInv, NifiHasNoUri, RawTypeOK
<1>9. HandlesResolve' /\ Grows
  BY <1>1 DEF Base, TableInv, HandlesResolve, Grows, Stored
<1>10. QED
  BY <1>2, <1>4, <1>5, <1>7, <1>8, <1>9 DEF Base, TableInv

\* A response is archived with the records the fetch found in it.
LEMMA ArchiveCall ==
  ASSUME BackfillAssumption, Base, NEW w \in PythonWriters, hand[w] = {}, NEW u \in Uris,
         NEW body \in Responses, Archive(w, u, body)
  PROVE  /\ Base' /\ Grows
         /\ DOMAIN blobs' = DOMAIN blobs \cup {u}
         /\ blobs'[u] = body
         /\ hand'[w] = {[uri |-> u, rows |-> FetchParser[version[w]][body]]}
         /\ \A v \in PythonWriters \ {w} : hand'[v] = hand[v]
<1> DEFINE rows == FetchParser[version[w]][body]
<1>1. /\ u \notin DOMAIN blobs
      /\ DOMAIN blobs' = DOMAIN blobs \cup {u}
      /\ blobs'[u] = body
      /\ \A v \in DOMAIN blobs : blobs'[v] = blobs[v]
      /\ blobs' = [v \in DOMAIN blobs \cup {u} |-> IF v = u THEN body ELSE blobs[v]]
      /\ body \in DOMAIN FetchParser[version[w]]
      /\ Take(w, u, rows)
      /\ UNCHANGED <<rawVars, version>>
  BY DEF Archive
<1>2. version[w] \in Versions
  BY DEF Base, BlobTypes
<1>3. rows \in Records /\ \A e \in DOMAIN rows : Found(body, e)
  BY <1>1, <1>2 DEF BackfillAssumption, IsParser, Found, Finds
<1>4. blobs' \in [DOMAIN blobs' -> Responses] /\ DOMAIN blobs' \subseteq Uris
  BY <1>1 DEF Base, BlobTypes
<1>5. Base' /\ Grows /\ hand'[w] = {[uri |-> u, rows |-> rows]}
      /\ \A v \in PythonWriters \ {w} : hand'[v] = hand[v]
  <2> HIDE DEF rows
  <2> QED
    BY <1>1, <1>3, <1>4, TakeCall
<1>6. QED
  BY <1>1, <1>5

LEMMA BeginCall ==
  ASSUME Base, NEW w \in PythonWriters, BeginUpsertOf(w)
  PROVE  Base' /\ Grows
<1>1. PICK h \in hand[w] : DOMAIN h.rows # {} /\ Start(w, h.rows, h.uri)
  BY DEF BeginUpsertOf
<1>2. UNCHANGED <<blobs, version, hand>>
  BY DEF BeginUpsertOf
<1>3. hand[w] = {h} /\ h \in [uri : DOMAIN blobs, rows : Records]
  BY HandFacts DEF Base
<1>4. w \in Writers /\ h.uri \in UriOrNull /\ w \notin NifiWriters
  BY <1>3, RawAssumption DEF Writers, Base, BlobTypes, UriOrNull
<1>5. DOMAIN h.rows \subseteq Events /\ h.rows \in [DOMAIN h.rows -> Payloads]
  BY <1>3, RecordsFacts
<1>6. /\ RawTypeOK' /\ raw' = raw
      /\ DOMAIN tx' = DOMAIN tx \cup {w} /\ tx'[w].rows = h.rows /\ tx'[w].uri = h.uri
      /\ \A v \in DOMAIN tx \ {w} : tx'[v] = tx[v]
  BY <1>1, <1>4, <1>5, StartTypes DEF Base, TableInv
<1>7. h = [uri |-> tx'[w].uri, rows |-> tx'[w].rows]
  BY <1>3, <1>6
<1>8. WritesItsBlob'
  BY <1>1, <1>2, <1>3, <1>6, <1>7 DEF Base, TableInv, WritesItsBlob
<1>9. NifiHasNoUri'
  BY <1>4, <1>6 DEF Base, TableInv, NifiHasNoUri
<1>10. HandlesResolve' /\ Grows /\ BlobTypes' /\ HandIsRead'
  BY <1>2, <1>6 DEF Base, TableInv, HandlesResolve, Grows, Stored, BlobTypes, HandIsRead
<1>11. QED
  BY <1>6, <1>8, <1>9, <1>10 DEF Base, TableInv

\* What the end of a call leaves of the hands.
LEMMA LetGoCall ==
  ASSUME BlobTypes, HandIsRead, NEW w \in PythonWriters, LetGo(w),
         UNCHANGED <<blobs, version>>
  PROVE  /\ BlobTypes' /\ HandIsRead'
         /\ hand'[w] = {}
         /\ \A v \in PythonWriters \ {w} : hand'[v] = hand[v]
<1>1. hand' = [hand EXCEPT ![w] = {}]
  BY DEF LetGo
<1>2. /\ hand'[w] = {}
      /\ \A v \in PythonWriters \ {w} : hand'[v] = hand[v]
  BY <1>1 DEF BlobTypes
<1>3. BlobTypes'
  BY <1>1 DEF BlobTypes
<1>4. HandIsRead'
  BY <1>2 DEF HandIsRead, Found
<1>5. QED
  BY <1>2, <1>3, <1>4

LEMMA CommitCall ==
  ASSUME Base, NEW w \in PythonWriters, CommitUpsert(w)
  PROVE  /\ Base' /\ Grows
         /\ blobs' = blobs /\ version' = version /\ hand'[w] = {}
         /\ \A v \in PythonWriters \ {w} : hand'[v] = hand[v]
         /\ \A h \in hand[w] : \A e \in DOMAIN h.rows : Stored(e)'
<1>1. Commit(w) /\ w \in DOMAIN tx /\ blobs' = blobs /\ version' = version /\ LetGo(w)
  BY DEF CommitUpsert, Commit
<1>2. w \in Writers
  BY DEF Writers
<1> DEFINE h == [uri |-> tx[w].uri, rows |-> tx[w].rows]
<1>3. hand[w] = {h}
  BY <1>1 DEF Base, TableInv, WritesItsBlob
<1>4. h.uri \in DOMAIN blobs /\ h.uri \in Uris
  BY <1>3, HandFacts DEF Base, BlobTypes
<1>5. h.uri # NoUri
  BY <1>4, RawAssumption
<1>6. /\ RawTypeOK'
      /\ DOMAIN tx' = DOMAIN tx \ {w}
      /\ \A v \in DOMAIN tx' : tx'[v] = tx[v]
  BY <1>1, <1>2, CloseTypes DEF Base, TableInv
<1>7. /\ BlobTypes' /\ HandIsRead' /\ hand'[w] = {}
      /\ \A v \in PythonWriters \ {w} : hand'[v] = hand[v]
  BY <1>1, LetGoCall DEF Base, TableInv
<1>8. WritesItsBlob' /\ NifiHasNoUri'
  BY <1>6, <1>7 DEF Base, TableInv, WritesItsBlob, NifiHasNoUri
<1>9. HandlesResolve'
  <2> SUFFICES ASSUME NEW e \in DOMAIN raw', raw'[e].archive_uri # NoUri
               PROVE  /\ raw'[e].archive_uri \in DOMAIN blobs
                      /\ Found(blobs[raw'[e].archive_uri], e)
    BY <1>1 DEF HandlesResolve, Found
  <2>1. \/ e \in DOMAIN raw /\ raw'[e].archive_uri = raw[e].archive_uri
        \/ e \in DOMAIN h.rows /\ raw'[e].archive_uri = h.uri
    BY <1>1, <1>2, CommitHandleOrigin DEF Base, TableInv
  <2>2. \A d \in DOMAIN h.rows : Found(blobs[h.uri], d)
    BY <1>3 DEF Base, TableInv, HandIsRead
  <2>3. QED
    BY <1>4, <2>1, <2>2 DEF Base, TableInv, HandlesResolve, Found
<1>10. Grows
  BY <1>1, <1>2, CommitOnlyAdds DEF Base, TableInv, Grows, Stored
<1>11. \A e \in DOMAIN h.rows : Stored(e)'
  BY <1>1, <1>2, <1>5, CommitGivesHandles DEF Stored
<1>12. \A g \in hand[w] : \A e \in DOMAIN g.rows : Stored(e)'
  BY <1>3, <1>11
<1>13. QED
  BY <1>1, <1>6, <1>7, <1>8, <1>9, <1>10, <1>12 DEF Base, TableInv

LEMMA FailCall ==
  ASSUME Base, NEW w \in PythonWriters, Fail(w)
  PROVE  /\ Base' /\ Grows
         /\ blobs' = blobs /\ version' = version /\ hand'[w] = {} /\ raw' = raw
         /\ \A v \in PythonWriters \ {w} : hand'[v] = hand[v]
<1>1. /\ blobs' = blobs /\ version' = version /\ LetGo(w) /\ raw' = raw
      /\ w \in Writers
  BY DEF Fail, Abort, rawVars, Writers
<1>2. /\ RawTypeOK'
      /\ DOMAIN tx' = DOMAIN tx \ {w}
      /\ \A v \in DOMAIN tx' : tx'[v] = tx[v]
  <2>1. CASE Abort(w)
    BY <1>1, <2>1, CloseTypes DEF Base, TableInv
  <2>2. CASE w \notin DOMAIN tx /\ UNCHANGED rawVars
    BY <2>2 DEF Base, TableInv, RawTypeOK, rawVars
  <2>3. QED
    BY <2>1, <2>2 DEF Fail
<1>3. /\ BlobTypes' /\ HandIsRead' /\ hand'[w] = {}
      /\ \A v \in PythonWriters \ {w} : hand'[v] = hand[v]
  BY <1>1, LetGoCall DEF Base, TableInv
<1>4. WritesItsBlob' /\ NifiHasNoUri'
  BY <1>2, <1>3 DEF Base, TableInv, WritesItsBlob, NifiHasNoUri
<1>5. HandlesResolve' /\ Grows
  BY <1>1 DEF Base, TableInv, HandlesResolve, Grows, Stored
<1>6. QED
  BY <1>1, <1>2, <1>3, <1>4, <1>5 DEF Base, TableInv

LEMMA EmptyCall ==
  ASSUME Base, NEW w \in PythonWriters, NothingToWrite(w)
  PROVE  /\ Base' /\ Grows
         /\ blobs' = blobs /\ version' = version /\ hand'[w] = {}
         /\ \A v \in PythonWriters \ {w} : hand'[v] = hand[v]
         /\ \A h \in hand[w] : \A e \in DOMAIN h.rows : Stored(e)'
<1>1. /\ blobs' = blobs /\ version' = version /\ LetGo(w)
      /\ raw' = raw /\ tx' = tx /\ now' = now
  BY DEF NothingToWrite, rawVars
<1>2. PICK h \in hand[w] : DOMAIN h.rows = {}
  BY DEF NothingToWrite
<1>3. hand[w] = {h}
  BY HandFacts DEF Base
<1>4. w \notin DOMAIN tx
  BY <1>2, <1>3 DEF Base, TableInv, WritesItsBlob
<1>5. /\ BlobTypes' /\ HandIsRead' /\ hand'[w] = {}
      /\ \A v \in PythonWriters \ {w} : hand'[v] = hand[v]
  BY <1>1, LetGoCall DEF Base, TableInv
<1>6. WritesItsBlob' /\ NifiHasNoUri'
  BY <1>1, <1>4, <1>5 DEF Base, TableInv, WritesItsBlob, NifiHasNoUri
<1>7. RawTypeOK' /\ HandlesResolve' /\ Grows
  BY <1>1 DEF Base, TableInv, RawTypeOK, HandlesResolve, Grows, Stored
<1>8. QED
  BY <1>1, <1>2, <1>3, <1>5, <1>6, <1>7 DEF Base, TableInv

-----------------------------------------------------------------------------
(* The loop. *)

\* The run goes on with the parser it started with.
SameRun == mode' = mode /\ version'[Container] = version[Container]

\* A run reads a blob the same way from beginning to end.
LEMMA ParsedKept ==
  ASSUME IInv, Grows, SameRun, NEW u \in DOMAIN blobs
  PROVE  /\ Parsed(u)' = Parsed(u)
         /\ AllStored(u) => AllStored(u)'
<1>1. blobs'[u] = blobs[u]
  BY DEF Grows
<1>2. Parsed(u)' = Parsed(u)
  BY <1>1 DEF Parsed, SameRun
<1>3. \A e : Stored(e) => Stored(e)'
  BY DEF Grows, Stored
<1>4. QED
  BY <1>2, <1>3 DEF AllStored

\* The duty of the loop passes from the listed blobs to the hand and the table.
LEMMA DutyKept ==
  ASSUME IInv, Grows, SameRun, owed' \subseteq owed,
         \A u \in owed' \cap keys : u \in keys' \/ InHand(u)' \/ AllStored(u)',
         \A u \in owed' : InHand(u) => InHand(u)' \/ AllStored(u)'
  PROVE  OwedOrStored'
<1> SUFFICES ASSUME NEW u \in owed'
             PROVE  u \in keys' \/ InHand(u)' \/ AllStored(u)'
  BY DEF OwedOrStored
<1>1. u \in DOMAIN blobs
  BY DEF IInv, LoopTypes
<1>2. AllStored(u) => AllStored(u)'
  BY <1>1, ParsedKept
<1>3. u \in keys \/ InHand(u) \/ AllStored(u)
  BY DEF IInv, OwedOrStored
<1>4. QED
  BY <1>2, <1>3

LEMMA NothingElse ==
  ASSUME Base, UNCHANGED <<rawVars, blobs, version, hand>>
  PROVE  Base' /\ Grows
<1>1. raw' = raw /\ tx' = tx /\ now' = now
      /\ blobs' = blobs /\ version' = version /\ hand' = hand
  BY DEF rawVars
<1>2. QED
  BY <1>1 DEF Base, TableInv, BlobTypes, RawTypeOK, HandIsRead, Found, WritesItsBlob,
     NifiHasNoUri, HandlesResolve, Grows, Stored

\* The container is off: nothing is owed, nothing in hand.
LEMMA OffInvariant ==
  ASSUME BackfillAssumption, Base', Off, hand'[Container] = {}
  PROVE  IInv'
<1>1. mode' = "off" /\ cursor' = 0 /\ keys' = {} /\ owed' = {}
  BY DEF Off
<1>2. LoopTypes' /\ Idle' /\ OwedOrStored' /\ HandIsOwn'
  BY <1>1 DEF LoopTypes, Idle, OwedOrStored, HandIsOwn, BackfillAssumption
<1>3. QED
  BY <1>2 DEF IInv

LEMMA InitInvariant ==
  ASSUME BackfillAssumption, Init
  PROVE  IInv
<1>1. RawTypeOK
  BY RawAssumption DEF Init, RawInit, RawTypeOK
<1>2. BlobTypes /\ LoopTypes
  BY DEF Init, BlobTypes, LoopTypes, BackfillAssumption
<1>3. HandIsRead /\ WritesItsBlob /\ NifiHasNoUri /\ HandlesResolve
  BY DEF Init, RawInit, HandIsRead, WritesItsBlob, NifiHasNoUri, HandlesResolve
<1>4. Idle /\ HandIsOwn /\ OwedOrStored
  BY DEF Init, Idle, HandIsOwn, OwedOrStored, BackfillAssumption
<1>5. QED
  BY <1>1, <1>2, <1>3, <1>4 DEF IInv, Base, TableInv

LEMMA StartInvariant ==
  ASSUME BackfillAssumption, IInv, StartHistorical \/ StartReplay
  PROVE  IInv' /\ Grows
<1>1. mode = "off" /\ mode' \in {"historical", "replay"} /\ cursor' = cursor
      /\ hand' = hand /\ UNCHANGED <<rawVars, blobs, version, hand>>
  BY DEF StartHistorical, StartReplay
<1>2. Base' /\ Grows
  BY <1>1, NothingElse DEF IInv
<1>3. hand[Container] = {} /\ keys = {} /\ owed = {}
  BY <1>1 DEF IInv, Idle
<1>4. HandIsOwn'
  BY <1>1, <1>3 DEF HandIsOwn
<1>5. CASE StartHistorical
  <2>1. mode' = "historical" /\ keys' = keys /\ owed' = owed
    BY <1>5 DEF StartHistorical
  <2>2. LoopTypes' /\ Idle' /\ OwedOrStored'
    BY <1>1, <1>3, <2>1 DEF IInv, LoopTypes, Idle, OwedOrStored
  <2>3. QED
    BY <1>2, <1>4, <2>2 DEF IInv
<1>6. CASE StartReplay
  <2>1. mode' = "replay" /\ keys' = DOMAIN blobs /\ owed' = DOMAIN blobs /\ blobs' = blobs
    BY <1>6 DEF StartReplay
  <2>2. LoopTypes' /\ Idle' /\ OwedOrStored'
    BY <1>1, <2>1 DEF IInv, LoopTypes, Idle, OwedOrStored
  <2>3. QED
    BY <1>2, <1>4, <2>2 DEF IInv
<1>7. QED
  BY <1>5, <1>6

LEMMA EndInvariant ==
  ASSUME BackfillAssumption, IInv, Finish \/ Killed
  PROVE  IInv' /\ Grows
<1>1. CASE Finish
  <2>1. Base' /\ Grows
    BY <1>1, NothingElse DEF IInv, Finish
  <2>2. Off /\ hand'[Container] = {}
    BY <1>1 DEF Finish, Free
  <2>3. QED
    BY <2>1, <2>2, OffInvariant
<1>2. CASE Killed
  <2>1. Off /\ Fail(Container)
    BY <1>2 DEF Killed
  <2>2. Base' /\ Grows /\ hand'[Container] = {}
    BY <2>1, FailCall DEF IInv, BackfillAssumption
  <2>3. QED
    BY <2>1, <2>2, OffInvariant
<1>3. QED
  BY <1>1, <1>2

LEMMA CursorType ==
  ASSUME BackfillAssumption, LoopTypes
  PROVE  NextCursor \in 0..Days
<1>1. ChunkDays \in Nat /\ Days \in Nat /\ cursor \in 0..Days
  BY DEF ChunkDays, BackfillAssumption, LoopTypes
<1>2. QED
  BY <1>1 DEF NextCursor

LEMMA FetchInvariant ==
  ASSUME BackfillAssumption, IInv, FetchChunk \/ FetchFails
  PROVE  IInv' /\ Grows
<1>1. /\ mode = "historical" /\ hand[Container] = {}
      /\ cursor' = NextCursor /\ mode' = mode /\ keys' = keys
  BY DEF FetchChunk, FetchFails, Free
<1>2. cursor' \in 0..Days
  BY <1>1, CursorType DEF IInv
<1>3. keys = {} /\ ~(\E u : InHand(u))
  BY <1>1 DEF IInv, Idle, InHand
<1>4. CASE FetchChunk
  <2>1. PICK u \in Uris, body \in Responses :
          Archive(Container, u, body) /\ owed' = owed \cup {u}
    BY <1>4 DEF FetchChunk
  <2> DEFINE rows == FetchParser[version[Container]][body]
  <2>2. /\ Base' /\ Grows
        /\ DOMAIN blobs' = DOMAIN blobs \cup {u}
        /\ blobs'[u] = body
        /\ hand'[Container] = {[uri |-> u, rows |-> rows]}
    <3>1. Container \in PythonWriters /\ Base /\ hand[Container] = {}
      BY <1>1 DEF IInv, BackfillAssumption
    <3>2. Archive(Container, u, body)
      BY <2>1
    <3>3. QED
      BY <3>1, <3>2, ArchiveCall
  <2>3. version' = version /\ SameRun
    BY <1>1, <2>1 DEF Archive, SameRun
  <2>4. LoopTypes' /\ Idle'
    BY <1>1, <1>2, <1>3, <2>1, <2>2 DEF IInv, LoopTypes, Idle
  <2>5. HandIsOwn'
    BY <1>1, <2>2, <2>3 DEF HandIsOwn, Parsed
  <2>6. \A v \in owed : AllStored(v)'
    <3>1. \A v \in owed : v \in DOMAIN blobs /\ AllStored(v)
      BY <1>3 DEF IInv, LoopTypes, OwedOrStored
    <3>2. QED
      BY <2>2, <2>3, <3>1, ParsedKept
  <2>7. OwedOrStored'
    BY <2>1, <2>2, <2>6 DEF OwedOrStored, InHand
  <2>8. QED
    BY <2>2, <2>4, <2>5, <2>7 DEF IInv
<1>5. CASE FetchFails
  <2>1. owed' = owed /\ hand' = hand /\ UNCHANGED <<rawVars, blobs, version, hand>>
        /\ SameRun
    BY <1>1, <1>5 DEF FetchFails, SameRun
  <2>2. Base' /\ Grows
    BY <2>1, NothingElse DEF IInv
  <2>3. LoopTypes' /\ Idle' /\ HandIsOwn'
    BY <1>1, <1>2, <1>3, <2>1 DEF IInv, LoopTypes, Idle, HandIsOwn
  <2>4. OwedOrStored'
    BY <1>1, <1>3, <2>1, <2>2, DutyKept
  <2>5. QED
    BY <2>2, <2>3, <2>4 DEF IInv
<1>6. QED
  BY <1>4, <1>5

LEMMA ReplayInvariant ==
  ASSUME BackfillAssumption, IInv, ReadBlob \/ SkipBlob
  PROVE  IInv' /\ Grows
<1>1. /\ mode = "replay" /\ hand[Container] = {}
      /\ mode' = mode /\ cursor' = cursor /\ blobs' = blobs /\ version' = version
      /\ SameRun /\ UNCHANGED rawVars
  BY DEF ReadBlob, SkipBlob, Free, SameRun
<1>2. ~(\E u : InHand(u))
  BY <1>1 DEF InHand
<1>3. CASE ReadBlob
  <2>1. PICK u \in keys :
          /\ blobs[u] \in DOMAIN ReplayParser[version[Container]]
          /\ Take(Container, u, ReplayParser[version[Container]][blobs[u]])
          /\ keys' = keys \ {u}
    BY <1>3 DEF ReadBlob
  <2> DEFINE rows == ReplayParser[version[Container]][blobs[u]]
  <2>2. u \in DOMAIN blobs /\ owed' = owed
    BY <1>3 DEF IInv, LoopTypes, ReadBlob
  <2>3. version[Container] \in Versions /\ Container \in PythonWriters
    BY DEF IInv, Base, BlobTypes, BackfillAssumption
  <2>4. rows \in Records /\ \A e \in DOMAIN rows : Found(blobs[u], e)
    BY <2>1, <2>3 DEF BackfillAssumption, IsParser, Found, Finds
  <2>5. blobs' \in [DOMAIN blobs' -> Responses] /\ DOMAIN blobs' \subseteq Uris
    BY <1>1 DEF IInv, Base, BlobTypes
  <2>6. Base' /\ Grows /\ hand'[Container] = {[uri |-> u, rows |-> rows]}
    <3>1. Take(Container, u, rows)
      BY <2>1
    <3> HIDE DEF rows
    <3>2. QED
      BY <1>1, <2>2, <2>3, <2>4, <2>5, <3>1, TakeCall DEF IInv
  <2>7. LoopTypes' /\ Idle'
    BY <1>1, <2>1, <2>2 DEF IInv, LoopTypes, Idle
  <2>8. HandIsOwn'
    BY <1>1, <2>6 DEF HandIsOwn, Parsed
  <2>9. InHand(u)'
    BY <2>6 DEF InHand
  <2>10. OwedOrStored'
    <3>1. \A v \in owed' \cap keys : v \in keys' \/ InHand(v)'
      BY <2>1, <2>9
    <3>2. QED
      BY <1>1, <1>2, <2>2, <2>6, <3>1, DutyKept
  <2>11. QED
    BY <2>6, <2>7, <2>8, <2>10 DEF IInv
<1>4. CASE SkipBlob
  <2>1. PICK u \in keys : keys' = keys \ {u} /\ owed' = owed \ {u}
    BY <1>4 DEF SkipBlob
  <2>2. Base' /\ Grows /\ hand' = hand
    BY <1>4, NothingElse DEF IInv, SkipBlob
  <2>3. LoopTypes' /\ Idle' /\ HandIsOwn'
    BY <1>1, <2>1, <2>2 DEF IInv, LoopTypes, Idle, HandIsOwn
  <2>4. OwedOrStored'
    BY <1>1, <1>2, <2>1, <2>2, DutyKept
  <2>5. QED
    BY <2>2, <2>3, <2>4 DEF IInv
<1>5. QED
  BY <1>3, <1>4

\* The container lets go of its blob: stored, or no longer owed.
LEMMA ReleaseInvariant ==
  ASSUME BackfillAssumption, IInv, Base', Grows, SameRun, blobs' = blobs,
         hand'[Container] = {}, cursor' = cursor, keys' = keys, owed' \subseteq owed,
         \A h \in hand[Container] : h.uri \in owed' => \A e \in DOMAIN h.rows : Stored(e)'
  PROVE  IInv'
<1>1. LoopTypes' /\ Idle' /\ HandIsOwn'
  BY DEF IInv, LoopTypes, Idle, HandIsOwn, SameRun
<1>2. ASSUME NEW u \in owed', InHand(u) PROVE AllStored(u)'
  <2>1. PICK h \in hand[Container] : h.uri = u
    BY <1>2 DEF InHand
  <2>2. u \in DOMAIN blobs
    BY DEF IInv, LoopTypes
  <2>3. h.rows = Parsed(u)'
    BY <2>1, <2>2, ParsedKept DEF IInv, HandIsOwn
  <2>4. QED
    BY <2>1, <2>3 DEF AllStored
<1>3. OwedOrStored'
  BY <1>2, DutyKept
<1>4. QED
  BY <1>1, <1>3 DEF IInv

\* The loop does not notice what others do.
LEMMA OthersInvariant ==
  ASSUME BackfillAssumption, IInv, Base', Grows, UNCHANGED loopVars,
         hand'[Container] = hand[Container], version'[Container] = version[Container]
  PROVE  IInv'
<1>1. mode' = mode /\ cursor' = cursor /\ keys' = keys /\ owed' = owed /\ SameRun
  BY DEF loopVars, SameRun
<1>2. LoopTypes' /\ Idle'
  BY <1>1 DEF IInv, LoopTypes, Idle, Grows
<1>3. HandIsOwn'
  <2>1. ASSUME NEW h \in hand[Container] PROVE h.rows = Parsed(h.uri)'
    <3>1. h.uri \in DOMAIN blobs
      BY HandFacts DEF IInv, Base, BackfillAssumption
    <3>2. QED
      BY <1>1, <2>1, <3>1, ParsedKept DEF IInv, HandIsOwn
  <2>2. QED
    BY <2>1 DEF HandIsOwn
<1>4. OwedOrStored'
  <2>1. \A u : InHand(u)' <=> InHand(u)
    BY DEF InHand
  <2>2. QED
    BY <1>1, <2>1, DutyKept
<1>5. QED
  BY <1>2, <1>3, <1>4 DEF IInv

\* Another version for a process that does not run.
LEMMA ShipInvariant ==
  ASSUME BackfillAssumption, IInv, NEW w \in PythonWriters, Ship(w)
  PROVE  IInv' /\ Grows
<1>1. PICK v \in Versions : version' = [version EXCEPT ![w] = v]
  BY DEF Ship
<1>2. /\ raw' = raw /\ tx' = tx /\ now' = now /\ blobs' = blobs /\ hand' = hand
      /\ UNCHANGED loopVars /\ mode' = mode /\ cursor' = cursor /\ keys' = keys /\ owed' = owed
  BY DEF Ship, rawVars, loopVars
<1>3. BlobTypes'
  BY <1>1, <1>2 DEF IInv, Base, BlobTypes
<1>4. Base' /\ Grows
  BY <1>2, <1>3 DEF IInv, Base, TableInv, RawTypeOK, HandIsRead, Found, WritesItsBlob,
     NifiHasNoUri, HandlesResolve, Grows, Stored
<1>5. CASE w = Container
  <2>1. hand[Container] = {} /\ owed = {}
    BY <1>5 DEF Ship, IInv, Idle
  <2>2. LoopTypes' /\ Idle' /\ HandIsOwn' /\ OwedOrStored'
    BY <1>2, <2>1 DEF IInv, LoopTypes, Idle, HandIsOwn, OwedOrStored
  <2>3. QED
    BY <1>4, <2>2 DEF IInv
<1>6. CASE w # Container
  <2>1. version'[Container] = version[Container]
    BY <1>1, <1>6 DEF IInv, Base, BlobTypes, BackfillAssumption
  <2>2. QED
    BY <1>2, <1>4, <2>1, OthersInvariant
<1>7. QED
  BY <1>5, <1>6

LEMMA UpsertInvariant ==
  ASSUME BackfillAssumption, IInv, UpsertContainer
  PROVE  IInv' /\ Grows
<1>1. /\ mode' = mode /\ cursor' = cursor /\ keys' = keys /\ owed' = owed
      /\ UNCHANGED loopVars
  BY DEF UpsertContainer, loopVars
<1>2. Container \in PythonWriters /\ Base
  BY DEF BackfillAssumption, IInv
<1>3. CASE NothingToWrite(Container) \/ CommitUpsert(Container)
  <2>1. /\ Base' /\ Grows
        /\ blobs' = blobs /\ version' = version /\ hand'[Container] = {}
        /\ \A h \in hand[Container] : \A e \in DOMAIN h.rows : Stored(e)'
    BY <1>2, <1>3, EmptyCall, CommitCall
  <2>2. SameRun
    BY <1>1, <2>1 DEF SameRun
  <2>3. QED
    BY <1>1, <2>1, <2>2, ReleaseInvariant
<1>4. CASE BeginUpsertOf(Container)
  <2>1. Base' /\ Grows
    BY <1>2, <1>4, BeginCall
  <2>2. hand' = hand /\ version' = version
    BY <1>4 DEF BeginUpsertOf
  <2>3. QED
    BY <1>1, <2>1, <2>2, OthersInvariant
<1>5. QED
  BY <1>3, <1>4 DEF UpsertContainer

LEMMA RaiseInvariant ==
  ASSUME BackfillAssumption, IInv, UpsertRaises
  PROVE  IInv' /\ Grows
<1>1. Container \in PythonWriters /\ Base /\ Fail(Container)
  BY DEF BackfillAssumption, IInv, UpsertRaises
<1>2. Base' /\ Grows /\ blobs' = blobs /\ version' = version /\ hand'[Container] = {}
  BY <1>1, FailCall
<1>3. CASE Guarded /\ mode = "historical"
  <2>1. /\ owed' = owed \ {h.uri : h \in hand[Container]}
        /\ mode' = mode /\ cursor' = cursor /\ keys' = keys
    BY <1>3 DEF UpsertRaises
  <2>2. SameRun
    BY <1>2, <2>1 DEF SameRun
  <2>3. QED
    BY <1>2, <2>1, <2>2, ReleaseInvariant
<1>4. CASE ~(Guarded /\ mode = "historical")
  BY <1>2, <1>4, OffInvariant DEF UpsertRaises
<1>5. QED
  BY <1>3, <1>4

LEMMA LiveInvariant ==
  ASSUME BackfillAssumption, IInv, NEW w \in PythonWriters \ {Container}, Live(w)
  PROVE  IInv' /\ Grows
<1>1. Base /\ UNCHANGED loopVars /\ Container \in PythonWriters /\ Container # w
  BY DEF IInv, Live, BackfillAssumption
<1>2. CASE hand[w] = {} /\ \E u \in Uris, body \in Responses : Archive(w, u, body)
  <2>1. PICK u \in Uris, body \in Responses : Archive(w, u, body)
    BY <1>2
  <2>2. Base' /\ Grows /\ hand'[Container] = hand[Container]
    BY <1>1, <1>2, <2>1, ArchiveCall
  <2>3. version' = version
    BY <2>1 DEF Archive
  <2>4. QED
    BY <1>1, <2>2, <2>3, OthersInvariant
<1>3. CASE NothingToWrite(w) \/ CommitUpsert(w) \/ Fail(w)
  <2>1. Base' /\ Grows /\ hand'[Container] = hand[Container] /\ version' = version
    BY <1>1, <1>3, EmptyCall, CommitCall, FailCall
  <2>2. QED
    BY <1>1, <2>1, OthersInvariant
<1>4. CASE BeginUpsertOf(w)
  <2>1. Base' /\ Grows
    BY <1>1, <1>4, BeginCall
  <2>2. hand' = hand /\ version' = version
    BY <1>4 DEF BeginUpsertOf
  <2>3. QED
    BY <1>1, <2>1, <2>2, OthersInvariant
<1>5. QED
  BY <1>2, <1>3, <1>4 DEF Live

LEMMA PutSQLInvariant ==
  ASSUME BackfillAssumption, IInv, NEW w \in NifiWriters, PutSQL(w)
  PROVE  IInv' /\ Grows
<1>1. Base' /\ Grows
  BY PutSQLCall DEF IInv
<1>2. UNCHANGED loopVars /\ hand' = hand /\ version' = version
  BY DEF PutSQL, loopVars
<1>3. QED
  BY <1>1, <1>2, OthersInvariant

LEMMA NextInvariant ==
  ASSUME BackfillAssumption, IInv, [Next]_vars
  PROVE  IInv' /\ Grows
<1>1. CASE StartHistorical \/ StartReplay
  BY <1>1, StartInvariant
<1>2. CASE Finish \/ Killed
  BY <1>2, EndInvariant
<1>3. CASE FetchChunk \/ FetchFails
  BY <1>3, FetchInvariant
<1>4. CASE ReadBlob \/ SkipBlob
  BY <1>4, ReplayInvariant
<1>5. CASE UpsertContainer
  BY <1>5, UpsertInvariant
<1>6. CASE UpsertRaises
  BY <1>6, RaiseInvariant
<1>7. CASE \E w \in PythonWriters \ {Container} : Live(w)
  BY <1>7, LiveInvariant
<1>8. CASE \E w \in NifiWriters : PutSQL(w)
  BY <1>8, PutSQLInvariant
<1>9. CASE \E w \in PythonWriters : Ship(w)
  BY <1>9, ShipInvariant
<1>10. CASE UNCHANGED vars
  <2>1. /\ UNCHANGED <<rawVars, blobs, version, hand>> /\ UNCHANGED loopVars
        /\ hand' = hand /\ version' = version
    BY <1>10 DEF vars
  <2>2. Base' /\ Grows
    BY <2>1, NothingElse DEF IInv
  <2>3. QED
    BY <2>1, <2>2, OthersInvariant
<1>11. QED
  BY <1>1, <1>2, <1>3, <1>4, <1>5, <1>6, <1>7, <1>8, <1>9, <1>10 DEF Next

-----------------------------------------------------------------------------
(* Theorems. *)

\* The inductive invariant holds in every reachable state.
THEOREM Invariance ==
  ASSUME BackfillAssumption
  PROVE  Spec => []IInv
<1>1. Init => IInv
  BY InitInvariant
<1>2. IInv /\ [Next]_vars => IInv'
  BY NextInvariant
<1>3. QED
  BY <1>1, <1>2, PTL DEF Spec

\* The variables keep their types, whatever the writers do.
THEOREM TypeCorrect ==
  ASSUME BackfillAssumption
  PROVE  Spec => []TypeOK
<1>1. IInv => TypeOK
  BY DEF IInv, Base, TableInv, LoopTypes, BlobTypes, TypeOK
<1>2. QED
  BY <1>1, Invariance, PTL

\* What a handle names is in the archive, and some parser that was shipped finds the
\* event in it (ingest.py:69-70 and 153-154, live_ingest_dag.py:35-36), whatever the
\* parsers are.
THEOREM ArchiveCovers ==
  ASSUME BackfillAssumption
  PROVE  Spec => []HandlesResolve
<1>1. IInv => HandlesResolve
  BY DEF IInv, Base, TableInv
<1>2. QED
  BY <1>1, Invariance, PTL

\* The loops of ingest.py:61-113 and 146-157 leave no record behind, of those that the
\* parser they run with finds, when they end.
THEOREM RunsAreComplete ==
  ASSUME BackfillAssumption
  PROVE  Spec => EndMeansStored
<1>1. IInv => [Finish => \A u \in owed : \A e \in DOMAIN Parsed(u) : Stored(e)]_vars
  <2> SUFFICES ASSUME IInv, Finish, NEW u \in owed
               PROVE  \A e \in DOMAIN Parsed(u) : Stored(e)
    OBVIOUS
  <2>1. hand[Container] = {} /\ keys = {}
    BY DEF Finish, Free, IInv, Idle
  <2>2. QED
    BY <2>1 DEF IInv, OwedOrStored, AllStored, InHand
<1>2. QED
  BY <1>1, Invariance, PTL DEF EndMeansStored

\* Upserts only add (db.py:61-69), however often the archive is replayed (ingest.py:146-157)
\* and with whatever parsers: one that finds other events in an old body, another payload
\* for one it shares with its predecessor, nothing, or that raises.
THEOREM ReplayRewritesNothing ==
  ASSUME BackfillAssumption
  PROVE  Spec => RowsKept
<1> DEFINE Kept ==
      \A e \in DOMAIN raw :
        /\ e \in DOMAIN raw'
        /\ raw'[e].received_at = raw[e].received_at
        /\ raw'[e].payload = raw[e].payload
        /\ raw[e].archive_uri # NoUri => raw'[e].archive_uri = raw[e].archive_uri
<1>1. IInv /\ [Next]_vars => [Kept]_vars
  <2> SUFFICES ASSUME IInv, Next PROVE Kept
    OBVIOUS
  <2>1. RawTypeOK
    BY DEF IInv, Base, TableInv
  <2>2. CASE \E w \in Writers : Commit(w)
    BY <2>1, <2>2, CommitOnlyAdds
  <2>3. CASE raw' = raw
    BY <2>3
  <2>4. QED
    <3>1. \A w \in PythonWriters : w \in Writers
      BY DEF Writers
    <3>2. \A w \in NifiWriters : w \in Writers
      BY DEF Writers
    <3>3. CASE StartHistorical \/ StartReplay \/ Finish \/ FetchFails \/ ReadBlob \/ SkipBlob
      BY <2>3, <3>3 DEF StartHistorical, StartReplay, Finish, FetchFails, ReadBlob, SkipBlob,
         rawVars
    <3>4. CASE FetchChunk
      BY <2>3, <3>4 DEF FetchChunk, Archive, rawVars
    <3>5. CASE Killed \/ UpsertRaises
      BY <2>3, <3>5 DEF Killed, UpsertRaises, Fail, Abort, rawVars
    <3>6. CASE UpsertContainer
      <4>1. Container \in Writers
        BY <3>1 DEF BackfillAssumption
      <4>2. QED
        BY <2>2, <2>3, <3>6, <4>1 DEF UpsertContainer, NothingToWrite, BeginUpsertOf,
           CommitUpsert, Start, rawVars
    <3>7. ASSUME NEW w \in PythonWriters \ {Container}, Live(w)
          PROVE  (\E v \in Writers : Commit(v)) \/ raw' = raw
      BY <3>1, <3>7 DEF Live, Archive, NothingToWrite, BeginUpsertOf, CommitUpsert, Fail,
         Abort, Start, rawVars
    <3>8. ASSUME NEW w \in NifiWriters, PutSQL(w)
          PROVE  (\E v \in Writers : Commit(v)) \/ raw' = raw
      BY <3>2, <3>8 DEF PutSQL, BeginPutSQL, Start, Abort
    <3>9. ASSUME NEW w \in PythonWriters, Ship(w)
          PROVE  raw' = raw
      BY <3>9 DEF Ship, rawVars
    <3>10. QED
      BY <2>2, <2>3, <3>3, <3>4, <3>5, <3>6, <3>7, <3>8, <3>9 DEF Next
<1>2. QED
  BY <1>1, Invariance, PTL DEF Spec, RowsKept
=============================================================================
