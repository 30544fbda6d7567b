----------------------- MODULE EventCatalogueSyncProofs -----------------------
(***************************************************************************)
(* What a sync or a request leaves of what others put in the catalogue,    *)
(* for any events, meetings, TDB ids and transactions.                     *)
(***************************************************************************)
EXTENDS EventCatalogueProofs

(***************************************************************************)
(* Type correctness.                                                       *)
(***************************************************************************)

LEMMA NoEventType == NoEvent \in EventRows
  BY DEF NoEvent, EventRows

LEMMA IdleType == Idle \in Jobs
  BY NoEventType DEF Idle, Jobs, Entries

LEMMA EntryTypes ==
  /\ \A m \in Meetings, l \in Listings, r \in BOOLEAN : EquipeValues(m, l, r) \in Entries
  /\ \A t \in TdbIds : TdbValues(t) \in Entries
  /\ \A m \in Meetings : MatchValues(m) \in Entries
  /\ \A e \in Events : UnmatchValues(e) \in Entries
  BY DEF Entries

\* The columns an entry may write have the column's type.
Fits(v) ==
    /\ "tdb" \in DOMAIN v => v.tdb \in TdbIds \cup {None}
    /\ "equipe" \in DOMAIN v => v.equipe \in Meetings \cup {None}
    /\ "slug" \in DOMAIN v => v.slug \in Slugs \cup {None}
    /\ "payload" \in DOMAIN v => v.payload \in Meetings \cup {None}
    /\ "match" \in DOMAIN v => v.match \in {"unmatched", "manual"}
    /\ "active" \in DOMAIN v => v.active \in BOOLEAN
    /\ "seen" \in DOMAIN v => v.seen \in BOOLEAN

LEMMA EntriesFit ==
  ASSUME NEW v \in Entries
  PROVE  Fits(v)
  <1>1. ASSUME NEW m \in Meetings, NEW l \in Listings, NEW r \in BOOLEAN
        PROVE  Fits(EquipeValues(m, l, r))
    <2>1. CarriedTdb(m, l) \in TdbIds \cup {None}
      BY CatalogueAssumption DEF CarriedTdb
    <2> QED BY <2>1 DEF Fits, EquipeValues, Slugs
  <1>2. \A t \in TdbIds : Fits(TdbValues(t))
    BY DEF Fits, TdbValues, Slugs
  <1>3. \A m \in Meetings : Fits(MatchValues(m))
    BY DEF Fits, MatchValues
  <1>4. \A e \in Events : Fits(UnmatchValues(e))
    BY DEF Fits, UnmatchValues
  <1>5. Fits(NoEntry)
    BY DEF Fits, NoEntry
  <1> QED BY <1>1, <1>2, <1>3, <1>4, <1>5 DEF Entries

LEMMA WriteType ==
  ASSUME NEW r \in EventRows, NEW v, Fits(v), NEW columns \in SUBSET DOMAIN v
  PROVE  Write(r, v, columns) \in EventRows
  <1> DEFINE x == Write(r, v, columns)
  <1>1. /\ x.tdb = IF "tdb" \in columns THEN v.tdb ELSE r.tdb
        /\ x.equipe = IF "equipe" \in columns THEN v.equipe ELSE r.equipe
        /\ x.slug = IF "slug" \in columns THEN v.slug ELSE r.slug
        /\ x.payload = IF "payload" \in columns THEN v.payload ELSE r.payload
        /\ x.match = IF "match" \in columns THEN v.match ELSE r.match
        /\ x.active = IF "active" \in columns THEN v.active ELSE r.active
        /\ x.seen = IF "seen" \in columns THEN v.seen ELSE r.seen
    BY DEF Write, Columns
  <1>2. x = [tdb |-> x.tdb, equipe |-> x.equipe, slug |-> x.slug, payload |-> x.payload,
             match |-> x.match, active |-> x.active, seen |-> x.seen]
    BY DEF Write, Columns
  <1> HIDE DEF x
  <1>3. /\ x.tdb \in TdbIds \cup {None} /\ x.equipe \in Meetings \cup {None}
        /\ x.slug \in Slugs \cup {None} /\ x.payload \in Meetings \cup {None}
        /\ x.match \in {"unmatched", "manual"} /\ x.active \in BOOLEAN /\ x.seen \in BOOLEAN
    BY <1>1 DEF EventRows, Fits
  <1>4. x \in EventRows
    BY <1>2, <1>3 DEF EventRows
  <1> QED BY <1>4 DEF x

LEMMA SeenType ==
  ASSUME TypeOK, NEW w \in Workers, NEW e \in Events
  PROVE  Seen(w, e) \in EventRows
  BY DEF TypeOK, Seen

LEMMA CatalogueTakesType ==
  ASSUME TypeOK, NEW w \in Workers, NEW j \in Jobs, Takes(w, j)
  PROVE  job' \in [Workers -> Jobs]
  BY DEF TypeOK, Takes

LEMMA ProceedType ==
  ASSUME NEW j \in Jobs
  PROVE  Proceed(j) \in Jobs
  <1>1. NoEntry \in Entries
    BY DEF Entries
  <1>2. PICK step \in {"next", "stale", "commit"} :
          Proceed(j) = [j EXCEPT !.step = step, !.entry = NoEntry, !.loaded = NoEvent, !.target = None]
    BY DEF Proceed
  <1> QED BY <1>1, <1>2, NoEventType DEF Jobs

\* A job with other entries to do, and one at its COMMIT.
LEMMA JobTypes ==
  ASSUME NEW j \in Jobs
  PROVE  /\ \A v \in j.todo : [j EXCEPT !.entry = v, !.todo = @ \ {v}] \in Jobs
         /\ [j EXCEPT !.step = "commit"] \in Jobs
  <1>1. j.todo \subseteq Entries
    BY DEF Jobs
  <1>2. ASSUME NEW v \in j.todo
        PROVE  [j EXCEPT !.entry = v, !.todo = @ \ {v}] \in Jobs
    <2>1. v \in Entries /\ j.todo \ {v} \in SUBSET Entries
      BY <1>1
    <2> QED BY <2>1 DEF Jobs
  <1>3. [j EXCEPT !.step = "commit"] \in Jobs
    BY DEF Jobs
  <1> QED BY <1>2, <1>3

LEMMA DraftType ==
  ASSUME TypeOK, NEW w \in Workers, NEW e \in Events, NEW r \in EventRows, Writes(w, e, r)
  PROVE  draft' \in [Workers -> [Events -> EventRows]]
  BY DEF TypeOK, Writes

LEMMA FindsType ==
  ASSUME TypeOK, NEW w \in Workers, NEW j \in Jobs, NEW found \in SUBSET Events, Finds(w, j, found)
  PROVE  job' \in [Workers -> Jobs]
  <1>1. ASSUME NEW e \in found
        PROVE  [j EXCEPT !.step = "flush", !.target = e, !.loaded = Seen(w, e)] \in Jobs
    BY SeenType DEF Jobs
  <1>2. [j EXCEPT !.step = "flush"] \in Jobs
    BY DEF Jobs
  <1> QED BY <1>1, <1>2, CatalogueTakesType DEF Finds

LEMMA RolledBackType ==
  ASSUME TypeOK, NEW w \in Workers, RolledBack(w)
  PROVE  /\ job' \in [Workers -> Jobs]
         /\ draft' \in [Workers -> [Events -> EventRows]]
  BY IdleType, NoEventType, CatalogueTakesType DEF TypeOK, RolledBack

LEMMA RefusedType ==
  ASSUME TypeOK, NEW w \in Workers, Refused(w)
  PROVE  /\ job' \in [Workers -> Jobs]
         /\ draft' \in [Workers -> [Events -> EventRows]]
  <1>1. Proceed(job[w]) \in Jobs
    BY ProceedType DEF TypeOK
  <1> QED BY <1>1, RolledBackType, CatalogueTakesType DEF Refused, TypeOK

LEMMA CatalogueTypeStep ==
  ASSUME TypeOK, [Next]_vars
  PROVE  TypeOK'
  <1> USE DEF TypeOK
  <1>0. /\ Surprise => surprises' \in 0..MaxSurprises
        /\ UNCHANGED surprises => surprises' \in 0..MaxSurprises
    BY CatalogueAssumption DEF Surprise
  <1>1. ASSUME NEW m \in Meetings, FeedChanges(m)
        PROVE  TypeOK'
    BY <1>0, <1>1 DEF FeedChanges
  <1>2. ASSUME NEW e \in Events, Upload(e)
        PROVE  TypeOK'
    BY <1>0, <1>2 DEF Upload
  <1>3. ASSUME NEW w \in Workers, StartEquipeSync(w)
        PROVE  TypeOK'
    <2> DEFINE listed == {m \in Meetings : feed[m] # "absent"}
    <2>1. {EquipeValues(m, feed[m], TRUE) : m \in listed} \subseteq Entries
      BY EntryTypes
    <2>2. [Idle EXCEPT !.kind = "equipe", !.step = IF listed = {} THEN "commit" ELSE "next",
                       !.todo = {EquipeValues(m, feed[m], TRUE) : m \in listed},
                       !.ids = listed, !.before = photos] \in Jobs
      BY <2>1, IdleType DEF Jobs
    <2>3. job' \in [Workers -> Jobs]
      BY <1>3, <2>2, CatalogueTakesType DEF StartEquipeSync
    <2> QED BY <1>0, <1>3, <2>3 DEF StartEquipeSync
  <1>4. ASSUME NEW w \in Workers, StartTdbSync(w)
        PROVE  TypeOK'
    <2>1. {TdbValues(t) : t \in TdbIds} \subseteq Entries
      BY EntryTypes
    <2>2. [Idle EXCEPT !.kind = "tdb", !.step = "next", !.todo = {TdbValues(t) : t \in TdbIds}] \in Jobs
      BY <2>1, IdleType DEF Jobs
    <2>3. job' \in [Workers -> Jobs]
      BY <1>4, <2>2, CatalogueTakesType DEF StartTdbSync
    <2> QED BY <1>0, <1>4, <2>3 DEF StartTdbSync
  <1>5. ASSUME NEW w \in Workers, LoadEntry(w)
        PROVE  TypeOK'
    <2>1. PICK v \in job[w].todo :
             Finds(w, [job[w] EXCEPT !.entry = v, !.todo = @ \ {v}],
                   IF job[w].kind = "equipe" THEN FoundByEquipe(w, v) ELSE Holding(w, "tdb", v.tdb))
      BY <1>5 DEF LoadEntry
    <2>2. [job[w] EXCEPT !.entry = v, !.todo = @ \ {v}] \in Jobs
      BY JobTypes
    <2>3. job' \in [Workers -> Jobs]
      BY <2>1, <2>2, FindsType, FoundExists, HoldingExists
    <2> QED BY <1>0, <1>5, <2>3 DEF LoadEntry
  <1>6. ASSUME NEW w \in Workers, FlushUpdate(w) \/ FlushInsert(w)
        PROVE  TypeOK'
    <2>1. job[w] \in Jobs /\ job[w].entry \in Entries /\ Proceed(job[w]) \in Jobs
      BY ProceedType DEF Jobs
    <2>2. job' \in [Workers -> Jobs]
      BY <1>6, <2>1, CatalogueTakesType DEF FlushUpdate, FlushInsert
    <2>3. CASE FlushUpdate(w)
      <3> DEFINE v == job[w].entry
      <3>1. job[w].target \in Events
        BY <2>1, <2>3 DEF FlushUpdate, Jobs
      <3>2. ASSUME NEW extra \in SUBSET ({"payload"} \cap DOMAIN v)
            PROVE  Write(Seen(w, job[w].target), v, Dirty(job[w], v) \cup extra) \in EventRows
        <4>1. Dirty(job[w], v) \cup extra \subseteq DOMAIN v
          BY DEF Dirty
        <4> QED BY <2>1, <3>1, <4>1, SeenType, EntriesFit, WriteType
      <3>3. draft' \in [Workers -> [Events -> EventRows]]
        BY <2>3, <3>1, <3>2, DraftType DEF FlushUpdate
      <3>4. imported' \subseteq Events /\ crossed' \subseteq Events
        BY <2>3, <3>1 DEF FlushUpdate
      <3> QED BY <1>0, <2>2, <2>3, <3>3, <3>4 DEF FlushUpdate
    <2>4. CASE FlushInsert(w)
      <3>1. PICK e \in Events : Writes(w, e, Write(NoEvent, job[w].entry, DOMAIN job[w].entry))
        BY <2>4 DEF FlushInsert, Free
      <3>2. Write(NoEvent, job[w].entry, DOMAIN job[w].entry) \in EventRows
        BY <2>1, NoEventType, EntriesFit, WriteType
      <3>3. draft' \in [Workers -> [Events -> EventRows]]
        BY <3>1, <3>2, DraftType
      <3> QED BY <1>0, <2>2, <2>4, <3>3 DEF FlushInsert
    <2> QED BY <1>6, <2>3, <2>4
  <1>7. ASSUME NEW w \in Workers, Deactivate(w)
        PROVE  TypeOK'
    <2>1. [job[w] EXCEPT !.step = "commit"] \in Jobs
      BY JobTypes
    <2>2. job' \in [Workers -> Jobs]
      BY <1>7, <2>1, CatalogueTakesType DEF Deactivate
    <2>3. ASSUME NEW e \in Events
          PROVE  [Seen(w, e) EXCEPT !.active = FALSE] \in EventRows
      <3>1. PICK r \in EventRows : r = Seen(w, e)
        BY SeenType
      <3> QED BY <3>1 DEF EventRows
    <2>4. draft' \in [Workers -> [Events -> EventRows]]
      BY <1>7, <2>3 DEF Deactivate
    <2> QED BY <1>0, <1>7, <2>2, <2>4 DEF Deactivate
  <1>8. ASSUME NEW w \in Workers, NEW m \in Meetings, Import(w, m)
        PROVE  TypeOK'
    <2>1. PICK l \in {"bare", "full"} :
             Finds(w, [Idle EXCEPT !.kind = "import", !.entry = EquipeValues(m, l, FALSE)],
                   FoundByEquipe(w, EquipeValues(m, l, FALSE)))
      BY <1>8 DEF Import
    <2>2. EquipeValues(m, l, FALSE) \in Entries
      BY EntryTypes DEF Listings
    <2>3. [Idle EXCEPT !.kind = "import", !.entry = EquipeValues(m, l, FALSE)] \in Jobs
      BY <2>2, IdleType DEF Jobs
    <2>4. job' \in [Workers -> Jobs]
      BY <2>1, <2>3, FindsType, FoundExists
    <2> QED BY <1>0, <1>8, <2>4 DEF Import
  <1>9. ASSUME NEW w \in Workers, NEW e \in Events, Unmatch(w, e) \/ \E m \in Meetings : ManualMatch(w, e, m)
        PROVE  TypeOK'
    <2>1. PICK v \in Entries, kind \in {"match", "unmatch"} :
             Finds(w, [Idle EXCEPT !.kind = kind, !.entry = v], {e})
      BY <1>9, EntryTypes DEF Unmatch, ManualMatch
    <2>2. [Idle EXCEPT !.kind = kind, !.entry = v] \in Jobs
      BY IdleType DEF Jobs
    <2>3. job' \in [Workers -> Jobs]
      BY <2>1, <2>2, FindsType
    <2> QED BY <1>0, <1>9, <2>3 DEF Unmatch, ManualMatch
  <1>10. ASSUME NEW w \in Workers, Violation(w) \/ Deadlock(w)
         PROVE  TypeOK'
    <2>1. Refused(w) /\ UNCHANGED <<row, photos, feed, bare, imported, crossed, surprises>>
      BY <1>10 DEF Violation, Deadlock
    <2> QED BY <1>0, <2>1, RefusedType
  <1>11. ASSUME NEW w \in Workers, Commit(w)
         PROVE  TypeOK'
    <2>1. row' \in [Events -> EventRows]
      BY <1>11, SeenType DEF Commit
    <2>2. imported' \subseteq Events
      BY <1>11 DEF Commit, Changed
    <2> QED BY <1>0, <1>11, <2>1, <2>2, RolledBackType DEF Commit
  <1>12. ASSUME NEW w \in Workers, Die(w)
         PROVE  TypeOK'
    BY <1>0, <1>12, RolledBackType DEF Die
  <1>13. CASE UNCHANGED vars
    BY <1>0, <1>13 DEF vars
  <1>14. ASSUME NEW e \in Events, DeletePhoto(e)
         PROVE  TypeOK'
    <2>1. ASSUME NEW j \in Jobs
          PROVE  [j EXCEPT !.before = @ \ {e}] \in Jobs
      <3>1. PICK S : S = j.before \ {e}
        OBVIOUS
      <3>2. S \in SUBSET Events
        BY <3>1 DEF Jobs
      <3>3. [j EXCEPT !.before = S] \in Jobs
        BY <3>2 DEF Jobs
      <3> QED BY <3>1, <3>3
    <2> QED
      BY <1>0, <1>14, <2>1 DEF DeletePhoto
  <1> QED
    BY <1>1, <1>2, <1>3, <1>4, <1>5, <1>6, <1>7, <1>8, <1>9, <1>10, <1>11, <1>12, <1>13, <1>14 DEF Next

-----------------------------------------------------------------------------
(***************************************************************************)
(* What a transaction relies on, and what it leaves, beside CatalogueInv.  *)
(***************************************************************************)

\* A row shows its own meeting's schedule, and carries its meeting's TDB id.
ShowsOwn(r) == r.match = "unmatched" => ScheduleId(r) = r.equipe
Carries(r) ==
    r.match # "manual" /\ r.equipe \in Meetings \ bare /\ TdbOf[r.equipe] # None => r.tdb = TdbOf[r.equipe]

FeedOK == \A m \in Meetings :
    /\ feed[m] = "bare" => m \in bare
    /\ feed[m] = "full" => TdbOf[m] # None

RowOK(e) ==
    /\ ~Exists(row[e]) => row[e] = NoEvent
    /\ e \notin crossed => ShowsOwn(row[e]) /\ Carries(row[e])
    /\ e \in imported \ crossed => row[e].active /\ ~row[e].seen

\* The entries of each kind of transaction.
FromEquipe(v, recent) ==
    /\ DOMAIN v = {"tdb", "equipe", "slug", "payload", "active", "seen"}
    /\ v.equipe \in Meetings /\ v.payload = v.equipe /\ v.active = TRUE /\ v.seen = recent
    /\ \/ v.tdb = None /\ v.equipe \in bare
       \/ v.tdb # None /\ v.tdb = TdbOf[v.equipe]
EntryOf(j, v) ==
    /\ j.kind = "equipe" => FromEquipe(v, TRUE) /\ v.equipe \in j.ids
    /\ j.kind = "import" => FromEquipe(v, FALSE)
    /\ j.kind = "tdb" => DOMAIN v = {"tdb", "slug"}
    /\ j.kind = "match" => DOMAIN v = {"equipe", "match"} /\ v.match = "manual"
    /\ j.kind = "unmatch" => DOMAIN v = {"equipe", "match", "payload"} /\ v.equipe = None /\ v.payload = None

\* What an entry is about to change was found by one of its ids.
FoundBy(j) ==
    /\ j.kind \in {"equipe", "import"} =>
         \/ j.loaded.equipe = j.entry.equipe
         \/ j.entry.tdb # None /\ j.loaded.tdb = j.entry.tdb
    /\ j.kind = "tdb" => j.loaded.tdb = j.entry.tdb

\* Each meeting of a sync has one entry; a request has one entry, and no draft before it.
JobSync(w) ==
    LET j == job[w] IN
    /\ j.before \subseteq photos
    /\ \A v \in j.todo : EntryOf(j, v)
    /\ j.kind = "equipe" => \A u, v \in j.todo : u.equipe = v.equipe => u = v
    /\ j.kind \notin {"equipe", "tdb"} => j.todo = {}
    /\ j.step = "idle" => Changed(w) = {}
    /\ j.step = "next" => j.kind \in {"equipe", "tdb"}
    /\ j.step = "stale" => j.kind = "equipe"
    /\ j.step = "flush" =>
         /\ EntryOf(j, j.entry)
         /\ j.kind # "idle"
         /\ j.kind = "equipe" => \A v \in j.todo : v.equipe # j.entry.equipe
         /\ j.kind \notin {"equipe", "tdb"} => Changed(w) = {}
         /\ j.target # None => FoundBy(j)

\* What a draft d may be beside the committed row r.
DraftSync(j, e, r, d) ==
    /\ e \notin crossed => ShowsOwn(d) /\ Carries(d)
    /\ r.active /\ ~d.active =>
         /\ j.kind = "equipe" /\ j.step = "commit"
         /\ r.equipe \notin j.ids \cup {None}
         /\ r.seen \/ e \in crossed
         /\ e \notin j.before
    /\ j.kind = "equipe" =>
         \/ d.equipe \in j.ids
         \/ d.equipe = r.equipe /\ (e \in crossed \/ (j.step = "commit" /\ d.seen = r.seen))
    /\ j.kind # "equipe" /\ e \notin crossed => (d.seen => r.seen)
    /\ j.kind = "import" /\ e \notin crossed => d.active /\ ~d.seen
    /\ e \notin crossed /\ d.equipe # r.equipe =>
         /\ r.match = "manual" => j.kind \in {"match", "unmatch"} \/ (d.tdb # None /\ d.tdb = TdbOf[d.equipe])
         /\ j.kind = "equipe" =>
              /\ \A v \in j.todo : v.equipe # d.equipe
              /\ j.step = "flush" => j.entry.equipe # d.equipe

SyncOf(w) ==
    /\ JobSync(w)
    /\ \A e \in Changed(w) : DraftSync(job[w], e, row[e], draft[w][e])

SyncInv ==
    /\ FeedOK
    /\ \A e \in Events : RowOK(e)
    /\ \A w \in Workers : SyncOf(w)

\* The whole invariant.
FullInv == TypeOK /\ CatalogueInv /\ SyncInv

\* What other transactions rely on survives a step that leaves them alone.
LEMMA DraftKept ==
  ASSUME crossed \subseteq crossed', bare \subseteq bare', NEW j, NEW e, NEW r, NEW d, DraftSync(j, e, r, d)
  PROVE  DraftSync(j, e, r, d)'
  BY DEF DraftSync, ShowsOwn, Carries, ScheduleId

LEMMA EntryOfKept ==
  ASSUME bare \subseteq bare', NEW j, NEW v, EntryOf(j, v)
  PROVE  EntryOf(j, v)'
  BY DEF EntryOf, FromEquipe

LEMMA OtherKept ==
  ASSUME NEW v \in Workers, SyncOf(v), job'[v] = job[v], draft'[v] = draft[v],
         \A e \in Changed(v) : row'[e] = row[e],
         crossed \subseteq crossed', bare \subseteq bare', photos \subseteq photos'
  PROVE  SyncOf(v)'
  <1>1. Changed(v)' = Changed(v)
    BY DEF Changed, NoEvent
  <1>2. PICK j : j = job[v]
    OBVIOUS
  <1>3. \A x : EntryOf(j, x) => EntryOf(j, x)'
    BY EntryOfKept
  <1>4. JobSync(v)'
    BY <1>1, <1>2, <1>3 DEF SyncOf, JobSync, FoundBy
  <1>5. ASSUME NEW e \in Changed(v)
        PROVE  DraftSync(job[v], e, row[e], draft[v][e])'
    <2>1. PICK r, d : r = row[e] /\ d = draft[v][e]
      OBVIOUS
    <2>2. DraftSync(j, e, r, d)
      BY <1>2, <2>1 DEF SyncOf
    <2>3. DraftSync(j, e, r, d)'
      BY <2>2, DraftKept
    <2>4. j = job'[v] /\ r = row'[e] /\ d = draft'[v][e]
      BY <1>2, <2>1
    <2> QED BY <2>3, <2>4 DEF DraftSync
  <1> QED BY <1>1, <1>4, <1>5 DEF SyncOf

\* A step of w that commits nothing.
LEMMA OthersKept ==
  ASSUME FullInv, NEW w \in Workers, NEW j, Takes(w, j), UNCHANGED row,
         \A v \in Workers \ {w} : draft'[v] = draft[v],
         crossed \subseteq crossed', bare \subseteq bare', photos \subseteq photos',
         SyncOf(w)'
  PROVE  \A v \in Workers : SyncOf(v)'
  <1> SUFFICES ASSUME NEW v \in Workers, v # w
               PROVE  SyncOf(v)'
    OBVIOUS
  <1>1. job'[v] = job[v]
    BY DEF Takes, FullInv, TypeOK
  <1> QED BY <1>1, OtherKept DEF FullInv, SyncInv

LEMMA RowsKept ==
  ASSUME FullInv, UNCHANGED row, imported' \subseteq imported, crossed \subseteq crossed', bare \subseteq bare'
  PROVE  \A e \in Events : RowOK(e)'
  BY DEF FullInv, SyncInv, RowOK, ShowsOwn, Carries, ScheduleId, Exists, NoEvent

LEMMA FeedKept ==
  ASSUME FullInv, UNCHANGED feed, bare \subseteq bare'
  PROVE  FeedOK'
  BY DEF FullInv, SyncInv, FeedOK

\* A transaction that ends relies on nothing.
LEMMA EndedSync ==
  ASSUME FullInv, NEW w \in Workers, RolledBack(w)
  PROVE  SyncOf(w)'
  <1>1. Changed(w)' = {}
    BY Cleared DEF FullInv, CatalogueInv
  <1>2. job'[w] = Idle
    BY DEF RolledBack, Takes, FullInv, TypeOK
  <1>3. JobSync(w)'
    BY <1>1, <1>2 DEF JobSync, Idle
  <1> QED BY <1>1, <1>3 DEF SyncOf

\* What Proceed makes of a job at its flush.
LEMMA Proceeds ==
  ASSUME NEW j \in Jobs, j.step = "flush", j.kind \notin {"equipe", "tdb"} => j.todo = {}
  PROVE  /\ Proceed(j).kind = j.kind /\ Proceed(j).todo = j.todo
         /\ Proceed(j).ids = j.ids /\ Proceed(j).before = j.before
         /\ Proceed(j).step \in {"next", "stale", "commit"}
         /\ Proceed(j).step = "next" => j.kind \in {"equipe", "tdb"}
         /\ Proceed(j).step = "stale" => j.kind = "equipe"
         /\ Proceed(j).step = "commit" => j.kind # "equipe"
  BY DEF Proceed, Jobs

LEMMA ProceedSync ==
  ASSUME FullInv, NEW w \in Workers, job[w].step = "flush", Takes(w, Proceed(job[w])), bare \subseteq bare',
         photos \subseteq photos'
  PROVE  JobSync(w)' /\ job'[w] = Proceed(job[w])
  <1>1. job[w] \in Jobs /\ JobSync(w)
    BY DEF FullInv, TypeOK, SyncInv, SyncOf
  <1>2. PICK j : j = job[w]
    OBVIOUS
  <1>3. PICK p : p = Proceed(j)
    OBVIOUS
  <1>4. /\ p.kind = j.kind /\ p.todo = j.todo /\ p.ids = j.ids /\ p.before = j.before
        /\ p.step \in {"next", "stale", "commit"}
        /\ p.step = "next" => j.kind \in {"equipe", "tdb"}
        /\ p.step = "stale" => j.kind = "equipe"
    BY <1>1, <1>2, <1>3, Proceeds DEF JobSync
  <1>5. job'[w] = p
    BY <1>2, <1>3 DEF Takes, FullInv, TypeOK
  <1>6. \A x : EntryOf(j, x) => EntryOf(j, x)'
    BY EntryOfKept
  <1>7. \A x : EntryOf(j, x)' => EntryOf(p, x)'
    BY <1>4 DEF EntryOf
  <1>8. JobSync(w)'
    BY <1>1, <1>2, <1>4, <1>5, <1>6, <1>7 DEF JobSync
  <1> QED BY <1>2, <1>3, <1>5, <1>8

\* A draft that was there before the flush of another row, or of none.
LEMMA DraftProceeds ==
  ASSUME NEW j \in Jobs, NEW e, NEW r, NEW d, DraftSync(j, e, r, d), j.step = "flush",
         j.kind \notin {"equipe", "tdb"} => j.todo = {}, crossed \subseteq crossed', bare \subseteq bare',
         NEW p, p = Proceed(j)
  PROVE  DraftSync(p, e, r, d)'
  <1>1. p = Proceed(j)
    OBVIOUS
  <1>2. /\ p.kind = j.kind /\ p.todo = j.todo /\ p.ids = j.ids /\ p.before = j.before
        /\ p.step \in {"next", "stale", "commit"} /\ (p.step = "commit" => j.kind # "equipe")
    BY <1>1, Proceeds
  <1>3. DraftSync(p, e, r, d)
    BY <1>2 DEF DraftSync
  <1> QED BY <1>3, DraftKept

(***************************************************************************)
(* The flushes.                                                            *)
(***************************************************************************)

\* A written row has what the entry says, or what it had before and the entry
\* agrees with what was loaded.
LEMMA WriteColumns ==
  ASSUME NEW s, NEW v, NEW l, NEW columns \in SUBSET DOMAIN v, \A c \in DOMAIN v \ columns : v[c] = l[c],
         NEW x, x = Write(s, v, columns)
  PROVE  /\ "tdb" \in DOMAIN v => x.tdb = v.tdb \/ (x.tdb = s.tdb /\ v.tdb = l.tdb)
         /\ "tdb" \notin DOMAIN v => x.tdb = s.tdb
         /\ "equipe" \in DOMAIN v => x.equipe = v.equipe \/ (x.equipe = s.equipe /\ v.equipe = l.equipe)
         /\ "equipe" \notin DOMAIN v => x.equipe = s.equipe
         /\ "payload" \in DOMAIN v => x.payload = v.payload \/ (x.payload = s.payload /\ v.payload = l.payload)
         /\ "payload" \notin DOMAIN v => x.payload = s.payload
         /\ "match" \in DOMAIN v => x.match = v.match \/ (x.match = s.match /\ v.match = l.match)
         /\ "match" \notin DOMAIN v => x.match = s.match
         /\ "active" \in DOMAIN v => x.active = v.active \/ (x.active = s.active /\ v.active = l.active)
         /\ "active" \notin DOMAIN v => x.active = s.active
         /\ "seen" \in DOMAIN v => x.seen = v.seen \/ (x.seen = s.seen /\ v.seen = l.seen)
         /\ "seen" \notin DOMAIN v => x.seen = s.seen
  BY DEF Write, Columns

\* What w sees of an event is the committed row, or its own draft.
LEMMA SeenIs ==
  ASSUME FullInv, NEW w \in Workers, NEW e \in Events
  PROVE  \/ e \notin Changed(w) /\ Seen(w, e) = row[e]
         \/ e \in Changed(w) /\ Seen(w, e) = draft[w][e] /\ DraftSync(job[w], e, row[e], draft[w][e])
  BY DEF Seen, FullInv, SyncInv, SyncOf

LEMMA SeenSync ==
  ASSUME FullInv, NEW w \in Workers, NEW e \in Events, e \notin crossed
  PROVE  ShowsOwn(Seen(w, e)) /\ Carries(Seen(w, e))
  <1>1. PICK s : s = Seen(w, e)
    OBVIOUS
  <1>2. s = row[e] \/ (e \in Changed(w) /\ s = draft[w][e])
    BY <1>1, SeenIs
  <1>3. ShowsOwn(s) /\ Carries(s)
    BY <1>2 DEF FullInv, SyncInv, SyncOf, RowOK, DraftSync
  <1> QED BY <1>1, <1>3

LEMMA UpdateDraft ==
  ASSUME FullInv, NEW w \in Workers, NEW e \in Events, NEW columns,
         job[w].step = "flush", job[w].target = e,
         columns \in SUBSET DOMAIN job[w].entry, Dirty(job[w], job[w].entry) \subseteq columns,
         NEW x, x = Write(Seen(w, e), job[w].entry, columns),
         Seen(w, e) # job[w].loaded => e \in crossed',
         crossed \subseteq crossed', UNCHANGED bare,
         NEW p, p = Proceed(job[w]), NEW r, r = row[e]
  PROVE  DraftSync(p, e, r, x)'
  <1>1. PICK j, v, s, l : j = job[w] /\ v = j.entry /\ s = Seen(w, e) /\ l = j.loaded
    OBVIOUS
  <1>2. job[w] \in Jobs /\ JobSync(w)
    BY DEF FullInv, TypeOK, SyncInv, SyncOf
  <1>3. /\ EntryOf(j, v) /\ FoundBy(j) /\ j.kind # "idle"
        /\ j.kind = "equipe" => \A u \in j.todo : u.equipe # v.equipe
        /\ j.kind \notin {"equipe", "tdb"} => Changed(w) = {} /\ j.todo = {}
        /\ j.before \subseteq photos
    BY <1>1, <1>2, CatalogueAssumption DEF JobSync
  <1>4. \/ s = r
        \/ e \in Changed(w) /\ DraftSync(j, e, r, s)
    BY <1>1, SeenIs
  <1>5. e \notin crossed' => s = l /\ e \notin crossed /\ ShowsOwn(s) /\ Carries(s)
    BY <1>1, SeenSync
  <1>6. \A c \in DOMAIN v \ columns : v[c] = l[c]
    BY <1>1 DEF Dirty
  <1>7. p = Proceed(j)
    BY <1>1
  <1>8. /\ p.kind = j.kind /\ p.todo = j.todo /\ p.ids = j.ids /\ p.before = j.before
        /\ p.step # "flush" /\ (p.step = "commit" => j.kind # "equipe") /\ j.step = "flush"
    BY <1>1, <1>2, <1>3, <1>7, Proceeds
  <1>9. x = Write(s, v, columns) /\ columns \in SUBSET DOMAIN v
    BY <1>1
  <1>10. CASE j.kind = "equipe"
    <2>1. FromEquipe(v, TRUE) /\ v.equipe \in j.ids
      BY <1>3, <1>10 DEF EntryOf
    <2>2. /\ x.active = TRUE \/ x.active = s.active
          /\ x.equipe = v.equipe \/ (x.equipe = s.equipe /\ v.equipe = l.equipe)
          /\ e \notin crossed' => x.equipe = v.equipe /\ x.payload = v.equipe /\ x.tdb = v.tdb
      BY <1>5, <1>6, <1>9, <2>1, WriteColumns DEF FromEquipe
    <2>3. e \notin crossed' => ShowsOwn(x) /\ Carries(x)'
      BY <2>1, <2>2 DEF ShowsOwn, Carries, ScheduleId, FromEquipe
    <2>4. ~(r.active /\ ~x.active)
      BY <1>4, <1>8, <2>2 DEF DraftSync
    <2>5. x.equipe \in j.ids \/ (x.equipe = r.equipe /\ e \in crossed')
      BY <1>4, <1>5, <1>8, <1>10, <2>1, <2>2 DEF DraftSync
    <2>6. e \notin crossed' /\ x.equipe # r.equipe => x.tdb # None /\ x.tdb = TdbOf[x.equipe]
      <3>1. SUFFICES ASSUME e \notin crossed', x.equipe # r.equipe
                     PROVE  x.tdb # None /\ x.tdb = TdbOf[x.equipe]
        OBVIOUS
      <3>2. s = l /\ x.equipe = v.equipe /\ x.tdb = v.tdb /\ e \notin crossed
        BY <1>5, <2>2, <3>1
      <3>3. s.equipe # v.equipe
        BY <1>1, <1>4, <1>8, <1>10, <3>1, <3>2 DEF DraftSync
      <3>4. v.tdb # None
        BY <1>1, <1>3, <1>10, <3>2, <3>3 DEF FoundBy
      <3> QED BY <2>1, <3>2, <3>4 DEF FromEquipe
    <2>7. e \notin crossed' => \A u \in p.todo : u.equipe # x.equipe
      BY <1>3, <1>8, <1>10, <2>2
    <2> QED
      BY <1>8, <1>10, <2>3, <2>4, <2>5, <2>6, <2>7 DEF DraftSync, ShowsOwn
  <1>11. CASE j.kind = "import"
    <2>1. FromEquipe(v, FALSE) /\ s = r
      BY <1>3, <1>4, <1>11 DEF EntryOf
    <2>2. /\ x.active = TRUE \/ x.active = s.active
          /\ e \notin crossed' => x.equipe = v.equipe /\ x.payload = v.equipe /\ x.tdb = v.tdb
                                  /\ x.active = TRUE /\ x.seen = FALSE
      BY <1>5, <1>6, <1>9, <2>1, WriteColumns DEF FromEquipe
    <2>3. e \notin crossed' => ShowsOwn(x) /\ Carries(x)'
      BY <2>1, <2>2 DEF ShowsOwn, Carries, ScheduleId, FromEquipe
    <2>4. e \notin crossed' /\ x.equipe # r.equipe => x.tdb # None /\ x.tdb = TdbOf[x.equipe]
      BY <1>1, <1>3, <1>5, <1>11, <2>1, <2>2 DEF FoundBy, FromEquipe
    <2> QED
      BY <1>8, <1>11, <2>1, <2>2, <2>3, <2>4 DEF DraftSync, ShowsOwn
  <1>12. CASE j.kind = "tdb"
    <2>1. DOMAIN v = {"tdb", "slug"}
      BY <1>3, <1>12 DEF EntryOf
    <2>2. /\ x.equipe = s.equipe /\ x.payload = s.payload /\ x.match = s.match
          /\ x.active = s.active /\ x.seen = s.seen
          /\ e \notin crossed' => x.tdb = s.tdb
      BY <1>1, <1>3, <1>5, <1>6, <1>9, <1>12, <2>1, WriteColumns DEF FoundBy
    <2>3. e \notin crossed' => ShowsOwn(x) /\ Carries(x)'
      BY <1>5, <2>2 DEF ShowsOwn, Carries, ScheduleId
    <2> QED
      BY <1>4, <1>5, <1>8, <1>12, <2>2, <2>3 DEF DraftSync, ShowsOwn
  <1>13. CASE j.kind \in {"match", "unmatch"}
    <2>1. s = r /\ {"tdb", "slug", "active", "seen"} \cap DOMAIN v = {}
      BY <1>3, <1>4, <1>13 DEF EntryOf
    <2>2. x.tdb = s.tdb /\ x.active = s.active /\ x.seen = s.seen
      BY <1>6, <1>9, <2>1, WriteColumns
    <2>3. e \notin crossed' => ShowsOwn(x) /\ Carries(x)'
      <3>1. CASE j.kind = "match"
        <4>1. DOMAIN v = {"equipe", "match"} /\ v.match = "manual"
          BY <1>3, <3>1 DEF EntryOf
        <4>2. e \notin crossed' => x.match = "manual"
          BY <1>5, <1>6, <1>9, <4>1, WriteColumns
        <4> QED BY <4>2 DEF ShowsOwn, Carries
      <3>2. CASE j.kind = "unmatch"
        <4>1. DOMAIN v = {"equipe", "match", "payload"} /\ v.equipe = None /\ v.payload = None
          BY <1>3, <3>2 DEF EntryOf
        <4>2. e \notin crossed' => x.equipe = None /\ x.payload = None
          BY <1>5, <1>6, <1>9, <4>1, WriteColumns
        <4> QED BY <4>2, CatalogueAssumption DEF ShowsOwn, Carries, ScheduleId
      <3> QED BY <1>13, <3>1, <3>2
    <2> QED
      BY <1>8, <1>13, <2>1, <2>2, <2>3 DEF DraftSync, ShowsOwn
  <1> QED BY <1>1, <1>2, <1>3, <1>10, <1>11, <1>12, <1>13 DEF Jobs

\* The rows w has drafted, after its flush.
LEMMA FlushedSync ==
  ASSUME FullInv, NEW w \in Workers, job[w].step = "flush", Takes(w, Proceed(job[w])), UNCHANGED <<row, bare, photos>>,
         crossed \subseteq crossed', NEW e,
         \/ UNCHANGED draft
         \/ /\ Changed(w)' = Changed(w) \cup {e}
            /\ \A f \in Events \ {e} : draft'[w][f] = draft[w][f]
            /\ \A p, r, x : p = Proceed(job[w]) /\ r = row[e] /\ x = draft'[w][e] => DraftSync(p, e, r, x)'
  PROVE  SyncOf(w)'
  <1>1. JobSync(w)' /\ job'[w] = Proceed(job[w])
    BY ProceedSync
  <1>2. job[w] \in Jobs /\ JobSync(w)
    BY DEF FullInv, TypeOK, SyncInv, SyncOf
  <1>3. ASSUME NEW f \in Changed(w)'
        PROVE  DraftSync(job[w], f, row[f], draft[w][f])'
    <2>1. PICK p, r, d : p = Proceed(job[w]) /\ r = row[f] /\ d = draft'[w][f]
      OBVIOUS
    <2>2. CASE f \in Changed(w) /\ d = draft[w][f]
      <3>1. DraftSync(job[w], f, r, d)
        BY <2>1, <2>2 DEF FullInv, SyncInv, SyncOf
      <3>2. DraftSync(p, f, r, d)'
        BY <1>2, <2>1, <3>1, DraftProceeds DEF JobSync
      <3> QED BY <1>1, <2>1, <3>2 DEF DraftSync
    <2>3. CASE f = e /\ ~UNCHANGED draft
      <3>1. DraftSync(p, f, r, d)'
        BY <2>1, <2>3
      <3> QED BY <1>1, <2>1, <3>1 DEF DraftSync
    <2>4. (f \in Changed(w) /\ d = draft[w][f]) \/ (f = e /\ ~UNCHANGED draft)
      BY <1>3, <2>1 DEF Changed, NoEvent
    <2> QED BY <2>2, <2>3, <2>4
  <1> QED BY <1>1, <1>3 DEF SyncOf

LEMMA FlushUpdateSync ==
  ASSUME FullInv, NEW w \in Workers, FlushUpdate(w)
  PROVE  SyncInv'
  <1> DEFINE j == job[w]
             v == j.entry
  <1>0. PICK e : e = j.target
    OBVIOUS
  <1>1. /\ j.step = "flush" /\ e # None /\ Takes(w, Proceed(j))
        /\ UNCHANGED <<row, photos, feed, bare, surprises>>
        /\ crossed' = IF Seen(w, e) # j.loaded THEN crossed \cup {e} ELSE crossed
    BY <1>0 DEF FlushUpdate
  <1>2. e \in Events
    BY <1>0, <1>1 DEF FullInv, TypeOK, Jobs
  <1>3. PICK extra \in SUBSET ({"payload"} \cap DOMAIN v) :
          \/ /\ Dirty(j, v) \cup extra = {}
             /\ imported' = IF j.kind = "import" THEN imported \cup {e} ELSE imported
             /\ UNCHANGED draft
          \/ /\ Dirty(j, v) \cup extra # {}
             /\ Writes(w, e, Write(Seen(w, e), v, Dirty(j, v) \cup extra))
             /\ UNCHANGED imported
    BY <1>0 DEF FlushUpdate
  <1>4. FeedOK'
    BY <1>1, FeedKept
  <1>5. CASE UNCHANGED draft /\ Dirty(j, v) = {} /\ imported' = IF j.kind = "import" THEN imported \cup {e} ELSE imported
    <2>1. SyncOf(w)'
      BY <1>1, <1>2, <1>5, FlushedSync
    <2>2. \A u \in Workers : SyncOf(u)'
      BY <1>1, <1>5, <2>1, OthersKept
    <2>3. j.kind = "import" /\ e \notin crossed' => row[e].active /\ ~row[e].seen
      <3>1. SUFFICES ASSUME j.kind = "import", e \notin crossed'
                     PROVE  row[e].active /\ ~row[e].seen
        OBVIOUS
      <3>2. JobSync(w)
        BY DEF FullInv, SyncInv, SyncOf
      <3>3. FromEquipe(v, FALSE) /\ Changed(w) = {}
        BY <1>1, <3>1, <3>2 DEF JobSync, EntryOf
      <3>4. j.loaded = row[e]
        BY <1>0, <1>1, <3>1, <3>3 DEF Seen
      <3>5. v.active = j.loaded.active /\ v.seen = j.loaded.seen
        BY <1>5, <3>3 DEF Dirty, FromEquipe
      <3> QED BY <3>3, <3>4, <3>5 DEF FromEquipe
    <2>4. ASSUME NEW f \in Events
          PROVE  RowOK(f)'
      <3>1. RowOK(f)
        BY DEF FullInv, SyncInv
      <3> QED BY <1>1, <1>5, <2>3, <3>1 DEF RowOK, ShowsOwn, Carries, ScheduleId, Exists, NoEvent
    <2> QED BY <1>4, <2>2, <2>4 DEF SyncInv
  <1>6. CASE UNCHANGED imported /\ Writes(w, e, Write(Seen(w, e), v, Dirty(j, v) \cup extra))
    <2>1. PICK x : x = Write(Seen(w, e), v, Dirty(j, v) \cup extra)
      OBVIOUS
    <2>2. EntryInv(w, j) /\ Shapes /\ RowsInv
      BY DEF FullInv, CatalogueInv, EntriesOK
    <2>3. Exists(Seen(w, e)) /\ ("slug" \in DOMAIN v => v.slug # None)
      BY <1>0, <1>1, <2>2 DEF EntryInv
    <2>4. DOMAIN x = Columns /\ x.slug # None
      <3>1. "slug" \in Dirty(j, v) \cup extra => "slug" \in DOMAIN v
        BY DEF Dirty
      <3> QED BY <2>1, <2>3, <3>1, WriteShape DEF Exists
    <2>5. /\ Changed(w)' = Changed(w) \cup {e} /\ draft'[w][e] = x
          /\ \A f \in Events \ {e} : draft'[w][f] = draft[w][f]
          /\ \A u \in Workers \ {w} : draft'[u] = draft[u]
      BY <1>1, <1>2, <1>6, <2>1, <2>2, <2>4, WriteRow
    <2>6. Dirty(j, v) \cup extra \in SUBSET DOMAIN v
      BY DEF Dirty
    <2>7. ASSUME NEW p, NEW r, p = Proceed(job[w]), r = row[e]
          PROVE  DraftSync(p, e, r, x)'
      BY <1>0, <1>1, <1>2, <2>1, <2>6, <2>7, UpdateDraft
    <2>8. SyncOf(w)'
      BY <1>1, <1>2, <2>5, <2>7, FlushedSync
    <2>9. \A u \in Workers : SyncOf(u)'
      BY <1>1, <2>5, <2>8, OthersKept
    <2> QED BY <1>1, <1>4, <1>6, <2>9, RowsKept DEF SyncInv
  <1> QED BY <1>3, <1>5, <1>6

\* The row of an INSERT.
LEMMA InsertDraft ==
  ASSUME FullInv, NEW w \in Workers, NEW e \in Events, row[e] = NoEvent, job[w].step = "flush",
         NEW x, x = Write(NoEvent, job[w].entry, DOMAIN job[w].entry),
         "slug" \in DOMAIN job[w].entry, UNCHANGED <<bare, crossed>>,
         NEW p, p = Proceed(job[w])
  PROVE  DraftSync(p, e, NoEvent, x)'
  <1>1. PICK j, v : j = job[w] /\ v = j.entry
    OBVIOUS
  <1>2. job[w] \in Jobs /\ JobSync(w)
    BY DEF FullInv, TypeOK, SyncInv, SyncOf
  <1>3. /\ EntryOf(j, v) /\ j.kind # "idle"
        /\ j.kind = "equipe" => \A u \in j.todo : u.equipe # v.equipe
        /\ j.kind \notin {"equipe", "tdb"} => j.todo = {}
        /\ j.kind \in {"equipe", "import", "tdb"}
    <2>1. /\ EntryOf(j, v) /\ j.kind # "idle" /\ "slug" \in DOMAIN v
          /\ j.kind = "equipe" => \A u \in j.todo : u.equipe # v.equipe
          /\ j.kind \notin {"equipe", "tdb"} => j.todo = {}
      BY <1>1, <1>2 DEF JobSync
    <2>2. j.kind # "match" /\ j.kind # "unmatch"
      BY <2>1 DEF EntryOf
    <2> QED BY <1>1, <1>2, <2>1, <2>2 DEF Jobs
  <1>4. /\ p.kind = j.kind /\ p.todo = j.todo /\ p.ids = j.ids /\ p.before = j.before
        /\ p.step # "flush"
    BY <1>1, <1>2, <1>3, Proceeds
  <1>5. /\ NoEvent.equipe = None /\ NoEvent.payload = None /\ NoEvent.match = "unmatched"
        /\ NoEvent.active = TRUE /\ NoEvent.seen = FALSE
    BY DEF NoEvent
  <1>6. PICK n : n = NoEvent
    OBVIOUS
  <1>7. CASE j.kind \in {"equipe", "import"}
    <2>1. PICK recent \in BOOLEAN : FromEquipe(v, recent) /\ (j.kind = "import" => recent = FALSE)
      BY <1>3, <1>7 DEF EntryOf
    <2>2. /\ x.equipe = v.equipe /\ x.payload = v.equipe /\ x.tdb = v.tdb
          /\ x.active = TRUE /\ x.seen = recent
      BY <1>1, <2>1 DEF FromEquipe, Write, Columns
    <2>3. ShowsOwn(x) /\ Carries(x)'
      BY <2>1, <2>2 DEF ShowsOwn, Carries, ScheduleId, FromEquipe
    <2>4. j.kind = "equipe" => x.equipe \in j.ids
      BY <1>3, <2>2 DEF EntryOf
    <2>5. DraftSync(p, e, n, x)'
      BY <1>3, <1>4, <1>5, <1>6, <1>7, <2>1, <2>2, <2>3, <2>4 DEF DraftSync, ShowsOwn
    <2> QED BY <1>6, <2>5
  <1>8. CASE j.kind = "tdb"
    <2>1. DOMAIN v = {"tdb", "slug"}
      BY <1>3, <1>8 DEF EntryOf
    <2>2. x.equipe = None /\ x.payload = None /\ x.active = TRUE /\ x.seen = FALSE
      BY <1>1, <1>5, <2>1 DEF Write, Columns
    <2>3. ShowsOwn(x) /\ Carries(x)'
      BY <2>2, CatalogueAssumption DEF ShowsOwn, Carries, ScheduleId
    <2>4. DraftSync(p, e, n, x)'
      BY <1>4, <1>5, <1>6, <1>8, <2>2, <2>3 DEF DraftSync, ShowsOwn
    <2> QED BY <1>6, <2>4
  <1> QED BY <1>3, <1>7, <1>8

LEMMA FlushInsertSync ==
  ASSUME FullInv, NEW w \in Workers, FlushInsert(w)
  PROVE  SyncInv'
  <1> DEFINE v == job[w].entry
  <1>1. PICK e, x : e = (CHOOSE f \in Free : TRUE) /\ x = Write(NoEvent, v, DOMAIN v)
    OBVIOUS
  <1>2. /\ job[w].step = "flush" /\ job[w].target = None /\ Free # {}
        /\ Writes(w, e, x) /\ Takes(w, Proceed(job[w]))
        /\ UNCHANGED <<row, photos, feed, bare, imported, crossed, surprises>>
    BY <1>1 DEF FlushInsert
  <1>3. e \in Events /\ ~Exists(row[e])
    BY <1>1, <1>2 DEF Free
  <1>4. row[e] = NoEvent
    BY <1>3 DEF FullInv, SyncInv, RowOK
  <1>5. Named(v) /\ Shapes /\ RowsInv
    BY <1>2 DEF FullInv, CatalogueInv, EntriesOK, EntryInv
  <1>6. DOMAIN x = Columns /\ x.slug # None
    BY <1>1, <1>5, WriteShape DEF Named
  <1>7. /\ Changed(w)' = Changed(w) \cup {e} /\ draft'[w][e] = x
        /\ \A f \in Events \ {e} : draft'[w][f] = draft[w][f]
        /\ \A u \in Workers \ {w} : draft'[u] = draft[u]
    BY <1>2, <1>3, <1>5, <1>6, WriteRow
  <1>8. ASSUME NEW p, NEW r, p = Proceed(job[w]), r = row[e]
        PROVE  DraftSync(p, e, r, x)'
    <2>1. DraftSync(p, e, NoEvent, x)'
      BY <1>1, <1>2, <1>3, <1>4, <1>5, <1>8, InsertDraft DEF Named
    <2> QED BY <1>4, <1>8, <2>1
  <1>9. SyncOf(w)'
    BY <1>2, <1>3, <1>7, <1>8, FlushedSync
  <1>10. \A u \in Workers : SyncOf(u)'
    BY <1>2, <1>7, <1>9, OthersKept
  <1> QED BY <1>2, <1>10, RowsKept, FeedKept DEF SyncInv

(***************************************************************************)
(* The other steps.                                                        *)
(***************************************************************************)

\* A step that gives w a job without changing what it drafted.
LEMMA NewJobSync ==
  ASSUME FullInv, NEW w \in Workers, NEW j, Takes(w, j), UNCHANGED <<row, draft, feed, imported, crossed>>,
         bare \subseteq bare', photos \subseteq photos', SyncOf(w)'
  PROVE  SyncInv'
  <1>1. \A u \in Workers : SyncOf(u)'
    BY OthersKept
  <1> QED BY <1>1, RowsKept, FeedKept DEF SyncInv

LEMMA EquipeEntries ==
  ASSUME NEW m \in Meetings, NEW l \in {"bare", "full"}, NEW recent \in BOOLEAN,
         l = "bare" => m \in bare, l = "full" => TdbOf[m] # None,
         NEW v, v = EquipeValues(m, l, recent)
  PROVE  FromEquipe(v, recent) /\ v.equipe = m
  BY DEF EquipeValues, CarriedTdb, FromEquipe

LEMMA StartsSync ==
  ASSUME FullInv, NEW w \in Workers, StartEquipeSync(w) \/ StartTdbSync(w)
  PROVE  SyncInv'
  <1>1. job[w].step = "idle" /\ UNCHANGED <<row, draft, photos, feed, bare, imported, crossed>>
    BY DEF StartEquipeSync, StartTdbSync
  <1>2. Changed(w) = {} /\ Changed(w)' = {}
    BY <1>1 DEF FullInv, SyncInv, SyncOf, JobSync, Changed, NoEvent
  <1>3. CASE StartEquipeSync(w)
    <2> DEFINE listed == {m \in Meetings : feed[m] # "absent"}
               todo == {EquipeValues(m, feed[m], TRUE) : m \in listed}
    <2>1. PICK j : j = [Idle EXCEPT !.kind = "equipe", !.step = IF listed = {} THEN "commit" ELSE "next",
                                    !.todo = todo, !.ids = listed, !.before = photos]
      OBVIOUS
    <2>2. Takes(w, j) /\ job'[w] = j
      BY <1>3, <2>1 DEF StartEquipeSync, Takes, FullInv, TypeOK
    <2>3. /\ j.kind = "equipe" /\ j.step \in {"commit", "next"} /\ j.todo = todo /\ j.ids = listed
          /\ j.before = photos
      BY <2>1 DEF Idle
    <2>4. ASSUME NEW v \in todo
          PROVE  FromEquipe(v, TRUE) /\ v.equipe \in listed
                 /\ \E m \in listed : v.equipe = m /\ v = EquipeValues(m, feed[m], TRUE)
      <3>1. PICK m \in listed : v = EquipeValues(m, feed[m], TRUE)
        OBVIOUS
      <3>2. feed[m] \in {"bare", "full"} /\ (feed[m] = "bare" => m \in bare) /\ (feed[m] = "full" => TdbOf[m] # None)
        BY DEF FullInv, TypeOK, Listings, SyncInv, FeedOK
      <3> QED BY <3>1, <3>2, EquipeEntries, ZenonT(30)
    <2>5. \A v \in j.todo : EntryOf(j, v)'
      BY <1>1, <2>3, <2>4 DEF EntryOf, FromEquipe
    <2>6. \A u, v \in j.todo : u.equipe = v.equipe => u = v
      BY <2>3, <2>4
    <2>7. JobSync(w)'
      BY <1>1, <2>2, <2>3, <2>5, <2>6 DEF JobSync
    <2> QED BY <1>1, <1>2, <2>2, <2>7, NewJobSync DEF SyncOf
  <1>4. CASE StartTdbSync(w)
    <2> DEFINE todo == {TdbValues(t) : t \in TdbIds}
    <2>1. PICK j : j = [Idle EXCEPT !.kind = "tdb", !.step = "next", !.todo = todo]
      OBVIOUS
    <2>2. Takes(w, j) /\ job'[w] = j
      BY <1>4, <2>1 DEF StartTdbSync, Takes, FullInv, TypeOK
    <2>3. j.kind = "tdb" /\ j.step = "next" /\ j.todo = todo /\ j.before = {}
      BY <2>1 DEF Idle
    <2>4. \A v \in todo : DOMAIN v = {"tdb", "slug"}
      BY DEF TdbValues
    <2>5. \A v \in j.todo : EntryOf(j, v)'
      BY <2>3, <2>4 DEF EntryOf
    <2>6. JobSync(w)'
      BY <2>2, <2>3, <2>5 DEF JobSync
    <2> QED BY <1>1, <1>2, <2>2, <2>6, NewJobSync DEF SyncOf
  <1> QED BY <1>3, <1>4

\* What is found by an id has it.
LEMMA FoundHas ==
  ASSUME NEW w, NEW v
  PROVE  /\ \A e \in FoundByEquipe(w, v) :
               Seen(w, e).equipe = v.equipe \/ (v.tdb # None /\ Seen(w, e).tdb = v.tdb)
         /\ \A e \in Holding(w, "tdb", v.tdb) : Seen(w, e).tdb = v.tdb
  <1>1. \A c, x : \A e \in Holding(w, c, x) : Seen(w, e)[c] = x
    BY DEF Holding
  <1> QED BY <1>1 DEF FoundByEquipe

\* p is the job j of a transaction that has read the event of its entry.
Reads(w, j, found, p) ==
    /\ p.step = "flush" /\ p.entry = j.entry /\ p.todo = j.todo
    /\ p.kind = j.kind /\ p.ids = j.ids /\ p.before = j.before
    /\ \/ p.target = j.target
       \/ \E e \in found : p.target = e /\ p.loaded = Seen(w, e)

LEMMA FindsTakes ==
  ASSUME NEW w, NEW j, DOMAIN j = DOMAIN Idle, NEW found, Finds(w, j, found)
  PROVE  \E p : Takes(w, p) /\ Reads(w, j, found, p)
  <1>1. {"kind", "step", "todo", "entry", "target", "loaded", "ids", "before"} = DOMAIN j
    BY DEF Idle
  <1>2. ASSUME NEW e \in found, NEW p, p = [j EXCEPT !.step = "flush", !.target = e, !.loaded = Seen(w, e)]
        PROVE  Reads(w, j, found, p)
    <2>1. /\ p.step = "flush" /\ p.entry = j.entry /\ p.todo = j.todo
          /\ p.kind = j.kind /\ p.ids = j.ids /\ p.before = j.before
          /\ p.target = e /\ p.loaded = Seen(w, e)
      BY <1>1, <1>2
    <2> QED BY <2>1 DEF Reads
  <1>3. ASSUME NEW p, p = [j EXCEPT !.step = "flush"]
        PROVE  Reads(w, j, found, p)
    <2>1. /\ p.step = "flush" /\ p.entry = j.entry /\ p.todo = j.todo
          /\ p.kind = j.kind /\ p.ids = j.ids /\ p.before = j.before /\ p.target = j.target
      BY <1>1, <1>3
    <2> QED BY <2>1 DEF Reads
  <1>4. PICK p : /\ Takes(w, p)
                 /\ \/ \E e \in found : p = [j EXCEPT !.step = "flush", !.target = e, !.loaded = Seen(w, e)]
                    \/ p = [j EXCEPT !.step = "flush"]
    BY Zenon DEF Finds
  <1>5. Reads(w, j, found, p)
    BY <1>2, <1>3, <1>4
  <1> QED BY <1>4, <1>5

LEMMA LoadSync ==
  ASSUME FullInv, NEW w \in Workers, LoadEntry(w)
  PROVE  SyncInv'
  <1>1. job[w] \in Jobs /\ JobSync(w) /\ job[w].step = "next"
    BY DEF FullInv, TypeOK, SyncInv, SyncOf, LoadEntry
  <1>2. PICK j : j = job[w]
    OBVIOUS
  <1>3. PICK v \in j.todo :
           Finds(w, [j EXCEPT !.entry = v, !.todo = @ \ {v}],
                 IF j.kind = "equipe" THEN FoundByEquipe(w, v) ELSE Holding(w, "tdb", v.tdb))
    BY <1>2 DEF LoadEntry
  <1>4. UNCHANGED <<row, draft, photos, feed, bare, imported, crossed>>
    BY DEF LoadEntry
  <1> DEFINE found == IF j.kind = "equipe" THEN FoundByEquipe(w, v) ELSE Holding(w, "tdb", v.tdb)
  <1>5. PICK p : /\ Takes(w, p)
                 /\ p.step = "flush" /\ p.entry = v /\ p.todo = j.todo \ {v}
                 /\ p.kind = j.kind /\ p.ids = j.ids /\ p.before = j.before
                 /\ \/ p.target = j.target
                    \/ \E e \in found : p.target = e /\ p.loaded = Seen(w, e)
    <2>1. PICK i : i = [j EXCEPT !.entry = v, !.todo = @ \ {v}]
      OBVIOUS
    <2>2. /\ DOMAIN i = DOMAIN Idle /\ i.entry = v /\ i.todo = j.todo \ {v} /\ i.target = j.target
          /\ i.kind = j.kind /\ i.ids = j.ids /\ i.before = j.before
      BY <1>1, <1>2, <2>1 DEF Jobs, Idle
    <2>3. Finds(w, i, found)
      BY <1>3, <2>1
    <2> HIDE DEF found
    <2>4. PICK p : Takes(w, p) /\ Reads(w, i, found, p)
      BY <2>2, <2>3, FindsTakes
    <2> QED BY <2>2, <2>4 DEF Reads
  <1>6. job'[w] = p
    BY <1>5 DEF Takes, FullInv, TypeOK
  <1>7. j.kind \in {"equipe", "tdb"} /\ j.target = None
    BY <1>1, <1>2 DEF JobSync, FullInv, CatalogueInv, EntriesOK, EntryInv
  <1>8. \A x : EntryOf(j, x) => EntryOf(p, x)'
    BY <1>4, <1>5 DEF EntryOf, FromEquipe
  <1>9. Changed(w)' = Changed(w)
    BY <1>4 DEF Changed, NoEvent
  <1>10. p.target # None => FoundBy(p)
    <2>1. SUFFICES ASSUME p.target # None
                   PROVE  FoundBy(p)
      OBVIOUS
    <2>2. PICK e \in found : p.loaded = Seen(w, e)
      BY <1>5, <1>7, <2>1
    <2>3. /\ p.kind = "equipe" => Seen(w, e).equipe = v.equipe \/ (v.tdb # None /\ Seen(w, e).tdb = v.tdb)
          /\ p.kind = "tdb" => Seen(w, e).tdb = v.tdb
      <3>1. (j.kind = "equipe" => e \in FoundByEquipe(w, v)) /\ (j.kind = "tdb" => e \in Holding(w, "tdb", v.tdb))
        BY <2>2
      <3> QED BY <1>5, <3>1, FoundHas
    <2> HIDE DEF found
    <2>4. p.kind # "import"
      BY <1>5, <1>7
    <2> QED BY <1>5, <2>2, <2>3, <2>4 DEF FoundBy
  <1>11. JobSync(w)'
    <2>1. \A u \in j.todo : EntryOf(p, u)'
      BY <1>1, <1>2, <1>8 DEF JobSync
    <2>2. j.before \subseteq photos' /\ (j.kind = "equipe" => \A u, x \in j.todo : u.equipe = x.equipe => u = x)
      BY <1>1, <1>2, <1>4 DEF JobSync
    <2> QED BY <1>5, <1>6, <1>7, <1>10, <2>1, <2>2 DEF JobSync, FoundBy
  <1>12. ASSUME NEW f \in Changed(w)
         PROVE  DraftSync(job[w], f, row[f], draft[w][f])'
    <2>1. PICK r, d : r = row[f] /\ d = draft[w][f]
      OBVIOUS
    <2>2. DraftSync(j, f, r, d)
      BY <1>2, <2>1 DEF FullInv, SyncInv, SyncOf
    <2>3. DraftSync(p, f, r, d)'
      BY <1>1, <1>2, <1>4, <1>5, <2>2 DEF DraftSync, ShowsOwn, Carries, ScheduleId
    <2> QED BY <1>4, <1>6, <2>1, <2>3 DEF DraftSync
  <1>13. SyncOf(w)'
    BY <1>9, <1>11, <1>12 DEF SyncOf
  <1> QED BY <1>4, <1>5, <1>13, NewJobSync

\* An administrator's request, with its one entry.
LEMMA RequestSync ==
  ASSUME FullInv, NEW w \in Workers, job[w].step = "idle", NEW kind \in {"import", "match", "unmatch"}, NEW v,
         NEW found \in SUBSET Events, Finds(w, [Idle EXCEPT !.kind = kind, !.entry = v], found),
         \A j : j.kind = kind => EntryOf(j, v)',
         kind = "import" => found = FoundByEquipe(w, v),
         UNCHANGED <<row, draft, photos, feed, imported, crossed>>, bare \subseteq bare'
  PROVE  SyncInv'
  <1>1. Changed(w) = {} /\ Changed(w)' = {}
    BY DEF FullInv, SyncInv, SyncOf, JobSync, Changed, NoEvent
  <1>2. PICK p : /\ Takes(w, p)
                 /\ p.step = "flush" /\ p.entry = v /\ p.todo = {} /\ p.kind = kind /\ p.before = {}
                 /\ p.target = None \/ \E e \in found : p.target = e /\ p.loaded = Seen(w, e)
    <2>1. PICK i : i = [Idle EXCEPT !.kind = kind, !.entry = v]
      OBVIOUS
    <2>2. /\ DOMAIN i = DOMAIN Idle /\ i.entry = v /\ i.todo = {} /\ i.target = None
          /\ i.kind = kind /\ i.before = {}
      BY <2>1 DEF Idle
    <2>3. PICK p : Takes(w, p) /\ Reads(w, i, found, p)
      BY <2>1, <2>2, FindsTakes
    <2> QED BY <2>2, <2>3 DEF Reads
  <1>3. job'[w] = p
    BY <1>2 DEF Takes, FullInv, TypeOK
  <1>4. p.target # None => FoundBy(p)
    BY <1>2, FoundHas DEF FoundBy
  <1>5. JobSync(w)'
    BY <1>1, <1>2, <1>3, <1>4 DEF JobSync, FoundBy
  <1>6. SyncOf(w)'
    BY <1>1, <1>5 DEF SyncOf
  <1> QED BY <1>2, <1>6, NewJobSync

LEMMA RequestsSync ==
  ASSUME FullInv, NEW w \in Workers,
         (\E m \in Meetings : Import(w, m)) \/ (\E e \in Events : Unmatch(w, e) \/ \E m \in Meetings : ManualMatch(w, e, m))
  PROVE  SyncInv'
  <1>1. ASSUME NEW m \in Meetings, Import(w, m)
        PROVE  SyncInv'
    <2>1. PICK l \in {"bare", "full"} :
             /\ l = "full" => TdbOf[m] # None
             /\ bare' = IF l = "bare" THEN bare \cup {m} ELSE bare
             /\ Finds(w, [Idle EXCEPT !.kind = "import", !.entry = EquipeValues(m, l, FALSE)],
                      FoundByEquipe(w, EquipeValues(m, l, FALSE)))
      BY <1>1 DEF Import
    <2>2. PICK v : v = EquipeValues(m, l, FALSE)
      OBVIOUS
    <2>3. /\ DOMAIN v = {"tdb", "equipe", "slug", "payload", "active", "seen"}
          /\ v.equipe = m /\ v.payload = m /\ v.active = TRUE /\ v.seen = FALSE
          /\ v.tdb = IF l = "full" THEN TdbOf[m] ELSE None
      BY <2>2 DEF EquipeValues, CarriedTdb
    <2>4. FromEquipe(v, FALSE)'
      BY <2>1, <2>3 DEF FromEquipe
    <2>5. \A j : j.kind = "import" => EntryOf(j, v)'
      BY <2>4 DEF EntryOf
    <2>6. FoundByEquipe(w, v) \in SUBSET Events
      BY FoundExists
    <2>7. job[w].step = "idle" /\ UNCHANGED <<row, draft, photos, feed, imported, crossed>> /\ bare \subseteq bare'
      BY <1>1, <2>1 DEF Import
    <2> QED BY <2>1, <2>2, <2>5, <2>6, <2>7, RequestSync
  <1>2. ASSUME NEW e \in Events, Unmatch(w, e) \/ \E m \in Meetings : ManualMatch(w, e, m)
        PROVE  SyncInv'
    <2>0. {e} \in SUBSET Events
      OBVIOUS
    <2>1. ASSUME NEW m \in Meetings, ManualMatch(w, e, m)
          PROVE  SyncInv'
      <3>2. job[w].step = "idle" /\ UNCHANGED <<row, draft, photos, feed, bare, imported, crossed>>
            /\ Finds(w, [Idle EXCEPT !.kind = "match", !.entry = MatchValues(m)], {e})
        BY <2>1 DEF ManualMatch
      <3>3. PICK v : v = MatchValues(m)
        OBVIOUS
      <3>4. \A j : j.kind = "match" => EntryOf(j, v)'
        BY <3>3 DEF EntryOf, MatchValues
      <3>5. Finds(w, [Idle EXCEPT !.kind = "match", !.entry = v], {e}) /\ bare \subseteq bare'
        BY <3>2, <3>3
      <3> QED BY <2>0, <3>2, <3>4, <3>5, RequestSync
    <2>2. CASE Unmatch(w, e)
      <3>1. job[w].step = "idle" /\ UNCHANGED <<row, draft, photos, feed, bare, imported, crossed>>
            /\ Finds(w, [Idle EXCEPT !.kind = "unmatch", !.entry = UnmatchValues(e)], {e})
        BY <2>2 DEF Unmatch
      <3>2. PICK v : v = UnmatchValues(e)
        OBVIOUS
      <3>3. \A j : j.kind = "unmatch" => EntryOf(j, v)'
        BY <3>2 DEF EntryOf, UnmatchValues
      <3>4. Finds(w, [Idle EXCEPT !.kind = "unmatch", !.entry = v], {e}) /\ bare \subseteq bare'
        BY <3>1, <3>2
      <3> QED BY <2>0, <3>1, <3>3, <3>4, RequestSync
    <2> QED BY <1>2, <2>1, <2>2
  <1> QED BY <1>1, <1>2

LEMMA DeactivateSync ==
  ASSUME FullInv, NEW w \in Workers, Deactivate(w)
  PROVE  SyncInv'
  <1>1. job[w] \in Jobs /\ JobSync(w)
    BY DEF FullInv, TypeOK, SyncInv, SyncOf
  <1>2. PICK j, p : j = job[w] /\ p = [j EXCEPT !.step = "commit"]
    OBVIOUS
  <1>3. /\ j.step = "stale" /\ j.kind = "equipe" /\ j.before \subseteq photos
        /\ \A v \in j.todo : EntryOf(j, v)
        /\ \A u, v \in j.todo : u.equipe = v.equipe => u = v
    BY <1>1, <1>2 DEF Deactivate, JobSync
  <1>4. /\ Takes(w, p) /\ UNCHANGED <<row, photos, feed, bare, imported, crossed>>
        /\ job'[w] = p
        /\ p.step = "commit" /\ p.kind = "equipe" /\ p.todo = j.todo /\ p.ids = j.ids /\ p.before = j.before
    BY <1>1, <1>2, <1>3 DEF Deactivate, Takes, FullInv, TypeOK, Jobs
  <1>5. /\ \A u \in Workers \ {w} : draft'[u] = draft[u]
        /\ \A f \in Events : draft'[w][f] = IF f \in Stale(w, j.ids) THEN [Seen(w, f) EXCEPT !.active = FALSE]
                                            ELSE draft[w][f]
    BY <1>2 DEF Deactivate, FullInv, TypeOK
  <1>6. JobSync(w)'
    <2>1. \A v \in p.todo : EntryOf(p, v)'
      BY <1>3, <1>4 DEF EntryOf, FromEquipe
    <2> QED BY <1>3, <1>4, <2>1 DEF JobSync
  <1>7. ASSUME NEW f \in Changed(w)'
        PROVE  DraftSync(job[w], f, row[f], draft[w][f])'
    <2>1. PICK r, d : r = row[f] /\ d = draft'[w][f]
      OBVIOUS
    <2>2. f \in Events
      BY DEF Changed
    <2>3. CASE f \notin Stale(w, j.ids)
      <3>1. d = draft[w][f] /\ f \in Changed(w)
        BY <1>5, <1>7, <2>1, <2>2, <2>3 DEF Changed, NoEvent
      <3>2. DraftSync(j, f, r, d)
        BY <1>2, <2>1, <3>1 DEF FullInv, SyncInv, SyncOf
      <3>3. DraftSync(p, f, r, d)'
        BY <1>3, <1>4, <3>2 DEF DraftSync, ShowsOwn, Carries, ScheduleId
      <3> QED BY <1>4, <2>1, <3>3 DEF DraftSync
    <2>4. CASE f \in Stale(w, j.ids)
      <3>1. PICK s \in EventRows : s = Seen(w, f)
        BY <2>2, SeenType DEF FullInv
      <3>2. s.seen /\ s.equipe \notin j.ids \cup {None} /\ f \notin photos
        BY <2>4, <3>1 DEF Stale
      <3>3. /\ d.equipe = s.equipe /\ d.seen = s.seen /\ d.match = s.match
            /\ d.payload = s.payload /\ d.tdb = s.tdb
        BY <1>5, <2>1, <2>2, <2>4, <3>1, ZenonT(30) DEF EventRows
      <3>4. s = r \/ DraftSync(j, f, r, s)
        BY <1>2, <2>1, <2>2, <3>1, SeenIs
      <3>5. s.equipe = r.equipe /\ (f \in crossed \/ s.seen = r.seen)
        BY <1>3, <3>2, <3>4 DEF DraftSync
      <3>6. f \notin crossed => ShowsOwn(d) /\ Carries(d)
        BY <2>2, <3>1, <3>3, SeenSync DEF ShowsOwn, Carries, ScheduleId
      <3>7. DraftSync(p, f, r, d)'
        BY <1>3, <1>4, <3>2, <3>3, <3>5, <3>6 DEF DraftSync, ShowsOwn, Carries, ScheduleId
      <3> QED BY <1>4, <2>1, <3>7 DEF DraftSync
    <2> QED BY <2>3, <2>4
  <1>8. SyncOf(w)'
    BY <1>6, <1>7 DEF SyncOf
  <1>9. \A u \in Workers : SyncOf(u)'
    BY <1>4, <1>5, <1>8, OthersKept
  <1> QED BY <1>4, <1>9, RowsKept, FeedKept DEF SyncInv

\* A refused entry leaves the rows drafted before it.
LEMMA RefusedSync ==
  ASSUME FullInv, NEW w \in Workers, Refused(w), UNCHANGED <<row, photos, feed, bare, imported, crossed>>
  PROVE  SyncInv'
  <1>1. CASE RolledBack(w)
    <2>1. PICK j : Takes(w, j)
      BY <1>1 DEF RolledBack
    <2>2. \A v \in Workers \ {w} : draft'[v] = draft[v]
      BY <1>1 DEF RolledBack, FullInv, TypeOK
    <2>3. \A v \in Workers : SyncOf(v)'
      BY <1>1, <2>1, <2>2, EndedSync, OthersKept
    <2> QED BY <2>3, RowsKept, FeedKept DEF SyncInv
  <1>2. CASE Takes(w, Proceed(job[w])) /\ UNCHANGED draft /\ job[w].step = "flush"
    <2>1. PICK j, e : j = Proceed(job[w]) /\ e = None
      OBVIOUS
    <2>2. SyncOf(w)'
      BY <1>2, <2>1, FlushedSync
    <2> QED BY <1>2, <2>1, <2>2, NewJobSync
  <1> QED BY <1>1, <1>2 DEF Refused

(***************************************************************************)
(* The COMMIT.                                                             *)
(***************************************************************************)

LEMMA CommitRow ==
  ASSUME FullInv, NEW w \in Workers, NEW e \in Events, Commit(w)
  PROVE  RowOK(e)'
  <1>1. PICK j, r, s : j = job[w] /\ r = row[e] /\ s = Seen(w, e)
    OBVIOUS
  <1>2. row'[e] = s /\ UNCHANGED <<bare, crossed>>
    BY <1>1 DEF Commit
  <1>3. RowOK(e) /\ r \in EventRows /\ s \in EventRows
    BY <1>1, SeenType DEF FullInv, SyncInv, TypeOK
  <1>4. \/ e \notin Changed(w) /\ s = r
        \/ e \in Changed(w) /\ s = draft[w][e] /\ DraftSync(j, e, r, s)
    BY <1>1, SeenIs
  <1>5. ~Exists(s) => s = NoEvent
    BY <1>1, <1>3, <1>4 DEF RowOK, FullInv, CatalogueInv, RowsInv, DraftsExist
  <1>6. e \notin crossed => ShowsOwn(s) /\ Carries(s)
    BY <1>1, SeenSync
  <1>7. e \in imported' \ crossed => s.active /\ ~s.seen
    <2>1. SUFFICES ASSUME e \in imported', e \notin crossed
                   PROVE  s.active /\ ~s.seen
      OBVIOUS
    <2>2. CASE e \notin Changed(w)
      <3>1. e \in imported /\ s = r
        BY <1>4, <2>1, <2>2 DEF Commit
      <3> QED BY <1>1, <1>3, <2>1, <3>1 DEF RowOK
    <2>3. CASE e \in Changed(w) /\ j.kind = "import"
      BY <1>4, <2>1, <2>3 DEF DraftSync
    <2>4. CASE e \in Changed(w) /\ j.kind # "import"
      <3>1. e \in imported /\ s.equipe \notin j.ids
        BY <1>1, <1>4, <2>1, <2>4 DEF Commit
      <3>2. r.active /\ ~r.seen
        BY <1>1, <1>3, <2>1, <3>1 DEF RowOK
      <3> QED BY <1>4, <2>1, <2>4, <3>1, <3>2 DEF DraftSync
    <2> QED BY <2>2, <2>3, <2>4
  <1> QED BY <1>2, <1>5, <1>6, <1>7 DEF RowOK, ShowsOwn, Carries, ScheduleId, Exists, NoEvent

LEMMA CommitSync ==
  ASSUME FullInv, NEW w \in Workers, Commit(w)
  PROVE  SyncInv'
  <1>1. RolledBack(w) /\ UNCHANGED <<photos, feed, bare, crossed, surprises>>
    BY DEF Commit
  <1>2. SyncOf(w)'
    BY <1>1, EndedSync
  <1>3. ASSUME NEW v \in Workers, v # w
        PROVE  SyncOf(v)'
    <2>1. job'[v] = job[v] /\ draft'[v] = draft[v]
      BY <1>1, <1>3 DEF RolledBack, Takes, FullInv, TypeOK
    <2>2. ASSUME NEW e \in Changed(v)
          PROVE  row'[e] = row[e]
      <3>1. e \in Events /\ e \notin Changed(w)
        BY <1>3 DEF Changed, FullInv, CatalogueInv, RowsInv, DraftsApart
      <3> QED BY <3>1 DEF Commit, Seen
    <2>3. SyncOf(v)
      BY DEF FullInv, SyncInv
    <2> QED BY <1>1, <2>1, <2>2, <2>3, OtherKept
  <1>4. \A e \in Events : RowOK(e)'
    BY CommitRow
  <1> QED BY <1>1, <1>2, <1>3, <1>4, FeedKept DEF SyncInv

LEMMA OutsideSync ==
  ASSUME FullInv, UNCHANGED <<row, draft, job, imported, crossed>>, FeedOK',
         bare \subseteq bare', photos \subseteq photos'
  PROVE  SyncInv'
  <1>1. ASSUME NEW v \in Workers
        PROVE  SyncOf(v)'
    <2>1. SyncOf(v)
      BY DEF FullInv, SyncInv
    <2> QED BY <2>1, OtherKept
  <1> QED BY <1>1, RowsKept DEF SyncInv

\* A sync that no longer counts on a deleted photo keeps what else it relies on.
LEMMA DeletePhotoSync ==
  ASSUME FullInv, NEW e \in Events, DeletePhoto(e)
  PROVE  SyncInv'
  <1>1. UNCHANGED <<row, draft, feed, bare, imported, crossed>> /\ photos' = photos \ {e}
    BY DEF DeletePhoto
  <1>2. ASSUME NEW v \in Workers
        PROVE  SyncOf(v)'
    <2>1. PICK j, k : j = job[v] /\ k = job'[v]
      OBVIOUS
    <2>2. SyncOf(v) /\ j \in Jobs /\ k = [j EXCEPT !.before = @ \ {e}]
      BY <2>1 DEF DeletePhoto, FullInv, SyncInv, TypeOK
    <2>3. /\ k.kind = j.kind /\ k.step = j.step /\ k.todo = j.todo /\ k.entry = j.entry
          /\ k.target = j.target /\ k.loaded = j.loaded /\ k.ids = j.ids
          /\ k.before = j.before \ {e}
      BY <2>2 DEF Jobs
    <2>4. \A x : EntryOf(j, x) => EntryOf(k, x)'
      BY <1>1, <2>3 DEF EntryOf, FromEquipe
    <2>5. Changed(v)' = Changed(v)
      BY <1>1 DEF Changed
    <2>6. JobSync(v)'
      <3>1. JobSync(v) /\ j.before \subseteq photos
        BY <2>1, <2>2 DEF SyncOf, JobSync
      <3>2. k.before \subseteq photos'
        BY <1>1, <2>3, <3>1
      <3>3. /\ \A x \in k.todo : EntryOf(k, x)'
            /\ k.step = "flush" => EntryOf(k, k.entry)'
        BY <2>1, <2>3, <2>4, <3>1 DEF JobSync
      <3>4. /\ k.kind = "equipe" => \A x, y \in k.todo : x.equipe = y.equipe => x = y
            /\ k.kind \notin {"equipe", "tdb"} => k.todo = {}
            /\ k.step = "idle" => Changed(v) = {}
            /\ k.step = "next" => k.kind \in {"equipe", "tdb"}
            /\ k.step = "stale" => k.kind = "equipe"
        BY <2>1, <2>3, <3>1 DEF JobSync
      <3>5. k.step = "flush" =>
              /\ k.kind # "idle"
              /\ k.kind = "equipe" => \A x \in k.todo : x.equipe # k.entry.equipe
              /\ k.kind \notin {"equipe", "tdb"} => Changed(v) = {}
              /\ k.target # None => FoundBy(k)
        BY <2>1, <2>3, <3>1 DEF JobSync, FoundBy
      <3> QED BY <2>1, <2>5, <3>2, <3>3, <3>4, <3>5 DEF JobSync
    <2>7. ASSUME NEW f \in Changed(v)
          PROVE  DraftSync(job[v], f, row[f], draft[v][f])'
      <3>1. PICK r, d : r = row[f] /\ d = draft[v][f]
        OBVIOUS
      <3>2. DraftSync(j, f, r, d)
        BY <2>1, <2>2, <3>1 DEF SyncOf
      <3>3. DraftSync(k, f, r, d)
        BY <2>3, <3>2 DEF DraftSync
      <3>4. DraftSync(k, f, r, d)'
        BY <1>1, <3>3, DraftKept
      <3>5. r = row'[f] /\ d = draft'[v][f]
        BY <1>1, <3>1
      <3> QED BY <2>1, <3>4, <3>5 DEF DraftSync
    <2> QED BY <2>5, <2>6, <2>7 DEF SyncOf
  <1> QED BY <1>1, <1>2, RowsKept, FeedKept DEF SyncInv

(***************************************************************************)
(* The invariant.                                                          *)
(***************************************************************************)

LEMMA FullInitially ==
  ASSUME Init
  PROVE  FullInv
  <1>1. /\ row = [e \in Events |-> NoEvent]
        /\ draft = [w \in Workers |-> [e \in Events |-> NoEvent]]
        /\ job = [w \in Workers |-> Idle]
        /\ photos = {} /\ imported = {} /\ crossed = {} /\ surprises = 0
        /\ feed \in [Meetings -> Listings] /\ bare = {m \in Meetings : feed[m] = "bare"}
    BY DEF Init
  <1>2. 0 \in 0..MaxSurprises
    BY CatalogueAssumption
  <1>3. TypeOK
    BY <1>1, <1>2, NoEventType, IdleType DEF TypeOK
  <1>4. FeedOK
    BY <1>1 DEF FeedOK, Init
  <1>5. ShowsOwn(NoEvent) /\ Carries(NoEvent)
    BY CatalogueAssumption DEF ShowsOwn, Carries, ScheduleId, NoEvent
  <1>6. \A e \in Events : RowOK(e)
    BY <1>1, <1>5 DEF RowOK
  <1>7. ASSUME NEW w \in Workers
        PROVE  SyncOf(w)
    <2>1. Changed(w) = {}
      BY <1>1 DEF Changed
    <2>2. job[w] = Idle
      BY <1>1
    <2>3. JobSync(w)
      BY <2>1, <2>2 DEF JobSync, Idle
    <2> QED BY <2>1, <2>3 DEF SyncOf
  <1> QED BY <1>3, <1>4, <1>6, <1>7, CatalogueInitially DEF FullInv, SyncInv

LEMMA SyncStep ==
  ASSUME FullInv, [Next]_vars
  PROVE  SyncInv'
  <1>1. ASSUME NEW w \in Workers, StartEquipeSync(w) \/ StartTdbSync(w) \/ LoadEntry(w)
        PROVE  SyncInv'
    BY <1>1, StartsSync, LoadSync
  <1>2. ASSUME NEW w \in Workers, FlushUpdate(w) \/ FlushInsert(w) \/ Deactivate(w)
        PROVE  SyncInv'
    BY <1>2, FlushUpdateSync, FlushInsertSync, DeactivateSync
  <1>3. ASSUME NEW w \in Workers, Violation(w) \/ Deadlock(w)
        PROVE  SyncInv'
    BY <1>3, RefusedSync DEF Violation, Deadlock
  <1>4. ASSUME NEW w \in Workers, Commit(w)
        PROVE  SyncInv'
    BY <1>4, CommitSync
  <1>5. ASSUME NEW w \in Workers, Die(w)
        PROVE  SyncInv'
    <2>1. RolledBack(w) /\ UNCHANGED <<row, photos, feed, bare, imported, crossed>>
      BY <1>5 DEF Die
    <2>2. \A v \in Workers \ {w} : draft'[v] = draft[v]
      BY <2>1 DEF RolledBack, FullInv, TypeOK
    <2>3. PICK j : Takes(w, j)
      BY <2>1 DEF RolledBack
    <2>4. \A v \in Workers : SyncOf(v)'
      BY <2>1, <2>2, <2>3, EndedSync, OthersKept
    <2> QED BY <2>1, <2>4, RowsKept, FeedKept DEF SyncInv
  <1>6. ASSUME NEW w \in Workers,
               (\E m \in Meetings : Import(w, m)) \/ (\E e \in Events : Unmatch(w, e) \/ \E m \in Meetings : ManualMatch(w, e, m))
        PROVE  SyncInv'
    BY <1>6, RequestsSync
  <1>7. ASSUME NEW m \in Meetings, FeedChanges(m)
        PROVE  SyncInv'
    <2>1. PICK l \in Listings : feed' = [feed EXCEPT ![m] = l] /\ (l = "full" => TdbOf[m] # None)
      BY <1>7 DEF FeedChanges
    <2>2. /\ bare' = IF feed'[m] = "bare" THEN bare \cup {m} ELSE bare
          /\ UNCHANGED <<row, draft, job, photos, imported, crossed>>
      BY <1>7 DEF FeedChanges
    <2>3. feed'[m] = l /\ \A n \in Meetings \ {m} : feed'[n] = feed[n]
      BY <2>1 DEF FullInv, TypeOK
    <2>4. FeedOK'
      BY <2>1, <2>2, <2>3 DEF FullInv, SyncInv, FeedOK
    <2> QED BY <2>2, <2>4, OutsideSync
  <1>8. CASE (\E e \in Events : Upload(e)) \/ UNCHANGED vars
    <2>1. UNCHANGED <<row, draft, job, feed, bare, imported, crossed>> /\ photos \subseteq photos'
      BY <1>8 DEF Upload, vars
    <2> QED BY <2>1, FeedKept, OutsideSync
  <1>9. ASSUME NEW e \in Events, DeletePhoto(e)
        PROVE  SyncInv'
    BY <1>9, DeletePhotoSync
  <1> QED
    BY <1>1, <1>2, <1>3, <1>4, <1>5, <1>6, <1>7, <1>8, <1>9 DEF Next

\* The inductive invariant, for every instance.
THEOREM CatalogueInvariance == Spec => []FullInv
  <1>1. Init => FullInv
    BY FullInitially
  <1>2. FullInv /\ [Next]_vars => FullInv'
    BY CatalogueTypeStep, CatalogueStep, SyncStep DEF FullInv
  <1> QED
    BY <1>1, <1>2, PTL DEF Spec

-----------------------------------------------------------------------------
(***************************************************************************)
(* The theorems.                                                           *)
(***************************************************************************)

\* The rows, the drafts and what each transaction holds in hand keep their types.
THEOREM CatalogueIsTyped == Spec => []TypeOK
  <1>1. FullInv => TypeOK
    BY DEF FullInv
  <1> QED
    BY <1>1, CatalogueInvariance, PTL

\* However many syncs, imports and edits overlap, a meeting that always carried its
\* TDB id shares its event with that id's: the two lookups of
\* upsert_event_by_equipe_id and the unique constraint on tdb_id join them.
THEOREM CompetitionsAreOneEvent == Spec => []OneEventPerCompetition
  <1>1. FullInv => OneEventPerCompetition
    <2> SUFFICES ASSUME FullInv, NEW m \in Meetings \ bare, NEW e \in Events, NEW f \in Events,
                        row[e].equipe = m, row[e].match # "manual", e \notin crossed,
                        TdbOf[m] # None, row[f].tdb = TdbOf[m]
                 PROVE  e = f
      BY DEF OneEventPerCompetition
    <2>1. row[e].tdb = TdbOf[m]
      BY DEF FullInv, SyncInv, RowOK, Carries
    <2>2. UniqueIdentities
      BY DEF FullInv, CatalogueInv, RowsInv
    <2>3. row[e]["tdb"] = row[f]["tdb"] /\ row[e]["tdb"] # None /\ "tdb" \in Keys
      BY <2>1 DEF Keys
    <2> QED BY <2>2, <2>3 DEF UniqueIdentities
  <1> QED
    BY <1>1, CatalogueInvariance, PTL

\* No order of syncs, imports, matches and unmatches leaves an event with the
\* payload of a meeting it is not joined to, a manual match excepted, unless a
\* flush overwrote what it had not read.
THEOREM SchedulesAreOfTheirMeetings == Spec => []ScheduleOfMeeting
  <1>1. FullInv => ScheduleOfMeeting
    BY DEF FullInv, SyncInv, RowOK, ShowsOwn, ScheduleOfMeeting
  <1> QED
    BY <1>1, CatalogueInvariance, PTL

\* An event imported by hand is never seen by the feed until a sync lists it, so
\* the hiding statement of no sync, however old its answer, reaches it.
THEOREM ImportsStayListed == Spec => []ImportedStaysListed
  <1>1. FullInv => ImportedStaysListed
    BY DEF FullInv, TypeOK, SyncInv, RowOK, ImportedStaysListed
  <1> QED
    BY <1>1, CatalogueInvariance, PTL

\* What a sync drafted as hidden is still, at its COMMIT, a row of a meeting its
\* feed had not named, and one that at some time since it began had no photo: no
\* other transaction commits that row in between.
THEOREM SyncsHideOnlyStale == Spec => HidesOnlyStale
  <1>1. FullInv /\ [Next]_vars =>
          [\A w \in Workers, e \in Events :
             Commit(w) /\ row[e].active /\ ~row'[e].active =>
                /\ row[e].equipe \notin job[w].ids \cup {None}
                /\ row[e].seen \/ e \in crossed
                /\ e \notin job[w].before]_vars
    <2> SUFFICES ASSUME FullInv, NEW w \in Workers, NEW e \in Events, Commit(w), row[e].active, ~row'[e].active
                 PROVE  /\ row[e].equipe \notin job[w].ids \cup {None}
                        /\ row[e].seen \/ e \in crossed
                        /\ e \notin job[w].before
      OBVIOUS
    <2>1. row'[e] = Seen(w, e)
      BY DEF Commit
    <2>2. e \in Changed(w) /\ ~draft[w][e].active /\ DraftSync(job[w], e, row[e], draft[w][e])
      BY <2>1, SeenIs
    <2> QED BY <2>2 DEF DraftSync
  <1> QED
    BY <1>1, CatalogueInvariance, PTL DEF HidesOnlyStale, Spec

\* A sync or an import moves an event matched by hand only on the ground of the TDB
\* id that it writes with the move, however its SELECT and its COMMIT lie apart.
THEOREM ManualMatchesAreKept == Spec => ManualMatchKept
  <1>1. FullInv /\ [Next]_vars =>
          [\A w \in Workers, e \in Events :
             Commit(w) /\ row[e].match = "manual" /\ row'[e].equipe # row[e].equipe /\ e \notin crossed =>
                \/ job[w].kind \in {"match", "unmatch"}
                \/ row'[e].tdb # None /\ row'[e].tdb = TdbOf[row'[e].equipe]]_vars
    <2> SUFFICES ASSUME FullInv, NEW w \in Workers, NEW e \in Events, Commit(w), row[e].match = "manual",
                        row'[e].equipe # row[e].equipe, e \notin crossed
                 PROVE  \/ job[w].kind \in {"match", "unmatch"}
                        \/ row'[e].tdb # None /\ row'[e].tdb = TdbOf[row'[e].equipe]
      OBVIOUS
    <2>1. row'[e] = Seen(w, e)
      BY DEF Commit
    <2>2. e \in Changed(w) /\ row'[e] = draft[w][e] /\ DraftSync(job[w], e, row[e], draft[w][e])
      BY <2>1, SeenIs
    <2> QED BY <2>2 DEF DraftSync
  <1> QED
    BY <1>1, CatalogueInvariance, PTL DEF ManualMatchKept, Spec
=============================================================================
