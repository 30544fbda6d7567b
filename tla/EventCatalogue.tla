--------------------------- MODULE EventCatalogue ---------------------------
(***************************************************************************)
(* The catalogue of competitions, fed by two feeds that know a competition *)
(* under different ids: TDB lists events, Equipe lists meetings, and a     *)
(* meeting may carry the TDB id of its competition.                        *)
(*                                                                         *)
(* A sync is one transaction with a savepoint per entry.  An entry is a    *)
(* SELECT, and then a flush that writes only the columns that differ from  *)
(* what was read: what another transaction committed in between stays in   *)
(* the others.  Columns no property tells apart are left out.  Dates are   *)
(* reduced to whether they are set.                                        *)
(***************************************************************************)
EXTENDS Naturals

CONSTANTS
    Events,        \* primary keys
    Meetings,      \* Equipe ids
    TdbIds,
    TdbOf,         \* the TDB id of each meeting's competition, or None
    Workers,
    Beat,          \* the worker that runs the periodic Equipe sync
    MaxSurprises,  \* bound on what is not periodic: requests, uploads, deaths, changes of the feed
    None

ASSUME CatalogueAssumption ==
    /\ TdbOf \in [Meetings -> TdbIds \cup {None}]
    /\ None \notin Events \cup Meetings \cup TdbIds
    /\ Beat \in Workers
    /\ MaxSurprises \in Nat

VARIABLES
    row,       \* the committed events
    draft,     \* each transaction's uncommitted rows
    job,       \* what each worker is doing; "before" are the events with photos all along
    photos,    \* events with a committed photo
    feed,      \* what Equipe lists: a meeting is absent, bare (without its TDB id) or full
    bare,      \* meetings that were ever listed without their TDB id
    imported,  \* events imported by hand and not listed by the feed since
    crossed,   \* events that a flush found changed since its SELECT
    surprises

vars == <<row, draft, job, photos, feed, bare, imported, crossed, surprises>>

Slugs == Meetings \cup TdbIds   \* a slug ends in the id it was made from
Listings == {"absent", "bare", "full"}
EventRows == [tdb : TdbIds \cup {None}, equipe : Meetings \cup {None}, slug : Slugs \cup {None},
              payload : Meetings \cup {None}, match : {"unmatched", "manual"},
              active : BOOLEAN, seen : BOOLEAN]
Columns == {"tdb", "equipe", "slug", "payload", "match", "active", "seen"}
Keys == {"tdb", "equipe", "slug"}

NoEvent == [tdb |-> None, equipe |-> None, slug |-> None, payload |-> None,
            match |-> "unmatched", active |-> TRUE, seen |-> FALSE]
Exists(r) == r.slug # None

Changed(w) == {e \in Events : draft[w][e] # NoEvent}

\* What a transaction reads: its own rows, else the committed ones.
Seen(w, e) == IF e \in Changed(w) THEN draft[w][e] ELSE row[e]

-----------------------------------------------------------------------------
(***************************************************************************)
(* Decisions of the code, each after a slip that would break a property.   *)
(***************************************************************************)

BugIgnoresTdb(m, listing) == None
CarriedTdb(m, listing) == IF listing = "full" THEN TdbOf[m] ELSE None

\* normalize_equipe_meeting, with what the sync or the import adds to it.
BugImportIsSeen(m, listing, recent) ==
    [tdb |-> CarriedTdb(m, listing), equipe |-> m, slug |-> m, payload |-> m,
     active |-> TRUE, seen |-> TRUE]
EquipeValues(m, listing, recent) ==
    [tdb |-> CarriedTdb(m, listing), equipe |-> m, slug |-> m, payload |-> m,
     active |-> TRUE, seen |-> recent]

TdbValues(t) == [tdb |-> t, slug |-> t]

Holding(w, column, value) == {e \in Events : Exists(Seen(w, e)) /\ Seen(w, e)[column] = value}

\* An Equipe upsert finds its event by equipe_id, else by the TDB id it carries.
BugFindsAnyWithoutTdb(w, v) ==
    IF Holding(w, "equipe", v.equipe) # {} THEN Holding(w, "equipe", v.equipe)
    ELSE Holding(w, "tdb", v.tdb)
BugFindsByEquipeOnly(w, v) == Holding(w, "equipe", v.equipe)
FoundByEquipe(w, v) ==
    IF Holding(w, "equipe", v.equipe) # {} THEN Holding(w, "equipe", v.equipe)
    ELSE IF v.tdb # None THEN Holding(w, "tdb", v.tdb) ELSE {}

MatchValues(m) == [equipe |-> m, match |-> "manual"]

BugRejects(x) == [equipe |-> None, match |-> "rejected", payload |-> None]
BugKeepsPayload(x) == [equipe |-> None, match |-> "unmatched"]
UnmatchValues(x) == [equipe |-> None, match |-> "unmatched", payload |-> None]

\* The unique constraints: another event has a key of the new row.
BugNoConstraint(w, e, r) == FALSE
Duplicate(w, e, r) ==
    \E f \in Events \ {e}, k \in Keys : r[k] # None /\ Seen(w, f)[k] = r[k]

\* _get_equipe_meeting_id: the meeting whose schedule and starts an event shows.
ScheduleId(r) == IF r.payload # None THEN r.payload ELSE r.equipe

\* Whom a write of row r to event e waits for: a transaction that has written the
\* row, or has taken or given up one of its keys.
Holds(v, e, r) ==
    \/ e \in Changed(v)
    \/ \E f \in Changed(v) \ {e}, k \in Keys :
          r[k] # None /\ r[k] \in {draft[v][f][k], row[f][k]}

\* _deactivate_stale_equipe_events, on the rows the statement sees.
BugForgetsPhotos(w, ids) ==
    {e \in Events : /\ Exists(Seen(w, e)) /\ Seen(w, e).active /\ Seen(w, e).seen
                    /\ Seen(w, e).equipe \notin ids \cup {None}}
Stale(w, ids) ==
    {e \in Events \ photos : /\ Exists(Seen(w, e)) /\ Seen(w, e).active /\ Seen(w, e).seen
                             /\ Seen(w, e).equipe \notin ids \cup {None}}

-----------------------------------------------------------------------------
NoEntry == [equipe |-> None]
Idle == [kind |-> "idle", step |-> "idle", todo |-> {}, entry |-> NoEntry, target |-> None,
         loaded |-> NoEvent, ids |-> {}, before |-> {}]

Takes(w, j) == job' = [job EXCEPT ![w] = j]
Surprise == surprises < MaxSurprises /\ surprises' = surprises + 1

Init ==
    /\ row = [e \in Events |-> NoEvent]
    /\ draft = [w \in Workers |-> [e \in Events |-> NoEvent]]
    /\ job = [w \in Workers |-> Idle]
    /\ photos = {}
    /\ feed \in [Meetings -> Listings]
    /\ \A m \in Meetings : feed[m] = "full" => TdbOf[m] # None
    /\ bare = {m \in Meetings : feed[m] = "bare"}
    /\ imported = {}
    /\ crossed = {}
    /\ surprises = 0

(***************************************************************************)
(* The outside.                                                            *)
(***************************************************************************)

\* A meeting enters or leaves the recent ones, or its TDB id is published.
\* One of another country or without a date is skipped, as if it were absent.
FeedChanges(m) ==
    /\ Surprise
    /\ \E l \in Listings \ {feed[m]} :
          /\ l = "full" => TdbOf[m] # None
          /\ feed' = [feed EXCEPT ![m] = l]
    /\ bare' = IF feed'[m] = "bare" THEN bare \cup {m} ELSE bare
    /\ UNCHANGED <<row, draft, job, photos, imported, crossed>>

Upload(e) ==
    /\ Surprise
    /\ Exists(row[e])
    /\ photos' = photos \cup {e}
    /\ UNCHANGED <<row, draft, job, feed, bare, imported, crossed>>

\* delete_photo takes the event's last photo.
DeletePhoto(e) ==
    /\ e \in photos
    /\ photos' = photos \ {e}
    /\ job' = [w \in Workers |-> [job[w] EXCEPT !.before = @ \ {e}]]
    /\ UNCHANGED <<row, draft, feed, bare, imported, crossed, surprises>>

-----------------------------------------------------------------------------
(***************************************************************************)
(* The syncs.                                                              *)
(***************************************************************************)

StartEquipeSync(w) ==
    /\ job[w].step = "idle"
    /\ IF w = Beat THEN UNCHANGED surprises ELSE Surprise
    /\ LET listed == {m \in Meetings : feed[m] # "absent"} IN
       Takes(w, [Idle EXCEPT !.kind = "equipe", !.step = IF listed = {} THEN "commit" ELSE "next",
                             !.todo = {EquipeValues(m, feed[m], TRUE) : m \in listed},
                             !.ids = listed, !.before = photos])
    /\ UNCHANGED <<row, draft, photos, feed, bare, imported, crossed>>

StartTdbSync(w) ==
    /\ job[w].step = "idle"
    /\ w # Beat
    /\ Surprise
    /\ Takes(w, [Idle EXCEPT !.kind = "tdb", !.step = "next",
                          !.todo = {TdbValues(t) : t \in TdbIds}])
    /\ UNCHANGED <<row, draft, photos, feed, bare, imported, crossed>>

\* The SELECT of an upsert; without an event the row is to be inserted.
Finds(w, j, found) ==
    \/ \E e \in found : Takes(w, [j EXCEPT !.step = "flush", !.target = e, !.loaded = Seen(w, e)])
    \/ found = {} /\ Takes(w, [j EXCEPT !.step = "flush"])

LoadEntry(w) ==
    /\ job[w].step = "next"
    /\ \E v \in job[w].todo :
          Finds(w, [job[w] EXCEPT !.entry = v, !.todo = @ \ {v}],
                IF job[w].kind = "equipe" THEN FoundByEquipe(w, v) ELSE Holding(w, "tdb", v.tdb))
    /\ UNCHANGED <<row, draft, photos, feed, bare, imported, crossed, surprises>>

\* After an entry, the next one; after the last, an Equipe sync looks for stale events.
Proceed(j) ==
    [j EXCEPT !.step = IF j.todo # {} THEN "next" ELSE IF j.kind = "equipe" THEN "stale" ELSE "commit",
              !.entry = NoEntry, !.loaded = NoEvent, !.target = None]

\* The columns that differ from what was read.  A sync's date always does, and
\* the payload may, for the same meeting.
Dirty(j, v) == {c \in DOMAIN v : v[c] # j.loaded[c] \/ (c = "seen" /\ j.kind = "equipe")}
Write(r, v, columns) == [c \in Columns |-> IF c \in columns THEN v[c] ELSE r[c]]

Free == {e \in Events : ~Exists(row[e]) /\ \A v \in Workers : e \notin Changed(v)}

Writes(w, e, r) ==
    /\ \A v \in Workers \ {w} : ~Holds(v, e, r)
    /\ ~Duplicate(w, e, r)
    /\ draft' = [draft EXCEPT ![w][e] = r]

\* The flush: an UPDATE of the row as it is now, or an INSERT.
FlushUpdate(w) ==
    LET j == job[w] v == j.entry e == j.target IN
    /\ j.step = "flush" /\ e # None
    /\ \E extra \in SUBSET ({"payload"} \cap DOMAIN v) :
          LET columns == Dirty(j, v) \cup extra IN
          \/ /\ columns = {}   \* no statement: the rest of the request is not seen
             /\ imported' = IF j.kind = "import" THEN imported \cup {e} ELSE imported
             /\ UNCHANGED draft
          \/ /\ columns # {}
             /\ Writes(w, e, Write(Seen(w, e), v, columns))
             /\ UNCHANGED imported
    /\ crossed' = IF Seen(w, e) # j.loaded THEN crossed \cup {e} ELSE crossed
    /\ Takes(w, Proceed(j))
    /\ UNCHANGED <<row, photos, feed, bare, surprises>>

FlushInsert(w) ==
    LET j == job[w] v == j.entry e == CHOOSE f \in Free : TRUE IN
    /\ j.step = "flush" /\ j.target = None
    /\ Free # {}
    /\ Writes(w, e, Write(NoEvent, v, DOMAIN v))
    /\ Takes(w, Proceed(j))
    /\ UNCHANGED <<row, photos, feed, bare, imported, crossed, surprises>>

\* The row to be written, for the checks the database makes of it.
Written(w) ==
    LET j == job[w] v == j.entry IN
    IF j.target = None THEN Write(NoEvent, v, DOMAIN v) ELSE Write(Seen(w, j.target), v, Dirty(j, v))

Deactivate(w) ==
    LET stale == Stale(w, job[w].ids) IN
    /\ job[w].step = "stale"
    /\ \A v \in Workers \ {w} : stale \cap Changed(v) = {}
    /\ draft' = [draft EXCEPT ![w] = [e \in Events |->
                    IF e \in stale THEN [Seen(w, e) EXCEPT !.active = FALSE] ELSE draft[w][e]]]
    /\ Takes(w, [job[w] EXCEPT !.step = "commit"])
    /\ UNCHANGED <<row, photos, feed, bare, imported, crossed, surprises>>

-----------------------------------------------------------------------------
(***************************************************************************)
(* An administrator's requests: one event each.                            *)
(***************************************************************************)

Import(w, m) ==
    /\ job[w].step = "idle" /\ w # Beat
    /\ Surprise
    /\ \E l \in {"bare", "full"} :
          /\ l = "full" => TdbOf[m] # None
          /\ feed[m] # "absent" => l = feed[m]
          /\ bare' = IF l = "bare" THEN bare \cup {m} ELSE bare
          /\ LET v == EquipeValues(m, l, FALSE) IN
             Finds(w, [Idle EXCEPT !.kind = "import", !.entry = v], FoundByEquipe(w, v))
    /\ UNCHANGED <<row, draft, photos, feed, imported, crossed>>

ManualMatch(w, e, m) ==
    /\ job[w].step = "idle" /\ w # Beat
    /\ Surprise
    /\ Exists(row[e])
    /\ Finds(w, [Idle EXCEPT !.kind = "match", !.entry = MatchValues(m)], {e})
    /\ UNCHANGED <<row, draft, photos, feed, bare, imported, crossed>>

Unmatch(w, e) ==
    /\ job[w].step = "idle" /\ w # Beat
    /\ Surprise
    /\ Exists(row[e])
    /\ Finds(w, [Idle EXCEPT !.kind = "unmatch", !.entry = UnmatchValues(e)], {e})
    /\ UNCHANGED <<row, draft, photos, feed, bare, imported, crossed>>

-----------------------------------------------------------------------------
(***************************************************************************)
(* How a transaction ends, and what the database refuses.                  *)
(***************************************************************************)

RolledBack(w) ==
    /\ Takes(w, Idle)
    /\ draft' = [draft EXCEPT ![w] = [e \in Events |-> NoEvent]]

\* A refused statement undoes a sync's entry, and the whole of another request.
Refused(w) ==
    IF job[w].kind \in {"equipe", "tdb"} /\ job[w].step = "flush"
    THEN Takes(w, Proceed(job[w])) /\ UNCHANGED draft
    ELSE RolledBack(w)

Waits(w, v) ==
    \/ /\ job[w].step = "flush"
       /\ IF job[w].target = None THEN \E f \in Changed(v), k \in Keys :
                               /\ Written(w)[k] # None
                               /\ Written(w)[k] \in {draft[v][f][k], row[f][k]}
          ELSE Dirty(job[w], job[w].entry) # {} /\ Holds(v, job[w].target, Written(w))
    \/ job[w].step = "stale" /\ Stale(w, job[w].ids) \cap Changed(v) # {}

Violation(w) ==
    /\ job[w].step = "flush"
    /\ \A v \in Workers \ {w} : ~Waits(w, v)
    /\ Duplicate(w, job[w].target, Written(w))
    /\ Refused(w)
    /\ UNCHANGED <<row, photos, feed, bare, imported, crossed, surprises>>

Deadlock(w) ==
    /\ \E v \in Workers \ {w} : Waits(w, v) /\ Waits(v, w)
    /\ Refused(w)
    /\ UNCHANGED <<row, photos, feed, bare, imported, crossed, surprises>>

Commit(w) ==
    /\ job[w].step = "commit"
    /\ row' = [e \in Events |-> Seen(w, e)]
    /\ imported' = IF job[w].kind = "import" THEN imported \cup Changed(w)
                   ELSE imported \ {e \in Changed(w) : draft[w][e].equipe \in job[w].ids}
    /\ RolledBack(w)
    /\ UNCHANGED <<photos, feed, bare, crossed, surprises>>

Die(w) ==
    /\ job[w].step # "idle"
    /\ Surprise
    /\ RolledBack(w)
    /\ UNCHANGED <<row, photos, feed, bare, imported, crossed>>

Statement(w) == FlushUpdate(w) \/ FlushInsert(w) \/ Deactivate(w)
Next ==
    \/ \E m \in Meetings : FeedChanges(m)
    \/ \E e \in Events : Upload(e) \/ DeletePhoto(e)
    \/ \E w \in Workers :
         \/ StartEquipeSync(w) \/ StartTdbSync(w) \/ LoadEntry(w)
         \/ FlushUpdate(w) \/ FlushInsert(w) \/ Deactivate(w)
         \/ Violation(w) \/ Deadlock(w) \/ Commit(w) \/ Die(w)
         \/ \E m \in Meetings : Import(w, m)
         \/ \E e \in Events : Unmatch(w, e) \/ \E m \in Meetings : ManualMatch(w, e, m)

\* Beat comes round; a request runs on, and the database serves locks in turn.
Fairness ==
    /\ WF_vars(StartEquipeSync(Beat))
    /\ \A w \in Workers :
         /\ WF_vars(LoadEntry(w) \/ Commit(w))
         /\ SF_vars(Statement(w) \/ Violation(w) \/ Deadlock(w))

Spec == Init /\ [][Next]_vars
FairSpec == Spec /\ Fairness
-----------------------------------------------------------------------------
(***************************************************************************)
(* Properties                                                              *)
(***************************************************************************)

Entries ==
    {NoEntry} \cup {EquipeValues(m, l, r) : m \in Meetings, l \in Listings, r \in BOOLEAN}
    \cup {TdbValues(t) : t \in TdbIds} \cup {MatchValues(m) : m \in Meetings}
    \cup {UnmatchValues(e) : e \in Events}
Jobs == [kind : {"idle", "equipe", "tdb", "import", "match", "unmatch"},
         step : {"idle", "next", "flush", "stale", "commit"}, todo : SUBSET Entries, entry : Entries,
         target : Events \cup {None}, loaded : EventRows, ids : SUBSET Meetings, before : SUBSET Events]

\* The type invariant.
TypeOK ==
    /\ row \in [Events -> EventRows]
    /\ draft \in [Workers -> [Events -> EventRows]]
    /\ job \in [Workers -> Jobs]
    /\ feed \in [Meetings -> Listings]
    /\ photos \cup imported \cup crossed \subseteq Events
    /\ bare \subseteq Meetings
    /\ surprises \in 0..MaxSurprises

\* No two events have one TDB id, Equipe id or slug, whatever transactions insert,
\* overwrite and hand on beside each other (the tables' unique constraints).
UniqueIdentities ==
    \A e, f \in Events, k \in Keys : e # f /\ row[e][k] # None => row[e][k] # row[f][k]

\* A competition whose meeting always carried its TDB id is one event, whichever
\* feed brought it first (the two lookups of upsert_event_by_equipe_id).
OneEventPerCompetition ==
    \A m \in Meetings \ bare : \A e, f \in Events :
        /\ row[e].equipe = m /\ row[e].match # "manual" /\ e \notin crossed
        /\ TdbOf[m] # None /\ row[f].tdb = TdbOf[m]
        => e = f

\* The schedule and the starts shown for an event are of the meeting it is joined
\* to, manual matches excepted (they keep the payload of the meeting before).
ScheduleOfMeeting ==
    \A e \in Events \ crossed : row[e].match = "unmatched" => ScheduleId(row[e]) = row[e].equipe

\* "Manual imports may be outside /meetings/recent; keep them active across
\* recent-feed syncs" (import_equipe_meeting), unless a sync overtook the import.
ImportedStaysListed ==
    \A e \in imported \ crossed : row[e].active

\* A sync hides only an event of a meeting it did not see, that the feed had brought
\* before (unless the event changed under it), and never one that had a photo when
\* the sync began and kept one.
HidesOnlyStale ==
    [][\A w \in Workers, e \in Events :
         Commit(w) /\ row[e].active /\ ~row'[e].active =>
            /\ row[e].equipe \notin job[w].ids \cup {None}
            /\ row[e].seen \/ e \in crossed
            /\ e \notin job[w].before]_vars

\* An event matched by hand goes to another meeting only by hand, or to one that
\* carries the TDB id the event then has.
ManualMatchKept ==
    [][\A w \in Workers, e \in Events :
         Commit(w) /\ row[e].match = "manual" /\ row'[e].equipe # row[e].equipe /\ e \notin crossed =>
            \/ job[w].kind \in {"match", "unmatch"}
            \/ row'[e].tdb # None /\ row'[e].tdb = TdbOf[row'[e].equipe]]_vars

\* Nothing stands in the way of a listed meeting: no event but its own has the slug
\* or the TDB id it brings, and no other listed meeting carries that id.
Placeable(m) ==
    LET v == EquipeValues(m, feed[m], TRUE)
        own == {e \in Events : row[e].equipe = m}
        home == IF own # {} THEN own ELSE {e \in Events : v.tdb # None /\ row[e].tdb = v.tdb}
    IN  /\ \A e \in Events \ home : row[e].slug # m /\ (v.tdb # None => row[e].tdb # v.tdb)
        /\ \A n \in Meetings \ {m} : v.tdb # None => CarriedTdb(n, feed[n]) # v.tdb

\* A meeting that stays in the feed and has its place ends up in the catalogue and
\* stays in it, whatever other syncs with older answers, edits and deaths do.
FeedIsListed ==
    \A m \in Meetings :
        <>[](feed[m] # "absent" /\ Placeable(m)) => <>[](\E e \in Events : row[e].equipe = m /\ row[e].active)
=============================================================================
