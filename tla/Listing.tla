------------------------------- MODULE Listing -------------------------------
(***************************************************************************)
(* The paged lists: an event's gallery, a photographer's photos and the    *)
(* events.  A client reads page after page, each a query of its own, while *)
(* uploads, syncs and a photo's changes and deletion commit.  It stops at  *)
(* the first page that is not full.                                        *)
(*                                                                         *)
(* Photos come by created_at, the start of the inserting transaction: one  *)
(* upload's have the same, and a row can appear behind newer ones.  Events *)
(* come by start_date, which every sync writes again.  Rows of one time    *)
(* come in any order, and in another for the next page.                    *)
(***************************************************************************)
EXTENDS Integers, FiniteSets

CONSTANTS
    Rows, Times,
    Classes,     \* a photo's classes and sections, what events are filtered by
    PageSize,
    AnyClass     \* no filter

ASSUME ListingAssumption ==
    /\ IsFiniteSet(Rows)
    /\ Times \subseteq Int
    /\ AnyClass \notin Classes
    /\ PageSize \in Nat \ {0}

VARIABLES
    row,     \* the committed rows: photos, or events
    query,   \* what the clients list
    page,    \* the next page, 0 when nobody reads
    due      \* rows in the list when the client began that have kept their place
             \* in it and that no page has shown yet

listingVars == <<row, query, page, due>>

NoRow == [time |-> 0, class |-> AnyClass, shown |-> FALSE, exists |-> FALSE]
RowStates == [time : Times, class : Classes, shown : BOOLEAN, exists : {TRUE}]
Queries == [list : {"gallery", "own", "events"}, class : Classes \cup {AnyClass}, shown : BOOLEAN]

-----------------------------------------------------------------------------
(***************************************************************************)
(* The lists.                                                              *)
(***************************************************************************)

OfClass(r, q) == q.class \in {AnyClass, row[r].class}

\* A photo is in the gallery whatever its visibility.
GalleryRows(q) == {r \in Rows : row[r].exists /\ OfClass(r, q)}

\* list_photos, with or without a visibility.
OwnRows(q) == {r \in Rows : row[r].exists /\ OfClass(r, q) /\ (q.shown => row[r].shown)}

\* list_events, with or without inactive ones.
EventList(q) == {r \in Rows : row[r].exists /\ OfClass(r, q) /\ (q.shown => row[r].shown)}

Selected ==
    IF query.list = "gallery" THEN GalleryRows(query)
    ELSE IF query.list = "own" THEN OwnRows(query) ELSE EventList(query)

BugOffset(p) == p * PageSize
Offset(p) == (p - 1) * PageSize

\* The possible first n rows of S, newest first.
FirstOf(n, S) ==
    {A \in SUBSET S :
        /\ Cardinality(A) <= n
        /\ Cardinality(A) < n => A = S
        /\ \A a \in A, b \in S \ A : row[a].time >= row[b].time}

\* The rows that come before r on the pages.
Newer(r) == {s \in Selected : row[s].time > row[r].time}

\* A row that is alone in its time.
Untied(r) == \A s \in Selected \ {r} : row[s].time # row[r].time

-----------------------------------------------------------------------------
ListingInit ==
    /\ row = [r \in Rows |-> NoRow]
    /\ query \in Queries
    /\ page = 0
    /\ due = {}

\* A row of a list that another transaction changes stays in it, alone in its time,
\* and no row that came before it goes.
KeepsPlace(r) == r \in Selected' /\ Untied(r)' /\ Newer(r) \subseteq Newer(r)'

\* A transaction commits.
Changes(newRow) ==
    /\ row' = newRow
    /\ UNCHANGED <<query, page>>
    /\ due' = {r \in due : KeepsPlace(r)}

OfPhotos == query.list # "events"
With(S, new) == [r \in Rows |-> IF r \in S THEN new[r] ELSE row[r]]

\* An upload's photos have one class and one created_at.
AddPhotos(S, state) ==
    /\ OfPhotos
    /\ \A r \in S : ~row[r].exists
    /\ Changes(With(S, [r \in S |-> state]))

\* update_photo: what an UPDATE may change of what the lists go by.
UpdatePhoto(r, shown) ==
    /\ OfPhotos
    /\ row[r].exists
    /\ Changes([row EXCEPT ![r].shown = shown])

\* A deleted row leaves nothing behind.
BugMarksDeleted(r) == [row EXCEPT ![r].exists = FALSE]
Without(r) == [row EXCEPT ![r] = NoRow]

DeletePhoto(r) ==
    /\ OfPhotos
    /\ row[r].exists
    /\ Changes(Without(r))

\* A sync or an import inserts events and writes any column of others, their start_date
\* and is_active_from_equipe too; a photo changes which events has_photos selects.
SyncEvents(S, new) ==
    /\ ~OfPhotos
    /\ Changes(With(S, new))

StartReading ==
    /\ page = 0
    /\ page' = 1
    /\ due' = {r \in Selected : Untied(r)}
    /\ UNCHANGED <<row, query>>

ReadPage ==
    /\ page # 0
    /\ \E before \in FirstOf(Offset(page), Selected) :
         \E items \in FirstOf(PageSize, Selected \ before) :
            /\ due' = due \ items
            /\ page' = IF Cardinality(items) < PageSize THEN 0 ELSE page + 1
    /\ UNCHANGED <<row, query>>

ListingNext ==
    \/ \E r \in Rows : DeletePhoto(r) \/ \E shown \in BOOLEAN : UpdatePhoto(r, shown)
    \/ \E S \in SUBSET Rows : \/ \E state \in RowStates : AddPhotos(S, state)
                              \/ \E new \in [S -> RowStates] : SyncEvents(S, new)
    \/ StartReading
    \/ ReadPage

ListingSpec == ListingInit /\ [][ListingNext]_listingVars
-----------------------------------------------------------------------------
(***************************************************************************)
(* Properties                                                              *)
(***************************************************************************)

\* The type invariant.
ListingTypeOK ==
    /\ row \in [Rows -> RowStates \cup {NoRow}]
    /\ query \in Queries
    /\ page \in Nat
    /\ due \subseteq Rows

\* A client that reads to the end has seen every row that was in the list when it
\* began and kept its place, whatever else was added, changed, moved or deleted
\* meanwhile (get_event_gallery, list_photos, list_events).
EveryRowListed == page = 0 => due = {}
=============================================================================
