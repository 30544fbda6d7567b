---------------------------- MODULE ListingProofs ----------------------------
(* Theorems about Listing, for any rows, times, lists and page size. *)
EXTENDS Listing, FiniteSetTheorems, TLAPS

\* A row that is due is on a later page: enough rows come before it.
StillToCome ==
    /\ page = 0 => due = {}
    /\ \A r \in due : r \in Selected /\ Untied(r) /\ Cardinality(Newer(r)) >= Offset(page)

ListingInv == ListingTypeOK /\ StillToCome

LEMMA OffsetStep ==
  ASSUME NEW p \in Nat \ {0}
  PROVE  Offset(1) = 0 /\ Offset(p) \in Nat /\ Offset(p + 1) = Offset(p) + PageSize
  <1>1. PageSize \in Nat
    BY ListingAssumption
  <1>2. p + 1 - 1 = (p - 1) + 1 /\ p - 1 \in Nat
    OBVIOUS
  <1>3. \A n \in Nat : (n + 1) * PageSize = n * PageSize + PageSize /\ n * PageSize \in Nat /\ 0 * PageSize = 0
    BY <1>1, SMTT(30)
  <1> QED
    BY <1>1, <1>2, <1>3 DEF Offset

LEMMA Finiteness ==
  ASSUME NEW S, S \subseteq Selected
  PROVE  IsFiniteSet(S) /\ Cardinality(S) \in Nat
  <1>1. S \subseteq Rows
    BY DEF Selected, GalleryRows, OwnRows, EventList
  <1> QED
    BY <1>1, ListingAssumption, FS_Subset, FS_CardinalityType

LEMMA RowTimes ==
  ASSUME ListingTypeOK, NEW r \in Rows
  PROVE  row[r].time \in Int
  <1>1. row[r] \in RowStates \/ row[r] = NoRow
    BY DEF ListingTypeOK
  <1>2. \A state \in RowStates : state.time \in Int
    BY ListingAssumption DEF RowStates
  <1> QED
    BY <1>1, <1>2 DEF NoRow

\* What a page leaves out comes after it, and what it shows was not shown before.
LEMMA PageOfRow ==
  ASSUME ListingTypeOK, page # 0, NEW r \in Selected, Untied(r), Cardinality(Newer(r)) >= Offset(page),
         NEW before \in FirstOf(Offset(page), Selected), NEW items \in FirstOf(PageSize, Selected \ before)
  PROVE  \/ r \in items
         \/ Cardinality(items) = PageSize /\ Cardinality(Newer(r)) >= Offset(page + 1)
  <1>1. /\ before \subseteq Selected /\ items \subseteq Selected /\ before \cap items = {}
        /\ Newer(r) \subseteq Selected
    BY DEF FirstOf, Newer
  <1>2. /\ IsFiniteSet(before) /\ IsFiniteSet(items) /\ IsFiniteSet(Newer(r))
        /\ Cardinality(before) \in Nat /\ Cardinality(items) \in Nat /\ Cardinality(Newer(r)) \in Nat
    BY <1>1, Finiteness
  <1>3. page \in Nat \ {0} /\ PageSize \in Nat \ {0} /\ Offset(page) \in Nat /\ Offset(page + 1) = Offset(page) + PageSize
    BY OffsetStep, ListingAssumption DEF ListingTypeOK
  <1>4. \A s \in Selected : row[s].time \in Int
    BY RowTimes DEF Selected, GalleryRows, OwnRows, EventList
  <1>5. r \notin before
    <2> SUFFICES ASSUME r \in before
                 PROVE  FALSE
      OBVIOUS
    <2>1. \A s \in Selected \ before : row[r].time >= row[s].time
      BY DEF FirstOf
    <2>2. Newer(r) \cup {r} \subseteq before
      BY <1>4, <2>1 DEF Newer
    <2>3. r \notin Newer(r)
      BY <1>4 DEF Newer
    <2>4. Cardinality(Newer(r) \cup {r}) = Cardinality(Newer(r)) + 1
      BY <1>2, <2>3, FS_AddElement
    <2>5. Cardinality(Newer(r) \cup {r}) <= Cardinality(before)
      BY <1>2, <2>2, FS_Subset
    <2>6. Cardinality(before) <= Offset(page)
      BY DEF FirstOf
    <2> QED
      BY <1>2, <1>3, <2>4, <2>5, <2>6
  <1>6. CASE r \notin items
    <2>1. r \in (Selected \ before) \ items
      BY <1>5, <1>6
    <2>2. before \cup items \subseteq Newer(r)
      <3>1. ASSUME NEW s \in before \cup items
            PROVE  s \in Newer(r)
        <4>1. row[s].time >= row[r].time /\ s \in Selected /\ s # r
          BY <1>1, <2>1, <3>1 DEF FirstOf
        <4> QED
          BY <1>4, <4>1 DEF Newer, Untied
      <3> QED
        BY <3>1
    <2>3. Cardinality(before) = Offset(page)
      BY <1>2, <1>3, <2>1 DEF FirstOf
    <2>4. Cardinality(items) = PageSize
      BY <1>2, <1>3, <2>1 DEF FirstOf
    <2>5. Cardinality(before \cup items) = Cardinality(before) + Cardinality(items)
      <3>1. Cardinality(before \cap items) = 0
        BY <1>1, FS_EmptySet
      <3>2. Cardinality(before \cup items)
              = Cardinality(before) + Cardinality(items) - Cardinality(before \cap items)
        BY <1>2, FS_Union
      <3> QED
        BY <1>2, <3>1, <3>2
    <2>6. Cardinality(before \cup items) <= Cardinality(Newer(r))
      BY <1>2, <2>2, FS_Subset
    <2> QED
      BY <1>2, <1>3, <2>3, <2>4, <2>5, <2>6
  <1> QED
    BY <1>6

LEMMA ListingTypeStep == ListingTypeOK /\ [ListingNext]_listingVars => ListingTypeOK'
  <1> SUFFICES ASSUME ListingTypeOK, [ListingNext]_listingVars
               PROVE  ListingTypeOK'
    OBVIOUS
  <1> USE DEF ListingTypeOK
  <1>1. Selected \subseteq Rows
    BY DEF Selected, GalleryRows, OwnRows, EventList
  <1>2. ASSUME NEW new \in [Rows -> RowStates \cup {NoRow}], Changes(new)
        PROVE  ListingTypeOK'
    BY <1>2 DEF Changes, Queries, RowStates, NoRow
  <1>3. ASSUME NEW S \in SUBSET Rows, NEW state \in RowStates, AddPhotos(S, state)
        PROVE  ListingTypeOK'
    <2>1. With(S, [r \in S |-> state]) \in [Rows -> RowStates \cup {NoRow}]
      BY DEF With
    <2> QED
      BY <1>2, <1>3, <2>1 DEF AddPhotos
  <1>4. ASSUME NEW r \in Rows, NEW shown \in BOOLEAN, UpdatePhoto(r, shown)
        PROVE  ListingTypeOK'
    <2>1. row[r] \in RowStates
      BY <1>4 DEF UpdatePhoto, NoRow
    <2>2. [row[r] EXCEPT !.shown = shown] \in RowStates
      BY <2>1, ZenonT(30) DEF RowStates
    <2>3. [row EXCEPT ![r].shown = shown] \in [Rows -> RowStates \cup {NoRow}]
      BY <2>2
    <2> QED
      BY <1>2, <1>4, <2>3 DEF UpdatePhoto
  <1>5. ASSUME NEW r \in Rows, DeletePhoto(r)
        PROVE  ListingTypeOK'
    BY <1>2, <1>5 DEF DeletePhoto, Without
  <1>6. ASSUME NEW S \in SUBSET Rows, NEW new \in [S -> RowStates], SyncEvents(S, new)
        PROVE  ListingTypeOK'
    <2>1. With(S, new) \in [Rows -> RowStates \cup {NoRow}]
      BY DEF With
    <2> QED
      BY <1>2, <1>6, <2>1 DEF SyncEvents
  <1>7. CASE StartReading
    BY <1>1, <1>7 DEF StartReading, Queries, RowStates, NoRow
  <1>8. CASE ReadPage
    <2>1. PICK before \in FirstOf(Offset(page), Selected) :
            \E items \in FirstOf(PageSize, Selected \ before) :
                /\ due' = due \ items
                /\ page' = IF Cardinality(items) < PageSize THEN 0 ELSE page + 1
      BY <1>8 DEF ReadPage
    <2>2. due' \subseteq Rows /\ page' \in Nat
      BY <2>1
    <2> QED
      BY <1>8, <2>2 DEF ReadPage, Queries, RowStates, NoRow
  <1>9. CASE UNCHANGED listingVars
    BY <1>9 DEF listingVars, Queries, RowStates, NoRow
  <1> QED
    BY <1>3, <1>4, <1>5, <1>6, <1>7, <1>8, <1>9 DEF ListingNext

\* Whatever a transaction changes, it brings no row that keeps its place closer to
\* the client.
LEMMA ChangeStep ==
  ASSUME ListingInv, NEW new, Changes(new)
  PROVE  StillToCome'
  <1>1. page' = page /\ due' \subseteq due /\ Offset(page)' = Offset(page)
    BY DEF Changes, Offset
  <1>2. page' = 0 => due' = {}
    BY <1>1 DEF ListingInv, StillToCome
  <1>3. ASSUME NEW r \in due'
        PROVE  r \in Selected' /\ Untied(r)' /\ Cardinality(Newer(r))' >= Offset(page)
    <2>1. r \in Selected' /\ Untied(r)' /\ Newer(r) \subseteq Newer(r)'
      BY <1>3 DEF Changes, KeepsPlace
    <2>2. Cardinality(Newer(r)) >= Offset(page) /\ page # 0
      BY <1>1, <1>2, <1>3 DEF ListingInv, StillToCome
    <2>3. IsFiniteSet(Newer(r)')
      <3>1. Newer(r)' \subseteq Rows
        BY DEF Newer, Selected, GalleryRows, OwnRows, EventList
      <3> QED
        BY <3>1, ListingAssumption, FS_Subset
    <2>4. Cardinality(Newer(r)) <= Cardinality(Newer(r)')
      BY <2>1, <2>3, FS_Subset
    <2>5. Cardinality(Newer(r)) \in Nat /\ Cardinality(Newer(r)') \in Nat /\ Offset(page) \in Nat
      <3>1. Newer(r) \subseteq Selected
        BY DEF Newer
      <3>2. page \in Nat \ {0}
        BY <2>2 DEF ListingInv, ListingTypeOK
      <3> QED
        BY <2>3, <3>1, <3>2, Finiteness, FS_CardinalityType, OffsetStep
    <2> QED
      BY <2>1, <2>2, <2>4, <2>5
  <1> QED
    BY <1>1, <1>2, <1>3 DEF StillToCome

\* After a page that is not full, nothing is due.
LEMMA ReadStep ==
  ASSUME ListingInv, ReadPage
  PROVE  StillToCome'
  <1> PICK before \in FirstOf(Offset(page), Selected) :
             \E items \in FirstOf(PageSize, Selected \ before) :
                /\ due' = due \ items
                /\ page' = IF Cardinality(items) < PageSize THEN 0 ELSE page + 1
    BY DEF ReadPage
  <1>1. PICK items \in FirstOf(PageSize, Selected \ before) :
               /\ due' = due \ items
               /\ page' = IF Cardinality(items) < PageSize THEN 0 ELSE page + 1
    OBVIOUS
  <1>2. page # 0 /\ page \in Nat /\ UNCHANGED <<row, query>>
    BY DEF ReadPage, ListingInv, ListingTypeOK
  <1>3. PageSize \in Nat
    BY ListingAssumption
  <1>4. ASSUME NEW r \in due'
        PROVE  /\ r \in Selected /\ Untied(r)
               /\ Cardinality(items) = PageSize /\ Cardinality(Newer(r)) >= Offset(page + 1)
    <2>1. r \in due /\ r \notin items
      BY <1>1, <1>4
    <2>2. r \in Selected /\ Untied(r) /\ Cardinality(Newer(r)) >= Offset(page)
      BY <2>1 DEF ListingInv, StillToCome
    <2> QED
      BY <1>2, <2>1, <2>2, PageOfRow DEF ListingInv
  <1>5. Selected' = Selected
    BY <1>2 DEF Selected, GalleryRows, OwnRows, EventList, OfClass
  <1>6. \A r : Newer(r)' = Newer(r) /\ (Untied(r)' <=> Untied(r))
    BY <1>2, <1>5 DEF Newer, Untied
  <1>7. ASSUME NEW r \in due'
        PROVE  page' = page + 1 /\ Offset(page)' = Offset(page + 1) /\ page' # 0
    <2>1. page' = page + 1
      BY <1>1, <1>3, <1>4, <1>7
    <2> QED
      BY <1>2, <2>1 DEF Offset
  <1> QED
    BY <1>4, <1>5, <1>6, <1>7 DEF StillToCome

LEMMA ListingStep == ListingInv /\ [ListingNext]_listingVars => ListingInv'
  <1> SUFFICES ASSUME ListingInv, [ListingNext]_listingVars
               PROVE  StillToCome'
    BY ListingTypeStep DEF ListingInv
  <1>1. ASSUME NEW r \in Rows, DeletePhoto(r) \/ \E shown \in BOOLEAN : UpdatePhoto(r, shown)
        PROVE  StillToCome'
    BY <1>1, ChangeStep DEF DeletePhoto, UpdatePhoto
  <1>2. ASSUME NEW S \in SUBSET Rows,
               (\E state \in RowStates : AddPhotos(S, state)) \/ \E new \in [S -> RowStates] : SyncEvents(S, new)
        PROVE  StillToCome'
    BY <1>2, ChangeStep DEF AddPhotos, SyncEvents
  <1>3. CASE StartReading
    <2>1. page' = 1 /\ due' \subseteq Selected' /\ \A r \in due' : Untied(r)'
      BY <1>3 DEF StartReading, Selected, GalleryRows, OwnRows, EventList, OfClass, Untied
    <2>2. Offset(page)' = 0
      BY <2>1, OffsetStep DEF Offset
    <2>3. ASSUME NEW r
          PROVE  Cardinality(Newer(r))' >= 0
      <3>1. Newer(r)' \subseteq Rows
        BY DEF Newer, Selected, GalleryRows, OwnRows, EventList
      <3>2. Cardinality(Newer(r)') \in Nat
        BY <3>1, ListingAssumption, FS_Subset, FS_CardinalityType
      <3> QED
        BY <3>2
    <2> QED
      BY <2>1, <2>2, <2>3 DEF StillToCome
  <1>4. CASE ReadPage
    BY <1>4, ReadStep
  <1>5. CASE UNCHANGED listingVars
    <2>1. UNCHANGED <<row, query, page, due>>
      BY <1>5 DEF listingVars
    <2>2. Selected' = Selected
      BY <2>1 DEF Selected, GalleryRows, OwnRows, EventList, OfClass
    <2> QED
      BY <2>1, <2>2 DEF ListingInv, StillToCome, Untied, Newer, Offset
  <1> QED
    BY <1>1, <1>2, <1>3, <1>4, <1>5 DEF ListingNext

LEMMA ListingInvariant == ListingSpec => []ListingInv
  <1>1. ListingInit => ListingInv
    <2> SUFFICES ASSUME ListingInit
                 PROVE  ListingInv
      OBVIOUS
    <2>1. row \in [Rows -> RowStates \cup {NoRow}]
      BY DEF ListingInit
    <2>2. StillToCome
      BY DEF ListingInit, StillToCome
    <2> QED
      BY <2>1, <2>2 DEF ListingInit, ListingInv, ListingTypeOK
  <1> QED
    BY <1>1, ListingStep, PTL DEF ListingSpec

\* Rows, pages and what is due keep their types, for any rows and page size.
THEOREM ListingTypes == ListingSpec => []ListingTypeOK
  <1>1. ListingInv => ListingTypeOK
    BY DEF ListingInv
  <1> QED
    BY <1>1, ListingInvariant, PTL

\* Who reads page after page to the end has seen every row that was in the list when
\* the reading began and kept its place in it, for any number of rows and any page
\* size, whatever is added, changed, moved and deleted meanwhile (get_event_gallery,
\* list_photos, list_events).
THEOREM ReadersSeeEveryRow == ListingSpec => []EveryRowListed
  <1>1. ListingInv => EveryRowListed
    BY DEF ListingInv, StillToCome, EveryRowListed
  <1> QED
    BY <1>1, ListingInvariant, PTL
=============================================================================
