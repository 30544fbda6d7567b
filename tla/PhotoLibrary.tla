---------------------------- MODULE PhotoLibrary ----------------------------
(***************************************************************************)
(* A photo's life: uploaded, processed, offered, sold, deleted.  Its row   *)
(* is in the database and its bytes are objects of a store that has no     *)
(* transactions: what a request wrote or erased there stays when its       *)
(* transaction is rolled back, and the row still names the object by key.  *)
(*                                                                         *)
(* A photo exists here from the moment a photographer picks its file for   *)
(* an upload; a photo is also what an object holds, namely the bytes of    *)
(* that file.  "preview" stands for the preview and the thumbnail, which   *)
(* are made and erased together.                                           *)
(***************************************************************************)
EXTENDS FiniteSets

CONSTANTS
    Photos, Sessions, Names, Orders,
    Workers,     \* requests the API serves at the same time
    SessionOf,   \* the upload request each photo's file is part of
    NameOf,      \* the name the photographer's file has
    Items,       \* the photos in each order's cart
    Dying,       \* the kinds of request that may raise or die half way
    None

ASSUME LibraryAssumption ==
    /\ SessionOf \in [Photos -> Sessions]
    /\ NameOf \in [Photos -> Names]
    /\ Items \in [Orders -> SUBSET Photos]
    /\ None \notin Photos \cup Sessions \cup Orders

VARIABLES
    row,        \* photos: "plain" is READY without a preview, "previewed" READY with one
    status,     \* orders, as far as their photos are concerned
    purchases,  \* committed photo_purchases, as <<order, photo>>
    original, preview,  \* the store: the photo whose bytes an object has
    begun,      \* upload sessions, whose ids are never used again
    asked,      \* photos whose deletion began before any order of them was captured
    job         \* what each worker is doing

vars == <<row, status, purchases, original, preview, begun, asked, job>>

Keys == Sessions \X Names
RowState == {"none", "plain", "previewed"}
OrderState == {"none", "placed", "paid", "captured"}
Steps == {"idle", "write", "process", "fulfill", "original", "preview", "cascade", "delete"}

PhotosOf(s) == {p \in Photos : SessionOf[p] = s}
Rows == {p \in Photos : row[p] # "none"}

(***************************************************************************)
(* Decisions of the code, each after a slip that would break a property.   *)
(***************************************************************************)

\* originals/{event_id}/{session_id}/{filename}
BugKeyWithoutSession(p) == <<CHOOSE s \in Sessions : TRUE, NameOf[p]>>
StorageKey(p) == <<SessionOf[p], NameOf[p]>>

\* The original's key with previews/ for originals/.
BugPreviewKey(p) == <<CHOOSE s \in Sessions : TRUE, NameOf[p]>>
PreviewKey(p) == StorageKey(p)

\* photo_purchases.photo_id is a foreign key: the photos must have their rows.
Insertable(o) == Items[o] \subseteq Rows

\* What a photo is once process_photo has returned.
BugFailed(p, made) == IF p \in made THEN "previewed" ELSE "failed"
Processed(p, made) == IF p \in made THEN "previewed" ELSE "plain"

\* An inserted purchase keeps its photo's row from being deleted (a key share lock).
KeyShared(p) == \E w \in Workers : job[w].step = "fulfill" /\ p \in Items[job[w].order]

PurchasesOf(p) == {s \in purchases : s[2] = p}

\* delete_photo counts the committed purchases; what an order captures is sold.
BugNotCounted(p) == TRUE
Unsold(p) == PurchasesOf(p) = {}
Sold(p) == \E o \in Orders : status[o] = "captured" /\ p \in Items[o]

\* Whose bytes anyone is shown under a photo's name, and a buyer downloads with an
\* order of it; None when the answer is an error.
Shown(p) == IF row[p] = "previewed" THEN preview[PreviewKey(p)] ELSE None
Downloaded(o, p) ==
    IF status[o] = "captured" /\ <<o, p>> \in purchases THEN original[StorageKey(p)] ELSE None

Idle == [step |-> "idle", session |-> None, order |-> None, photo |-> None,
         todo |-> {}, made |-> {}, loaded |-> {}]

Takes(w, j) == job' = [job EXCEPT ![w] = j]

Init ==
    /\ row = [p \in Photos |-> "none"]
    /\ status = [o \in Orders |-> "none"]
    /\ purchases = {}
    /\ original = [k \in Keys |-> None]
    /\ preview = [k \in Keys |-> None]
    /\ begun = {}
    /\ asked = {}
    /\ job = [w \in Workers |-> Idle]

-----------------------------------------------------------------------------
(***************************************************************************)
(* Upload: the files are written one after the other, then the rows are    *)
(* inserted, processed one after the other, and committed together.        *)
(***************************************************************************)

Upload(w, s) ==
    /\ job[w].step = "idle"
    /\ s \notin begun
    /\ PhotosOf(s) # {}
    /\ begun' = begun \cup {s}
    /\ Takes(w, [Idle EXCEPT !.step = "write", !.session = s, !.todo = PhotosOf(s)])
    /\ UNCHANGED <<row, status, purchases, original, preview, asked>>

WriteFile(w, p) ==
    /\ job[w].step = "write"
    /\ p \in job[w].todo
    /\ original' = [original EXCEPT ![StorageKey(p)] = p]
    /\ Takes(w, IF job[w].todo = {p}
                THEN [job[w] EXCEPT !.step = "process", !.todo = PhotosOf(job[w].session)]
                ELSE [job[w] EXCEPT !.todo = @ \ {p}])
    /\ UNCHANGED <<row, status, purchases, preview, begun, asked>>

\* process_photo reads the original back and writes its preview; whatever goes
\* wrong, even once the preview is written, leaves the photo READY without one.
ProcessPhoto(w, p) ==
    /\ job[w].step = "process"
    /\ p \in job[w].todo
    /\ \E done \in SUBSET {"written", "recorded"} :
         /\ "recorded" \in done => "written" \in done
         /\ preview' = IF "written" \in done
                       THEN [preview EXCEPT ![PreviewKey(p)] = original[StorageKey(p)]]
                       ELSE preview
         /\ Takes(w, [job[w] EXCEPT
                        !.todo = @ \ {p},
                        !.made = IF "recorded" \in done THEN @ \cup {p} ELSE @])
    /\ UNCHANGED <<row, status, purchases, original, begun, asked>>

CommitUpload(w) ==
    /\ job[w].step = "process"
    /\ job[w].todo = {}
    /\ row' = [p \in Photos |-> IF SessionOf[p] = job[w].session
                                THEN Processed(p, job[w].made) ELSE row[p]]
    /\ Takes(w, Idle)
    /\ UNCHANGED <<status, purchases, original, preview, begun, asked>>

-----------------------------------------------------------------------------
(***************************************************************************)
(* Sale: only photos on offer are priced; the buyer pays; the fulfilment   *)
(* inserts the purchases and, after transfers and receipt, commits.        *)
(***************************************************************************)

PlaceOrder(o) ==
    /\ status[o] = "none"
    /\ Items[o] \subseteq Rows
    /\ status' = [status EXCEPT ![o] = "placed"]
    /\ UNCHANGED <<row, purchases, original, preview, begun, asked, job>>

BuyerPays(o) ==
    /\ status[o] = "placed"
    /\ status' = [status EXCEPT ![o] = "paid"]
    /\ UNCHANGED <<row, purchases, original, preview, begun, asked, job>>

\* A missing photo fails the insert: the fulfilment is rolled back as it began.
Fulfill(w, o) ==
    /\ job[w].step = "idle"
    /\ status[o] = "paid"
    /\ \A v \in Workers : job[v].order # o   \* the order's row lock
    /\ Insertable(o)
    /\ Takes(w, [Idle EXCEPT !.step = "fulfill", !.order = o])
    /\ UNCHANGED <<row, status, purchases, original, preview, begun, asked>>

CommitFulfill(w) ==
    /\ job[w].step = "fulfill"
    /\ status' = [status EXCEPT ![job[w].order] = "captured"]
    /\ purchases' = purchases \cup ({job[w].order} \X Items[job[w].order])
    /\ Takes(w, Idle)
    /\ UNCHANGED <<row, original, preview, begun, asked>>

-----------------------------------------------------------------------------
(***************************************************************************)
(* Deletion: the sales are counted, the objects erased one by one, then    *)
(* the row is deleted with the purchases the ORM's cascade loads.          *)
(***************************************************************************)

DeletePhoto(w, p) ==
    /\ job[w].step = "idle"
    /\ p \in Rows
    /\ Unsold(p)
    /\ asked' = IF Sold(p) THEN asked ELSE asked \cup {p}
    /\ Takes(w, [Idle EXCEPT !.step = "original", !.photo = p,
                             !.made = IF row[p] = "previewed" THEN {p} ELSE {}])
    /\ UNCHANGED <<row, status, purchases, original, preview, begun>>

EraseOriginal(w) ==
    /\ job[w].step = "original"
    /\ original' = [original EXCEPT ![StorageKey(job[w].photo)] = None]
    /\ Takes(w, [job[w] EXCEPT !.step = IF job[w].made = {} THEN "cascade" ELSE "preview"])
    /\ UNCHANGED <<row, status, purchases, preview, begun, asked>>

ErasePreview(w) ==
    /\ job[w].step = "preview"
    /\ preview' = [preview EXCEPT ![PreviewKey(job[w].photo)] = None]
    /\ Takes(w, [job[w] EXCEPT !.step = "cascade"])
    /\ UNCHANGED <<row, status, purchases, original, begun, asked>>

\* db.delete: the purchases committed by now are to go with the photo.
Cascade(w) ==
    /\ job[w].step = "cascade"
    /\ Takes(w, [job[w] EXCEPT !.step = "delete", !.loaded = PurchasesOf(job[w].photo)])
    /\ UNCHANGED <<row, status, purchases, original, preview, begun, asked>>

\* The flush and the COMMIT.  A purchase that is not part of the cascade refuses
\* the DELETE, which waits for uncommitted ones to know.
CommitDelete(w) ==
    LET p == job[w].photo IN
    /\ job[w].step = "delete"
    /\ ~KeyShared(p)
    /\ \/ /\ PurchasesOf(p) \subseteq job[w].loaded
          /\ row' = [row EXCEPT ![p] = "none"]
          /\ purchases' = purchases \ job[w].loaded
       \/ /\ ~(PurchasesOf(p) \subseteq job[w].loaded)
          /\ UNCHANGED <<row, purchases>>
    /\ Takes(w, Idle)
    /\ UNCHANGED <<status, original, preview, begun, asked>>

-----------------------------------------------------------------------------
\* The request raises or dies before its COMMIT: only the store remembers it.
Rollback(w) ==
    /\ job[w].step \in Dying
    /\ Takes(w, Idle)
    /\ UNCHANGED <<row, status, purchases, original, preview, begun, asked>>

Next ==
    \/ \E o \in Orders : PlaceOrder(o) \/ BuyerPays(o)
    \/ \E w \in Workers :
         \/ \E s \in Sessions : Upload(w, s)
         \/ \E p \in Photos : WriteFile(w, p) \/ ProcessPhoto(w, p) \/ DeletePhoto(w, p)
         \/ \E o \in Orders : Fulfill(w, o)
         \/ CommitUpload(w) \/ CommitFulfill(w)
         \/ EraseOriginal(w) \/ ErasePreview(w) \/ Cascade(w) \/ CommitDelete(w)
         \/ Rollback(w)

Spec == Init /\ [][Next]_vars
-----------------------------------------------------------------------------
(***************************************************************************)
(* Properties                                                              *)
(***************************************************************************)

Jobs == [step : Steps, session : Sessions \cup {None}, order : Orders \cup {None}, photo : Photos \cup {None},
         todo : SUBSET Photos, made : SUBSET Photos, loaded : SUBSET (Orders \X Photos)]

\* The type invariant.
TypeOK ==
    /\ row \in [Photos -> RowState]
    /\ status \in [Orders -> OrderState]
    /\ purchases \subseteq Orders \X Photos
    /\ original \in [Keys -> Photos \cup {None}]
    /\ preview \in [Keys -> Photos \cup {None}]
    /\ begun \subseteq Sessions
    /\ asked \subseteq Photos
    /\ job \in [Workers -> Jobs]

\* Once an order is captured, its photos keep their rows and their buyers download
\* them for good, except photos whose deletion had begun before the capture:
\* no deletion that begins later and no cascade, retry or file of another photo
\* takes a sale (count in delete_photo, key share lock, storage keys).
SoldStaysUnlessAsked ==
    \A o \in Orders : status[o] = "captured" =>
        \A p \in Items[o] \ asked : p \in Rows /\ Downloaded(o, p) = p

\* A photo that nobody asked to delete keeps its original and its preview,
\* whatever uploads and deletions run, fail or die beside it (storage keys).
KeptUnlessAsked ==
    \A p \in Rows \ asked :
        /\ original[StorageKey(p)] = p
        /\ row[p] = "previewed" => preview[PreviewKey(p)] = p

\* Nobody sees or downloads another photo under a photo's name (get_photo_preview,
\* get_photo_thumbnail, download_photo_file).
OwnBytesOnly ==
    \A p \in Photos : /\ Shown(p) \in {p, None}
                      /\ \A o \in Orders : Downloaded(o, p) \in {p, None}

(***************************************************************************)
(* Why these hold: LibraryInv for any files, StoreInv if no two files of   *)
(* an upload have one name.  Both are inductive.                           *)
(***************************************************************************)
DistinctKeys == \A p, q \in Photos : StorageKey(p) = StorageKey(q) => p = q

Uploading(w) == job[w].step \in {"write", "process"}
Deleting(w) == job[w].step \in {"original", "preview", "cascade", "delete"}

\* Something outside its upload refers to the photo.
Known(p) ==
    \/ p \in Rows \cup asked
    \/ \E o \in Orders : status[o] # "none" /\ p \in Items[o]

KnownOK == \A p \in Photos : Known(p) => SessionOf[p] \in begun

\* An upload is the only one of its session, and nothing refers to its photos.
UploadOK(w) ==
    Uploading(w) =>
        /\ job[w].session \in begun
        /\ job[w].todo \subseteq PhotosOf(job[w].session)
        /\ \A v \in Workers : Uploading(v) /\ job[v].session = job[w].session => v = w
        /\ \A p \in PhotosOf(job[w].session) : ~Known(p)

\* A fulfilment is the only one of its paid order, whose photos it holds.
FulfillOK(w) ==
    job[w].step = "fulfill" =>
        /\ job[w].order \in Orders
        /\ status[job[w].order] = "paid"
        /\ Items[job[w].order] \subseteq Rows
        /\ \A v \in Workers : job[v].step = "fulfill" /\ job[v].order = job[w].order => v = w

DeleteOK(w) ==
    Deleting(w) =>
        /\ job[w].photo \in asked
        /\ job[w].step = "delete" => \A s \in job[w].loaded : s[2] = job[w].photo

JobsOK == \A w \in Workers : UploadOK(w) /\ FulfillOK(w) /\ DeleteOK(w)

\* A captured order has a purchase of each of its photos that still exists, and
\* no purchase outlives its photo (foreign key, key share lock and cascade).
SalesFollowPhotos ==
    /\ \A s \in purchases : status[s[1]] = "captured" /\ s[2] \in Items[s[1]]
    /\ \A o \in Orders : status[o] = "captured" =>
         \A p \in Items[o] : <<o, p>> \in purchases <=> p \in Rows

\* Only a deletion that began in time takes the row of a sold photo.
SoldRowsStay ==
    \A o \in Orders : status[o] = "captured" => Items[o] \ asked \subseteq Rows

LibraryInv == TypeOK /\ KnownOK /\ JobsOK /\ SalesFollowPhotos /\ SoldRowsStay

\* An object holds its own photo's bytes or nothing.
ObjectsOK ==
    \A p \in Photos : original[StorageKey(p)] \in {p, None} /\ preview[PreviewKey(p)] \in {p, None}

\* What an upload has written is still there.
WrittenOK(w) ==
    Uploading(w) =>
        \A p \in PhotosOf(job[w].session) :
            /\ job[w].step = "process" \/ p \notin job[w].todo => original[StorageKey(p)] = p
            /\ p \in job[w].made => preview[PreviewKey(p)] = p

StoreInv == ObjectsOK /\ KeptUnlessAsked /\ \A w \in Workers : WrittenOK(w)

(***************************************************************************)
(* Expected, and false.                                                    *)
(***************************************************************************)

\* "A sold photo must stay: buyers download its original" (delete_photo).
SoldKeepsOriginal ==
    \A s \in purchases : Downloaded(s[1], s[2]) = s[2]

\* "A sold photo must stay" (delete_photo), and "409 if it has been sold" (README):
\* every photo of a captured order keeps its row and its original.
SoldPhotoStays ==
    \A o \in Orders : status[o] = "captured" =>
        \A p \in Items[o] : p \in Rows /\ original[StorageKey(p)] = p

\* A photo that is paid for is there for its order to be fulfilled and captured.
PaidPhotoStays ==
    \A o \in Orders : status[o] = "paid" => Items[o] \subseteq Rows
=============================================================================
