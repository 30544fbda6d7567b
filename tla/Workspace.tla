------------------------------ MODULE Workspace ------------------------------
(***************************************************************************)
(* What people keep in the application beside photos and sales: users and  *)
(* their photographer profiles, the profiles' approval and Stripe account, *)
(* and a photographer's folders, prices, tags and bookings.                *)
(*                                                                         *)
(* Every request here reads, checks, writes and commits.  Its writes and   *)
(* its COMMIT are one action: what it wrote is locked until then, so what  *)
(* another request would do in between it does before or after.  What it   *)
(* read and checked is older.  The ORM writes only the columns that differ *)
(* from what was read.                                                     *)
(***************************************************************************)
EXTENDS Naturals

CONSTANTS
    Users, Admin, Photographer,   \* Admin has the role and Photographer is approved from the start
    Photos, EventOf,              \* the Photographer's photos, and their events
    Folders, FolderNames, Lower,  \* Lower is str.lower
    Slugs, FirstSlug,
    TagSets, Prices,
    Workers,
    MaxRequests,                  \* bound on requests in a behaviour
    None

ASSUME WorkspaceAssumption ==
    /\ {Admin, Photographer} \subseteq Users /\ Admin # Photographer
    /\ FirstSlug \in Slugs
    /\ DOMAIN Lower = FolderNames
    /\ None \notin Users \cup Photos \cup Folders
    /\ 0 \in Prices /\ {} \in TagSets
    /\ MaxRequests \in Nat

VARIABLES
    role,      \* users.role; "none" before the first request that signs the user in
    profile,   \* photographers, one per user at most (user_id is unique)
    folder,
    photo,     \* the columns of photos that are the photographer's to set, and their tags
    booked,    \* photographer_event_bookings
    guests,    \* users with the address guest checkouts share
    accounts,  \* Stripe: connected accounts created for each photographer
    job,
    requests,
    approved,  \* users an administrator has approved at some time
    overtaken  \* what changed between a request's check and its write

vars == <<role, profile, folder, photo, booked, guests, accounts, job, requests, approved, overtaken>>

EventIds == {EventOf[p] : p \in Photos}
NoProfile == [status |-> "none", slug |-> None, account |-> 0]
\* A folder's id is not used again after the folder is deleted.
NoFolder == [owner |-> None, event |-> None, name |-> None, used |-> FALSE]
Deleted == [NoFolder EXCEPT !.used = TRUE]
In(folders) == {f \in Folders : folders[f] \notin {NoFolder, Deleted}}
Existing == In(folder)
Unused == {f \in Folders : folder[f] = NoFolder}

Init ==
    /\ role = [u \in Users |-> IF u = Admin THEN "admin" ELSE IF u = Photographer THEN "photographer" ELSE "none"]
    /\ profile = [u \in Users |-> IF u = Photographer
                                  THEN [status |-> "approved", slug |-> FirstSlug, account |-> 0]
                                  ELSE NoProfile]
    /\ folder = [f \in Folders |-> NoFolder]
    /\ photo = [p \in Photos |-> [folder |-> None, price |-> 0, tags |-> {}]]
    /\ booked = {}
    /\ guests = 0
    /\ accounts = [u \in Users |-> 0]
    /\ job = [w \in Workers |-> [kind |-> "idle"]]
    /\ requests = 0
    /\ approved = {Photographer}
    /\ overtaken = {}

-----------------------------------------------------------------------------
(***************************************************************************)
(* Decisions of the code, each after a slip that would break a property.   *)
(***************************************************************************)

\* require_approved_photographer
BugNotSuspended(u) == role[u] = "photographer" /\ profile[u].status # "suspended"
IsApproved(u) == role[u] = "photographer" /\ profile[u].status = "approved"

\* _ensure_folder_name_free, among the folders given; f is the folder to be renamed, or None.
BugNamesAreExact(folders, r, f) ==
    \A g \in In(folders) \ {f} :
        folders[g].owner = r.owner /\ folders[g].event = r.event => folders[g].name # r.name
NameFree(folders, r, f) ==
    \A g \in In(folders) \ {f} :
        folders[g].owner = r.owner /\ folders[g].event = r.event => Lower[folders[g].name] # Lower[r.name]

\* A folder of the photographer's own, for photos of its event.
BugAnyEvent(f, ps) == f \in Existing
FitsFolder(f, ps) == f \in Existing /\ \A p \in ps : EventOf[p] = folder[f].event

\* photos.folder_id is a foreign key with ON DELETE SET NULL.
Uncategorised(p, f) == IF photo[p].folder = f THEN [photo[p] EXCEPT !.folder = None] ELSE photo[p]

\* The photos a bulk change writes: those that differ from it.
BugOnlyUnset(loaded, ps, column, value) == {p \in ps : loaded[p][column] \in {None, 0}}
ToWrite(loaded, ps, column, value) == {p \in ps : loaded[p][column] # value}

\* update_photo deletes the tags its DELETE sees, and inserts the new ones.
BugAddsTags(p, doomed, ts) == photo[p].tags \cup ts
BugOneTag(p, doomed, ts) == (photo[p].tags \ doomed) \cup {ts}
Retagged(p, doomed, ts) == (photo[p].tags \ doomed) \cup ts

\* The profile a save writes: only its own columns, on the row as it is now.
BugWritesWholeRow(u, loaded, s) == [loaded EXCEPT !.slug = s]
Resaved(u, loaded, s) == IF loaded.slug = s THEN profile[u] ELSE [profile[u] EXCEPT !.slug = s]

\* upsert_profile makes whoever saves a profile a photographer.
BugKeepsAdmin(u, loaded) == IF loaded = "admin" THEN role[u] ELSE "photographer"
SavedRole(u, loaded) == IF loaded = "photographer" THEN role[u] ELSE "photographer"

\* The guest user is inserted only when none was found.
BugNewGuest(found) == 1
GuestsToInsert(found) == IF found = 0 THEN 1 ELSE 0

\* Stripe answers a repeated idempotency key with the account it made before.
BugFreshKey(u) == accounts[u] + 1
CreatedAccount(u) == IF accounts[u] = 0 THEN 1 ELSE accounts[u]

-----------------------------------------------------------------------------
Takes(w, j) == job' = [job EXCEPT ![w] = j]
Ends(w) == Takes(w, [kind |-> "idle"])

Begins(w, j) ==
    /\ job[w].kind = "idle"
    /\ requests < MaxRequests
    /\ requests' = requests + 1
    /\ Takes(w, j)
    /\ UNCHANGED <<role, profile, folder, photo, booked, guests, accounts, approved, overtaken>>

\* A statement the database refuses, or an error: the request is rolled back.
Fails(w) ==
    /\ Ends(w)
    /\ UNCHANGED <<role, profile, folder, photo, booked, guests, accounts, requests, approved, overtaken>>

\* _ensure_account holds the photographer's row from its SELECT FOR UPDATE on.
Locked(u) == \E w \in Workers : job[w].kind = "onboard" /\ job[w].user = u /\ job[w].step # "lock"

(***************************************************************************)
(* Signing in, profiles and their approval.                                *)
(***************************************************************************)

SlugFree(u, s) == \A v \in Users \ {u} : profile[v].slug # s

SaveProfile(w, u, s) ==
    /\ SlugFree(u, s)
    /\ Begins(w, [kind |-> "profile", user |-> u, slug |-> s, role |-> role[u], row |-> profile[u]])

\* A new user is inserted with the profile: two first requests have one clerk_user_id.
CommitProfile(w) ==
    LET j == job[w] u == job[w].user IN
    /\ j.kind = "profile"
    /\ ~Locked(u)
    /\ \/ /\ SlugFree(u, j.slug)
          /\ j.role = "none" => role[u] = "none"
          /\ j.row.status = "none" => profile[u].status = "none"
          /\ profile' = [profile EXCEPT ![u] = IF j.row.status = "none"
                           THEN [status |-> "pending", slug |-> j.slug, account |-> 0]
                           ELSE Resaved(u, j.row, j.slug)]
          /\ role' = [role EXCEPT ![u] = SavedRole(u, j.role)]
          /\ Ends(w)
          /\ UNCHANGED <<folder, photo, booked, guests, accounts, requests, approved, overtaken>>
       \/ /\ \/ ~SlugFree(u, j.slug)
             \/ j.role = "none" /\ role[u] # "none"
             \/ j.row.status = "none" /\ profile[u].status # "none"
          /\ Fails(w)

\* Any other first request only inserts the user.
SignIn(w, u) ==
    /\ role[u] = "none"
    /\ Begins(w, [kind |-> "signin", user |-> u])

CommitSignIn(w) ==
    LET u == job[w].user IN
    /\ job[w].kind = "signin"
    /\ \/ /\ role[u] = "none"
          /\ role' = [role EXCEPT ![u] = "user"]
          /\ Ends(w)
          /\ UNCHANGED <<profile, folder, photo, booked, guests, accounts, requests, approved, overtaken>>
       \/ role[u] # "none" /\ Fails(w)

SetStatus(w, a, u, status) ==
    /\ role[a] = "admin"
    /\ profile[u].status # "none"
    /\ Begins(w, [kind |-> "status", user |-> u, status |-> status, row |-> profile[u]])

CommitStatus(w) ==
    LET j == job[w] u == job[w].user IN
    /\ j.kind = "status"
    /\ ~Locked(u)
    /\ profile' = IF j.status = j.row.status THEN profile ELSE [profile EXCEPT ![u].status = j.status]
    /\ approved' = IF profile'[u].status = "approved" THEN approved \cup {u} ELSE approved
    /\ Ends(w)
    /\ UNCHANGED <<role, folder, photo, booked, guests, accounts, requests, overtaken>>

-----------------------------------------------------------------------------
(***************************************************************************)
(* Bookings and folders.                                                   *)
(***************************************************************************)

BookEvent(w, u, e) ==
    /\ IsApproved(u)
    /\ Begins(w, [kind |-> "book", booking |-> <<u, e>>, found |-> <<u, e>> \in booked])

\* The unique constraint refuses a second booking of one event.
CommitBooking(w) ==
    LET j == job[w] IN
    /\ j.kind = "book"
    /\ \/ /\ j.found \/ j.booking \notin booked
          /\ booked' = IF j.found THEN booked ELSE booked \cup {j.booking}
          /\ Ends(w)
          /\ UNCHANGED <<role, profile, folder, photo, guests, accounts, requests, approved, overtaken>>
       \/ ~j.found /\ j.booking \in booked /\ Fails(w)

CancelBooking(w, u, e) ==
    /\ IsApproved(u)
    /\ <<u, e>> \in booked
    /\ Begins(w, [kind |-> "cancel", booking |-> <<u, e>>])

CommitCancel(w) ==
    /\ job[w].kind = "cancel"
    /\ booked' = booked \ {job[w].booking}
    /\ Ends(w)
    /\ UNCHANGED <<role, profile, folder, photo, guests, accounts, requests, approved, overtaken>>

CreateFolder(w, u, e, n) ==
    LET r == [owner |-> u, event |-> e, name |-> n, used |-> TRUE] IN
    /\ IsApproved(u)
    /\ NameFree(folder, r, None)
    /\ Begins(w, [kind |-> "create", row |-> r, folders |-> folder])

\* The name has been taken since it was checked.
Overtakes(f, j) ==
    IF folder = j.folders \/ NameFree(folder, j.row, f) THEN overtaken ELSE overtaken \cup {f}

CommitCreate(w) ==
    LET j == job[w] f == CHOOSE g \in Unused : TRUE IN
    /\ j.kind = "create"
    /\ Unused # {}
    /\ overtaken' = Overtakes(f, j)
    /\ folder' = [folder EXCEPT ![f] = j.row]
    /\ Ends(w)
    /\ UNCHANGED <<role, profile, photo, booked, guests, accounts, requests, approved>>

RenameFolder(w, f, n) ==
    LET r == [folder[f] EXCEPT !.name = n] IN
    /\ f \in Existing
    /\ IsApproved(r.owner)
    /\ NameFree(folder, r, f)
    /\ Begins(w, [kind |-> "rename", folder |-> f, row |-> r, old |-> folder[f].name, folders |-> folder])

\* An UPDATE that finds no row fails the flush.
CommitRename(w) ==
    LET j == job[w] f == job[w].folder IN
    /\ j.kind = "rename"
    /\ \/ /\ j.old = j.row.name
          /\ Ends(w)
          /\ UNCHANGED <<role, profile, folder, photo, booked, guests, accounts, requests, approved, overtaken>>
       \/ /\ j.old # j.row.name /\ f \in Existing
          /\ folder' = [folder EXCEPT ![f].name = j.row.name]
          /\ overtaken' = Overtakes(f, j)
          /\ Ends(w)
          /\ UNCHANGED <<role, profile, photo, booked, guests, accounts, requests, approved>>
       \/ j.old # j.row.name /\ f \notin Existing /\ Fails(w)

DeleteFolder(w, f) ==
    /\ f \in Existing
    /\ IsApproved(folder[f].owner)
    /\ Begins(w, [kind |-> "delete", folder |-> f])

CommitDeleteFolder(w) ==
    LET f == job[w].folder IN
    /\ job[w].kind = "delete"
    /\ folder' = IF f \in Existing THEN [folder EXCEPT ![f] = Deleted] ELSE folder
    /\ photo' = [p \in Photos |-> Uncategorised(p, f)]
    /\ Ends(w)
    /\ UNCHANGED <<role, profile, booked, guests, accounts, requests, approved, overtaken>>

-----------------------------------------------------------------------------
(***************************************************************************)
(* Changes of photos: a folder or a price for several, tags for one.       *)
(***************************************************************************)

MovePhotos(w, ps, f) ==
    /\ IsApproved(Photographer)
    /\ f # None => folder[f].owner = Photographer /\ FitsFolder(f, ps)
    /\ Begins(w, [kind |-> "bulk", photos |-> ps, column |-> "folder", value |-> f, rows |-> photo])

UpdatePrices(w, ps, amount) ==
    /\ IsApproved(Photographer)
    /\ Begins(w, [kind |-> "bulk", photos |-> ps, column |-> "price", value |-> amount, rows |-> photo])

\* A folder that is gone by now fails its foreign key, and no photo moves.
CommitBulk(w) ==
    LET j == job[w]
        written == ToWrite(j.rows, j.photos, j.column, j.value)
        gone == j.column = "folder" /\ j.value # None /\ j.value \notin Existing
    IN
    /\ j.kind = "bulk"
    /\ \/ /\ ~gone \/ written = {}
          /\ photo' = [p \in Photos |-> IF p \in written THEN [photo[p] EXCEPT ![j.column] = j.value]
                                        ELSE photo[p]]
          /\ Ends(w)
          /\ UNCHANGED <<role, profile, folder, booked, guests, accounts, requests, approved, overtaken>>
       \/ gone /\ written # {} /\ Fails(w)

SaveTags(w, p, ts) ==
    /\ IsApproved(Photographer)
    /\ Begins(w, [kind |-> "tags", photo |-> p, tags |-> ts, doomed |-> photo[p].tags])

\* A tag that another save inserted since is not deleted, and refuses its equal.
CommitTags(w) ==
    LET j == job[w] p == job[w].photo IN
    /\ j.kind = "tags"
    /\ \/ /\ (photo[p].tags \ j.doomed) \cap j.tags = {}
          /\ photo' = [photo EXCEPT ![p].tags = Retagged(p, j.doomed, j.tags)]
          /\ overtaken' = IF photo[p].tags = j.doomed THEN overtaken ELSE overtaken \cup {p}
          /\ Ends(w)
          /\ UNCHANGED <<role, profile, folder, booked, guests, accounts, requests, approved>>
       \/ (photo[p].tags \ j.doomed) \cap j.tags # {} /\ Fails(w)

-----------------------------------------------------------------------------
(***************************************************************************)
(* The guest user, and the photographer's Stripe account.                  *)
(***************************************************************************)

\* With two guest users, scalar_one_or_none raises.
GuestCheckout(w) ==
    /\ guests < 2
    /\ Begins(w, [kind |-> "guest", found |-> guests])

CommitGuest(w) ==
    LET found == job[w].found IN
    /\ job[w].kind = "guest"
    /\ guests' = guests + GuestsToInsert(found)
    /\ overtaken' = IF guests = found THEN overtaken ELSE overtaken \cup {"guest"}
    /\ Ends(w)
    /\ UNCHANGED <<role, profile, folder, photo, booked, accounts, requests, approved>>

Onboard(w, u) ==
    /\ IsApproved(u)
    /\ Begins(w, [kind |-> "onboard", user |-> u, step |-> "lock", account |-> 0])

\* The locked row is read again: an account that is there by now is taken.
LockProfile(w) ==
    LET u == job[w].user IN
    /\ job[w].kind = "onboard" /\ job[w].step = "lock"
    /\ ~Locked(u)
    /\ IF profile[u].account = 0 THEN Takes(w, [job[w] EXCEPT !.step = "create"]) ELSE Ends(w)
    /\ UNCHANGED <<role, profile, folder, photo, booked, guests, accounts, requests, approved, overtaken>>

CreateAccount(w) ==
    LET u == job[w].user IN
    /\ job[w].kind = "onboard" /\ job[w].step = "create"
    /\ accounts' = [accounts EXCEPT ![u] = CreatedAccount(u)]
    /\ Takes(w, [job[w] EXCEPT !.step = "commit", !.account = accounts'[u]])
    /\ UNCHANGED <<role, profile, folder, photo, booked, guests, requests, approved, overtaken>>

CommitOnboard(w) ==
    LET j == job[w] IN
    /\ j.kind = "onboard" /\ j.step = "commit"
    /\ profile' = [profile EXCEPT ![j.user].account = j.account]
    /\ Ends(w)
    /\ UNCHANGED <<role, folder, photo, booked, guests, accounts, requests, approved, overtaken>>

\* A reply that is lost, an error or a crash: the request's database work is undone.
Die(w) == job[w].kind # "idle" /\ Fails(w)

Next ==
    \E w \in Workers :
        \/ \E u \in Users :
             \/ SignIn(w, u) \/ Onboard(w, u)
             \/ \E s \in Slugs : SaveProfile(w, u, s)
             \/ \E a \in Users, status \in {"pending", "approved", "suspended"} : SetStatus(w, a, u, status)
             \/ \E e \in EventIds :
                  \/ BookEvent(w, u, e) \/ CancelBooking(w, u, e)
                  \/ \E n \in FolderNames : CreateFolder(w, u, e, n)
        \/ \E f \in Folders : DeleteFolder(w, f) \/ \E n \in FolderNames : RenameFolder(w, f, n)
        \/ \E ps \in SUBSET Photos \ {{}} :
             \/ \E f \in Folders \cup {None} : MovePhotos(w, ps, f)
             \/ \E amount \in Prices : UpdatePrices(w, ps, amount)
        \/ \E p \in Photos, ts \in TagSets : SaveTags(w, p, ts)
        \/ GuestCheckout(w)
        \/ CommitProfile(w) \/ CommitSignIn(w) \/ CommitStatus(w) \/ CommitBooking(w) \/ CommitCancel(w)
        \/ CommitCreate(w) \/ CommitRename(w) \/ CommitDeleteFolder(w) \/ CommitBulk(w) \/ CommitTags(w)
        \/ CommitGuest(w) \/ LockProfile(w) \/ CreateAccount(w) \/ CommitOnboard(w) \/ Die(w)

Spec == Init /\ [][Next]_vars
-----------------------------------------------------------------------------
(***************************************************************************)
(* Properties                                                              *)
(***************************************************************************)

\* The type invariant, of what is stored.
TypeOK ==
    /\ role \in [Users -> {"none", "user", "photographer", "admin"}]
    /\ profile \in [Users -> [status : {"none", "pending", "approved", "suspended"},
                              slug : Slugs \cup {None}, account : Nat]]
    /\ folder \in [Folders -> [owner : Users, event : EventIds, name : FolderNames, used : {TRUE}] \cup {NoFolder, Deleted}]
    /\ photo \in [Photos -> [folder : Folders \cup {None}, price : Prices, tags : SUBSET UNION TagSets]]
    /\ booked \subseteq Users \X EventIds
    /\ guests \in Nat
    /\ accounts \in [Users -> Nat]
    /\ requests \in 0..MaxRequests

\* A photo's folder exists, is its photographer's and is of its event, whatever is
\* moved, renamed and deleted at the same time.
FolderOfOwnEvent ==
    \A p \in Photos : photo[p].folder # None =>
        /\ photo[p].folder \in Existing
        /\ folder[photo[p].folder].owner = Photographer
        /\ folder[photo[p].folder].event = EventOf[p]

\* Two folders of an event have one name, whatever its case, only if one of them got
\* it after another request had taken it between its check and its write (there is
\* no constraint).
NoTwinFolders ==
    \A f, g \in Existing :
        /\ f # g /\ folder[f].owner = folder[g].owner /\ folder[f].event = folder[g].event
        /\ Lower[folder[f].name] = Lower[folder[g].name]
        => {f, g} \cap overtaken # {}

\* Only people an administrator has approved book events or have folders.
OnlyApprovedWork ==
    /\ \A b \in booked : b[1] \in approved
    /\ \A f \in Existing : folder[f].owner \in approved

\* A profile's status is an administrator's to set: saving the profile does not
\* undo an approval or a rejection that was committed after it was read.
StatusByAdmin ==
    [][\A w \in Workers, u \in Users :
         profile[u].status # "none" /\ CommitProfile(w) => profile'[u].status = profile[u].status]_vars

\* "Replace all tags" (update_photo): a photo has the tags of one save, unless two
\* saves overlapped.
TagsOfOneSave == \A p \in Photos \ overtaken : photo[p].tags \in TagSets

\* "All of them move, or none" (move_photos_to_folder, update_photo_prices): after a
\* bulk change that wrote anything, each photo has the new value, unless
\* another request has changed it since it was read.
AllOrNone ==
    [][\A w \in Workers :
         CommitBulk(w) /\ photo' # photo =>
            \A p \in job[w].photos :
                \/ photo'[p][job[w].column] = job[w].value
                \/ photo[p][job[w].column] # job[w].rows[p][job[w].column]]_vars

\* Guests share one user, unless two first guests checked out at once.
OneGuest == "guest" \notin overtaken => guests <= 1

\* Whoever has a profile has the role its pages ask for, and the other way round.
PhotographersHaveProfiles == \A u \in Users : role[u] = "photographer" <=> profile[u].status # "none"

\* "Lock the row so a double click can't create two Stripe accounts"
\* (_ensure_account), and neither can a lost reply or a crash after it.
OneStripeAccount == \A u \in Users : profile[u].account <= accounts[u] /\ accounts[u] <= 1
=============================================================================
