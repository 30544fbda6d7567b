--------------------------- MODULE WorkspaceProofs ---------------------------
(* Theorems about Workspace, for any users, photos, folders and requests. *)
EXTENDS Workspace, TLAPS

Roles == {"none", "user", "photographer", "admin"}
Statuses == {"none", "pending", "approved", "suspended"}
ProfileRows == [status : Statuses, slug : Slugs \cup {None}, account : Nat]
OnboardJobs == [kind : {"onboard"}, user : Users, step : {"lock", "create", "commit"}, account : 0..1]
FolderRows == [owner : Users, event : EventIds, name : FolderNames, used : {TRUE}]

(***************************************************************************)
(* What a request knows.                                                   *)
(***************************************************************************)

\* A folder is of one photographer and one event as long as it exists.
StillOf(f, u, e) ==
    /\ f \in Folders /\ folder[f] # NoFolder
    /\ folder[f] # Deleted => folder[f].owner = u /\ folder[f].event = e

\* What holds of a request whatever others have committed since it read.
JobInv(j) ==
    /\ j.kind = "profile" =>
          /\ j.user \in Users /\ j.slug \in Slugs /\ j.role \in Roles /\ j.row \in ProfileRows
          /\ j.role = "photographer" => role[j.user] = "photographer"
          /\ j.row.status # "none" => profile[j.user].status # "none"
    /\ j.kind = "signin" => j.user \in Users
    /\ j.kind = "status" =>
          /\ j.user \in Users /\ j.status \in Statuses \ {"none"}
          /\ profile[j.user].status # "none"
    /\ j.kind = "book" => j.booking \in Users \X EventIds /\ j.booking[1] \in approved
    /\ j.kind = "create" =>
          /\ j.row \in FolderRows /\ j.row.owner \in approved
          /\ NameFree(j.folders, j.row, None)
    /\ j.kind = "rename" =>
          /\ j.row \in FolderRows
          /\ StillOf(j.folder, j.row.owner, j.row.event)
          /\ NameFree(j.folders, j.row, j.folder)
    /\ j.kind = "delete" => j.folder \in Folders
    /\ j.kind = "bulk" =>
          /\ j.photos \subseteq Photos
          /\ \/ j.column = "price" /\ j.value \in Prices
             \/ j.column = "folder" /\ j.value = None
             \/ /\ j.column = "folder" /\ j.value # None
                /\ \A p \in j.photos : StillOf(j.value, Photographer, EventOf[p])
    /\ j.kind = "tags" => j.photo \in Photos /\ j.tags \in TagSets
    /\ j.kind = "guest" => j.found \in Nat
    /\ j.kind = "onboard" =>
          /\ j.user \in Users
          /\ j \in OnboardJobs
          /\ j.step = "commit" => j.account = 1 /\ accounts[j.user] = 1

Jobs == DOMAIN job = Workers /\ \A w \in Workers : JobInv(job[w])

\* Only what was approved works.
ApprovedByAdmin == \A u \in Users : profile[u].status = "approved" => u \in approved

\* The inductive invariant.
WorkspaceInv ==
    /\ TypeOK /\ Jobs /\ ApprovedByAdmin
    /\ FolderOfOwnEvent /\ NoTwinFolders /\ OnlyApprovedWork
    /\ TagsOfOneSave /\ OneGuest /\ PhotographersHaveProfiles /\ OneStripeAccount

\* What no step takes back.
Grows ==
    /\ \A u \in Users : role[u] = "photographer" => role'[u] = "photographer"
    /\ \A u \in Users : profile[u].status # "none" => profile'[u].status # "none"
    /\ \A u \in Users : accounts[u] = 1 => accounts'[u] = 1
    /\ approved \subseteq approved'
    /\ \A f \in Folders : folder[f] # NoFolder =>
          /\ folder'[f] # NoFolder
          /\ folder'[f] # Deleted => /\ folder[f] # Deleted
                                     /\ folder'[f].owner = folder[f].owner
                                     /\ folder'[f].event = folder[f].event

stored == <<role, profile, folder, photo, booked, guests, accounts, approved, overtaken>>

LEMMA StillOfKept ==
  ASSUME Grows, NEW f, NEW u, NEW e, StillOf(f, u, e)
  PROVE  StillOf(f, u, e)'
  BY DEF Grows, StillOf

LEMMA JobKept ==
  ASSUME Grows, NEW j, JobInv(j)
  PROVE  JobInv(j)'
  <1>1. j.kind = "rename" => StillOf(j.folder, j.row.owner, j.row.event)'
    BY StillOfKept DEF JobInv
  <1>2. ASSUME NEW p \in j.photos, j.kind = "bulk", j.column = "folder", j.value # None
        PROVE  StillOf(j.value, Photographer, EventOf[p])'
    BY <1>2, StillOfKept DEF JobInv
  <1>3. (j.kind = "profile" => /\ j.role = "photographer" => role'[j.user] = "photographer"
                               /\ j.row.status # "none" => profile'[j.user].status # "none")
    BY DEF JobInv, Grows
  <1>4. j.kind = "status" => profile'[j.user].status # "none"
    BY DEF JobInv, Grows
  <1>5. j.kind = "onboard" => (j.step = "commit" => j.account = 1 /\ accounts'[j.user] = 1)
    BY DEF JobInv, Grows
  <1>6. approved \subseteq approved'
    BY DEF Grows
  <1>7. NameFree(j.folders, j.row, None)' = NameFree(j.folders, j.row, None)
    BY DEF NameFree, In, NoFolder, Deleted
  <1>8. NameFree(j.folders, j.row, j.folder)' = NameFree(j.folders, j.row, j.folder)
    BY DEF NameFree, In, NoFolder, Deleted
  <1> QED
    BY <1>1, <1>2, <1>3, <1>4, <1>5, <1>6, <1>7, <1>8 DEF JobInv, FolderRows, ProfileRows, EventIds

\* A step of one request leaves what the others know.
LEMMA JobsKept ==
  ASSUME Jobs, Grows, NEW w \in Workers, NEW j, JobInv(j)', Takes(w, j)
  PROVE  Jobs'
  <1>1. DOMAIN job' = Workers /\ job'[w] = j /\ \A v \in Workers \ {w} : job'[v] = job[v]
    BY DEF Jobs, Takes
  <1>2. ASSUME NEW v \in Workers, NEW k, k = job'[v]
        PROVE  JobInv(k)'
    <2>1. CASE v = w
      BY <1>1, <1>2, <2>1
    <2>2. CASE v # w
      <3>1. JobInv(k)
        BY <1>1, <1>2, <2>2 DEF Jobs
      <3> QED
        BY <3>1, JobKept
    <2> QED
      BY <2>1, <2>2
  <1> QED
    BY <1>1, <1>2 DEF Jobs

(***************************************************************************)
(* Folders.                                                                *)
(***************************************************************************)

LEMMA FolderKinds ==
  /\ NoFolder.used = FALSE /\ Deleted.used = TRUE /\ Deleted.owner = None
  /\ NoFolder # Deleted
  /\ \A r \in FolderRows : r # NoFolder /\ r # Deleted
  <1>1. NoFolder.used = FALSE /\ Deleted.used = TRUE /\ Deleted.owner = None
    BY DEF NoFolder, Deleted
  <1>2. \A r \in FolderRows : r.used = TRUE /\ r.owner \in Users
    BY DEF FolderRows
  <1>3. None \notin Users
    BY WorkspaceAssumption
  <1> QED
    BY <1>1, <1>2, <1>3

LEMMA FolderTypes ==
  ASSUME TypeOK, NEW f \in Folders
  PROVE  /\ f \in Existing <=> folder[f] \in FolderRows
         /\ f \in Existing => folder[f].owner \in Users /\ folder[f].event \in EventIds
         /\ f \in Existing \/ folder[f] = NoFolder \/ folder[f] = Deleted
  <1>1. folder[f] \in FolderRows \cup {NoFolder, Deleted}
    BY DEF TypeOK, FolderRows
  <1> QED
    BY <1>1, FolderKinds DEF Existing, In, FolderRows

(***************************************************************************)
(* A request that begins knows what JobInv says.                           *)
(***************************************************************************)

LEMMA ApprovedUser ==
  ASSUME WorkspaceInv, NEW u \in Users, IsApproved(u)
  PROVE  u \in approved
  BY DEF WorkspaceInv, ApprovedByAdmin, IsApproved

LEMMA PeopleStart ==
  ASSUME WorkspaceInv, NEW w \in Workers, NEW u \in Users,
         \/ SignIn(w, u) \/ Onboard(w, u)
         \/ \E s \in Slugs : SaveProfile(w, u, s)
         \/ \E a \in Users, status \in {"pending", "approved", "suspended"} : SetStatus(w, a, u, status)
  PROVE  \E j : Begins(w, j) /\ JobInv(j)
  <1>1. CASE SignIn(w, u)
    <2>1. JobInv([kind |-> "signin", user |-> u])
      BY DEF JobInv
    <2> QED
      BY <1>1, <2>1 DEF SignIn
  <1>2. CASE Onboard(w, u)
    <2>1. JobInv([kind |-> "onboard", user |-> u, step |-> "lock", account |-> 0])
      BY DEF JobInv, OnboardJobs
    <2> QED
      BY <1>2, <2>1 DEF Onboard
  <1>3. ASSUME NEW s \in Slugs, SaveProfile(w, u, s)
        PROVE  \E j : Begins(w, j) /\ JobInv(j)
    <2>1. role[u] \in Roles /\ profile[u] \in ProfileRows
      BY DEF WorkspaceInv, TypeOK, Roles, ProfileRows, Statuses
    <2>2. JobInv([kind |-> "profile", user |-> u, slug |-> s, role |-> role[u], row |-> profile[u]])
      BY <2>1 DEF JobInv
    <2> QED
      BY <1>3, <2>2 DEF SaveProfile
  <1>4. ASSUME NEW a \in Users, NEW status \in {"pending", "approved", "suspended"},
               SetStatus(w, a, u, status)
        PROVE  \E j : Begins(w, j) /\ JobInv(j)
    <2>1. profile[u].status # "none"
      BY <1>4 DEF SetStatus
    <2>2. JobInv([kind |-> "status", user |-> u, status |-> status, row |-> profile[u]])
      BY <2>1 DEF JobInv, Statuses
    <2> QED
      BY <1>4, <2>2 DEF SetStatus
  <1> QED
    BY <1>1, <1>2, <1>3, <1>4

LEMMA FolderStart ==
  ASSUME WorkspaceInv, NEW w \in Workers,
         \/ \E u \in Users, e \in EventIds :
               \/ BookEvent(w, u, e) \/ CancelBooking(w, u, e)
               \/ \E n \in FolderNames : CreateFolder(w, u, e, n)
         \/ \E f \in Folders : DeleteFolder(w, f) \/ \E n \in FolderNames : RenameFolder(w, f, n)
  PROVE  \E j : Begins(w, j) /\ JobInv(j)
  <1>1. ASSUME NEW u \in Users, NEW e \in EventIds, BookEvent(w, u, e)
        PROVE  \E j : Begins(w, j) /\ JobInv(j)
    <2>1. u \in approved
      BY <1>1, ApprovedUser DEF BookEvent
    <2>2. JobInv([kind |-> "book", booking |-> <<u, e>>, found |-> <<u, e>> \in booked])
      BY <2>1 DEF JobInv
    <2> QED
      BY <1>1, <2>2 DEF BookEvent
  <1>2. ASSUME NEW u \in Users, NEW e \in EventIds, CancelBooking(w, u, e)
        PROVE  \E j : Begins(w, j) /\ JobInv(j)
    <2>1. JobInv([kind |-> "cancel", booking |-> <<u, e>>])
      BY DEF JobInv
    <2> QED
      BY <1>2, <2>1 DEF CancelBooking
  <1>3. ASSUME NEW u \in Users, NEW e \in EventIds, NEW n \in FolderNames, CreateFolder(w, u, e, n)
        PROVE  \E j : Begins(w, j) /\ JobInv(j)
    <2> DEFINE r == [owner |-> u, event |-> e, name |-> n, used |-> TRUE]
    <2>1. u \in approved
      BY <1>3, ApprovedUser DEF CreateFolder
    <2>2. r \in FolderRows /\ r.owner = u
      BY DEF FolderRows
    <2>3. NameFree(folder, r, None) /\ Begins(w, [kind |-> "create", row |-> r, folders |-> folder])
      BY <1>3 DEF CreateFolder
    <2> HIDE DEF r
    <2>4. JobInv([kind |-> "create", row |-> r, folders |-> folder])
      BY <2>1, <2>2, <2>3 DEF JobInv
    <2> QED
      BY <2>3, <2>4
  <1>4. ASSUME NEW f \in Folders, DeleteFolder(w, f)
        PROVE  \E j : Begins(w, j) /\ JobInv(j)
    <2>1. JobInv([kind |-> "delete", folder |-> f])
      BY DEF JobInv
    <2> QED
      BY <1>4, <2>1 DEF DeleteFolder
  <1>5. ASSUME NEW f \in Folders, NEW n \in FolderNames, RenameFolder(w, f, n)
        PROVE  \E j : Begins(w, j) /\ JobInv(j)
    <2> DEFINE r == [folder[f] EXCEPT !.name = n]
               j == [kind |-> "rename", folder |-> f, row |-> r, old |-> folder[f].name, folders |-> folder]
    <2>1. f \in Existing /\ NameFree(folder, r, f) /\ Begins(w, j)
      BY <1>5 DEF RenameFolder
    <2>2. folder[f] \in FolderRows
      BY <2>1, FolderTypes DEF WorkspaceInv
    <2>3. r \in FolderRows /\ r.owner = folder[f].owner /\ r.event = folder[f].event
      BY <2>2, ZenonT(30) DEF FolderRows
    <2>4. StillOf(f, r.owner, r.event)
      BY <2>2, <2>3, FolderKinds DEF StillOf
    <2> HIDE DEF r
    <2>5. JobInv(j)
      BY <2>1, <2>3, <2>4 DEF JobInv
    <2> QED
      BY <2>1, <2>5
  <1> QED
    BY <1>1, <1>2, <1>3, <1>4, <1>5

LEMMA PhotoStart ==
  ASSUME WorkspaceInv, NEW w \in Workers,
         \/ \E ps \in SUBSET Photos \ {{}} :
              \/ \E f \in Folders \cup {None} : MovePhotos(w, ps, f)
              \/ \E amount \in Prices : UpdatePrices(w, ps, amount)
         \/ \E p \in Photos, ts \in TagSets : SaveTags(w, p, ts)
         \/ GuestCheckout(w)
  PROVE  \E j : Begins(w, j) /\ JobInv(j)
  <1>1. ASSUME NEW ps \in SUBSET Photos, NEW f \in Folders \cup {None}, MovePhotos(w, ps, f)
        PROVE  \E j : Begins(w, j) /\ JobInv(j)
    <2> DEFINE j == [kind |-> "bulk", photos |-> ps, column |-> "folder", value |-> f, rows |-> photo]
    <2>1. ASSUME f # None, NEW p \in ps
          PROVE  StillOf(f, Photographer, EventOf[p])
      <3>1. f \in Folders /\ folder[f] \in FolderRows
        BY <1>1, <2>1, FolderTypes DEF MovePhotos, FitsFolder, WorkspaceInv
      <3> QED
        BY <1>1, <2>1, <3>1, FolderKinds DEF MovePhotos, FitsFolder, StillOf
    <2>2. JobInv(j)
      BY <2>1 DEF JobInv
    <2> QED
      BY <1>1, <2>2 DEF MovePhotos
  <1>2. ASSUME NEW ps \in SUBSET Photos, NEW amount \in Prices, UpdatePrices(w, ps, amount)
        PROVE  \E j : Begins(w, j) /\ JobInv(j)
    <2>1. JobInv([kind |-> "bulk", photos |-> ps, column |-> "price", value |-> amount, rows |-> photo])
      BY DEF JobInv
    <2> QED
      BY <1>2, <2>1 DEF UpdatePrices
  <1>3. ASSUME NEW p \in Photos, NEW ts \in TagSets, SaveTags(w, p, ts)
        PROVE  \E j : Begins(w, j) /\ JobInv(j)
    <2>1. JobInv([kind |-> "tags", photo |-> p, tags |-> ts, doomed |-> photo[p].tags])
      BY DEF JobInv
    <2> QED
      BY <1>3, <2>1 DEF SaveTags
  <1>4. CASE GuestCheckout(w)
    <2>1. JobInv([kind |-> "guest", found |-> guests])
      BY DEF JobInv, WorkspaceInv, TypeOK
    <2> QED
      BY <1>4, <2>1 DEF GuestCheckout
  <1> QED
    BY <1>1, <1>2, <1>3, <1>4

(***************************************************************************)
(* The invariant by what it is about, and what leaves each part alone.     *)
(***************************************************************************)

PeopleInv == ApprovedByAdmin /\ PhotographersHaveProfiles /\ OneStripeAccount
FolderInv == FolderOfOwnEvent /\ NoTwinFolders /\ OnlyApprovedWork

LEMMA InvParts ==
  WorkspaceInv <=> TypeOK /\ Jobs /\ PeopleInv /\ FolderInv /\ TagsOfOneSave /\ OneGuest
  BY DEF WorkspaceInv, PeopleInv, FolderInv

LEMMA PrimedParts ==
  ASSUME TypeOK', Jobs', PeopleInv', FolderInv', TagsOfOneSave', OneGuest'
  PROVE  WorkspaceInv'
  BY DEF WorkspaceInv, PeopleInv, FolderInv

LEMMA IdleJob == JobInv([kind |-> "idle"])
  BY DEF JobInv

LEMMA PeopleFrame ==
  ASSUME PeopleInv, UNCHANGED <<role, profile, accounts, approved>>
  PROVE  PeopleInv'
  BY DEF PeopleInv, ApprovedByAdmin, PhotographersHaveProfiles, OneStripeAccount

LEMMA FolderFrame ==
  ASSUME FolderInv, UNCHANGED <<folder, photo, overtaken>>, approved \subseteq approved', booked' \subseteq booked
  PROVE  FolderInv'
  <1>1. Existing' = Existing
    BY DEF Existing, In
  <1> QED
    BY <1>1 DEF FolderInv, FolderOfOwnEvent, NoTwinFolders, OnlyApprovedWork

LEMMA TagFrame ==
  ASSUME TagsOfOneSave, UNCHANGED photo, overtaken \subseteq overtaken'
  PROVE  TagsOfOneSave'
  BY DEF TagsOfOneSave

LEMMA GuestFrame ==
  ASSUME OneGuest, UNCHANGED guests, overtaken \subseteq overtaken'
  PROVE  OneGuest'
  BY DEF OneGuest

LEMMA GrowsFrame ==
  ASSUME UNCHANGED <<role, profile, accounts, folder>>, approved \subseteq approved'
  PROVE  Grows
  BY DEF Grows

LEMMA EndsJobs ==
  ASSUME Jobs, Grows, NEW w \in Workers, Ends(w)
  PROVE  Jobs'
  <1>1. JobInv([kind |-> "idle"])'
    BY IdleJob, JobKept
  <1> QED
    BY <1>1, JobsKept DEF Ends

\* A step that stores nothing.
LEMMA QuietStep ==
  ASSUME WorkspaceInv, UNCHANGED stored, requests' \in 0..MaxRequests,
         NEW w \in Workers, NEW j, JobInv(j), Takes(w, j)
  PROVE  WorkspaceInv'
  <1>1. UNCHANGED <<role, profile, folder, photo, booked, guests, accounts, approved, overtaken>>
    BY DEF stored
  <1>2. TypeOK'
    BY <1>1, InvParts DEF TypeOK
  <1>3. Grows
    BY <1>1, GrowsFrame
  <1>4. Jobs'
    BY <1>3, JobKept, JobsKept, InvParts
  <1>5. PeopleInv' /\ FolderInv'
    BY <1>1, InvParts, PeopleFrame, FolderFrame
  <1>6. TagsOfOneSave' /\ OneGuest'
    BY <1>1, InvParts, TagFrame, GuestFrame
  <1> QED
    BY <1>2, <1>4, <1>5, <1>6, PrimedParts

LEMMA BeginStep ==
  ASSUME WorkspaceInv, NEW w \in Workers, NEW j, Begins(w, j), JobInv(j)
  PROVE  WorkspaceInv'
  <1>1. requests' \in 0..MaxRequests
    BY WorkspaceAssumption, InvParts DEF TypeOK, Begins
  <1> QED
    BY <1>1, QuietStep DEF Begins, stored

LEMMA FailStep ==
  ASSUME WorkspaceInv, NEW w \in Workers, Fails(w)
  PROVE  WorkspaceInv'
  <1>1. requests' \in 0..MaxRequests
    BY InvParts DEF TypeOK, Fails
  <1> QED
    BY <1>1, IdleJob, QuietStep DEF Fails, Ends, stored

(***************************************************************************)
(* People: what a commit leaves.                                           *)
(***************************************************************************)

\* A commit that touches no folder, photo, booking or guest.
LEMMA PeopleStep ==
  ASSUME WorkspaceInv, NEW w \in Workers, NEW j, JobInv(j)', Takes(w, j), Grows,
         UNCHANGED <<folder, photo, booked, guests, requests, overtaken>>,
         role' \in [Users -> Roles], profile' \in [Users -> ProfileRows], accounts' \in [Users -> Nat],
         PeopleInv'
  PROVE  WorkspaceInv'
  <1>1. TypeOK'
    BY InvParts DEF TypeOK, Roles, ProfileRows, Statuses
  <1>2. Jobs'
    BY InvParts, JobsKept
  <1>3. FolderInv' /\ TagsOfOneSave' /\ OneGuest'
    BY InvParts, FolderFrame, TagFrame, GuestFrame DEF Grows
  <1> QED
    BY <1>1, <1>2, <1>3, PrimedParts

LEMMA PeopleTypes ==
  ASSUME TypeOK
  PROVE  role \in [Users -> Roles] /\ profile \in [Users -> ProfileRows] /\ accounts \in [Users -> Nat]
  BY DEF TypeOK, Roles, ProfileRows, Statuses

LEMMA ResavedRow ==
  ASSUME TypeOK, NEW u \in Users, NEW loaded \in ProfileRows, NEW s \in Slugs
  PROVE  /\ Resaved(u, loaded, s) \in ProfileRows
         /\ Resaved(u, loaded, s).status = profile[u].status
         /\ Resaved(u, loaded, s).account = profile[u].account
  <1>1. profile[u] \in ProfileRows
    BY PeopleTypes
  <1>2. /\ [profile[u] EXCEPT !.slug = s] \in ProfileRows
        /\ [profile[u] EXCEPT !.slug = s].status = profile[u].status
        /\ [profile[u] EXCEPT !.slug = s].account = profile[u].account
    BY <1>1, ZenonT(30) DEF ProfileRows
  <1> QED
    BY <1>1, <1>2 DEF Resaved

LEMMA ProfileStep ==
  ASSUME WorkspaceInv, NEW w \in Workers, CommitProfile(w)
  PROVE  WorkspaceInv'
  <1> DEFINE j == job[w]
             u == j.user
             new == IF j.row.status = "none" THEN [status |-> "pending", slug |-> j.slug, account |-> 0]
                    ELSE Resaved(u, j.row, j.slug)
  <1>1. CASE Fails(w)
    BY <1>1, FailStep
  <1>2. CASE /\ j.row.status = "none" => profile[u].status = "none"
             /\ profile' = [profile EXCEPT ![u] = new]
             /\ role' = [role EXCEPT ![u] = SavedRole(u, j.role)]
             /\ Ends(w)
             /\ UNCHANGED <<folder, photo, booked, guests, accounts, requests, approved, overtaken>>
    <2>1. /\ u \in Users /\ j.slug \in Slugs /\ j.role \in Roles /\ j.row \in ProfileRows
          /\ j.role = "photographer" => role[u] = "photographer"
          /\ j.row.status # "none" => profile[u].status # "none"
      BY InvParts DEF CommitProfile, Jobs, JobInv
    <2>2. /\ role \in [Users -> Roles] /\ profile \in [Users -> ProfileRows] /\ accounts \in [Users -> Nat]
      BY InvParts, PeopleTypes
    <2>3. /\ SavedRole(u, j.role) = "photographer"
          /\ new \in ProfileRows
          /\ new.status # "none"
          /\ new.status = "approved" => profile[u].status = "approved"
          /\ new.account \in {0, profile[u].account}
      <3>1. SavedRole(u, j.role) = "photographer"
        BY <2>1 DEF SavedRole
      <3>2. CASE j.row.status = "none"
        BY <2>1, <3>1, <3>2 DEF ProfileRows, Statuses
      <3>3. CASE j.row.status # "none"
        BY <2>1, <3>1, <3>3, ResavedRow, InvParts
      <3> QED
        BY <3>2, <3>3
    <2> HIDE DEF new
    <2>4. /\ role' \in [Users -> Roles] /\ profile' \in [Users -> ProfileRows]
          /\ role'[u] = "photographer" /\ profile'[u] = new
          /\ \A v \in Users \ {u} : role'[v] = role[v] /\ profile'[v] = profile[v]
      BY <1>2, <2>1, <2>2, <2>3 DEF Roles
    <2>5. Grows
      BY <1>2, <2>3, <2>4 DEF Grows
    <2>6. PeopleInv'
      <3>1. ApprovedByAdmin'
        BY <1>2, <2>3, <2>4, InvParts DEF PeopleInv, ApprovedByAdmin
      <3>2. PhotographersHaveProfiles'
        BY <2>3, <2>4, InvParts DEF PeopleInv, PhotographersHaveProfiles
      <3>3. OneStripeAccount'
        BY <1>2, <2>1, <2>2, <2>3, <2>4, InvParts DEF PeopleInv, OneStripeAccount
      <3> QED
        BY <3>1, <3>2, <3>3 DEF PeopleInv
    <2>7. JobInv([kind |-> "idle"])'
      BY <2>5, IdleJob, JobKept
    <2> QED
      BY <1>2, <2>2, <2>4, <2>5, <2>6, <2>7, PeopleStep DEF Ends
  <1> QED
    BY <1>1, <1>2 DEF CommitProfile

LEMMA SignInStep ==
  ASSUME WorkspaceInv, NEW w \in Workers, CommitSignIn(w)
  PROVE  WorkspaceInv'
  <1> DEFINE u == job[w].user
  <1>1. CASE Fails(w)
    BY <1>1, FailStep
  <1>2. CASE ~Fails(w)
    <2>1. /\ role[u] = "none" /\ role' = [role EXCEPT ![u] = "user"] /\ Ends(w) /\ u \in Users
          /\ UNCHANGED <<profile, folder, photo, booked, guests, accounts, requests, approved, overtaken>>
      BY <1>2, InvParts DEF CommitSignIn, Jobs, JobInv
    <2>2. /\ role \in [Users -> Roles] /\ profile \in [Users -> ProfileRows] /\ accounts \in [Users -> Nat]
      BY InvParts, PeopleTypes
    <2>3. role' \in [Users -> Roles] /\ role'[u] = "user" /\ \A v \in Users \ {u} : role'[v] = role[v]
      BY <2>1, <2>2 DEF Roles
    <2>4. Grows
      BY <2>1, <2>3 DEF Grows
    <2>5. PeopleInv'
      BY <2>1, <2>3, InvParts
      DEF PeopleInv, ApprovedByAdmin, PhotographersHaveProfiles, OneStripeAccount
    <2>6. JobInv([kind |-> "idle"])'
      BY <2>4, IdleJob, JobKept
    <2> QED
      BY <2>1, <2>2, <2>3, <2>4, <2>5, <2>6, PeopleStep DEF Ends
  <1> QED
    BY <1>1, <1>2

LEMMA StatusStep ==
  ASSUME WorkspaceInv, NEW w \in Workers, CommitStatus(w)
  PROVE  WorkspaceInv'
  <1> DEFINE j == job[w]
             u == j.user
  <1>1. /\ profile' = IF j.status = j.row.status THEN profile ELSE [profile EXCEPT ![u].status = j.status]
        /\ approved' = IF profile'[u].status = "approved" THEN approved \cup {u} ELSE approved
        /\ Ends(w)
        /\ UNCHANGED <<role, folder, photo, booked, guests, accounts, requests, overtaken>>
        /\ u \in Users /\ j.status \in Statuses \ {"none"} /\ profile[u].status # "none"
    BY InvParts DEF CommitStatus, Jobs, JobInv
  <1>2. /\ role \in [Users -> Roles] /\ profile \in [Users -> ProfileRows] /\ accounts \in [Users -> Nat]
    BY InvParts, PeopleTypes
  <1>3. /\ [profile[u] EXCEPT !.status = j.status] \in ProfileRows
        /\ [profile[u] EXCEPT !.status = j.status].status = j.status
        /\ [profile[u] EXCEPT !.status = j.status].account = profile[u].account
    <2>1. profile[u] \in ProfileRows /\ j.status \in Statuses
      BY <1>1, <1>2
    <2> QED
      BY <2>1, ZenonT(30) DEF ProfileRows
  <1>4. /\ profile' \in [Users -> ProfileRows]
        /\ profile'[u].status # "none" /\ profile'[u].account = profile[u].account
        /\ \A v \in Users \ {u} : profile'[v] = profile[v]
    BY <1>1, <1>2, <1>3
  <1>5. Grows
    BY <1>1, <1>4 DEF Grows
  <1>6. PeopleInv'
    <2>1. ApprovedByAdmin'
      BY <1>1, <1>4, InvParts DEF PeopleInv, ApprovedByAdmin
    <2>2. PhotographersHaveProfiles' /\ OneStripeAccount'
      BY <1>1, <1>4, InvParts DEF PeopleInv, PhotographersHaveProfiles, OneStripeAccount
    <2> QED
      BY <2>1, <2>2 DEF PeopleInv
  <1>7. JobInv([kind |-> "idle"])'
    BY <1>5, IdleJob, JobKept
  <1> QED
    BY <1>1, <1>2, <1>4, <1>5, <1>6, <1>7, PeopleStep DEF Ends

LEMMA LockStep ==
  ASSUME WorkspaceInv, NEW w \in Workers, LockProfile(w)
  PROVE  WorkspaceInv'
  <1>1. UNCHANGED stored /\ requests' \in 0..MaxRequests
    BY InvParts DEF LockProfile, TypeOK, stored
  <1>2. JobInv(job[w]) /\ job[w].kind = "onboard"
    BY InvParts DEF LockProfile, Jobs
  <1>3. CASE Takes(w, [job[w] EXCEPT !.step = "create"])
    <2>1. /\ [job[w] EXCEPT !.step = "create"].kind \in {"onboard"}
          /\ [job[w] EXCEPT !.step = "create"].user = job[w].user
          /\ [job[w] EXCEPT !.step = "create"].step # "commit"
      BY <1>2 DEF LockProfile
    <2>2. [job[w] EXCEPT !.step = "create"] \in OnboardJobs
      <3>1. job[w] \in OnboardJobs
        BY <1>2 DEF JobInv
      <3> QED
        BY <3>1, ZenonT(30) DEF OnboardJobs
    <2>3. JobInv([job[w] EXCEPT !.step = "create"])
      BY <1>2, <2>1, <2>2 DEF JobInv
    <2> QED
      BY <1>1, <1>3, <2>3, QuietStep
  <1>4. CASE Ends(w)
    BY <1>1, <1>4, IdleJob, QuietStep DEF Ends
  <1> QED
    BY <1>3, <1>4 DEF LockProfile

LEMMA AccountStep ==
  ASSUME WorkspaceInv, NEW w \in Workers, CreateAccount(w)
  PROVE  WorkspaceInv'
  <1> SUFFICES ASSUME NEW u, u = job[w].user,
                      NEW k, k = [job[w] EXCEPT !.step = "commit", !.account = 1]
               PROVE  WorkspaceInv'
    OBVIOUS
  <1>1. /\ accounts' = [accounts EXCEPT ![u] = CreatedAccount(u)]
        /\ Takes(w, [job[w] EXCEPT !.step = "commit", !.account = accounts'[u]])
        /\ UNCHANGED <<role, profile, folder, photo, booked, guests, requests, approved, overtaken>>
        /\ u \in Users
        /\ job[w] \in OnboardJobs
    BY InvParts DEF CreateAccount, Jobs, JobInv
  <1>2. /\ role \in [Users -> Roles] /\ profile \in [Users -> ProfileRows] /\ accounts \in [Users -> Nat]
    BY InvParts, PeopleTypes
  <1>3. /\ accounts[u] \in Nat /\ accounts[u] <= 1 /\ profile[u] \in ProfileRows
        /\ profile[u].account <= accounts[u]
    BY <1>1, <1>2, InvParts DEF PeopleInv, OneStripeAccount
  <1>4. CreatedAccount(u) = 1 /\ profile[u].account <= 1
    BY <1>3 DEF CreatedAccount, ProfileRows
  <1>5. /\ accounts' \in [Users -> Nat] /\ accounts'[u] = 1
        /\ \A v \in Users \ {u} : accounts'[v] = accounts[v]
    BY <1>1, <1>2, <1>4
  <1>6. Grows
    BY <1>1, <1>5 DEF Grows
  <1>7. PeopleInv'
    <2>1. ASSUME NEW v \in Users
          PROVE  profile'[v].account <= accounts'[v] /\ accounts'[v] <= 1
      BY <1>1, <1>4, <1>5, InvParts DEF PeopleInv, OneStripeAccount
    <2> QED
      BY <1>1, <2>1, InvParts DEF PeopleInv, ApprovedByAdmin, PhotographersHaveProfiles, OneStripeAccount
  <1>8. k \in OnboardJobs /\ k.kind = "onboard" /\ k.user = u /\ k.account = 1
    <2>1. job[w] \in OnboardJobs /\ 1 \in 0..1
      BY <1>1
    <2> QED
      BY <2>1, ZenonT(30) DEF OnboardJobs
  <1>9. JobInv(k)'
    BY <1>1, <1>5, <1>8 DEF JobInv, OnboardJobs
  <1>10. Takes(w, k)
    BY <1>1, <1>5
  <1> QED
    BY <1>1, <1>2, <1>5, <1>6, <1>7, <1>9, <1>10, PeopleStep

LEMMA OnboardStep ==
  ASSUME WorkspaceInv, NEW w \in Workers, CommitOnboard(w)
  PROVE  WorkspaceInv'
  <1> DEFINE j == job[w]
             u == j.user
  <1>1. /\ profile' = [profile EXCEPT ![u].account = 1]
        /\ Ends(w)
        /\ UNCHANGED <<role, folder, photo, booked, guests, accounts, requests, approved, overtaken>>
        /\ u \in Users /\ accounts[u] = 1
    BY InvParts DEF CommitOnboard, Jobs, JobInv
  <1>2. /\ role \in [Users -> Roles] /\ profile \in [Users -> ProfileRows] /\ accounts \in [Users -> Nat]
    BY InvParts, PeopleTypes
  <1>3. /\ [profile[u] EXCEPT !.account = 1] \in ProfileRows
        /\ [profile[u] EXCEPT !.account = 1].status = profile[u].status
        /\ [profile[u] EXCEPT !.account = 1].account = 1
    <2>1. profile[u] \in ProfileRows /\ 1 \in Nat
      BY <1>1, <1>2
    <2> QED
      BY <2>1, ZenonT(30) DEF ProfileRows
  <1>4. /\ profile' \in [Users -> ProfileRows]
        /\ profile'[u].status = profile[u].status /\ profile'[u].account = 1
        /\ \A v \in Users \ {u} : profile'[v] = profile[v]
    BY <1>1, <1>2, <1>3
  <1>5. Grows
    BY <1>1, <1>4 DEF Grows
  <1>6. PeopleInv'
    BY <1>1, <1>4, InvParts DEF PeopleInv, ApprovedByAdmin, PhotographersHaveProfiles, OneStripeAccount
  <1>7. JobInv([kind |-> "idle"])'
    BY <1>5, IdleJob, JobKept
  <1> QED
    BY <1>1, <1>2, <1>4, <1>5, <1>6, <1>7, PeopleStep DEF Ends

(***************************************************************************)
(* Bookings, folders, photos and guests: what a commit leaves.             *)
(***************************************************************************)

PhotoRows == [folder : Folders \cup {None}, price : Prices, tags : SUBSET UNION TagSets]
FolderStates == FolderRows \cup {NoFolder, Deleted}

LEMMA WorkStep ==
  ASSUME WorkspaceInv, NEW w \in Workers, Ends(w), Grows,
         UNCHANGED <<role, profile, accounts, requests, approved>>,
         folder' \in [Folders -> FolderStates], photo' \in [Photos -> PhotoRows],
         booked' \subseteq Users \X EventIds, guests' \in Nat,
         FolderInv', TagsOfOneSave', OneGuest'
  PROVE  WorkspaceInv'
  <1>1. TypeOK'
    BY InvParts DEF TypeOK, FolderStates, FolderRows, PhotoRows, EventIds, NoFolder, Deleted
  <1>2. Jobs' /\ PeopleInv'
    BY InvParts, EndsJobs, PeopleFrame
  <1> QED
    BY <1>1, <1>2, PrimedParts

LEMMA WorkTypes ==
  ASSUME TypeOK
  PROVE  /\ folder \in [Folders -> FolderStates] /\ photo \in [Photos -> PhotoRows]
         /\ booked \subseteq Users \X EventIds /\ guests \in Nat
  BY DEF TypeOK, FolderStates, FolderRows, PhotoRows

LEMMA BookingStep ==
  ASSUME WorkspaceInv, NEW w \in Workers, CommitBooking(w)
  PROVE  WorkspaceInv'
  <1>1. CASE Fails(w)
    BY <1>1, FailStep
  <1>2. CASE ~Fails(w)
    <2>1. /\ booked' \subseteq booked \cup {job[w].booking}
          /\ Ends(w)
          /\ UNCHANGED <<role, profile, folder, photo, guests, accounts, requests, approved, overtaken>>
          /\ job[w].booking \in Users \X EventIds /\ job[w].booking[1] \in approved
      BY <1>2, InvParts DEF CommitBooking, Jobs, JobInv
    <2>2. Grows
      BY <2>1, GrowsFrame
    <2>3. FolderInv'
      <3>1. Existing' = Existing
        BY <2>1 DEF Existing, In
      <3> QED
        BY <2>1, <3>1, InvParts DEF FolderInv, FolderOfOwnEvent, NoTwinFolders, OnlyApprovedWork
    <2>4. TagsOfOneSave' /\ OneGuest'
      BY <2>1, InvParts, TagFrame, GuestFrame
    <2>5. booked' \subseteq Users \X EventIds
      BY <2>1, InvParts, WorkTypes
    <2> QED
      BY <2>1, <2>2, <2>3, <2>4, <2>5, InvParts, WorkTypes, WorkStep
  <1> QED
    BY <1>1, <1>2

LEMMA CancelStep ==
  ASSUME WorkspaceInv, NEW w \in Workers, CommitCancel(w)
  PROVE  WorkspaceInv'
  <1>1. /\ booked' = booked \ {job[w].booking} /\ Ends(w)
        /\ UNCHANGED <<role, profile, folder, photo, guests, accounts, requests, approved, overtaken>>
    BY DEF CommitCancel
  <1>2. Grows
    BY <1>1, GrowsFrame
  <1>3. FolderInv' /\ TagsOfOneSave' /\ OneGuest'
    BY <1>1, InvParts, FolderFrame, TagFrame, GuestFrame
  <1> QED
    BY <1>1, <1>2, <1>3, InvParts, WorkTypes, WorkStep

LEMMA CreateStep ==
  ASSUME WorkspaceInv, NEW w \in Workers, CommitCreate(w)
  PROVE  WorkspaceInv'
  <1> DEFINE j == job[w]
  <1>1. PICK f \in Unused : /\ overtaken' = Overtakes(f, j)
                            /\ folder' = [folder EXCEPT ![f] = j.row]
    BY DEF CommitCreate
  <1>2. /\ Ends(w) /\ UNCHANGED <<role, profile, photo, booked, guests, accounts, requests, approved>>
        /\ j.row \in FolderRows /\ j.row.owner \in approved
        /\ NameFree(j.folders, j.row, None)
    BY InvParts DEF CommitCreate, Jobs, JobInv
  <1>3. f \in Folders /\ folder[f] = NoFolder /\ f \notin Existing
    BY <1>1 DEF Unused, Existing, In
  <1>4. folder \in [Folders -> FolderStates]
    BY InvParts, WorkTypes
  <1>5. /\ folder' \in [Folders -> FolderStates] /\ folder'[f] = j.row
        /\ \A g \in Folders \ {f} : folder'[g] = folder[g]
    BY <1>1, <1>2, <1>3, <1>4 DEF FolderStates
  <1>6. Existing' = Existing \cup {f}
    <2>1. j.row \notin {NoFolder, Deleted}
      BY <1>2, FolderKinds
    <2>2. \A g \in Folders : folder'[g] \notin {NoFolder, Deleted} <=> g = f \/ folder[g] \notin {NoFolder, Deleted}
      BY <1>5, <2>1
    <2>3. Existing' = {g \in Folders : folder'[g] \notin {NoFolder, Deleted}}
      BY DEF Existing, In, NoFolder, Deleted
    <2> QED
      BY <1>3, <2>2, <2>3 DEF Existing, In
  <1>7. Grows
    BY <1>2, <1>3, <1>5 DEF Grows
  <1>8. overtaken \subseteq overtaken'
    BY <1>1 DEF Overtakes
  <1>9. FolderInv'
    <2>1. FolderOfOwnEvent'
      BY <1>2, <1>3, <1>5, <1>6, InvParts DEF FolderInv, FolderOfOwnEvent, Existing, In
    <2>2. f \in overtaken' \/ \A g \in Existing : folder[g].owner = j.row.owner /\ folder[g].event = j.row.event
                                                => Lower[folder[g].name] # Lower[j.row.name]
      <3>1. f \in overtaken' \/ folder = j.folders \/ NameFree(folder, j.row, f)
        BY <1>1 DEF Overtakes
      <3>2. None \notin Existing
        BY WorkspaceAssumption DEF Existing, In
      <3> QED
        BY <1>2, <1>3, <3>1, <3>2 DEF NameFree, Existing
    <2>3. NoTwinFolders'
      <3>1. SUFFICES ASSUME NEW g \in Existing', NEW h \in Existing', g # h,
                            folder'[g].owner = folder'[h].owner, folder'[g].event = folder'[h].event,
                            Lower[folder'[g].name] = Lower[folder'[h].name]
                     PROVE  {g, h} \cap overtaken' # {}
        BY DEF NoTwinFolders
      <3>2. CASE f \in overtaken' /\ f \in {g, h}
        BY <3>2
      <3>3. CASE f \notin {g, h}
        <4>1. g \in Existing /\ h \in Existing /\ folder'[g] = folder[g] /\ folder'[h] = folder[h]
          BY <1>5, <1>6, <3>1, <3>3 DEF Existing, In
        <4> QED
          BY <1>8, <3>1, <4>1, InvParts DEF FolderInv, NoTwinFolders
      <3>4. CASE f \notin overtaken' /\ f \in {g, h}
        <4>1. \A x \in Existing' \ {f} : x \in Existing /\ folder'[x] = folder[x]
          BY <1>5, <1>6 DEF Existing, In
        <4> QED
          BY <1>5, <2>2, <3>1, <3>4, <4>1
      <3> QED
        BY <3>2, <3>3, <3>4
    <2>4. OnlyApprovedWork'
      BY <1>2, <1>5, <1>6, InvParts DEF FolderInv, OnlyApprovedWork, Existing, In
    <2> QED
      BY <2>1, <2>3, <2>4 DEF FolderInv
  <1>10. TagsOfOneSave' /\ OneGuest'
    BY <1>2, <1>8, InvParts, TagFrame, GuestFrame
  <1> QED
    BY <1>2, <1>5, <1>7, <1>9, <1>10, InvParts, WorkTypes, WorkStep

LEMMA RenameStep ==
  ASSUME WorkspaceInv, NEW w \in Workers, CommitRename(w)
  PROVE  WorkspaceInv'
  <1> DEFINE j == job[w]
             f == j.folder
  <1>1. CASE Fails(w)
    BY <1>1, FailStep
  <1>2. CASE ~Fails(w) /\ j.old = j.row.name
    <2>1. UNCHANGED stored /\ Ends(w) /\ requests' \in 0..MaxRequests
      BY <1>2, InvParts DEF CommitRename, stored, TypeOK
    <2> QED
      BY <2>1, IdleJob, QuietStep DEF Ends
  <1>3. CASE ~Fails(w) /\ j.old # j.row.name
    <2>1. /\ folder' = [folder EXCEPT ![f].name = j.row.name] /\ overtaken' = Overtakes(f, j)
          /\ Ends(w) /\ UNCHANGED <<role, profile, photo, booked, guests, accounts, requests, approved>>
          /\ f \in Folders /\ f \in Existing /\ j.row \in FolderRows
          /\ NameFree(j.folders, j.row, f)
          /\ StillOf(f, j.row.owner, j.row.event)
      BY <1>3, InvParts DEF CommitRename, Jobs, JobInv, Existing, In
    <2>2. folder[f] \in FolderRows /\ folder[f] # NoFolder /\ folder[f] # Deleted
      BY <2>1, InvParts, FolderTypes, FolderKinds
    <2>3. folder[f].owner = j.row.owner /\ folder[f].event = j.row.event
      BY <2>1, <2>2 DEF StillOf
    <2>4. /\ [folder[f] EXCEPT !.name = j.row.name] \in FolderRows
          /\ [folder[f] EXCEPT !.name = j.row.name].owner = folder[f].owner
          /\ [folder[f] EXCEPT !.name = j.row.name].event = folder[f].event
          /\ [folder[f] EXCEPT !.name = j.row.name].name = j.row.name
      <3>1. j.row.name \in FolderNames
        BY <2>1 DEF FolderRows
      <3> QED
        BY <2>2, <3>1, ZenonT(30) DEF FolderRows
    <2>5. folder \in [Folders -> FolderStates]
      BY InvParts, WorkTypes
    <2>6. /\ folder' \in [Folders -> FolderStates] /\ folder'[f] \in FolderRows
          /\ folder'[f].owner = folder[f].owner /\ folder'[f].event = folder[f].event
          /\ folder'[f].name = j.row.name
          /\ \A g \in Folders \ {f} : folder'[g] = folder[g]
      BY <2>1, <2>4, <2>5 DEF FolderStates
    <2>7. Existing' = Existing
      <3>1. folder'[f] \notin {NoFolder, Deleted}
        BY <2>6, FolderKinds
      <3>2. Existing' = {g \in Folders : folder'[g] \notin {NoFolder, Deleted}}
        BY DEF Existing, In, NoFolder, Deleted
      <3> QED
        BY <2>1, <2>2, <2>6, <3>1, <3>2 DEF Existing, In
    <2>8. Grows
      BY <2>1, <2>2, <2>6, FolderKinds DEF Grows
    <2>9. overtaken \subseteq overtaken'
      BY <2>1 DEF Overtakes
    <2>10. f \in overtaken' \/ \A g \in Existing \ {f} :
              folder[g].owner = j.row.owner /\ folder[g].event = j.row.event
              => Lower[folder[g].name] # Lower[j.row.name]
      <3>1. f \in overtaken' \/ folder = j.folders \/ NameFree(folder, j.row, f)
        BY <2>1 DEF Overtakes
      <3> QED
        BY <2>1, <3>1 DEF NameFree, Existing
    <2>11. FolderInv'
      <3>1. FolderOfOwnEvent'
        BY <2>1, <2>6, <2>7, InvParts, SMTT(20) DEF FolderInv, FolderOfOwnEvent, Existing, In
      <3>2. NoTwinFolders'
        <4>1. SUFFICES ASSUME NEW g \in Existing', NEW h \in Existing', g # h,
                              folder'[g].owner = folder'[h].owner, folder'[g].event = folder'[h].event,
                              Lower[folder'[g].name] = Lower[folder'[h].name]
                       PROVE  {g, h} \cap overtaken' # {}
          BY DEF NoTwinFolders
        <4>2. CASE f \in overtaken' /\ f \in {g, h}
          BY <4>2
        <4>3. CASE f \notin {g, h}
          <5>1. g \in Existing /\ h \in Existing /\ folder'[g] = folder[g] /\ folder'[h] = folder[h]
            BY <2>6, <2>7, <4>1, <4>3 DEF Existing, In
          <5> QED
            BY <2>9, <4>1, <5>1, InvParts DEF FolderInv, NoTwinFolders
        <4>4. CASE f \notin overtaken' /\ f \in {g, h}
          <5>1. \A x \in Existing' \ {f} : x \in Existing /\ folder'[x] = folder[x]
            BY <2>6, <2>7 DEF Existing, In
          <5> QED
            BY <2>3, <2>6, <2>10, <4>1, <4>4, <5>1
        <4> QED
          BY <4>2, <4>3, <4>4
      <3>3. OnlyApprovedWork'
        BY <2>1, <2>6, <2>7, InvParts, SMTT(20) DEF FolderInv, OnlyApprovedWork, Existing, In
      <3> QED
        BY <3>1, <3>2, <3>3 DEF FolderInv
    <2>12. TagsOfOneSave' /\ OneGuest'
      BY <2>1, <2>9, InvParts, TagFrame, GuestFrame
    <2> QED
      BY <2>1, <2>6, <2>8, <2>11, <2>12, InvParts, WorkTypes, WorkStep
  <1> QED
    BY <1>1, <1>2, <1>3

LEMMA DeleteStep ==
  ASSUME WorkspaceInv, NEW w \in Workers, CommitDeleteFolder(w)
  PROVE  WorkspaceInv'
  <1> DEFINE f == job[w].folder
  <1>1. /\ folder' = IF f \in Existing THEN [folder EXCEPT ![f] = Deleted] ELSE folder
        /\ photo' = [p \in Photos |-> Uncategorised(p, f)]
        /\ Ends(w)
        /\ UNCHANGED <<role, profile, booked, guests, accounts, requests, approved, overtaken>>
        /\ f \in Folders
    BY InvParts DEF CommitDeleteFolder, Jobs, JobInv
  <1>2. folder \in [Folders -> FolderStates] /\ photo \in [Photos -> PhotoRows]
    BY InvParts, WorkTypes
  <1>3. /\ folder' \in [Folders -> FolderStates]
        /\ \A g \in Folders : folder'[g] = IF g = f /\ f \in Existing THEN Deleted ELSE folder[g]
    BY <1>1, <1>2 DEF FolderStates
  <1>4. Existing' = Existing \ {f}
    <2>1. Existing' = {g \in Folders : folder'[g] \notin {NoFolder, Deleted}}
      BY DEF Existing, In, NoFolder, Deleted
    <2> QED
      BY <1>1, <1>3, <2>1 DEF Existing, In
  <1>5. Grows
    BY <1>1, <1>3, FolderKinds DEF Grows
  <1>6. ASSUME NEW p \in Photos
        PROVE  /\ photo'[p] \in PhotoRows /\ photo'[p].tags = photo[p].tags
               /\ photo'[p].folder = IF photo[p].folder = f THEN None ELSE photo[p].folder
    <2>1. photo[p] \in PhotoRows /\ photo'[p] = Uncategorised(p, f)
      BY <1>1, <1>2
    <2>2. /\ [photo[p] EXCEPT !.folder = None] \in PhotoRows
          /\ [photo[p] EXCEPT !.folder = None].folder = None
          /\ [photo[p] EXCEPT !.folder = None].tags = photo[p].tags
      BY <2>1, ZenonT(30) DEF PhotoRows
    <2> QED
      BY <2>1, <2>2 DEF Uncategorised
  <1>7. FolderInv'
    <2>1. FolderOfOwnEvent'
      BY <1>3, <1>4, <1>6, InvParts DEF FolderInv, FolderOfOwnEvent, Existing, In
    <2>2. NoTwinFolders' /\ OnlyApprovedWork'
      BY <1>1, <1>3, <1>4, InvParts DEF FolderInv, NoTwinFolders, OnlyApprovedWork, Existing, In
    <2> QED
      BY <2>1, <2>2 DEF FolderInv
  <1>8. TagsOfOneSave' /\ OneGuest'
    BY <1>1, <1>6, InvParts, GuestFrame DEF TagsOfOneSave
  <1>9. photo' \in [Photos -> PhotoRows]
    BY <1>1, <1>6
  <1> QED
    BY <1>1, <1>3, <1>5, <1>7, <1>8, <1>9, InvParts, WorkTypes, WorkStep

LEMMA BulkStep ==
  ASSUME WorkspaceInv, NEW w \in Workers, CommitBulk(w)
  PROVE  WorkspaceInv'
  <1> DEFINE j == job[w]
             written == ToWrite(j.rows, j.photos, j.column, j.value)
  <1>1. CASE Fails(w)
    BY <1>1, FailStep
  <1>2. CASE ~Fails(w)
    <2>1. /\ photo' = [p \in Photos |-> IF p \in written THEN [photo[p] EXCEPT ![j.column] = j.value]
                                        ELSE photo[p]]
          /\ Ends(w)
          /\ UNCHANGED <<role, profile, folder, booked, guests, accounts, requests, approved, overtaken>>
          /\ j.column = "folder" /\ j.value # None => j.value \in Existing \/ written = {}
      BY <1>2 DEF CommitBulk
    <2>2. /\ written \subseteq j.photos
          /\ \/ j.column = "price" /\ j.value \in Prices
             \/ j.column = "folder" /\ j.value = None
             \/ /\ j.column = "folder" /\ j.value # None
                /\ \A p \in written : StillOf(j.value, Photographer, EventOf[p])
      BY InvParts DEF CommitBulk, Jobs, JobInv, ToWrite
    <2>3. ASSUME NEW p \in Photos
          PROVE  /\ photo'[p] \in PhotoRows /\ photo'[p].tags = photo[p].tags
                 /\ \/ photo'[p].folder \in {photo[p].folder, None}
                    \/ /\ photo'[p].folder \in Existing
                       /\ folder[photo'[p].folder].owner = Photographer
                       /\ folder[photo'[p].folder].event = EventOf[p]
      <3>1. photo[p] \in PhotoRows
        BY InvParts, WorkTypes
      <3>2. CASE p \notin written
        BY <2>1, <3>1, <3>2
      <3>3. CASE p \in written /\ j.column = "price"
        <4>1. photo'[p] = [photo[p] EXCEPT !.price = j.value] /\ j.value \in Prices
          BY <2>1, <2>2, <3>3
        <4>2. /\ [photo[p] EXCEPT !.price = j.value] \in PhotoRows
              /\ [photo[p] EXCEPT !.price = j.value].folder = photo[p].folder
              /\ [photo[p] EXCEPT !.price = j.value].tags = photo[p].tags
          BY <3>1, <4>1, ZenonT(30) DEF PhotoRows
        <4> QED
          BY <4>1, <4>2
      <3>4. CASE p \in written /\ j.column = "folder"
        <4>1. photo'[p] = [photo[p] EXCEPT !.folder = j.value]
          BY <2>1, <3>4
        <4>2. j.value \in Folders \cup {None}
          BY <2>2, <3>4 DEF StillOf
        <4>3. /\ [photo[p] EXCEPT !.folder = j.value] \in PhotoRows
              /\ [photo[p] EXCEPT !.folder = j.value].folder = j.value
              /\ [photo[p] EXCEPT !.folder = j.value].tags = photo[p].tags
          BY <3>1, <4>2, ZenonT(30) DEF PhotoRows
        <4>4. j.value = None \/ /\ j.value \in Existing
                                /\ folder[j.value].owner = Photographer
                                /\ folder[j.value].event = EventOf[p]
          BY <2>1, <2>2, <3>4 DEF StillOf, Existing, In
        <4> QED
          BY <4>1, <4>3, <4>4
      <3> QED
        BY <2>2, <3>2, <3>3, <3>4
    <2>4. Grows /\ Existing' = Existing
      BY <2>1, GrowsFrame DEF Existing, In
    <2>5. FolderInv'
      <3>1. FolderOfOwnEvent'
        BY <2>1, <2>3, <2>4, InvParts DEF FolderInv, FolderOfOwnEvent
      <3> QED
        BY <2>1, <2>4, <3>1, InvParts DEF FolderInv, NoTwinFolders, OnlyApprovedWork
    <2>6. TagsOfOneSave' /\ OneGuest'
      BY <2>1, <2>3, InvParts, GuestFrame DEF TagsOfOneSave
    <2>7. photo' \in [Photos -> PhotoRows]
      BY <2>1, <2>3
    <2> QED
      BY <2>1, <2>4, <2>5, <2>6, <2>7, InvParts, WorkTypes, WorkStep
  <1> QED
    BY <1>1, <1>2

LEMMA TagsStep ==
  ASSUME WorkspaceInv, NEW w \in Workers, CommitTags(w)
  PROVE  WorkspaceInv'
  <1> DEFINE j == job[w]
             p == j.photo
             ts == Retagged(p, j.doomed, j.tags)
  <1>1. CASE Fails(w)
    BY <1>1, FailStep
  <1>2. CASE ~Fails(w)
    <2>1. /\ photo' = [photo EXCEPT ![p].tags = ts]
          /\ overtaken' = IF photo[p].tags = j.doomed THEN overtaken ELSE overtaken \cup {p}
          /\ Ends(w)
          /\ UNCHANGED <<role, profile, folder, booked, guests, accounts, requests, approved>>
          /\ p \in Photos /\ j.tags \in TagSets
      BY <1>2, InvParts DEF CommitTags, Jobs, JobInv
    <2>2. photo \in [Photos -> PhotoRows]
      BY InvParts, WorkTypes
    <2>3. ts \in SUBSET UNION TagSets /\ (photo[p].tags = j.doomed => ts = j.tags)
      BY <2>1, <2>2 DEF Retagged, PhotoRows
    <2> HIDE DEF ts
    <2>4. /\ [photo[p] EXCEPT !.tags = ts] \in PhotoRows
          /\ [photo[p] EXCEPT !.tags = ts].folder = photo[p].folder
          /\ [photo[p] EXCEPT !.tags = ts].tags = ts
      <3>1. photo[p] \in PhotoRows
        BY <2>1, <2>2
      <3> QED
        BY <2>3, <3>1, ZenonT(30) DEF PhotoRows
    <2>5. /\ photo' \in [Photos -> PhotoRows] /\ photo'[p].tags = ts
          /\ \A q \in Photos : photo'[q].folder = photo[q].folder
          /\ \A q \in Photos \ {p} : photo'[q] = photo[q]
      BY <2>1, <2>2, <2>4
    <2>6. overtaken \subseteq overtaken' /\ Grows /\ Existing' = Existing
      BY <2>1, GrowsFrame DEF Existing, In
    <2>7. FolderInv'
      <3>1. FolderOfOwnEvent'
        BY <2>1, <2>5, <2>6, InvParts DEF FolderInv, FolderOfOwnEvent
      <3> QED
        BY <2>1, <2>6, <3>1, InvParts DEF FolderInv, NoTwinFolders, OnlyApprovedWork
    <2>8. TagsOfOneSave'
      BY <2>1, <2>3, <2>5, <2>6, InvParts DEF TagsOfOneSave
    <2>9. OneGuest'
      BY <2>1, <2>6, InvParts, GuestFrame
    <2> QED
      BY <2>1, <2>5, <2>6, <2>7, <2>8, <2>9, InvParts, WorkTypes, WorkStep
  <1> QED
    BY <1>1, <1>2

LEMMA GuestStep ==
  ASSUME WorkspaceInv, NEW w \in Workers, CommitGuest(w)
  PROVE  WorkspaceInv'
  <1> DEFINE found == job[w].found
  <1>1. /\ guests' = guests + GuestsToInsert(found)
        /\ overtaken' = IF guests = found THEN overtaken ELSE overtaken \cup {"guest"}
        /\ Ends(w)
        /\ UNCHANGED <<role, profile, folder, photo, booked, accounts, requests, approved>>
        /\ found \in Nat /\ guests \in Nat
    BY InvParts, WorkTypes DEF CommitGuest, Jobs, JobInv
  <1>2. guests' \in Nat /\ OneGuest'
    BY <1>1, InvParts DEF GuestsToInsert, OneGuest
  <1>3. overtaken \subseteq overtaken' /\ Grows /\ Existing' = Existing
    BY <1>1, GrowsFrame DEF Existing, In
  <1>4. FolderInv' /\ TagsOfOneSave'
    BY <1>1, <1>3, InvParts, TagFrame DEF FolderInv, FolderOfOwnEvent, NoTwinFolders, OnlyApprovedWork
  <1> QED
    BY <1>1, <1>2, <1>3, <1>4, InvParts, WorkTypes, WorkStep

(***************************************************************************)
(* The invariant.                                                          *)
(***************************************************************************)

LEMMA WorkspaceInit == Init => WorkspaceInv
  <1> SUFFICES ASSUME Init
               PROVE  WorkspaceInv
    OBVIOUS
  <1> USE DEF Init
  <1>1. Existing = {}
    BY DEF Existing, In
  <1>2. TypeOK
    <2>1. profile \in [Users -> ProfileRows]
      BY WorkspaceAssumption DEF ProfileRows, Statuses, NoProfile
    <2>2. photo \in [Photos -> PhotoRows]
      BY WorkspaceAssumption DEF PhotoRows
    <2> QED
      BY <2>1, <2>2, WorkspaceAssumption DEF TypeOK, ProfileRows, Statuses, PhotoRows
  <1>3. Jobs
    BY IdleJob DEF Jobs
  <1>4. PeopleInv
    BY WorkspaceAssumption
    DEF PeopleInv, ApprovedByAdmin, PhotographersHaveProfiles, OneStripeAccount, NoProfile
  <1>5. FolderInv
    BY <1>1 DEF FolderInv, FolderOfOwnEvent, NoTwinFolders, OnlyApprovedWork
  <1>6. TagsOfOneSave /\ OneGuest
    <2>1. \A p \in Photos : photo[p].tags = {}
      OBVIOUS
    <2>2. {} \in TagSets
      BY WorkspaceAssumption
    <2>3. OneGuest
      BY DEF OneGuest
    <2> QED
      BY <2>1, <2>2, <2>3 DEF TagsOfOneSave
  <1> QED
    BY <1>2, <1>3, <1>4, <1>5, <1>6, InvParts

LEMMA WorkspaceNext == WorkspaceInv /\ [Next]_vars => WorkspaceInv'
  <1> SUFFICES ASSUME WorkspaceInv, [Next]_vars
               PROVE  WorkspaceInv'
    OBVIOUS
  <1>1. CASE UNCHANGED vars
    <2>1. UNCHANGED <<role, profile, folder, photo, booked, guests, accounts, job, requests, approved, overtaken>>
      BY <1>1 DEF vars
    <2>2. TypeOK' /\ Grows
      BY <2>1, InvParts, GrowsFrame DEF TypeOK
    <2>3. Jobs'
      <3>1. ASSUME NEW w \in Workers, NEW k, k = job'[w]
            PROVE  JobInv(k)'
        BY <2>1, <2>2, <3>1, InvParts, JobKept DEF Jobs
      <3> QED
        BY <2>1, <3>1, InvParts DEF Jobs
    <2>4. PeopleInv' /\ FolderInv' /\ TagsOfOneSave' /\ OneGuest'
      BY <2>1, InvParts, PeopleFrame, FolderFrame, TagFrame, GuestFrame
    <2> QED
      BY <2>2, <2>3, <2>4, PrimedParts
  <1>2. CASE Next
    <2> PICK w \in Workers :
           \/ \E u \in Users :
                \/ SignIn(w, u) \/ Onboard(w, u)
                \/ \E s \in Slugs : SaveProfile(w, u, s)
                \/ \E a \in Users, status \in {"pending", "approved", "suspended"} : SetStatus(w, a, u, status)
                \/ \E e \in EventIds :
                     \/ BookEvent(w, u, e) \/ CancelBooking(w, u, e)
                     \/ \E n \in FolderNames : CreateFolder(w, u, e, n)
           \/ \E f \in Folders : DeleteFolder(w, f) \/ \E n \in FolderNames : RenameFolder(w, f, n)
           \/ \E ps \in SUBSET Photos \ {{}} :
                \/ \E f \in Folders \cup {None} : MovePhotos(w, ps, f)
                \/ \E amount \in Prices : UpdatePrices(w, ps, amount)
           \/ \E p \in Photos, ts \in TagSets : SaveTags(w, p, ts)
           \/ GuestCheckout(w)
           \/ CommitProfile(w) \/ CommitSignIn(w) \/ CommitStatus(w) \/ CommitBooking(w) \/ CommitCancel(w)
           \/ CommitCreate(w) \/ CommitRename(w) \/ CommitDeleteFolder(w) \/ CommitBulk(w) \/ CommitTags(w)
           \/ CommitGuest(w) \/ LockProfile(w) \/ CreateAccount(w) \/ CommitOnboard(w) \/ Die(w)
      BY <1>2 DEF Next
    <2>1. CASE \E j : Begins(w, j) /\ JobInv(j)
      BY <2>1, BeginStep
    <2>2. CASE CommitProfile(w) \/ CommitSignIn(w) \/ CommitStatus(w)
      BY <2>2, ProfileStep, SignInStep, StatusStep
    <2>3. CASE CommitBooking(w) \/ CommitCancel(w) \/ CommitCreate(w) \/ CommitRename(w) \/ CommitDeleteFolder(w)
      BY <2>3, BookingStep, CancelStep, CreateStep, RenameStep, DeleteStep
    <2>4. CASE CommitBulk(w) \/ CommitTags(w) \/ CommitGuest(w)
      BY <2>4, BulkStep, TagsStep, GuestStep
    <2>5. CASE LockProfile(w) \/ CreateAccount(w) \/ CommitOnboard(w)
      BY <2>5, LockStep, AccountStep, OnboardStep
    <2>6. CASE Die(w)
      BY <2>6, FailStep DEF Die
    <2> QED
      BY <2>1, <2>2, <2>3, <2>4, <2>5, <2>6, PeopleStart, FolderStart, PhotoStart
  <1> QED
    BY <1>1, <1>2

LEMMA WorkspaceInvariant == Spec => []WorkspaceInv
  BY WorkspaceInit, WorkspaceNext, PTL DEF Spec

(***************************************************************************)
(* The theorems.                                                           *)
(***************************************************************************)

\* Every stored row keeps its type, for any users, photos, folders, tags and number
\* of concurrent requests (models/photographer.py, models/user.py).
THEOREM WorkspaceTypes == Spec => []TypeOK
  <1>1. WorkspaceInv => TypeOK
    BY InvParts
  <1> QED
    BY <1>1, WorkspaceInvariant, PTL

\* Photos lie in folders of their own event, whatever is moved, renamed and deleted
\* meanwhile (move_photos_to_folder, delete_folder).
THEOREM PhotosInTheirFolders == Spec => []FolderOfOwnEvent
  <1>1. WorkspaceInv => FolderOfOwnEvent
    BY DEF WorkspaceInv
  <1> QED
    BY <1>1, WorkspaceInvariant, PTL

\* The only way to two folders of one name is the race between the check and the
\* write (_ensure_folder_name_free).
THEOREM TwinsOnlyByRace == Spec => []NoTwinFolders
  <1>1. WorkspaceInv => NoTwinFolders
    BY DEF WorkspaceInv
  <1> QED
    BY <1>1, WorkspaceInvariant, PTL

\* Whoever books or has folders was approved by an administrator
\* (require_approved_photographer).
THEOREM WorkIsApproved == Spec => []OnlyApprovedWork
  <1>1. WorkspaceInv => OnlyApprovedWork
    BY DEF WorkspaceInv
  <1> QED
    BY <1>1, WorkspaceInvariant, PTL

\* Tags are those of one save unless saves overlap (update_photo).
THEOREM TagsOfASave == Spec => []TagsOfOneSave
  <1>1. WorkspaceInv => TagsOfOneSave
    BY DEF WorkspaceInv
  <1> QED
    BY <1>1, WorkspaceInvariant, PTL

\* The only way to two guest users is the race of two first guests
\* (create_checkout_session).
THEOREM GuestsShareAUser == Spec => []OneGuest
  <1>1. WorkspaceInv => OneGuest
    BY DEF WorkspaceInv
  <1> QED
    BY <1>1, WorkspaceInvariant, PTL

\* Role and profile go together, whatever sign-ins and saves overlap
\* (upsert_profile, get_current_user).
THEOREM RolesFollowProfiles == Spec => []PhotographersHaveProfiles
  <1>1. WorkspaceInv => PhotographersHaveProfiles
    BY DEF WorkspaceInv
  <1> QED
    BY <1>1, WorkspaceInvariant, PTL

\* No photographer gets two Stripe accounts, whatever clicks, lost replies and
\* crashes there are (_ensure_account).
THEOREM AccountsAreSingle == Spec => []OneStripeAccount
  <1>1. WorkspaceInv => OneStripeAccount
    BY DEF WorkspaceInv
  <1> QED
    BY <1>1, WorkspaceInvariant, PTL

\* Saving a profile leaves its status to the administrators (upsert_profile).
THEOREM StatusStaysWithAdmins == Spec => StatusByAdmin
  <1>1. WorkspaceInv /\ [Next]_vars =>
          [\A w \in Workers, u \in Users :
             profile[u].status # "none" /\ CommitProfile(w) => profile'[u].status = profile[u].status]_vars
    <2> SUFFICES ASSUME WorkspaceInv, NEW w \in Workers, NEW u \in Users,
                        profile[u].status # "none", CommitProfile(w)
                 PROVE  profile'[u].status = profile[u].status
      OBVIOUS
    <2> DEFINE j == job[w]
               v == j.user
    <2>1. /\ v \in Users /\ j.slug \in Slugs /\ j.row \in ProfileRows
      BY InvParts DEF CommitProfile, Jobs, JobInv
    <2>2. profile \in [Users -> ProfileRows]
      BY InvParts, PeopleTypes
    <2>3. CASE Fails(w)
      BY <2>3 DEF Fails
    <2>4. CASE ~Fails(w)
      <3>1. /\ j.row.status = "none" => profile[v].status = "none"
            /\ profile' = [profile EXCEPT ![v] = IF j.row.status = "none"
                             THEN [status |-> "pending", slug |-> j.slug, account |-> 0]
                             ELSE Resaved(v, j.row, j.slug)]
        BY <2>4 DEF CommitProfile
      <3>2. CASE u # v
        BY <2>2, <3>1, <3>2
      <3>3. CASE u = v
        <4>1. j.row.status # "none" /\ profile'[u] = Resaved(v, j.row, j.slug)
          BY <2>1, <2>2, <3>1, <3>3
        <4> QED
          BY <2>1, <3>3, <4>1, InvParts, ResavedRow
      <3> QED
        BY <3>2, <3>3
    <2> QED
      BY <2>3, <2>4
  <1> QED
    BY <1>1, WorkspaceInvariant, PTL DEF Spec, StatusByAdmin

\* A bulk change is done to every photo of it or to none, as far as they are as they
\* were read (move_photos_to_folder, update_photo_prices).
THEOREM BulkAllOrNone == Spec => AllOrNone
  <1>1. WorkspaceInv /\ [Next]_vars =>
          [\A w \in Workers :
             CommitBulk(w) /\ photo' # photo =>
                \A p \in job[w].photos :
                    \/ photo'[p][job[w].column] = job[w].value
                    \/ photo[p][job[w].column] # job[w].rows[p][job[w].column]]_vars
    <2> SUFFICES ASSUME WorkspaceInv, NEW w \in Workers, CommitBulk(w), photo' # photo,
                        NEW p \in job[w].photos
                 PROVE  \/ photo'[p][job[w].column] = job[w].value
                        \/ photo[p][job[w].column] # job[w].rows[p][job[w].column]
      OBVIOUS
    <2> DEFINE j == job[w]
               written == ToWrite(j.rows, j.photos, j.column, j.value)
    <2>1. /\ p \in Photos /\ j.column \in {"folder", "price"}
          /\ photo' = [q \in Photos |-> IF q \in written THEN [photo[q] EXCEPT ![j.column] = j.value]
                                        ELSE photo[q]]
      BY InvParts DEF CommitBulk, Fails, Jobs, JobInv
    <2>2. photo[p] \in PhotoRows
      BY <2>1, InvParts, WorkTypes
    <2>3. CASE p \in written
      <3>1. photo'[p] = [photo[p] EXCEPT ![j.column] = j.value] /\ j.column \in DOMAIN photo[p]
        BY <2>1, <2>2, <2>3 DEF PhotoRows
      <3> QED
        BY <3>1
    <2>4. CASE p \notin written
      BY <2>1, <2>4 DEF ToWrite
    <2> QED
      BY <2>3, <2>4
  <1> QED
    BY <1>1, WorkspaceInvariant, PTL DEF Spec, AllOrNone
=============================================================================
