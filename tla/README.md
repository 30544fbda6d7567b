# Gallopics API: specifications, checks and proofs

Gallopics sells photos of equestrian competitions: photographers upload them,
buyers pay through Stripe Checkout, and each photographer's share of a sale is
sent to their own Stripe account. This directory holds TLA+ models of the parts
of `src/app` where that can go wrong in ways a test would hardly reach, the TLC
runs that check them on small instances, and proofs, checked by TLAPS, that the
main properties hold for any number of orders, photos and concurrent requests.

`PROJECT.json` lists for every definition the source lines it stands for, for
every property a plausible bug that breaks it, and every hazard with the
properties that watch it.

## 1. Inventory

The API is one FastAPI process (or several) over one Postgres database, an
object store and two Stripe webhooks; Celery beat runs the feed syncs. All
shared state is in Postgres, the store and Stripe. Every request handler has one
database session (`database.get_db`): its writes are private until the single
COMMIT after the handler returns, and are lost when it raises or dies. What it did
at Stripe or in the store stays. Handlers interleave wherever they `await`.

| Component | State | Operations | Hard because | Correct when | Module |
|---|---|---|---|---|---|
| Request transaction (`database.py`) | the session | commit, rollback | Stripe and the store are not rolled back | a request's rows appear all or not at all | `Payments`, `PhotoLibrary` |
| Checkout (`checkout_service.py`, `routers/checkout.py`) | orders, transactions, Checkout Sessions | create session, fulfil, success page, cancel unpaid | the webhook and the success page race; events repeat and reorder | a payment in full captures its order once; nothing else does | `Payments`, `OrderLifecycle` |
| Orders and refunds (`order_service.py`, `routers/orders.py`) | orders, transactions, purchases | refund, record, list | the refund's check is not locked; Stripe may act and not answer | money goes back once, shares are taken back | `Payments`, `OrderLifecycle` |
| Payouts (`payout_service.py`) | `payout_status` and transfer of each purchase, transfers and reversals at Stripe | split, settle order, settle photographer, reverse order | three kinds of request settle the same shares; lost replies; rollback after a transfer | each share is sent at most once, only for a paid order, and the books agree with Stripe | `Payments` |
| Stripe Connect (`stripe_connect_service.py`, router) | the photographer's account id and flags | onboarding, refresh, account webhook | flags are copies of Stripe's; a refresh settles old shares | the status follows Stripe; owed shares go out once active | `Payments` (onboarding in one step), `Workspace` (onboarding's lock and retries) |
| Photo library (`photographer_service.py`, `routers/photographer.py`, `storage/`) | photos, objects in the store | upload, complete, delete, prices, tags | the store has no transactions; sales race deletions | a photo's objects are its own and stay until it is deleted; a sold one stays | `PhotoLibrary`; folders, prices, tags in `Workspace` |
| Image processing (`image_processing.py`) | preview and thumbnail objects, photo status | process | swallows every error | a photo's preview is made from its original | `PhotoLibrary` |
| Gallery and downloads | none (reads) | page, search, preview, download | rows come and go between two pages; downloads race deletions | a client sees every row that stays; a buyer gets the photo they bought | `Listing`; `Shown` and `Downloaded` of `PhotoLibrary` |
| Prices, sales report (`pricing.py`, `photographer_sales.py`) | none | limits, split, totals | rounding, sales from before payouts | share + fee = amount; the page's totals are what settlements send | `Sales`, `Reads` |
| Folders, bookings, highlights | rows | create, rename, move, delete | check-then-insert without a constraint | one folder per name; a photo's folder is of its event | `Workspace` (highlights left out) |
| Profiles and approval (`photographer_service.py`, `admin.py`) | `photographers`, `users.role` | save, approve, suspend | a save and an approval write one row | a save never changes the status; only approved people work | `Workspace` |
| Event catalogue (`event_service.py`, tasks) | events | upsert from two feeds, import, deactivate stale | two syncs, manual edits and uploads interleave; fields overwrite identities | one event per competition; one with photos stays listed; what the feed keeps listing is listed | `EventCatalogue`, `Listing` |
| Event matching (`matching_service.py`) | match status, `equipe_id`, payload | match, confirm by hand, unmatch | races the sync | a manual match is not undone by a sync; the best event is chosen | `EventCatalogue`, `EventMatching`, `Reads` |
| Photo matching (`photo_matching_service.py`) | match columns of a photo | match by time | boundary seconds, missing times | the nearest start is chosen, with the right confidence | `PhotoMatching`, `Reads` |
| Users and sign-in (`auth.py`, `user_service.py`) | users | get or create, guest, guards | two firsts create two rows | one guest user; roles and profiles agree | `Workspace` |
| Email, feed clients, cache, rate limit, logging | none the rest depends on | | | | not modelled |

## 2. How the modules fit together

- **`Payments`**: the core: Checkout, refunds, payouts and Connect over one
  database and one Stripe account.
- **`OrderLifecycle`**: what that core promises of each order, without requests.
  `Payments` implements it under `status <- orderStatus`.
- **`PaymentsOverlap`**: `Payments` with a memory of whether two requests ever overlapped, for what
  it keeps until then.
- **`MCPayments`**, **`MCPaymentsOverlap`**: their instances.
- **`PaymentsProofs`**, **`PaymentsSerialProofs`**: their theorems, for concurrent requests and until
  requests overlap.
- **`PhotoLibrary`**, **`MCPhotoLibrary`**, **`PhotoLibraryProofs`**: photos, their
  objects, their sale and their deletion, and the same for them.
- **`EventCatalogue`**, **`MCEventCatalogue`**: the events, the two feeds that bring them and the
  administrator's corrections.
- **`EventCatalogueProofs`**, **`EventCatalogueSyncProofs`**: its theorems, on the identities of the
  rows, and on what syncs and requests leave of each other's work.
- **`Workspace`**, **`MCWorkspace`**, **`WorkspaceProofs`**: users, profiles, folders, tags,
  prices, bookings and Stripe accounts.
- **`Listing`**, **`ListingProofs`**: the paged lists and the clients that read them.
- **`PhotoMatching`**, **`EventMatching`**, **`Sales`**: the pure functions.
- **`Reads`**, **`ReadsProofs`**, **`MCReads`**: the lists and the functions as one specification, what
  each function is for as an invariant over any input of its kind, their theorems, and one instance.

The two meet in the fulfilment: `Payments` takes the insertion of the purchases for
granted, and `PhotoLibrary` shows when it fails. It repeats of a sale only what a photo
can tell: priced, paid, inserted, committed. `Workspace`'s `CreateAccount` is what
`Payments` takes as one step (`Connect`); `Sales`' `Settlement` is `settle_photographer`
in amounts, which `Payments` follows by share.

### Payments and the code

| Model | Code |
|---|---|
| `orderStatus`, `txns`, `payout`, `connect` | committed rows: `orders.status`, `payment_transactions`, `photo_purchases.payout_status`, the photographer's Connect flags read through `connect_status` |
| `lock` | the order's row lock: `_find_order(lock=True)` in `fulfill` and `cancel_unpaid`, and the UPDATE in `update_order_status` |
| `session`, `account`, `transfers`, `reversals`, `refunds` | Stripe |
| `job[w]` | one request: where it stands, what it has read, and `wrote`, its uncommitted payout statuses |
| `manual` | the log of reversals that failed and need an operator |
| `CreateSession`, `CommitSession` | `create_session`: the session exists at Stripe before the order commits |
| `Fulfill`, `SettleShare`, `CommitFulfill`, `FulfillMismatch` | `fulfill`, from the lock to the COMMIT, one step per photographer's transfer |
| `CancelUnpaid` | `cancel_unpaid` |
| `Refund`, `StripeRefund`, `UpdateRefunded`, `ReverseTransfer`, `CommitRefund` | the refund handler and `reverse_order` |
| `Connect`, `RefreshStatus`, `RetrieveAccount`, `CollectOwed`, `CheckOrder`, `SendOwed`, `CommitRefresh` | onboarding, `refresh_status` (from the account page or the account webhook) and `settle_photographer` |
| `Rollback` | any request raising or dying before its COMMIT |

A handler is cut wherever it awaits something another request or Stripe can
change in between. Each Stripe call comes back "ok", "refused" (nothing was done) or
"lost" (done, but the caller gets an error); a create call under a key Stripe has
seen answers with the first object. A share is a pair of an order and a
photographer, because `_settle` groups the purchases that way.

Left out, with the reason:

- prices and receipts: an amount is only "in full" or not, a share only zero or not;
- `stripe_charge_id`, a cache of a value that never changes;
- the row locks that UPDATEs take on purchase and photographer rows: they delay
  the later writer, who then overwrites, and here too the last one to commit wins.
  Two refreshes that lock two orders' rows in opposite order deadlock; Postgres
  aborts one, which is `Rollback`;
- the four Connect flags, as three statuses ("action_needed" and "pending" both
  only mean: not active); onboarding's own row lock, as one step;
- the failed refund's transaction, which its own `raise` rolls back;
- an error in `settle_order` that is not Stripe's (no client configured): the
  remaining shares stay owed, as for a photographer who is not active.

Assumed of what is outside: idempotency keys do not expire between retries; the
order is committed when the buyer gets the Checkout URL (FastAPI runs the exit code
of `yield` dependencies before the response up to 0.117; see the hazard on
`database.py` for later versions).

### PhotoLibrary and the code

| Model | Code |
|---|---|
| `row` | committed `photos`: READY with or without preview keys. PROCESSING is never committed: an upload processes its photos before its COMMIT, and `process_photo` leaves every photo READY |
| `original`, `preview` | the store: whose bytes each object holds. Previews and thumbnails are made and erased together |
| `purchases`, `status` | committed `photo_purchases`; an order as far as its photos can tell |
| `begun` | upload session ids, fresh UUIDs |
| `asked` | history: photos whose deletion passed its checks before any order of them was captured |
| `Upload`, `WriteFile`, `ProcessPhoto`, `CommitUpload` | `upload_photos`, `complete_upload`, `process_photo` |
| `PlaceOrder`, `Fulfill`, `CommitFulfill` | `_price_items`; `create_photo_purchases`, whose foreign key takes a key share lock on each photo; the fulfilment's COMMIT |
| `DeletePhoto`, `EraseOriginal`, `ErasePreview`, `Cascade`, `CommitDelete` | `delete_photo`: count the sales, erase the objects, load the purchases the ORM cascade will delete, DELETE and COMMIT |
| `Shown`, `Downloaded` | the preview and thumbnail pages; `_get_captured_photo_purchase` and the download |
| `Rollback` | the request raises or dies; `Dying` says at which steps |

The presigned upload is left out: `create_upload_session` never gets a Redis client,
so its session is not stored and cannot be completed. Tags, prices, visibility and
matching touch no object and no sale. A download with an order that holds the photo in two
qualities fails (`scalar_one_or_none`); purchases are pairs here, so that one error is
left out.

### EventCatalogue and the code

| Model | Code |
|---|---|
| `row` | committed `events`: the two ids, the slug, which meeting `raw_equipe_payload` is of, whether matched by hand, `is_active_from_equipe`, whether `equipe_last_seen_at` is set |
| `draft[w]` | what a transaction has written and not committed |
| `job[w]` | a sync with its remaining entries, or one administrator's request; `loaded` is the row as its SELECT saw it |
| `feed` | Equipe: a meeting is absent, listed without its TDB id, or with it |
| `StartEquipeSync`, `StartTdbSync`, `LoadEntry`, `FlushUpdate`, `FlushInsert`, `Deactivate`, `Commit` | `sync_from_equipe`, `sync_from_tdb`, the upserts and `_deactivate_stale_equipe_events` |
| `Import`, `ManualMatch`, `Unmatch` | the administrator's requests |
| `Upload`, `DeletePhoto` | photographers: an event gets its first photo, or loses its last one; a sync's `before` are the events that had one all along |
| `Writes`, `Holds`, `Waits` | Postgres: locks of rows and of unique keys |
| `Violation`, `Deadlock`, `Refused` | a refused statement undoes its savepoint in a sync and the whole of another request |
| `Die` | the process dies, or the feed does not answer |
| `ScheduleId` | `_get_equipe_meeting_id` |

The ORM's UPDATE writes only the columns that differ from what was loaded, on the row as it
is when it gets the lock; that is what `Dirty` and `Write` say, and where most of the races
come from. `bare`, `imported` and `crossed` are history: meetings that were ever listed
without their id, imports that the feed has not listed since, and events that a flush found
changed since its SELECT. Left out: names, venues and dates; results, which nothing
reads back into the catalogue; `run_matching_batch`, which has no caller (it is a function of
`EventMatching`).

### Workspace and the code

Each request is two actions: what it reads and checks (`SaveProfile`, `SetStatus`,
`BookEvent`, `CreateFolder`, `RenameFolder`, `MovePhotos`, `UpdatePrices`, `SaveTags`,
`GuestCheckout`, ...) and its writes with its COMMIT (`CommitProfile`, ...), because what it has
written is locked until then. Onboarding has four, since it holds the profile's
row lock while it waits for Stripe. `Fails` is a refusal by a constraint or an error,
`Die` a crash at any point. `overtaken` marks the folders, photos and the guest user
whose check was stale when they were written; `approved` remembers approvals.

Left out: highlights, avatar and the rest of the profile page; which photos a
photographer owns (all photos here are one approved photographer's); emails.

### Listing, matching and sales

`Listing` has one table and three queries (the gallery, a photographer's own photos, the
events). `AddPhotos`, `UpdatePhoto` and `DeletePhoto` are every other request on photos, whose
`created_at` never changes; `SyncEvents` stands for whatever a sync or an import commits, which may
insert events and rewrite any column of others, their `start_date` and with it their place
in the list. `StartReading` and `ReadPage` are one client, whose page is any of the orders that rows
of one time may come in; `due` is history: the rows it has still to be shown.
`PhotoMatching` follows `photo_matching_service.py` function by function, and
`EventMatching` `find_match`, `apply_match` and the batch; the similarity of two names is a
percentage. `Sales` has the limits of a price, the split, the totals of the sales page and the amount a
settlement sends. In `Reads` a behaviour either is one of the lists or takes one input (`TakeClass`,
`TakePhoto`, `TakeBatch`, `TakeSales`): a section, a photo with a schedule, a batch of meetings and
events, or a set of sales. What the code can give a function is stated once, in the types `Section`,
`Photo`, `Schedule`, `Meeting` and `Event` and in `IsSale`: a sale has a share and a payout
status or neither, and only a refunded order's payouts are cancelled or reversed.

## 3. Runs

| Run | Instance | Question |
|---|---|---|
| `payments` | 2 orders, 1 photographer, 2 requests, every Stripe outcome, crash at every step; 1.3 million states | does the money move once, only when it may, and do the books follow, for concurrent requests? |
| `payments_one_order` | 1 order shared by 2 photographers, one with a zero share, 2 requests, every outcome, fairness; 431 000 states | until requests overlap, do refunds, refreshes and fulfilments lose no share, and is a paid order captured in the end, overlapping or not? |
| `payments_stranded` | 1 order, 2 requests, Stripe always answers | finding 1 |
| `payments_refund_race` | the same | finding 2 |
| `payments_cancelled_sent` | the same, 1 request | finding 3 |
| `photos` | 3 photos of 2 uploads with a repeated file name, 2 orders, 2 requests, crash at every step; 650 000 states | do sold photos stay, deletions begun before the sale excepted, and do only deletions take files? |
| `photos_same_name` | 2 photos of one name in one upload, nothing fails | finding 4 |
| `photos_sold_deleted` | 2 photos of one upload, 2 requests, nothing fails | finding 5 |
| `photos_paid_deleted` | 2 photos of one upload, 1 request at a time, nothing fails | finding 6 |
| `catalogue` | 3 events, 2 meetings, one of a competition TDB knows, a periodic sync beside one other transaction, 2 surprises (requests, uploads, deaths, changes of the feed), fairness; 95 000 states | do identities, joins, imports and hand-made matches survive the syncs, and is what the feed lists listed in the end? |
| `workspace` | 3 users (an administrator, a photographer, a newcomer), 3 photos of 2 events, 2 folders, one name in two spellings, 3 requests, 2 at a time; 87 000 states | do stale checks break what folders, tags, profiles, guests and accounts promise? |
| `reads` | lists of 3 rows with ties, page size 1; 4 starts in 5 feed orders and every choice of known times; photos at the edge of every window; 3 events and 2 meetings; every set of the sales of 3 orders; 61 000 states | does a client see what stays in a list, and are the functions what they are for? |

Why these bounds are enough: every decision of the code concerns one order, one
photo or one photographer, and is disturbed by one other request; two requests
give every pair of overlapping handlers. Two orders of one photographer let one
refresh settle several orders and cross a fulfilment or refund of either; two
photographers of one order let one request send, skip and fail different shares.
Three photos give an upload of several files, two uploads that use one name, an
order across uploads and a photo in two orders. In `catalogue`, three events let two syncs
insert beside an event that exists, and one more than the two competitions; two surprises let
an administrator's request and a change of the feed, or a death and an upload, meet one sync.
In `workspace`, two overlapping requests and one before them reach every pair of
check and write from every kind of state. Four starts give an estimate made from an estimate on
either side. The proofs lift the bounds for the invariants they state. Transaction counts are not capped: `OneCapture` bounds captures, and refunds
are bounded by the requests under way. TLC's symmetry (requests, and the two orders) is
used for safety only. `PhotoLibrary` runs do not check for deadlock, as a finite set of photos and
orders is used up, nor do `catalogue`, `workspace` and `reads`, where requests, surprises and
inputs are bounded; the `Payments` runs do.

### Properties of `Payments`

`OneCapture`, `OneTransferPerShare`, `MoneyOutAfterMoneyIn`, `BooksMatchStripe`,
`ReversalNeedsRefund`, `SharesFollowOrder` and `ImplementsLifecycle` hold of
concurrent requests, and rest on three things in the code: the row lock in
`fulfill`, the idempotency keys made of the order and the photographer, and the
single COMMIT.

`RefundTakesSharesBack` and `NoStrandedShare`, and that payout statuses only move along their
documented life (`PayoutMove`), hold until two requests have overlapped: `AloneRefundTakesSharesBack`,
`AloneNoStrandedShare` and `AlonePayoutMoves` say so with the history variable `overlapped`.
Crashes, lost replies and failed reversals are all in them; what they leave out is only what
overlapping requests break (findings 1 and 2). Finding 3 needs no overlap:

1. **A stranded share** (`payments_stranded`). A fulfilment reads the photographer as
   inactive and leaves the share owed; before it commits, onboarding finishes and a
   refresh collects what is owed, and does not see it. The share stays owed, with the
   photographer active, until the account is refreshed again.
2. **A refund beside a refresh** (`payments_refund_race`). `settle_photographer`
   checks that the order is captured without a lock, sends, and commits the share
   as transferred over the refund's cancellation.
3. **A forgotten transfer** (`payments_cancelled_sent`). A request that made a transfer is
   rolled back. While nothing is refunded the idempotency key repairs it; after a
   refund the share is cancelled as if it had not been sent.

`PaidIsCaptured` needs: requests that are under way go on (`WF` on `RequestStep`);
a fulfilment is tried again and again, and gets the order's lock if it keeps becoming free
(`SF` on `Fulfill`: Stripe retries a delivery that was not acknowledged, the success page asks at
every load, and Postgres queues lock waiters); and from some time on fulfilments
reach their COMMIT (`FulfillmentsSurvive`: otherwise nothing could be promised).
Refunds, refreshes and new checkouts get no fairness, since nobody has to start them.
It also takes for granted that purchases can be inserted, which finding 6 denies.

### Properties of `PhotoLibrary`

`SoldStaysUnlessAsked`: once an order is captured, each of its photos keeps its row and its buyer
downloads that photo for good, except a photo whose deletion had passed its checks before
the capture. So the count of sales, the key share lock of a new purchase and the storage keys
keep sold photos from every later deletion, and from cascades, retries and files of others. The exception is
finding 5, and with equal names in one upload, finding 4. `KeptUnlessAsked` and
`OwnBytesOnly`: only a photo's own deletion takes its objects, and an object never holds another's bytes,
across failed uploads, half-finished deletions and equal names in different uploads.

4. **Two files of one name** (`photos_same_name`). Within one upload the key is the name: the
   second file replaces the first one's original, and one photo is sold as the other.
5. **Sold while it is deleted** (`photos_sold_deleted`). `delete_photo` counts the committed sales,
   without a lock on the photo, and then erases its objects. A fulfilment that commits after
   the count captures an order whose original is erased; and if it commits before the deletion loads
   the purchases, the cascade deletes the new one with the photo.
6. **Paid but not fulfilled** (`photos_paid_deleted`). `delete_photo` counts purchase rows, which
   only a fulfilment inserts; a photo deleted before that makes every fulfilment of
   the paid order fail.

### Properties of `EventCatalogue`

`UniqueIdentities` is what the unique constraints promise of concurrent transactions.
`OneEventPerCompetition` holds as long as a meeting always carried its TDB id: once the feed
lists it without, the sync writes `tdb_id = None` over the id and the next TDB sync
makes a second event. `ScheduleOfMeeting` leaves out events matched by hand, which keep the
payload, and so show the schedule, of the meeting they had before. `ImportedStaysListed` quotes
the comment in `import_equipe_meeting`; `HidesOnlyStale` and `ManualMatchKept` say what a
sync may not do. `HidesOnlyStale` speaks of events that had a photo when the sync began and kept one:
an event whose last photo is deleted before the `NOT EXISTS` update may be hidden, and
one that gets its first photo after that update is hidden until the next sync that lists it. Each but the first leaves out events in `crossed`: a request that
committed between a sync's SELECT and its UPDATE can lose its `equipe_last_seen_at`, and with it
the import or match is hidden as stale, or stays hidden.

`FeedIsListed`, the liveness property, needs: beat starts a sync again and again (`WF` on
`StartEquipeSync(Beat)`, the schedule of `celery_app`); a transaction goes on
(`WF`); and it gets a lock that becomes free again and again (`SF`: Postgres queues
waiters, and ends deadlocks). Surprises are bounded, so that in the end the feed is still and nothing
dies. It promises nothing for a meeting whose place is taken (`Placeable`): after an unmatch
the event keeps a slug that ends in the meeting's id, and every later sync of that meeting fails
on it; and two meetings with one TDB id take one event from each other at every sync.

### Properties of `Workspace`

The folder, booking and account checks are made before the write, and each property says
what is left of them under races: `FolderOfOwnEvent` holds because a move's target cannot change its
event, and a deletion clears `folder_id` by the foreign key; `NoTwinFolders`,
`TagsOfOneSave` and `OneGuest` fail only by a race, which they name; `OneStripeAccount` rests on
the row lock and the idempotency key together; `StatusByAdmin`, `AllOrNone` and
`PhotographersHaveProfiles` on the ORM writing only what changed. An administrator who saves
a profile becomes a photographer and loses the administrator's role (`upsert_profile`), which
`PhotographersHaveProfiles` shows and nothing in the repository denies.

### Properties of `reads`

`EveryRowListed` is about rows that keep their place: in the list and alone in their time
throughout, while no row before them leaves it or moves behind them. Of these a client may see one
twice, as new rows push others to later pages, but it misses none. The offset promises no more.
With one event a page, A before B before C: a client reads A, a sync gives A an earlier
`start_date` than C's, and the second page is C; B is missed, as it is if A is deleted. Rows
of one time may change places between two pages: the photos of one upload have one `created_at`.
`EstimatesKeepOrder`,
`NearestStart`, `BatchTakesBest` and `SalesAddUp` compare the functions with definitions that say
what they are for, and not how they go about it.

## 4. Proofs

`PaymentsProofs` proves, for any orders, photographers, shares, requests and Stripe
outcomes (`ConstantsAssumption`), that `Spec` implies each invariant of run
`payments` and `ImplementsLifecycle`. The invariants are not inductive alone: whether a
COMMIT is right depends on what the request has read and done since it began.
`Inv` adds, for each request under way, what it may rely on while all others run:

- a checkout is the only one of its order (`CheckoutOK`);
- a fulfilment holds the lock of a pending order of a paid session and has written
  its shares and no others (`FulfillOK`);
- a refund works on an order that was captured, and past Stripe's reply on one whose
  buyer has the money (`RefundOK`);
- a refresh touches shares of paid orders only (`SettleOK`);
- whatever a request is about to record as sent was sent (`WroteOK`).

Lemma `Frame` says what a step must not disturb for another's reliance to survive; one lemma per
group of actions shows that it does not. The refinement maps `CommitSession`,
`CommitFulfill`, `CancelUnpaid`, `StripeRefund`, `CommitRefund` and the buyer's
actions to the actions of `OrderLifecycle`, and everything else to a stutter.

`PaymentsSerialProofs` proves the three safety properties of run `payments_one_order` of
`OverlapSpec`, for any orders, photographers, shares and number of workers. Its behaviours are those of
`Spec` (`OverlapsArePayments`), so `Inv` holds of them. `OverlapInv` says that until two requests
overlap at most one runs, and `SerialInv` holds, which adds what that request knows of the
books until its COMMIT: a refund's order stays captured and each of its shares is what the
refund read (`TakesBack`); a refresh writes only over shares to settle and, the account being active,
has every one of them still to send or already written (`MissesNone`); a fulfilment leaves a share owed
only if the account was not active (`LeftOwed`). Findings 1 and 2 are what an overlap does to it.

`PhotoLibraryProofs` proves type correctness for any photos and names. The induction needs
that an upload is the only one of its session and nothing refers to its photos yet, that a
fulfilment is the only one of a paid order whose photos all exist, that a captured order
has the purchases of its photos that exist (`SalesFollowPhotos`), and that only a deletion that began
in time takes a sold photo's row (`SoldRowsStay`, from the count in `AskedInTime` and the key share
lock): together `LibraryInv`. `SoldStaysUnlessAsked`, `KeptUnlessAsked` and `OwnBytesOnly` are
proved under `DistinctKeys`, which is exactly what finding 4 violates; `StoreInv` adds that what
an upload has written stays. A sold photo then stays because it keeps its row, its purchase and,
not having been asked for, its original.

`EventCatalogueProofs` proves `UniqueIdentities` for any events, meetings, TDB ids and
workers. The hard part is that a statement checks only committed rows and its own. `CatalogueInv`
says why that is enough: an uncommitted row is written only when no other transaction
has written that row, or holds or has given up one of its keys (`DraftsApart`), so each
transaction's view is free of duplicates (`ViewsUnique`) and stays so when another commits, because a
commit makes one view everybody's.

`EventCatalogueSyncProofs` proves the other safety properties of run `catalogue` on top of
it. `SyncInv` says what a transaction's draft may be beside the committed row it will replace
(`DraftSync`): it shows its own meeting's schedule and carries its meeting's TDB id; it is hidden only by
an Equipe sync that is past its entries, and then a row of a meeting outside its ids; it belongs to another
meeting than the row only by an edit or with the TDB id of that meeting. This is stable because no
other transaction commits that row in between (`DraftsApart`). The drafts follow from
the entries: an entry of a meeting found the event by one of its ids (`FoundBy`), a sync has one
entry per meeting, and a flush that writes only what differs from what it loaded leaves the
entry's values, unless the row has changed since, which is what `crossed` records.

`WorkspaceProofs` proves all ten properties of run `workspace`, for any users, photos, folders
and requests. `WorkspaceInv` adds to them, for each request under way, what of its reading cannot have changed (`JobInv`): a
folder it names keeps its owner and event and its id is not used again, an account it
created is the only one, whoever it checked was approved; `Grows` says that these only
grow under any other step.

`ListingProofs` proves `EveryRowListed` for any rows, times, changes and page size. A row that is
still due is still to come: at least as many rows stand before it as the next page's offset skips
(`StillToCome`). A change that leaves it its place leaves those rows before it, and a page that does
not show it is full of rows that come before it.

`ReadsProofs` proves all the properties of run `reads`, for every input that `ReadsAssumption`
admits: sections and schedules of any length, batches of any number of meetings and events, any
finite set of sales, any commission from 0 to 100 %. The functions are recursive over a
sequence, or fold a set, and a library theorem on induction takes an operator, which the provers cannot
instantiate. The proofs take induction from `LeastNatural` (a nonempty set of naturals
has a least element) as a lemma on *sets* of naturals (`Induction`, `SetInduction`), and take a
recursive function as the CHOOSE of one that satisfies its recursion: it exists (`Recursion`), and
induction says what its values are. On that rest

- `EstimatesKeepOrder`: `Precedes` is a strict total order, so each start has a place of its own
  (`Places`); one estimate, made from the nearest place, keeps the spacing of all times known
  so far (`Spacing`, `EstimateStep`), and so does each after it (`TimesInvariant`);
- `NearestStart` and `BatchTakesBest`: `find_nearest_start`, the search over sections and
  `find_match` are the same scan, which ends at the first of the best candidates (`FirstBest`);
  a batch changes of an event only its match and its equipe id (`States`), so the events it has
  not touched are the free ones;
- `SalesAddUp`: a sum over a finite set does not depend on the order it is made in
  (`SumRemove`), so the sum of the orders' sums is the sum over all sales (`SumByGroups`), which makes the
  settlement, order by order, what the page calls owed (`SettlementIsOwed`); and the split's
  share is a part of its amount (`SplitIsExact`), never less for more (`SplitIsMonotone`).

`ReadsAreLists` shows that the rest leaves `Listing` as it is.

Only model-checked: `PaidIsCaptured` and `FeedIsListed`, as liveness is out of the prover's reach. What
the findings' runs refute is not proved either. No module uses a RECURSIVE operator.

## 5. Not modelled

- Emails, feed HTTP clients, storage backends' protocols, pixels, cache, rate limiting and
  logging: they keep no state that the rest depends on, or are pure I/O. What their failure does
  to a request is modelled where the request is.
- The verification of tokens and of webhook signatures: cryptography.
- The presigned upload: it cannot be completed (see its hazard), so it changes no state.
- The schedule shown for an event (`normalize_equipe_schedule`) and stored results: a reshaping of one
  answer of the feed, that nothing decides on.
- Gallery search and a photo's detail: single reads.
- Highlights, a list of photo ids on a profile that is checked when it is saved and not
  cleaned when a photo is deleted; the API only gives it back.
- A download of one photo bought in two qualities, which fails at each call: one test shows it.
