------------------------------ MODULE Payments ------------------------------
(***************************************************************************)
(* Money in, money out: Checkout sessions, fulfilment, refunds and the     *)
(* photographers' payouts, as requests that interleave over one Postgres   *)
(* database and one Stripe account.                                        *)
(*                                                                         *)
(* A request runs in a transaction of its own (database.get_db): it reads  *)
(* what others have committed (READ COMMITTED), keeps its writes to itself *)
(* and makes them visible together at the end, or loses them all when it   *)
(* raises or its process dies.  What it did at Stripe meanwhile stays.     *)
(* The one row lock a handler asks for, SELECT ... FOR UPDATE on an order, *)
(* is `lock'; an UPDATE of the order row takes it too.  The lock an UPDATE *)
(* takes on a purchase or photographer row only delays the later writer,   *)
(* who then overwrites: here too the last one to commit wins.              *)
(***************************************************************************)
EXTENDS Naturals, FiniteSets

CONSTANTS
    Orders, Photographers,
    Sales,       \* pairs <<order, photographer>>: whose photos an order holds
    Amount,      \* öre of each pair's share, commission taken off
    Workers,     \* requests the API serves at the same time
    Outcomes,    \* what a Stripe call may come to, see Replies
    None

\* "refused": Stripe did nothing; "lost": Stripe did it, the caller got an error.
Replies == {"ok", "refused", "lost"}

ASSUME ConstantsAssumption ==
    /\ Sales \subseteq Orders \X Photographers
    /\ Amount \in [Sales -> Nat]
    /\ Outcomes \subseteq Replies
    /\ None \notin Orders \cup Photographers \cup Sales \cup Workers

VARIABLES
    \* committed rows
    orderStatus,  \* orders.status; "none" while there is no row
    payout,       \* photo_purchases.payout_status of each sale's purchases
    connect,      \* connect_status of the photographer's saved Stripe columns
    txns,         \* payment_transactions, counted by what they record
    lock,         \* who holds the order's row lock
    \* at Stripe
    session,      \* the order's Checkout Session
    account,      \* the photographer's account, as Stripe has it
    transfers,    \* transfers made, each under its idempotency key
    reversals,    \* sales whose transfer was reversed
    refunds,      \* orders whose payment was refunded
    \* in the API
    job,          \* what each worker is doing, with its uncommitted writes
    manual        \* sales whose reversal failed, logged for an operator

db == <<orderStatus, payout, connect, txns>>
stripe == <<session, account, transfers, reversals, refunds>>
vars == <<orderStatus, payout, connect, txns, lock,
          session, account, transfers, reversals, refunds, job, manual>>

OrderStatus == {"none", "pending", "captured", "refunded", "cancelled"}
PayoutStatus == {"none", "owed", "transferred", "failed", "cancelled", "reversed"}
ToSettle == {"owed", "failed"}
\* "inactive" stands for connect_status "action_needed" and "pending"
ConnectStatus == {"not_connected", "inactive", "active"}
SessionState == {"none", "open", "paid", "mispaid", "expired"}
Steps == {"idle", "checkout", "fulfill", "refund", "update", "reverse",
          "retrieve", "collect", "settle"}

SalesOf(o) == {s \in Sales : s[1] = o}
SalesBy(p) == {s \in Sales : s[2] = p}

\* No uncommitted write; "same" marks a purchase the request has not written.
NoWrites == [s \in Sales |-> "same"]

Idle == [step |-> "idle", order |-> None, who |-> None,
         loaded |-> "not_connected", seen |-> "not_connected",
         todo |-> {}, sending |-> None, wrote |-> NoWrites]

(***************************************************************************)
(* The decisions of the handlers.  A definition named Bug... is a slip a   *)
(* change to the code could make in the decision that follows it; nothing  *)
(* uses it, and PROJECT.json names the property it would break.            *)
(***************************************************************************)

\* The rows after a COMMIT of w's writes: the ORM updates only what it changed.
BugWritesWholeRow(w) == job[w].wrote
BugWritesNothing(w) == payout
Written(w) ==
    [s \in Sales |-> IF job[w].wrote[s] = "same" THEN payout[s] ELSE job[w].wrote[s]]

\* The row lock w may hold is released with its transaction.
BugKeepsLock(w) == lock
Unlocked(w) == [o \in Orders |-> IF lock[o] = w THEN None ELSE lock[o]]

\* fulfill goes on with a locked, pending order whose session is paid in full.
BugNoRowLock(o) == session[o] = "paid" /\ orderStatus[o] = "pending"
BugAnyAmount(o) ==
    session[o] \in {"paid", "mispaid"} /\ lock[o] = None /\ orderStatus[o] = "pending"
Payable(o) == session[o] = "paid" /\ lock[o] = None /\ orderStatus[o] = "pending"

\* The idempotency key of a share's transfer.
BugKeyPerRequest(w, s) == <<s, w>>
BugKeyPerPhotographer(w, s) == s[2]
TransferKey(w, s) == s

\* refund's check of the order, and whether it gives up after Stripe's reply.
BugRefundsAny(o) == orderStatus[o] # "none"
Refundable(o) == orderStatus[o] = "captured"
BugNeverRaises(reply) == FALSE
Raises(reply) == reply # "ok"

\* reverse_order cancels what was not sent.
BugCancelsOwedOnly(status) == status = "owed"
Cancels(status) == status \in ToSettle

\* refresh_status settles when the account it read is active, and
\* settle_photographer takes the purchases still to settle.
BugNeverSettles(seen) == FALSE
Settles(seen) == seen = "active"
BugCollectsSent(s) == payout[s] # "none"
Collected(s) == payout[s] \in ToSettle

\* Worker w goes on to job j.
Takes(w, j) == job' = [job EXCEPT ![w] = j]

\* record_transaction, in rows that say what was recorded of the order.
Records(o, rows) == txns' = [txns EXCEPT ![o] = rows]

Init ==
    /\ orderStatus = [o \in Orders |-> "none"]
    /\ payout = [s \in Sales |-> "none"]
    /\ connect = [p \in Photographers |-> "not_connected"]
    /\ txns = [o \in Orders |-> [capture |-> 0, refund |-> 0, mismatch |-> FALSE]]
    /\ lock = [o \in Orders |-> None]
    /\ session = [o \in Orders |-> "none"]
    /\ account = [p \in Photographers |-> "not_connected"]
    /\ transfers = {}
    /\ reversals = {}
    /\ refunds = {}
    /\ job = [w \in Workers |-> Idle]
    /\ manual = {}

-----------------------------------------------------------------------------
(***************************************************************************)
(* Stripe, seen through the calls the services make.                       *)
(***************************************************************************)

\* A create call under a key Stripe has seen answers with the first object.
CreateOnce(key, s) ==
    IF \E t \in transfers : t.key = key THEN transfers
    ELSE transfers \cup {[key |-> key, sale |-> s]}

\* The buyer gets the Checkout URL once the order is committed.
BuyerPays(o) ==
    /\ session[o] = "open"
    /\ orderStatus[o] # "none"
    /\ \E amount \in {"paid", "mispaid"} : session' = [session EXCEPT ![o] = amount]
    /\ UNCHANGED <<db, lock, account, transfers, reversals, refunds, job, manual>>

SessionExpires(o) ==
    /\ session[o] = "open"
    /\ session' = [session EXCEPT ![o] = "expired"]
    /\ UNCHANGED <<db, lock, account, transfers, reversals, refunds, job, manual>>

\* Onboarding is finished, or Stripe asks the photographer for something more.
AccountChanges(p) ==
    /\ account[p] # "not_connected"
    /\ account' = [account EXCEPT ![p] = IF @ = "active" THEN "inactive" ELSE "active"]
    /\ UNCHANGED <<db, lock, session, transfers, reversals, refunds, job, manual>>

-----------------------------------------------------------------------------
(***************************************************************************)
(* Checkout: the session is created at Stripe before the order commits.    *)
(***************************************************************************)

CreateSession(w, o) ==
    /\ job[w].step = "idle"
    /\ orderStatus[o] = "none"
    /\ session[o] = "none"
    /\ session' = [session EXCEPT ![o] = "open"]
    /\ Takes(w, [Idle EXCEPT !.step = "checkout", !.order = o])
    /\ UNCHANGED <<db, lock, account, transfers, reversals, refunds, manual>>

CommitSession(w) ==
    /\ job[w].step = "checkout"
    /\ orderStatus' = [orderStatus EXCEPT ![job[w].order] = "pending"]
    /\ Takes(w, Idle)
    /\ UNCHANGED <<payout, connect, txns, lock, stripe, manual>>

\* An expired session's order is cancelled under its row lock.
CancelUnpaid(o) ==
    /\ session[o] = "expired"
    /\ lock[o] = None
    /\ orderStatus[o] = "pending"
    /\ orderStatus' = [orderStatus EXCEPT ![o] = "cancelled"]
    /\ UNCHANGED <<payout, connect, txns, lock, stripe, job, manual>>

-----------------------------------------------------------------------------
(***************************************************************************)
(* Fulfilment, started by each delivery of the paid event and by each load *)
(* of the success page.  Locked, the order is re-read; only a pending one  *)
(* goes on, and the lock is held until the request ends.                   *)
(***************************************************************************)

Fulfill(w, o) ==
    /\ job[w].step = "idle"
    /\ Payable(o)
    /\ lock' = [lock EXCEPT ![o] = w]
    /\ Takes(w, [Idle EXCEPT !.step = "fulfill", !.order = o, !.todo = SalesOf(o),
                             !.wrote = [s \in Sales |-> IF s[1] = o THEN "owed" ELSE "same"]])
    /\ UNCHANGED <<db, stripe, manual>>

\* Another amount or currency was paid: recorded, and the order stays pending.
FulfillMismatch(o) ==
    /\ session[o] = "mispaid"
    /\ lock[o] = None
    /\ orderStatus[o] = "pending"
    /\ Records(o, [txns[o] EXCEPT !.mismatch = TRUE])
    /\ UNCHANGED <<orderStatus, payout, connect, lock, stripe, job, manual>>

\* _transfer: the share is sent under a key of the order and the photographer.
Transfer(w, s) ==
    \E reply \in Outcomes :
        LET status == IF Amount[s] = 0 THEN job[w].wrote[s]
                      ELSE IF reply = "ok" THEN "transferred" ELSE "failed"
        IN  /\ transfers' = IF Amount[s] = 0 \/ reply = "refused" THEN transfers
                            ELSE CreateOnce(TransferKey(w, s), s)
            /\ Takes(w, [job[w] EXCEPT !.todo = @ \ {s}, !.sending = None,
                                       !.wrote = [@ EXCEPT ![s] = status]])

\* settle_order: a photographer who is not active now stays owed.
SettleShare(w, s) ==
    /\ job[w].step = "fulfill"
    /\ s \in job[w].todo
    /\ \/ connect[s[2]] = "active" /\ Transfer(w, s)
       \/ /\ connect[s[2]] # "active"
          /\ Takes(w, [job[w] EXCEPT !.todo = @ \ {s}])
          /\ UNCHANGED transfers
    /\ UNCHANGED <<db, lock, session, account, reversals, refunds, manual>>

CommitFulfill(w) ==
    /\ job[w].step = "fulfill"
    /\ job[w].todo = {}
    /\ orderStatus' = [orderStatus EXCEPT ![job[w].order] = "captured"]
    /\ payout' = Written(w)
    /\ Records(job[w].order, [txns[job[w].order] EXCEPT !.capture = @ + 1])
    /\ lock' = Unlocked(w)
    /\ Takes(w, Idle)
    /\ UNCHANGED <<connect, stripe, manual>>

-----------------------------------------------------------------------------
(***************************************************************************)
(* Refund by an administrator.  The order's status is checked without a    *)
(* lock, before the call to Stripe.                                        *)
(***************************************************************************)

Refund(w, o) ==
    /\ job[w].step = "idle"
    /\ Refundable(o)
    /\ Takes(w, [Idle EXCEPT !.step = "refund", !.order = o])
    /\ UNCHANGED <<db, lock, stripe, manual>>

\* An error raises: the request ends and its transaction is rolled back.
StripeRefund(w) ==
    /\ job[w].step = "refund"
    /\ \E reply \in Outcomes :
         /\ refunds' = IF reply = "refused" THEN refunds ELSE refunds \cup {job[w].order}
         /\ Takes(w, IF Raises(reply) THEN Idle ELSE [job[w] EXCEPT !.step = "update"])
    /\ UNCHANGED <<db, lock, session, account, transfers, reversals, manual>>

\* update_order_status, which writes (and so locks) the row unless it read it as
\* REFUNDED already, and reverse_order's reading of the purchases.
UpdateRefunded(w) ==
    LET o == job[w].order IN
    /\ job[w].step = "update"
    /\ \/ orderStatus[o] = "refunded" /\ UNCHANGED lock
       \/ lock[o] = None /\ lock' = [lock EXCEPT ![o] = w]
    /\ Takes(w, [job[w] EXCEPT
                   !.step = "reverse",
                   !.todo = {s \in SalesOf(o) : payout[s] = "transferred"},
                   !.wrote = [s \in Sales |->
                       IF s[1] = o /\ Cancels(payout[s]) THEN "cancelled" ELSE "same"]])
    /\ UNCHANGED <<db, stripe, manual>>

\* A reversal that fails is logged, and the share stays transferred.
ReverseTransfer(w, s) ==
    /\ job[w].step = "reverse"
    /\ s \in job[w].todo
    /\ \E reply \in Outcomes :
         /\ reversals' = IF reply = "refused" THEN reversals ELSE reversals \cup {s}
         /\ manual' = IF reply = "ok" THEN manual ELSE manual \cup {s}
         /\ Takes(w, [job[w] EXCEPT
                        !.todo = @ \ {s},
                        !.wrote = IF reply = "ok" THEN [@ EXCEPT ![s] = "reversed"] ELSE @])
    /\ UNCHANGED <<db, lock, session, account, transfers, refunds>>

CommitRefund(w) ==
    /\ job[w].step = "reverse"
    /\ job[w].todo = {}
    /\ orderStatus' = [orderStatus EXCEPT ![job[w].order] = "refunded"]
    /\ payout' = Written(w)
    /\ Records(job[w].order, [txns[job[w].order] EXCEPT !.refund = @ + 1])
    /\ lock' = Unlocked(w)
    /\ Takes(w, Idle)
    /\ UNCHANGED <<connect, stripe, manual>>

-----------------------------------------------------------------------------
(***************************************************************************)
(* Connect: the photographer's account is read back from Stripe, and when  *)
(* it is active everything owed to them is sent, order by order.           *)
(***************************************************************************)

\* A first onboarding link creates the account; its form is still to fill in.
Connect(p) ==
    /\ connect[p] = "not_connected"
    /\ connect' = [connect EXCEPT ![p] = "inactive"]
    /\ account' = [account EXCEPT ![p] = "inactive"]
    /\ UNCHANGED <<orderStatus, payout, txns, lock, session, transfers, reversals, refunds, job, manual>>

\* The photographer row is loaded, by the account page or by an account event.
RefreshStatus(w, p) ==
    /\ job[w].step = "idle"
    /\ connect[p] # "not_connected"
    /\ Takes(w, [Idle EXCEPT !.step = "retrieve", !.who = p,
                             !.loaded = connect[p], !.seen = connect[p]])
    /\ UNCHANGED <<db, lock, stripe, manual>>

RetrieveAccount(w) ==
    LET now == account[job[w].who] IN
    /\ job[w].step = "retrieve"
    /\ Takes(w, [job[w] EXCEPT !.seen = now,
                               !.step = IF Settles(now) THEN "collect" ELSE "settle"])
    /\ UNCHANGED <<db, lock, stripe, manual>>

\* settle_photographer: the purchases to settle, as committed by now.
CollectOwed(w) ==
    /\ job[w].step = "collect"
    /\ Takes(w, [job[w] EXCEPT !.step = "settle",
                               !.todo = {s \in SalesBy(job[w].who) : Collected(s)}])
    /\ UNCHANGED <<db, lock, stripe, manual>>

\* The next order is loaded; one that is not captured is left alone.
CheckOrder(w, s) ==
    /\ job[w].step = "settle"
    /\ job[w].sending = None
    /\ s \in job[w].todo
    /\ Takes(w, IF orderStatus[s[1]] = "captured" THEN [job[w] EXCEPT !.sending = s]
                ELSE [job[w] EXCEPT !.todo = @ \ {s}])
    /\ UNCHANGED <<db, lock, stripe, manual>>

SendOwed(w) ==
    /\ job[w].step = "settle"
    /\ job[w].sending # None
    /\ Transfer(w, job[w].sending)
    /\ UNCHANGED <<db, lock, session, account, reversals, refunds, manual>>

\* The saved columns are written only where they differ from the row as loaded.
CommitRefresh(w) ==
    /\ job[w].step = "settle"
    /\ job[w].todo = {}
    /\ connect' = IF job[w].seen = job[w].loaded THEN connect
                  ELSE [connect EXCEPT ![job[w].who] = job[w].seen]
    /\ payout' = Written(w)
    /\ Takes(w, Idle)
    /\ UNCHANGED <<orderStatus, txns, lock, stripe, manual>>

-----------------------------------------------------------------------------
\* get_db's rollback: the handler raised, or the process died before the COMMIT.
Rollback(w) ==
    /\ job[w].step # "idle"
    /\ lock' = Unlocked(w)
    /\ Takes(w, Idle)
    /\ UNCHANGED <<db, stripe, manual>>

OrderNext(o) ==
    \/ BuyerPays(o) \/ SessionExpires(o)
    \/ CancelUnpaid(o) \/ FulfillMismatch(o)

PhotographerNext(p) == AccountChanges(p) \/ Connect(p)

RequestArrives(w) ==
    \/ \E o \in Orders : CreateSession(w, o) \/ Fulfill(w, o) \/ Refund(w, o)
    \/ \E p \in Photographers : RefreshStatus(w, p)

RequestStep(w) ==
    \/ CommitSession(w)
    \/ (\E s \in Sales : SettleShare(w, s)) \/ CommitFulfill(w)
    \/ StripeRefund(w) \/ UpdateRefunded(w)
    \/ (\E s \in Sales : ReverseTransfer(w, s)) \/ CommitRefund(w)
    \/ RetrieveAccount(w) \/ CollectOwed(w)
    \/ (\E s \in Sales : CheckOrder(w, s)) \/ SendOwed(w) \/ CommitRefresh(w)

Next ==
    \/ \E o \in Orders : OrderNext(o)
    \/ \E p \in Photographers : PhotographerNext(p)
    \/ \E w \in Workers : RequestArrives(w) \/ RequestStep(w) \/ Rollback(w)

Spec == Init /\ [][Next]_vars
-----------------------------------------------------------------------------
(***************************************************************************)
(* Properties                                                              *)
(***************************************************************************)

Jobs == [step : Steps, order : Orders \cup {None}, who : Photographers \cup {None},
         loaded : ConnectStatus, seen : ConnectStatus, todo : SUBSET Sales,
         sending : Sales \cup {None}, wrote : [Sales -> PayoutStatus \cup {"same"}]]

\* The type invariant.
TypeOK ==
    /\ orderStatus \in [Orders -> OrderStatus]
    /\ payout \in [Sales -> PayoutStatus]
    /\ connect \in [Photographers -> ConnectStatus]
    /\ txns \in [Orders -> [capture : Nat, refund : Nat, mismatch : BOOLEAN]]
    /\ lock \in [Orders -> Workers \cup {None}]
    /\ session \in [Orders -> SessionState]
    /\ account \in [Photographers -> ConnectStatus]
    /\ transfers \subseteq [key : Sales, sale : Sales]
    /\ reversals \subseteq Sales
    /\ refunds \subseteq Orders
    /\ job \in [Workers -> Jobs]
    /\ manual \subseteq Sales

Paid(o) == orderStatus[o] \in {"captured", "refunded"}

\* A paid order is fulfilled once, however often the webhook and the success
\* page ask for it ("Safe to call twice", CheckoutService.fulfill).
OneCapture == \A o \in Orders : txns[o].capture = IF Paid(o) THEN 1 ELSE 0

\* A photographer is sent one transfer per order, across concurrent settles,
\* lost replies and rolled-back requests (PayoutService._transfer).
OneTransferPerShare ==
    \A t, u \in transfers : t.sale = u.sale => t = u

\* Nothing is sent to photographers for an order whose buyer has not paid it in
\* full, even by a request that is rolled back later (fulfill's early returns).
MoneyOutAfterMoneyIn == \A t \in transfers : session[t.sale[1]] = "paid"

\* A share recorded as transferred was transferred and one recorded as reversed
\* was reversed, whichever of two settling requests commits last.
BooksMatchStripe ==
    \A s \in Sales :
        /\ payout[s] \in {"transferred", "reversed"} => \E t \in transfers : t.sale = s
        /\ payout[s] = "reversed" => s \in reversals

\* A photographer's transfer is taken back only after the buyer has their money
\* (refund calls reverse_order last).
ReversalNeedsRefund == \A s \in reversals : s[1] \in refunds

\* Shares are on the books exactly for the orders that were captured, and only
\* a refund cancels or reverses them (fulfill and refund commit as a whole).
SharesFollowOrder ==
    \A s \in Sales :
        /\ payout[s] = "none" <=> ~Paid(s[1])
        /\ payout[s] \in {"cancelled", "reversed"} => orderStatus[s[1]] = "refunded"

\* The service keeps the promise of OrderLifecycle.
Lifecycle == INSTANCE OrderLifecycle WITH status <- orderStatus
ImplementsLifecycle == Lifecycle!Spec

(***************************************************************************)
(* Why these hold: what a request can rely on while it runs, although all  *)
(* others run beside it.  Inv is inductive, and implies the invariants     *)
(* above.                                                                  *)
(***************************************************************************)
Sent(s) == \E t \in transfers : t.sale = s

\* Stripe and the orders table agree on each order.
OrdersOK ==
    \A o \in Orders :
        /\ Paid(o) => session[o] = "paid"
        /\ orderStatus[o] = "refunded" => o \in refunds
        /\ o \in refunds => Paid(o)
        /\ orderStatus[o] # "none" => session[o] # "none"

\* Transfers carry the key of their sale, and were made for paid sessions.
TransfersOK ==
    /\ \A t \in transfers : t.key = t.sale /\ session[t.sale[1]] = "paid"
    /\ \A s \in reversals : s[1] \in refunds

\* A checkout is the only one for its order, which no one else sees yet.
CheckoutOK(w) ==
    job[w].step = "checkout" =>
        /\ job[w].order \in Orders
        /\ orderStatus[job[w].order] = "none"
        /\ session[job[w].order] \in {"open", "expired"}
        /\ \A v \in Workers : job[v].step = "checkout" /\ job[v].order = job[w].order => v = w

\* A fulfilment holds the lock of a pending, paid order and writes its shares.
FulfillOK(w) ==
    job[w].step = "fulfill" =>
        /\ job[w].order \in Orders
        /\ lock[job[w].order] = w
        /\ orderStatus[job[w].order] = "pending"
        /\ session[job[w].order] = "paid"
        /\ \A s \in job[w].todo : s[1] = job[w].order
        /\ \A s \in Sales :
             /\ s[1] = job[w].order => job[w].wrote[s] \in {"owed", "failed", "transferred"}
             /\ s[1] # job[w].order => job[w].wrote[s] = "same"

\* A refund works on an order that was captured, and once Stripe has refunded
\* it, only on the shares of that order.
RefundOK(w) ==
    job[w].step \in {"refund", "update", "reverse"} =>
        /\ job[w].order \in Orders
        /\ Paid(job[w].order)
        /\ job[w].step # "refund" => job[w].order \in refunds
        /\ job[w].step = "reverse" =>
             /\ \A s \in job[w].todo : s[1] = job[w].order /\ Sent(s)
             /\ \A s \in Sales :
                  /\ job[w].wrote[s] \in {"same", "cancelled", "reversed"}
                  /\ job[w].wrote[s] # "same" => s[1] = job[w].order
                  /\ job[w].wrote[s] = "reversed" => s \in reversals

\* A refresh sends and writes only shares of paid orders.
SettleOK(w) ==
    job[w].step \in {"retrieve", "collect", "settle"} =>
        /\ job[w].who \in Photographers
        /\ \A s \in job[w].todo \cup ({job[w].sending} \ {None}) : Paid(s[1])
        /\ \A s \in Sales :
             /\ job[w].wrote[s] \in {"same", "failed", "transferred"}
             /\ job[w].wrote[s] # "same" => Paid(s[1])

\* What a request is about to record as sent was sent.
WroteOK(w) == \A s \in Sales : job[w].wrote[s] \in {"transferred", "reversed"} => Sent(s)

JobOK(w) == CheckoutOK(w) /\ FulfillOK(w) /\ RefundOK(w) /\ SettleOK(w) /\ WroteOK(w)

JobsOK == \A w \in Workers : JobOK(w)

Inv ==
    /\ TypeOK /\ OrdersOK /\ TransfersOK /\ JobsOK
    /\ OneCapture /\ BooksMatchStripe /\ SharesFollowOrder

(***************************************************************************)
(* True until two requests overlap (PaymentsOverlap), and false after.      *)
(***************************************************************************)

\* payout_service.py's life of a share: owed or failed until transferred,
\* transferred until reversed, cancelled and reversed for good.
PayoutMove ==
    \A s \in Sales :
        \/ payout'[s] = payout[s]
        \/ payout[s] = "none"
        \/ payout[s] \in ToSettle /\ payout'[s] \in {"owed", "failed", "transferred", "cancelled"}
        \/ payout[s] = "transferred" /\ payout'[s] = "reversed"

\* A refund takes every share back: cancelled, or reversed, or left transferred
\* with a failed reversal in the log (reverse_order).
RefundTakesSharesBack ==
    \A s \in Sales :
        orderStatus[s[1]] = "refunded" =>
            \/ payout[s] \in {"cancelled", "reversed"}
            \/ payout[s] = "transferred" /\ s \in manual

\* A share that waits for its photographer's account does not stay owed once
\* the account is active (settle_order and settle_photographer between them).
NoStrandedShare ==
    \A s \in Sales :
        payout[s] = "owed" /\ Amount[s] > 0 => connect[s[2]] # "active"

\* A share is cancelled only if it was never sent (reverse_order).
CancelledNeverSent ==
    \A s \in Sales : payout[s] = "cancelled" => ~\E t \in transfers : t.sale = s

(***************************************************************************)
(* Liveness.  Requests that do not die go on; Stripe delivers the event    *)
(* until it is acknowledged and the success page asks again, so fulfilment *)
(* is retried; and from some time on fulfilments end with their COMMIT.    *)
(***************************************************************************)
FulfillmentsSurvive ==
    <>[][\A w \in Workers :
            job[w].step = "fulfill" /\ job'[w].step = "idle" => CommitFulfill(w)]_vars

Fairness ==
    /\ \A w \in Workers : WF_vars(RequestStep(w))
    /\ \A o \in Orders : SF_vars(\E w \in Workers : Fulfill(w, o))
    /\ FulfillmentsSurvive

FairSpec == Spec /\ Fairness

\* A payment in full for a pending order ends in a captured order.
PaidIsCaptured ==
    \A o \in Orders : session[o] = "paid" ~> Paid(o)
=============================================================================
