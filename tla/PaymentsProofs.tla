--------------------------- MODULE PaymentsProofs ---------------------------
(* Theorems about Payments, for every set of orders, sellers and requests. *)
EXTENDS Payments, TLAPS

(***************************************************************************)
(* Type correctness.                                                       *)
(***************************************************************************)

LEMMA IdleIsJob == Idle \in Jobs
  BY ConstantsAssumption DEF Idle, Jobs, NoWrites, Steps, ConnectStatus

\* What a COMMIT writes is a payout status for every sale.
LEMMA WrittenType ==
  ASSUME TypeOK, NEW w \in Workers
  PROVE  Written(w) \in [Sales -> PayoutStatus]
  BY DEF TypeOK, Written, Jobs

LEMMA UnlockedType ==
  ASSUME TypeOK, NEW w \in Workers
  PROVE  Unlocked(w) \in [Orders -> Workers \cup {None}]
  BY DEF TypeOK, Unlocked

LEMMA TakesType ==
  ASSUME TypeOK, NEW w \in Workers, NEW j \in Jobs, Takes(w, j)
  PROVE  job' \in [Workers -> Jobs]
  BY DEF TypeOK, Takes

\* One transfer leaves a job and a set of transfers.
LEMMA TransferType ==
  ASSUME TypeOK, NEW w \in Workers, NEW s \in Sales, Transfer(w, s)
  PROVE  /\ job' \in [Workers -> Jobs]
         /\ transfers' \subseteq [key : Sales, sale : Sales]
  <1>1. transfers' \subseteq [key : Sales, sale : Sales]
    BY DEF Transfer, TypeOK, CreateOnce, TransferKey
  <1>2. job[w] \in Jobs
    BY DEF TypeOK
  <1>3. ASSUME NEW st \in PayoutStatus \cup {"same"}
        PROVE  [job[w] EXCEPT !.todo = @ \ {s}, !.sending = None,
                              !.wrote = [@ EXCEPT ![s] = st]] \in Jobs
    BY <1>2 DEF Jobs
  <1>4. PICK st \in PayoutStatus \cup {"same"} :
          Takes(w, [job[w] EXCEPT !.todo = @ \ {s}, !.sending = None,
                                  !.wrote = [@ EXCEPT ![s] = st]])
    <2>1. job[w].wrote[s] \in PayoutStatus \cup {"same"}
      BY <1>2 DEF Jobs
    <2> QED BY <2>1 DEF Transfer, PayoutStatus
  <1> QED BY <1>1, <1>3, <1>4, TakesType

LEMMA RecordsType ==
  ASSUME TypeOK, NEW o \in Orders,
         NEW rows \in [capture : Nat, refund : Nat, mismatch : BOOLEAN], Records(o, rows)
  PROVE  txns' \in [Orders -> [capture : Nat, refund : Nat, mismatch : BOOLEAN]]
  BY DEF TypeOK, Records

LEMMA CountedType ==
  ASSUME TypeOK, NEW o \in Orders
  PROVE  /\ [txns[o] EXCEPT !.capture = @ + 1] \in [capture : Nat, refund : Nat, mismatch : BOOLEAN]
         /\ [txns[o] EXCEPT !.refund = @ + 1] \in [capture : Nat, refund : Nat, mismatch : BOOLEAN]
  <1>1. txns[o] \in [capture : Nat, refund : Nat, mismatch : BOOLEAN]
    BY DEF TypeOK
  <1> QED BY <1>1

\* A step of Next keeps every variable in its type.
LEMMA TypeStep == TypeOK /\ JobsOK /\ [Next]_vars => TypeOK'
  <1> SUFFICES ASSUME TypeOK, JobsOK, [Next]_vars
               PROVE  TypeOK'
    OBVIOUS
  <1> USE DEF TypeOK, db, stripe
  <1>1. ASSUME NEW o \in Orders, OrderNext(o)
        PROVE  TypeOK'
    <2>1. CASE FulfillMismatch(o)
      <3>1. [txns[o] EXCEPT !.mismatch = TRUE] \in [capture : Nat, refund : Nat, mismatch : BOOLEAN]
        OBVIOUS
      <3> QED BY <2>1, <3>1, RecordsType DEF FulfillMismatch
    <2>2. CASE BuyerPays(o) \/ SessionExpires(o) \/ CancelUnpaid(o)
      BY <2>2 DEF BuyerPays, SessionExpires, CancelUnpaid, SessionState, OrderStatus
    <2> QED BY <1>1, <2>1, <2>2 DEF OrderNext
  <1>2. ASSUME NEW p \in Photographers, PhotographerNext(p)
        PROVE  TypeOK'
    BY <1>2 DEF PhotographerNext, AccountChanges, Connect, ConnectStatus
  <1>3. ASSUME NEW w \in Workers, NEW o \in Orders,
               CreateSession(w, o) \/ Fulfill(w, o) \/ Refund(w, o)
        PROVE  TypeOK'
    <2>1. CASE CreateSession(w, o)
      <3>1. [Idle EXCEPT !.step = "checkout", !.order = o] \in Jobs
        BY IdleIsJob DEF Jobs, Steps
      <3> QED BY <2>1, <3>1, TakesType DEF CreateSession, SessionState
    <2>2. CASE Fulfill(w, o)
      <3>1. [Idle EXCEPT !.step = "fulfill", !.order = o, !.todo = SalesOf(o),
                         !.wrote = [s \in Sales |-> IF s[1] = o THEN "owed" ELSE "same"]] \in Jobs
        BY IdleIsJob DEF Jobs, Steps, SalesOf, PayoutStatus
      <3> QED BY <2>2, <3>1, TakesType DEF Fulfill
    <2>3. CASE Refund(w, o)
      <3>1. [Idle EXCEPT !.step = "refund", !.order = o] \in Jobs
        BY IdleIsJob DEF Jobs, Steps
      <3> QED BY <2>3, <3>1, TakesType DEF Refund
    <2> QED BY <1>3, <2>1, <2>2, <2>3
  <1>4. ASSUME NEW w \in Workers, NEW p \in Photographers, RefreshStatus(w, p)
        PROVE  TypeOK'
    <2>1. [Idle EXCEPT !.step = "retrieve", !.who = p,
                       !.loaded = connect[p], !.seen = connect[p]] \in Jobs
      BY IdleIsJob DEF Jobs, Steps
    <2> QED BY <1>4, <2>1, TakesType DEF RefreshStatus
  <1>5. ASSUME NEW w \in Workers, RequestStep(w)
        PROVE  TypeOK'
    <2> job[w] \in Jobs
      OBVIOUS
    <2>1. CASE CommitSession(w)
      <3>1. [orderStatus EXCEPT ![job[w].order] = "pending"] \in [Orders -> OrderStatus]
        BY DEF OrderStatus
      <3> QED BY <2>1, <3>1, IdleIsJob, TakesType DEF CommitSession
    <2>2. ASSUME NEW s \in Sales, SettleShare(w, s)
          PROVE  TypeOK'
      <3>1. CASE Transfer(w, s)
        BY <2>2, <3>1, TransferType DEF SettleShare
      <3>2. CASE Takes(w, [job[w] EXCEPT !.todo = @ \ {s}]) /\ UNCHANGED transfers
        <4>1. [job[w] EXCEPT !.todo = @ \ {s}] \in Jobs
          BY DEF Jobs
        <4> QED BY <2>2, <3>2, <4>1, TakesType DEF SettleShare
      <3> QED BY <2>2, <3>1, <3>2 DEF SettleShare
    <2>3. CASE CommitFulfill(w)
      <3>1. [orderStatus EXCEPT ![job[w].order] = "captured"] \in [Orders -> OrderStatus]
        BY DEF OrderStatus
      <3>2. job[w].order \in Orders
        BY <2>3 DEF CommitFulfill, JobsOK, JobOK, FulfillOK
      <3>3. [txns[job[w].order] EXCEPT !.capture = @ + 1]
              \in [capture : Nat, refund : Nat, mismatch : BOOLEAN]
        BY <3>2, CountedType
      <3> QED BY <2>3, <3>1, <3>2, <3>3, RecordsType, WrittenType, UnlockedType, IdleIsJob, TakesType
              DEF CommitFulfill
    <2>4. CASE StripeRefund(w)
      <3>1. [job[w] EXCEPT !.step = "update"] \in Jobs
        BY DEF Jobs, Steps
      <3>2. job[w].order \in Orders
        BY <2>4 DEF StripeRefund, JobsOK, JobOK, RefundOK
      <3>3. refunds' \subseteq Orders
        BY <2>4, <3>2 DEF StripeRefund
      <3>4. \E j \in Jobs : Takes(w, j)
        BY <2>4, <3>1, IdleIsJob DEF StripeRefund
      <3> QED BY <2>4, <3>3, <3>4, TakesType DEF StripeRefund
    <2>5. CASE UpdateRefunded(w)
      <3> DEFINE o == job[w].order
                 j == [job[w] EXCEPT
                         !.step = "reverse",
                         !.todo = {s \in SalesOf(o) : payout[s] = "transferred"},
                         !.wrote = [s \in Sales |->
                             IF s[1] = o /\ Cancels(payout[s]) THEN "cancelled" ELSE "same"]]
      <3>1. j \in Jobs
        BY DEF Jobs, Steps, SalesOf, PayoutStatus
      <3>2. Takes(w, j)
        BY <2>5 DEF UpdateRefunded
      <3>3. job' \in [Workers -> Jobs]
        BY <3>1, <3>2, TakesType
      <3>4. lock' \in [Orders -> Workers \cup {None}]
        BY <2>5 DEF UpdateRefunded
      <3> QED BY <2>5, <3>3, <3>4 DEF UpdateRefunded
    <2>6. ASSUME NEW s \in Sales, ReverseTransfer(w, s)
          PROVE  TypeOK'
      <3> PICK reply \in Outcomes : ReverseTransfer(w, s)!3!(reply)
        BY <2>6 DEF ReverseTransfer
      <3>1. [job[w] EXCEPT !.todo = @ \ {s},
                           !.wrote = IF reply = "ok" THEN [@ EXCEPT ![s] = "reversed"] ELSE @] \in Jobs
        BY DEF Jobs, PayoutStatus
      <3>2. job' \in [Workers -> Jobs]
        BY <3>1, TakesType
      <3> QED BY <2>6, <3>2 DEF ReverseTransfer
    <2>7. CASE CommitRefund(w)
      <3>1. [orderStatus EXCEPT ![job[w].order] = "refunded"] \in [Orders -> OrderStatus]
        BY DEF OrderStatus
      <3>2. job[w].order \in Orders
        BY <2>7 DEF CommitRefund, JobsOK, JobOK, RefundOK
      <3>3. [txns[job[w].order] EXCEPT !.refund = @ + 1]
              \in [capture : Nat, refund : Nat, mismatch : BOOLEAN]
        BY <3>2, CountedType
      <3> QED BY <2>7, <3>1, <3>2, <3>3, RecordsType, WrittenType, UnlockedType, IdleIsJob, TakesType
              DEF CommitRefund
    <2>8. CASE RetrieveAccount(w)
      <3>1. job[w].who \in Photographers
        BY <2>8 DEF RetrieveAccount, JobsOK, JobOK, SettleOK
      <3>2. [job[w] EXCEPT !.seen = account[job[w].who],
                           !.step = IF Settles(account[job[w].who]) THEN "collect" ELSE "settle"] \in Jobs
        BY <3>1 DEF Jobs, Steps
      <3> QED BY <2>8, <3>2, TakesType DEF RetrieveAccount
    <2>9. CASE CollectOwed(w)
      <3>1. [job[w] EXCEPT !.step = "settle",
                           !.todo = {s \in SalesBy(job[w].who) : Collected(s)}] \in Jobs
        BY DEF Jobs, Steps, SalesBy
      <3> QED BY <2>9, <3>1, TakesType DEF CollectOwed
    <2>10. ASSUME NEW s \in Sales, CheckOrder(w, s)
           PROVE  TypeOK'
      <3>1. /\ [job[w] EXCEPT !.sending = s] \in Jobs
            /\ [job[w] EXCEPT !.todo = @ \ {s}] \in Jobs
        BY DEF Jobs
      <3>2. \E j \in Jobs : Takes(w, j)
        BY <2>10, <3>1 DEF CheckOrder
      <3> QED BY <2>10, <3>2, TakesType DEF CheckOrder
    <2>11. CASE SendOwed(w)
      <3>1. job[w].sending \in Sales
        BY <2>11 DEF SendOwed, Jobs
      <3> QED BY <2>11, <3>1, TransferType DEF SendOwed
    <2>12. CASE CommitRefresh(w)
      <3>1. connect' \in [Photographers -> ConnectStatus]
        BY <2>12 DEF CommitRefresh, Jobs
      <3> QED BY <2>12, <3>1, WrittenType, IdleIsJob, TakesType DEF CommitRefresh
    <2> QED BY <1>5, <2>1, <2>2, <2>3, <2>4, <2>5, <2>6, <2>7, <2>8, <2>9, <2>10, <2>11, <2>12
            DEF RequestStep
  <1>6. ASSUME NEW w \in Workers, Rollback(w)
        PROVE  TypeOK'
    BY <1>6, UnlockedType, IdleIsJob, TakesType DEF Rollback
  <1>7. CASE UNCHANGED vars
    BY <1>7 DEF vars
  <1> QED BY <1>1, <1>2, <1>3, <1>4, <1>5, <1>6, <1>7 DEF Next, RequestArrives

-----------------------------------------------------------------------------
(***************************************************************************)
(* What every request relies on is kept by the steps of the others.        *)
(***************************************************************************)

\* A finished request relies on nothing.
LEMMA IdleOK ==
  ASSUME NEW w \in Workers, job'[w] = Idle
  PROVE  JobOK(w)'
  BY DEF JobOK, CheckoutOK, FulfillOK, RefundOK, SettleOK, WroteOK, Idle, NoWrites

\* What a step that leaves v alone must not disturb.
LEMMA Frame ==
  ASSUME NEW v \in Workers, TypeOK, JobOK(v), job'[v] = job[v],
         transfers \subseteq transfers', reversals \subseteq reversals', refunds \subseteq refunds',
         \A o \in Orders : Paid(o) => Paid(o)',
         job[v].step = "checkout" =>
            /\ orderStatus'[job[v].order] = "none"
            /\ session'[job[v].order] \in {"open", "expired"}
            /\ \A u \in Workers : job'[u].step = "checkout" /\ job'[u].order = job[v].order => u = v,
         job[v].step = "fulfill" =>
            /\ lock'[job[v].order] = v
            /\ orderStatus'[job[v].order] = "pending"
            /\ session'[job[v].order] = "paid"
  PROVE  JobOK(v)'
  <1> job[v] \in Jobs
    BY DEF TypeOK
  <1>1. CheckoutOK(v)'
    BY DEF JobOK, CheckoutOK
  <1>2. FulfillOK(v)'
    BY DEF JobOK, FulfillOK
  <1>3. \A s \in Sales : Sent(s) => Sent(s)'
    BY DEF Sent
  <1>4. RefundOK(v)'
    BY <1>3 DEF JobOK, RefundOK, Jobs
  <1>5. SettleOK(v)'
    BY ConstantsAssumption DEF JobOK, SettleOK, Jobs
  <1>6. WroteOK(v)'
    BY <1>3 DEF JobOK, WroteOK
  <1> QED BY <1>1, <1>2, <1>4, <1>5, <1>6 DEF JobOK

\* Taking on a job concerns one worker.
LEMMA TakesOne ==
  ASSUME TypeOK, NEW w \in Workers, NEW j, Takes(w, j)
  PROVE  job'[w] = j /\ \A u \in Workers \ {w} : job'[u] = job[u]
  BY DEF TypeOK, Takes

\* A request that leaves every order as it is, and takes no lock but a free one.
LEMMA QuietStep ==
  ASSUME TypeOK, JobsOK, NEW w \in Workers, NEW j, Takes(w, j), j.step # "checkout",
         UNCHANGED <<orderStatus, session>>,
         \A o \in Orders : lock[o] \in Workers \ {w} => lock'[o] = lock[o],
         transfers \subseteq transfers', reversals \subseteq reversals', refunds \subseteq refunds',
         JobOK(w)'
  PROVE  JobsOK'
  <1> SUFFICES ASSUME NEW v \in Workers, v # w
               PROVE  JobOK(v)'
    BY DEF JobsOK
  <1>1. job'[v] = job[v] /\ job'[w] = j
    BY TakesOne
  <1>2. JobOK(v) /\ \A u \in Workers \ {w} : job'[u] = job[u]
    BY TakesOne DEF JobsOK
  <1>3. \A o \in Orders : Paid(o) => Paid(o)'
    BY DEF Paid
  <1>4. job[v].step = "checkout" =>
            /\ orderStatus'[job[v].order] = "none"
            /\ session'[job[v].order] \in {"open", "expired"}
            /\ \A u \in Workers : job'[u].step = "checkout" /\ job'[u].order = job[v].order => u = v
    BY <1>1, <1>2 DEF JobOK, CheckoutOK
  <1>5. job[v].step = "fulfill" =>
            /\ lock'[job[v].order] = v
            /\ orderStatus'[job[v].order] = "pending"
            /\ session'[job[v].order] = "paid"
    BY <1>2 DEF JobOK, FulfillOK
  <1> QED BY <1>1, <1>2, <1>3, <1>4, <1>5, Frame

\* A request that ends, and leaves every order as it is.
LEMMA QuietEnd ==
  ASSUME TypeOK, JobsOK, NEW w \in Workers, Takes(w, Idle),
         UNCHANGED <<orderStatus, session, transfers, reversals, refunds>>,
         lock' = lock \/ lock' = Unlocked(w)
  PROVE  JobsOK'
  <1>1. JobOK(w)'
    BY TakesOne, IdleOK
  <1>2. \A o \in Orders : lock[o] \in Workers \ {w} => lock'[o] = lock[o]
    BY DEF Unlocked
  <1> QED BY <1>1, <1>2, QuietStep DEF Idle

\* What one transfer does.
LEMMA TransferDoes ==
  ASSUME TypeOK, TransfersOK, NEW w \in Workers, NEW s \in Sales, Transfer(w, s)
  PROVE  /\ \E st \in {job[w].wrote[s], "transferred", "failed"} :
              /\ st = "transferred" => st = job[w].wrote[s] \/ Sent(s)'
              /\ Takes(w, [job[w] EXCEPT !.todo = @ \ {s}, !.sending = None,
                                         !.wrote = [@ EXCEPT ![s] = st]])
         /\ transfers \subseteq transfers'
         /\ transfers' \subseteq transfers \cup {[key |-> s, sale |-> s]}
  <1> PICK reply \in Outcomes : Transfer(w, s)!(reply)
    BY DEF Transfer
  <1>1. transfers \subseteq transfers' /\ transfers' \subseteq transfers \cup {[key |-> s, sale |-> s]}
    BY DEF CreateOnce, TransferKey
  <1>2. ASSUME Amount[s] # 0, reply # "refused"
        PROVE  Sent(s)'
    <2>1. transfers' = CreateOnce(s, s)
      BY <1>2 DEF TransferKey
    <2>2. CASE \E t \in transfers : t.key = s
      <3>1. PICK t \in transfers : t.key = s
        BY <2>2
      <3>2. t.sale = s /\ t \in transfers'
        BY <2>1, <3>1 DEF CreateOnce, TransfersOK
      <3> QED BY <3>2 DEF Sent
    <2>3. CASE ~\E t \in transfers : t.key = s
      <3>1. [key |-> s, sale |-> s] \in transfers'
        BY <2>1, <2>3 DEF CreateOnce
      <3> QED BY <3>1 DEF Sent
    <2> QED BY <2>2, <2>3
  <1> DEFINE st == IF Amount[s] = 0 THEN job[w].wrote[s]
                   ELSE IF reply = "ok" THEN "transferred" ELSE "failed"
  <1>3. st \in {job[w].wrote[s], "transferred", "failed"}
    OBVIOUS
  <1>4. st = "transferred" => st = job[w].wrote[s] \/ Sent(s)'
    BY <1>2
  <1>5. Takes(w, [job[w] EXCEPT !.todo = @ \ {s}, !.sending = None, !.wrote = [@ EXCEPT ![s] = st]])
    OBVIOUS
  <1> QED BY <1>1, <1>3, <1>4, <1>5

\* Requests that start: each acts on a worker that relied on nothing.
LEMMA ArrivalJobs ==
  ASSUME Inv, NEW w \in Workers, RequestArrives(w)
  PROVE  JobsOK'
  <1> USE DEF Inv
  <1>1. ASSUME NEW o \in Orders, CreateSession(w, o)
        PROVE  JobsOK'
    <2> DEFINE j == [Idle EXCEPT !.step = "checkout", !.order = o]
    <2>1. job'[w] = j /\ \A u \in Workers \ {w} : job'[u] = job[u]
      BY <1>1, TakesOne DEF CreateSession
    <2>2. /\ orderStatus[o] = "none" /\ session[o] = "none" /\ job[w].step = "idle"
          /\ session' = [session EXCEPT ![o] = "open"]
          /\ UNCHANGED <<orderStatus, lock, transfers, reversals, refunds>>
      BY <1>1 DEF CreateSession, db
    <2>3. ASSUME NEW v \in Workers, v # w
          PROVE  JobOK(v)'
      <3>1. JobOK(v) /\ job'[v] = job[v]
        BY <2>1, <2>3 DEF JobsOK
      <3>2. \A q \in Orders : Paid(q) => Paid(q)'
        BY <2>2 DEF Paid
      <3>3. job[v].step = "checkout" => job[v].order \in Orders /\ job[v].order # o
        BY <2>2, <3>1 DEF JobOK, CheckoutOK
      <3>4. job[v].step = "checkout" =>
              /\ orderStatus'[job[v].order] = "none"
              /\ session'[job[v].order] \in {"open", "expired"}
              /\ \A u \in Workers : job'[u].step = "checkout" /\ job'[u].order = job[v].order => u = v
        <4> SUFFICES ASSUME job[v].step = "checkout"
                     PROVE  <3>4!2
          OBVIOUS
        <4>1. orderStatus'[job[v].order] = "none" /\ session'[job[v].order] \in {"open", "expired"}
          BY <2>2, <3>1, <3>3 DEF JobOK, CheckoutOK, TypeOK
        <4>2. job'[w].order = o
          BY <2>1 DEF Idle
        <4>3. ASSUME NEW u \in Workers, job'[u].step = "checkout", job'[u].order = job[v].order
              PROVE  u = v
          <5>1. u # w
            BY <3>3, <4>2, <4>3
          <5> QED BY <2>1, <3>1, <4>3, <5>1 DEF JobOK, CheckoutOK
        <4> QED BY <4>1, <4>3
      <3>5. job[v].step = "fulfill" =>
              /\ lock'[job[v].order] = v
              /\ orderStatus'[job[v].order] = "pending"
              /\ session'[job[v].order] = "paid"
        BY <2>2, <3>1 DEF JobOK, FulfillOK, TypeOK
      <3> QED BY <2>2, <3>1, <3>2, <3>4, <3>5, Frame
    <2>4. JobOK(w)'
      <3>1. \A v \in Workers \ {w} : job[v].step = "checkout" => job[v].order # o
        BY <2>2 DEF JobsOK, JobOK, CheckoutOK
      <3>2. CheckoutOK(w)'
        BY <2>1, <2>2, <3>1 DEF CheckoutOK, Idle, TypeOK
      <3> QED BY <2>1, <3>2 DEF JobOK, FulfillOK, RefundOK, SettleOK, WroteOK, Idle, NoWrites
    <2> QED BY <2>3, <2>4 DEF JobsOK
  <1>2. ASSUME NEW o \in Orders, Fulfill(w, o)
        PROVE  JobsOK'
    <2> DEFINE j == [Idle EXCEPT !.step = "fulfill", !.order = o, !.todo = SalesOf(o),
                             !.wrote = [s \in Sales |-> IF s[1] = o THEN "owed" ELSE "same"]]
    <2>1. Takes(w, j)
      BY <1>2 DEF Fulfill
    <2>2. job'[w] = j /\ j.step = "fulfill"
      BY <2>1, TakesOne DEF Idle
    <2>3. FulfillOK(w)'
      <3>1. /\ lock'[o] = w /\ orderStatus'[o] = "pending" /\ session'[o] = "paid"
        BY <1>2 DEF Fulfill, Payable, TypeOK, db, stripe
      <3>2. /\ j.order = o
            /\ \A s \in j.todo : s[1] = o
            /\ \A s \in Sales :
                 /\ s[1] = o => j.wrote[s] = "owed"
                 /\ s[1] # o => j.wrote[s] = "same"
        BY DEF Idle, SalesOf
      <3> HIDE DEF j
      <3> QED BY <2>2, <3>1, <3>2 DEF FulfillOK
    <2>4. WroteOK(w)'
      BY <2>2 DEF WroteOK, Idle
    <2>5. JobOK(w)'
      BY <2>2, <2>3, <2>4 DEF JobOK, CheckoutOK, RefundOK, SettleOK
    <2>6. \A q \in Orders : lock[q] \in Workers \ {w} => lock'[q] = lock[q]
      BY <1>2, ConstantsAssumption DEF Fulfill, Payable
    <2> HIDE DEF j
    <2> QED BY <1>2, <2>1, <2>2, <2>5, <2>6, QuietStep DEF Fulfill, db, stripe
  <1>3. ASSUME NEW o \in Orders, Refund(w, o)
        PROVE  JobsOK'
    <2> DEFINE j == [Idle EXCEPT !.step = "refund", !.order = o]
    <2>1. Takes(w, j)
      BY <1>3 DEF Refund
    <2>2. job'[w] = j /\ j.step = "refund" /\ j.order = o /\ j.wrote = NoWrites
      BY <2>1, TakesOne DEF Idle
    <2>3. Paid(o)'
      BY <1>3 DEF Refund, Refundable, Paid, db
    <2> HIDE DEF j
    <2>4. JobOK(w)'
      BY <2>2, <2>3 DEF JobOK, CheckoutOK, FulfillOK, RefundOK, SettleOK, WroteOK, NoWrites
    <2> QED BY <1>3, <2>1, <2>2, <2>4, QuietStep DEF Refund, db, stripe
  <1>4. ASSUME NEW p \in Photographers, RefreshStatus(w, p)
        PROVE  JobsOK'
    <2> DEFINE j == [Idle EXCEPT !.step = "retrieve", !.who = p,
                             !.loaded = connect[p], !.seen = connect[p]]
    <2>1. Takes(w, j)
      BY <1>4 DEF RefreshStatus
    <2>2. /\ job'[w] = j /\ j.step = "retrieve" /\ j.who = p
          /\ j.wrote = NoWrites /\ j.todo = {} /\ j.sending = None
      BY <2>1, TakesOne DEF Idle
    <2> HIDE DEF j
    <2>3. JobOK(w)'
      BY <2>2 DEF JobOK, CheckoutOK, FulfillOK, RefundOK, SettleOK, WroteOK, NoWrites
    <2> QED BY <1>4, <2>1, <2>2, <2>3, QuietStep DEF RefreshStatus, db, stripe
  <1> QED BY <1>1, <1>2, <1>3, <1>4 DEF RequestArrives

\* Requests that go on, without a COMMIT to an order.
LEMMA SettleShareJobs ==
  ASSUME Inv, NEW w \in Workers, NEW s \in Sales, SettleShare(w, s)
  PROVE  JobsOK'
  <1> USE DEF Inv
  <1>1. JobOK(w) /\ job[w].step = "fulfill" /\ job[w] \in Jobs
    BY DEF SettleShare, JobsOK, TypeOK
  <1>2. UNCHANGED <<orderStatus, session, lock, reversals, refunds>>
    BY DEF SettleShare, db
  <1>3. CASE Transfer(w, s)
    <2>1. PICK st \in {job[w].wrote[s], "transferred", "failed"} :
            /\ st = "transferred" => st = job[w].wrote[s] \/ Sent(s)'
            /\ Takes(w, [job[w] EXCEPT !.todo = @ \ {s}, !.sending = None,
                                       !.wrote = [@ EXCEPT ![s] = st]])
      BY <1>3, TransferDoes
    <2>2. transfers \subseteq transfers'
      BY <1>3, TransferDoes
    <2> DEFINE j == [job[w] EXCEPT !.todo = @ \ {s}, !.sending = None, !.wrote = [@ EXCEPT ![s] = st]]
    <2>3. /\ j.step = "fulfill" /\ j.order = job[w].order /\ j.todo = job[w].todo \ {s}
          /\ j.wrote = [job[w].wrote EXCEPT ![s] = st]
      BY <1>1 DEF Jobs
    <2>4. Takes(w, j)
      BY <2>1
    <2> HIDE DEF j
    <2>5. job'[w] = j
      BY <2>4, TakesOne
    <2>6. s[1] = job[w].order
      BY <1>1 DEF SettleShare, JobOK, FulfillOK
    <2>7. job[w].wrote \in [Sales -> PayoutStatus \cup {"same"}]
      BY <1>1 DEF Jobs
    <2>8. FulfillOK(w)'
      <3>1. /\ job[w].order \in Orders /\ lock'[job[w].order] = w
            /\ orderStatus'[job[w].order] = "pending" /\ session'[job[w].order] = "paid"
            /\ \A r \in j.todo : r[1] = job[w].order
        BY <1>1, <1>2, <2>3 DEF JobOK, FulfillOK
      <3>2. \A r \in Sales :
              /\ r[1] = job[w].order => j.wrote[r] \in {"owed", "failed", "transferred"}
              /\ r[1] # job[w].order => j.wrote[r] = "same"
        BY <1>1, <2>1, <2>3, <2>6, <2>7 DEF JobOK, FulfillOK
      <3> QED BY <2>3, <2>5, <3>1, <3>2 DEF FulfillOK
    <2>9. WroteOK(w)'
      <3>1. \A r \in Sales : Sent(r) => Sent(r)'
        BY <2>2 DEF Sent
      <3>2. ASSUME NEW r \in Sales, j.wrote[r] \in {"transferred", "reversed"}
            PROVE  Sent(r)'
        <4>1. CASE r = s /\ st # job[w].wrote[s]
          BY <2>1, <2>3, <2>7, <3>2, <4>1
        <4>2. CASE r # s \/ st = job[w].wrote[s]
          <5>1. j.wrote[r] = job[w].wrote[r]
            BY <2>3, <2>7, <4>2
          <5> QED BY <1>1, <3>1, <3>2, <5>1 DEF JobOK, WroteOK
        <4> QED BY <4>1, <4>2
      <3> QED BY <2>5, <3>2 DEF WroteOK
    <2>10. JobOK(w)'
      BY <2>3, <2>5, <2>8, <2>9 DEF JobOK, CheckoutOK, RefundOK, SettleOK
    <2> QED BY <1>2, <2>2, <2>3, <2>4, <2>10, QuietStep
  <1>4. CASE Takes(w, [job[w] EXCEPT !.todo = @ \ {s}]) /\ UNCHANGED transfers
    <2> DEFINE j == [job[w] EXCEPT !.todo = @ \ {s}]
    <2>1. /\ j.step = "fulfill" /\ j.order = job[w].order /\ j.todo = job[w].todo \ {s}
          /\ j.wrote = job[w].wrote
      BY <1>1 DEF Jobs
    <2>2. Takes(w, j)
      BY <1>4
    <2> HIDE DEF j
    <2>3. job'[w] = j
      BY <2>2, TakesOne
    <2>4. \A r \in Sales : Sent(r)' <=> Sent(r)
      BY <1>4 DEF Sent
    <2>5. FulfillOK(w)'
      BY <1>1, <1>2, <2>1, <2>3 DEF JobOK, FulfillOK
    <2>6. JobOK(w)'
      BY <1>1, <2>1, <2>3, <2>4, <2>5 DEF JobOK, CheckoutOK, RefundOK, SettleOK, WroteOK
    <2> QED BY <1>2, <1>4, <2>1, <2>2, <2>6, QuietStep
  <1> QED BY <1>3, <1>4 DEF SettleShare

LEMMA StripeRefundJobs ==
  ASSUME Inv, NEW w \in Workers, StripeRefund(w)
  PROVE  JobsOK'
  <1> USE DEF Inv
  <1>1. JobOK(w) /\ job[w].step = "refund" /\ job[w] \in Jobs
    BY DEF StripeRefund, JobsOK, TypeOK
  <1>2. UNCHANGED <<orderStatus, session, lock, reversals, transfers>>
    BY DEF StripeRefund, db
  <1> PICK reply \in Outcomes : StripeRefund(w)!2!(reply)
    BY DEF StripeRefund
  <1>3. refunds \subseteq refunds'
    OBVIOUS
  <1>4. CASE Raises(reply)
    <2>1. Takes(w, Idle)
      BY <1>4
    <2>2. JobOK(w)'
      BY <2>1, TakesOne, IdleOK
    <2> QED BY <1>2, <1>3, <2>1, <2>2, QuietStep DEF Idle
  <1>5. CASE ~Raises(reply)
    <2> DEFINE j == [job[w] EXCEPT !.step = "update"]
    <2>1. /\ j.step = "update" /\ j.order = job[w].order /\ j.wrote = job[w].wrote
      BY <1>1 DEF Jobs
    <2>2. Takes(w, j)
      BY <1>5
    <2> HIDE DEF j
    <2>3. job'[w] = j
      BY <2>2, TakesOne
    <2>4. job[w].order \in refunds'
      BY <1>5 DEF Raises
    <2>5. orderStatus'[job[w].order] \in {"captured", "refunded"} /\ job[w].order \in Orders
      BY <1>1, <1>2 DEF JobOK, RefundOK, Paid
    <2>6. RefundOK(w)'
      BY <2>1, <2>3, <2>4, <2>5 DEF RefundOK, Paid
    <2>7. \A r \in Sales : Sent(r) => Sent(r)'
      BY <1>2 DEF Sent
    <2>8. JobOK(w)'
      BY <1>1, <2>1, <2>3, <2>6, <2>7 DEF JobOK, CheckoutOK, FulfillOK, SettleOK, WroteOK
    <2> QED BY <1>2, <1>3, <2>1, <2>2, <2>8, QuietStep
  <1> QED BY <1>4, <1>5

LEMMA UpdateRefundedJobs ==
  ASSUME Inv, NEW w \in Workers, UpdateRefunded(w)
  PROVE  JobsOK'
  <1> USE DEF Inv
  <1>1. JobOK(w) /\ job[w].step = "update" /\ job[w] \in Jobs
    BY DEF UpdateRefunded, JobsOK, TypeOK
  <1>2. UNCHANGED <<orderStatus, payout, session, reversals, transfers, refunds>>
    BY DEF UpdateRefunded, db, stripe
  <1>3. \A q \in Orders : lock[q] \in Workers \ {w} => lock'[q] = lock[q]
    <2>1. \/ lock' = lock
          \/ lock[job[w].order] = None /\ lock' = [lock EXCEPT ![job[w].order] = w]
      BY DEF UpdateRefunded
    <2> QED BY <2>1, ConstantsAssumption DEF TypeOK
  <1> DEFINE o == job[w].order
             j == [job[w] EXCEPT
                     !.step = "reverse",
                     !.todo = {s \in SalesOf(o) : payout[s] = "transferred"},
                     !.wrote = [s \in Sales |->
                         IF s[1] = o /\ Cancels(payout[s]) THEN "cancelled" ELSE "same"]]
  <1>4. /\ j.step = "reverse" /\ j.order = o
        /\ \A s \in j.todo : s \in Sales /\ s[1] = o /\ payout[s] = "transferred"
        /\ \A s \in Sales : j.wrote[s] \in {"same", "cancelled"} /\ (j.wrote[s] # "same" => s[1] = o)
    BY <1>1 DEF Jobs, SalesOf
  <1>5. Takes(w, j)
    BY DEF UpdateRefunded
  <1> HIDE DEF j
  <1>6. job'[w] = j
    BY <1>5, TakesOne
  <1>7. \A s \in j.todo : Sent(s)'
    BY <1>2, <1>4 DEF BooksMatchStripe, Sent
  <1>8. o \in Orders /\ orderStatus'[o] \in {"captured", "refunded"} /\ o \in refunds
    BY <1>1, <1>2 DEF JobOK, RefundOK, Paid
  <1>9. RefundOK(w)'
    BY <1>2, <1>4, <1>6, <1>7, <1>8 DEF RefundOK, Paid
  <1>10. JobOK(w)'
    BY <1>4, <1>6, <1>9 DEF JobOK, CheckoutOK, FulfillOK, SettleOK, WroteOK
  <1> QED BY <1>2, <1>3, <1>4, <1>5, <1>10, QuietStep

LEMMA ReverseTransferJobs ==
  ASSUME Inv, NEW w \in Workers, NEW s \in Sales, ReverseTransfer(w, s)
  PROVE  JobsOK'
  <1> USE DEF Inv
  <1>1. JobOK(w) /\ job[w].step = "reverse" /\ s \in job[w].todo /\ job[w] \in Jobs
    BY DEF ReverseTransfer, JobsOK, TypeOK
  <1>2. UNCHANGED <<orderStatus, session, lock, transfers, refunds>>
    BY DEF ReverseTransfer, db
  <1> PICK reply \in Outcomes : ReverseTransfer(w, s)!3!(reply)
    BY DEF ReverseTransfer
  <1>3. reversals \subseteq reversals' /\ (reply = "ok" => s \in reversals')
    OBVIOUS
  <1> DEFINE wrote == IF reply = "ok" THEN [job[w].wrote EXCEPT ![s] = "reversed"] ELSE job[w].wrote
             j == [job[w] EXCEPT
                     !.todo = @ \ {s},
                     !.wrote = IF reply = "ok" THEN [@ EXCEPT ![s] = "reversed"] ELSE @]
  <1>4. /\ j.step = "reverse" /\ j.order = job[w].order /\ j.todo = job[w].todo \ {s}
        /\ j.wrote = wrote
    BY <1>1 DEF Jobs
  <1>5. Takes(w, j)
    OBVIOUS
  <1> HIDE DEF j
  <1>6. job'[w] = j
    BY <1>5, TakesOne
  <1>7. job[w].wrote \in [Sales -> PayoutStatus \cup {"same"}]
    BY <1>1 DEF Jobs
  <1>8. \A r \in Sales : Sent(r) <=> Sent(r)'
    BY <1>2 DEF Sent
  <1>9. \A r \in Sales : \/ wrote[r] = job[w].wrote[r]
                         \/ wrote[r] = "reversed" /\ r = s /\ s \in reversals'
    BY <1>3, <1>7
  <1>10. s[1] = job[w].order /\ Sent(s)
    BY <1>1 DEF JobOK, RefundOK
  <1> HIDE DEF wrote
  <1>11. RefundOK(w)'
    <2>1. /\ job[w].order \in Orders /\ job[w].order \in refunds'
          /\ orderStatus'[job[w].order] \in {"captured", "refunded"}
          /\ \A r \in j.todo : r[1] = job[w].order /\ Sent(r)'
      BY <1>1, <1>2, <1>4, <1>8 DEF JobOK, RefundOK, Paid, Jobs
    <2>2. \A r \in Sales :
             /\ wrote[r] \in {"same", "cancelled", "reversed"}
             /\ wrote[r] # "same" => r[1] = job[w].order
             /\ wrote[r] = "reversed" => r \in reversals'
      BY <1>1, <1>3, <1>9, <1>10 DEF JobOK, RefundOK
    <2> QED BY <1>4, <1>6, <2>1, <2>2 DEF RefundOK, Paid
  <1>12. WroteOK(w)'
    BY <1>1, <1>4, <1>6, <1>8, <1>9, <1>10 DEF JobOK, WroteOK
  <1>13. JobOK(w)'
    BY <1>4, <1>6, <1>11, <1>12 DEF JobOK, CheckoutOK, FulfillOK, SettleOK
  <1> QED BY <1>2, <1>3, <1>4, <1>5, <1>13, QuietStep

LEMMA RefreshJobs ==
  ASSUME Inv, NEW w \in Workers, RetrieveAccount(w) \/ CollectOwed(w) \/ \E s \in Sales : CheckOrder(w, s)
  PROVE  JobsOK'
  <1> USE DEF Inv
  <1>1. /\ JobOK(w) /\ job[w].step \in {"retrieve", "collect", "settle"} /\ job[w] \in Jobs
        /\ UNCHANGED <<orderStatus, payout, session, lock, transfers, reversals, refunds>>
    BY DEF RetrieveAccount, CollectOwed, CheckOrder, JobsOK, TypeOK, db, stripe
  <1>2. \E j : /\ Takes(w, j)
               /\ j.step \in {"collect", "settle"} /\ j.who = job[w].who /\ j.wrote = job[w].wrote
               /\ \A s \in j.todo \cup ({j.sending} \ {None}) :
                    \/ s \in job[w].todo \cup ({job[w].sending} \ {None})
                    \/ s \in Sales /\ Paid(s[1])
    <2>1. CASE RetrieveAccount(w)
      <3> DEFINE now == account[job[w].who]
                 j == [job[w] EXCEPT !.seen = now, !.step = IF Settles(now) THEN "collect" ELSE "settle"]
      <3>1. /\ j.step \in {"collect", "settle"} /\ j.who = job[w].who /\ j.wrote = job[w].wrote
            /\ j.todo = job[w].todo /\ j.sending = job[w].sending
        BY <1>1 DEF Jobs
      <3>2. Takes(w, j)
        BY <2>1 DEF RetrieveAccount
      <3> HIDE DEF j
      <3> QED BY <3>1, <3>2
    <2>2. CASE CollectOwed(w)
      <3> DEFINE j == [job[w] EXCEPT !.step = "settle",
                                     !.todo = {s \in SalesBy(job[w].who) : Collected(s)}]
      <3>1. /\ j.step = "settle" /\ j.who = job[w].who /\ j.wrote = job[w].wrote
            /\ \A s \in j.todo : s \in Sales /\ payout[s] \in ToSettle
            /\ j.sending = job[w].sending
        BY <1>1 DEF Jobs, Collected, SalesBy
      <3>2. \A s \in j.todo : s \in Sales /\ Paid(s[1])
        BY <3>1 DEF SharesFollowOrder, ToSettle
      <3>3. Takes(w, j)
        BY <2>2 DEF CollectOwed
      <3> HIDE DEF j
      <3> QED BY <3>1, <3>2, <3>3
    <2>3. ASSUME NEW s \in Sales, CheckOrder(w, s)
          PROVE  <1>2
      <3>1. CASE orderStatus[s[1]] = "captured"
        <4> DEFINE j == [job[w] EXCEPT !.sending = s]
        <4>1. /\ j.step = "settle" /\ j.who = job[w].who /\ j.wrote = job[w].wrote
              /\ j.todo = job[w].todo /\ j.sending = s
          BY <1>1, <2>3 DEF Jobs, CheckOrder
        <4>2. Takes(w, j)
          BY <2>3, <3>1 DEF CheckOrder
        <4> HIDE DEF j
        <4> QED BY <3>1, <4>1, <4>2 DEF Paid
      <3>2. CASE orderStatus[s[1]] # "captured"
        <4> DEFINE j == [job[w] EXCEPT !.todo = @ \ {s}]
        <4>1. /\ j.step = "settle" /\ j.who = job[w].who /\ j.wrote = job[w].wrote
              /\ j.todo = job[w].todo \ {s} /\ j.sending = job[w].sending
          BY <1>1, <2>3 DEF Jobs, CheckOrder
        <4>2. Takes(w, j)
          BY <2>3, <3>2 DEF CheckOrder
        <4> HIDE DEF j
        <4> QED BY <4>1, <4>2
      <3> QED BY <3>1, <3>2
    <2> QED BY <2>1, <2>2, <2>3
  <1> PICK j : <1>2!(j)
    BY <1>2
  <1>3. job'[w] = j
    BY TakesOne
  <1>4. SettleOK(w)'
    BY <1>1, <1>2, <1>3 DEF JobOK, SettleOK, Paid
  <1>5. \A r \in Sales : Sent(r) <=> Sent(r)'
    BY <1>1 DEF Sent
  <1>6. JobOK(w)'
    BY <1>1, <1>3, <1>4, <1>5 DEF JobOK, CheckoutOK, FulfillOK, RefundOK, WroteOK
  <1> QED BY <1>1, <1>6, QuietStep

LEMMA SendOwedJobs ==
  ASSUME Inv, NEW w \in Workers, SendOwed(w)
  PROVE  JobsOK'
  <1> USE DEF Inv
  <1> DEFINE s == job[w].sending
  <1>1. JobOK(w) /\ job[w].step = "settle" /\ s \in Sales /\ Transfer(w, s) /\ job[w] \in Jobs
    BY DEF SendOwed, JobsOK, TypeOK, Jobs
  <1>2. UNCHANGED <<orderStatus, session, lock, reversals, refunds>>
    BY DEF SendOwed, db
  <1>3. PICK st \in {job[w].wrote[s], "transferred", "failed"} :
          /\ st = "transferred" => st = job[w].wrote[s] \/ \E t \in transfers' : t.sale = s
          /\ Takes(w, [job[w] EXCEPT !.todo = @ \ {s}, !.sending = None,
                                     !.wrote = [@ EXCEPT ![s] = st]])
    <2>1. \A r \in Sales : r = s =>
            \E st \in {job[w].wrote[r], "transferred", "failed"} :
              /\ st = "transferred" => st = job[w].wrote[r] \/ Sent(r)'
              /\ Takes(w, [job[w] EXCEPT !.todo = @ \ {r}, !.sending = None,
                                         !.wrote = [@ EXCEPT ![r] = st]])
      BY <1>1, TransferDoes
    <2> QED BY <1>1, <2>1 DEF Sent
  <1>4. transfers \subseteq transfers'
    BY <1>1, TransferDoes
  <1> DEFINE j == [job[w] EXCEPT !.todo = @ \ {s}, !.sending = None, !.wrote = [@ EXCEPT ![s] = st]]
  <1>5. /\ j.step = "settle" /\ j.who = job[w].who /\ j.todo = job[w].todo \ {s} /\ j.sending = None
        /\ j.wrote = [job[w].wrote EXCEPT ![s] = st]
    BY <1>1 DEF Jobs
  <1>6. Takes(w, j)
    BY <1>3
  <1> HIDE DEF j
  <1>7. job'[w] = j
    BY <1>6, TakesOne
  <1>8. job[w].wrote \in [Sales -> PayoutStatus \cup {"same"}]
    BY <1>1 DEF Jobs
  <1>9. orderStatus[s[1]] \in {"captured", "refunded"}
    BY <1>1, ConstantsAssumption DEF JobOK, SettleOK, Paid
  <1>10. \A r \in Sales : \/ j.wrote[r] = job[w].wrote[r]
                          \/ r = s /\ j.wrote[r] \in {"transferred", "failed"}
                                   /\ (j.wrote[r] = "transferred" => \E t \in transfers' : t.sale = s)
    BY <1>3, <1>5, <1>8
  <1>11. SettleOK(w)'
    <2>1. \A r \in Sales : /\ j.wrote[r] \in {"same", "failed", "transferred"}
                           /\ j.wrote[r] # "same" => orderStatus[r[1]] \in {"captured", "refunded"}
      BY <1>1, <1>9, <1>10 DEF JobOK, SettleOK, Paid
    <2>2. \A r \in j.todo : orderStatus[r[1]] \in {"captured", "refunded"}
      BY <1>1, <1>5 DEF JobOK, SettleOK, Paid
    <2>3. job[w].who \in Photographers
      BY <1>1 DEF JobOK, SettleOK
    <2> QED BY <1>2, <1>5, <1>7, <2>1, <2>2, <2>3 DEF SettleOK, Paid
  <1>12. WroteOK(w)'
    <2>1. \A r \in Sales : Sent(r) => \E t \in transfers' : t.sale = r
      BY <1>4 DEF Sent
    <2>2. \A r \in Sales : j.wrote[r] \in {"transferred", "reversed"} => \E t \in transfers' : t.sale = r
      BY <1>1, <1>10, <2>1 DEF JobOK, WroteOK
    <2> QED BY <1>7, <2>2 DEF WroteOK, Sent
  <1>13. JobOK(w)'
    BY <1>5, <1>7, <1>11, <1>12 DEF JobOK, CheckoutOK, FulfillOK, RefundOK
  <1> QED BY <1>2, <1>4, <1>5, <1>6, <1>13, QuietStep

\* Requests that commit to an order: one the others do not rely on.
LEMMA CommitSessionJobs ==
  ASSUME Inv, NEW w \in Workers, CommitSession(w)
  PROVE  JobsOK'
  <1> USE DEF Inv
  <1> DEFINE o == job[w].order
  <1>1. JobOK(w) /\ job[w].step = "checkout" /\ o \in Orders /\ orderStatus[o] = "none"
    BY DEF CommitSession, JobsOK, JobOK, CheckoutOK
  <1>2. /\ orderStatus' = [orderStatus EXCEPT ![o] = "pending"]
        /\ UNCHANGED <<session, lock, transfers, reversals, refunds>>
    BY DEF CommitSession, stripe
  <1>3. job'[w] = Idle /\ \A u \in Workers \ {w} : job'[u] = job[u]
    BY TakesOne DEF CommitSession
  <1>4. ASSUME NEW v \in Workers, v # w
        PROVE  JobOK(v)'
    <2>1. JobOK(v) /\ job'[v] = job[v]
      BY <1>3, <1>4 DEF JobsOK
    <2>2. \A q \in Orders : Paid(q) => Paid(q)'
      BY <1>1, <1>2 DEF Paid, TypeOK
    <2>3. job[v].step = "checkout" => job[v].order # o
      BY <1>1, <1>4 DEF JobOK, CheckoutOK
    <2>4. job[v].step = "checkout" =>
            /\ orderStatus'[job[v].order] = "none"
            /\ session'[job[v].order] \in {"open", "expired"}
      BY <1>2, <2>1, <2>3 DEF JobOK, CheckoutOK, TypeOK
    <2>5. ASSUME job[v].step = "checkout", NEW u \in Workers,
                 job'[u].step = "checkout", job'[u].order = job[v].order
          PROVE  u = v
      <3>1. u # w
        BY <1>3, <2>5 DEF Idle
      <3> QED BY <1>3, <2>1, <2>5, <3>1 DEF JobOK, CheckoutOK
    <2>6. job[v].step = "fulfill" =>
            /\ lock'[job[v].order] = v
            /\ orderStatus'[job[v].order] = "pending"
            /\ session'[job[v].order] = "paid"
      BY <1>1, <1>2, <2>1 DEF JobOK, FulfillOK, TypeOK
    <2> QED BY <1>2, <2>1, <2>2, <2>4, <2>5, <2>6, Frame
  <1>5. JobOK(w)'
    BY <1>3, IdleOK
  <1> QED BY <1>4, <1>5 DEF JobsOK

\* A captured or refunded order is one no checkout or other fulfilment is at.
LEMMA CommitPaidJobs ==
  ASSUME Inv, NEW w \in Workers, CommitFulfill(w) \/ CommitRefund(w)
  PROVE  JobsOK'
  <1> USE DEF Inv
  <1> DEFINE o == job[w].order
  <1>1. /\ JobOK(w) /\ o \in Orders
        /\ (orderStatus[o] = "pending" /\ lock[o] = w) \/ Paid(o)
        /\ \E st \in {"captured", "refunded"} : orderStatus' = [orderStatus EXCEPT ![o] = st]
    BY DEF CommitFulfill, CommitRefund, JobsOK, JobOK, FulfillOK, RefundOK
  <1>2. lock' = Unlocked(w) /\ UNCHANGED <<session, transfers, reversals, refunds>>
    BY DEF CommitFulfill, CommitRefund, stripe
  <1>3. job'[w] = Idle /\ \A u \in Workers \ {w} : job'[u] = job[u]
    BY TakesOne DEF CommitFulfill, CommitRefund
  <1>4. ASSUME NEW v \in Workers, v # w
        PROVE  JobOK(v)'
    <2>1. JobOK(v) /\ job'[v] = job[v]
      BY <1>3, <1>4 DEF JobsOK
    <2>2. \A q \in Orders : Paid(q) => Paid(q)'
      BY <1>1 DEF Paid, TypeOK
    <2>3. job[v].step = "checkout" =>
            /\ orderStatus'[job[v].order] = "none"
            /\ session'[job[v].order] \in {"open", "expired"}
      BY <1>1, <1>2, <2>1 DEF JobOK, CheckoutOK, TypeOK, Paid
    <2>4. ASSUME job[v].step = "checkout", NEW u \in Workers,
                 job'[u].step = "checkout", job'[u].order = job[v].order
          PROVE  u = v
      <3>1. u # w
        BY <1>3, <2>4 DEF Idle
      <3> QED BY <1>3, <2>1, <2>4, <3>1 DEF JobOK, CheckoutOK
    <2>5. job[v].step = "fulfill" =>
            /\ lock'[job[v].order] = v
            /\ orderStatus'[job[v].order] = "pending"
            /\ session'[job[v].order] = "paid"
      BY <1>1, <1>2, <1>4, <2>1 DEF JobOK, FulfillOK, TypeOK, Unlocked, Paid
    <2> QED BY <1>2, <2>1, <2>2, <2>3, <2>4, <2>5, Frame
  <1>5. JobOK(w)'
    BY <1>3, IdleOK
  <1> QED BY <1>4, <1>5 DEF JobsOK

\* Stripe, the buyer and the photographer disturb no request.
LEMMA OutsideJobs ==
  ASSUME Inv, UNCHANGED job,
         (\E o \in Orders : OrderNext(o)) \/ (\E p \in Photographers : PhotographerNext(p))
  PROVE  JobsOK'
  <1> USE DEF Inv
  <1>1. UNCHANGED <<lock, transfers, reversals, refunds>>
    BY DEF OrderNext, PhotographerNext, BuyerPays, SessionExpires, CancelUnpaid, FulfillMismatch,
           AccountChanges, Connect, db, stripe
  <1>2. \/ UNCHANGED <<orderStatus, session>>
        \/ \E o \in Orders, st \in {"paid", "mispaid"} :
              /\ session[o] = "open" /\ orderStatus[o] # "none"
              /\ session' = [session EXCEPT ![o] = st] /\ UNCHANGED orderStatus
        \/ \E o \in Orders : /\ session[o] = "open"
                             /\ session' = [session EXCEPT ![o] = "expired"] /\ UNCHANGED orderStatus
        \/ \E o \in Orders : /\ session[o] = "expired" /\ orderStatus[o] = "pending"
                             /\ orderStatus' = [orderStatus EXCEPT ![o] = "cancelled"]
                             /\ UNCHANGED session
    BY DEF OrderNext, PhotographerNext, BuyerPays, SessionExpires, CancelUnpaid, FulfillMismatch,
           AccountChanges, Connect, db, stripe
  <1> SUFFICES ASSUME NEW v \in Workers
               PROVE  JobOK(v)'
    BY DEF JobsOK
  <1>3. JobOK(v)
    BY DEF JobsOK
  <1>4. \A o \in Orders : Paid(o) => Paid(o)'
    BY <1>2 DEF Paid, TypeOK
  <1>5. job[v].step = "checkout" =>
          /\ orderStatus'[job[v].order] = "none"
          /\ session'[job[v].order] \in {"open", "expired"}
          /\ \A u \in Workers : job'[u].step = "checkout" /\ job'[u].order = job[v].order => u = v
    BY <1>2, <1>3 DEF JobOK, CheckoutOK, TypeOK
  <1>6. job[v].step = "fulfill" =>
          /\ lock'[job[v].order] = v
          /\ orderStatus'[job[v].order] = "pending"
          /\ session'[job[v].order] = "paid"
    BY <1>1, <1>2, <1>3 DEF JobOK, FulfillOK, TypeOK
  <1> QED BY <1>1, <1>3, <1>4, <1>5, <1>6, Frame

\* Every step keeps what the requests rely on.
LEMMA JobsStep == Inv /\ [Next]_vars => JobsOK'
  <1> SUFFICES ASSUME Inv, [Next]_vars
               PROVE  JobsOK'
    OBVIOUS
  <1>1. CASE UNCHANGED vars
    <2> SUFFICES ASSUME NEW v \in Workers
                 PROVE  JobOK(v)'
      BY DEF JobsOK
    <2> QED BY <1>1 DEF vars, Inv, JobsOK, JobOK, CheckoutOK, FulfillOK, RefundOK, SettleOK, WroteOK,
                        Paid, Sent
  <1>2. ASSUME (\E o \in Orders : OrderNext(o)) \/ (\E p \in Photographers : PhotographerNext(p))
        PROVE  JobsOK'
    <2>1. UNCHANGED job
      BY <1>2 DEF OrderNext, PhotographerNext, BuyerPays, SessionExpires, CancelUnpaid,
                  FulfillMismatch, AccountChanges, Connect
    <2> QED BY <1>2, <2>1, OutsideJobs
  <1>3. ASSUME NEW w \in Workers, RequestStep(w)
        PROVE  JobsOK'
    <2>1. CASE CommitRefresh(w)
      BY <2>1, QuietEnd DEF CommitRefresh, Inv, stripe
    <2> QED BY <1>3, <2>1, CommitSessionJobs, SettleShareJobs, CommitPaidJobs, StripeRefundJobs,
               UpdateRefundedJobs, ReverseTransferJobs, RefreshJobs, SendOwedJobs DEF RequestStep
  <1>4. ASSUME NEW w \in Workers, Rollback(w)
        PROVE  JobsOK'
    BY <1>4, QuietEnd DEF Rollback, Inv, db, stripe
  <1> QED BY <1>1, <1>2, <1>3, <1>4, ArrivalJobs DEF Next

-----------------------------------------------------------------------------
(***************************************************************************)
(* The rest of the inductive invariant, one conjunct at a time.            *)
(***************************************************************************)

\* Each step is a step of OrderLifecycle, or one it does not see.
LEMMA LifecycleStep ==
  ASSUME Inv, [Next]_vars
  PROVE  [Lifecycle!Next]_<<orderStatus, session, refunds>>
  <1> USE DEF Inv
  <1> DEFINE Mapped == [Lifecycle!Next]_<<orderStatus, session, refunds>>
  <1>1. CASE UNCHANGED vars
    BY <1>1 DEF vars
  <1>2. ASSUME NEW o \in Orders, OrderNext(o)
        PROVE  Mapped
    <2>1. CASE BuyerPays(o)
      <3>1. Lifecycle!Pay(o)
        BY <2>1 DEF BuyerPays, Lifecycle!Pay, Lifecycle!Becomes, db
      <3> QED BY <3>1 DEF Lifecycle!Next
    <2>2. CASE SessionExpires(o)
      <3>1. Lifecycle!Expire(o)
        BY <2>2 DEF SessionExpires, Lifecycle!Expire, Lifecycle!Becomes, db
      <3> QED BY <3>1 DEF Lifecycle!Next
    <2>3. CASE CancelUnpaid(o)
      <3>1. Lifecycle!Cancel(o)
        BY <2>3 DEF CancelUnpaid, Lifecycle!Cancel, Lifecycle!Moves, stripe
      <3> QED BY <3>1 DEF Lifecycle!Next
    <2>4. CASE FulfillMismatch(o)
      BY <2>4 DEF FulfillMismatch, stripe
    <2> QED BY <1>2, <2>1, <2>2, <2>3, <2>4 DEF OrderNext
  <1>3. ASSUME NEW p \in Photographers, PhotographerNext(p)
        PROVE  Mapped
    BY <1>3 DEF PhotographerNext, AccountChanges, Connect, db
  <1>4. ASSUME NEW w \in Workers, NEW o \in Orders,
               CreateSession(w, o) \/ Fulfill(w, o) \/ Refund(w, o)
        PROVE  Mapped
    <2>1. CASE CreateSession(w, o)
      <3>1. Lifecycle!OfferPayment(o)
        BY <2>1 DEF CreateSession, Lifecycle!OfferPayment, Lifecycle!Becomes, db
      <3> QED BY <3>1 DEF Lifecycle!Next
    <2> QED BY <1>4, <2>1 DEF Fulfill, Refund, db, stripe
  <1>5. ASSUME NEW w \in Workers, NEW p \in Photographers, RefreshStatus(w, p)
        PROVE  Mapped
    BY <1>5 DEF RefreshStatus, db, stripe
  <1>6. ASSUME NEW w \in Workers, RequestStep(w)
        PROVE  Mapped
    <2> DEFINE o == job[w].order
    <2> JobOK(w)
      BY DEF JobsOK
    <2>1. CASE CommitSession(w)
      <3>1. o \in Orders /\ Lifecycle!Place(o)
        BY <2>1 DEF CommitSession, JobOK, CheckoutOK, Lifecycle!Place, Lifecycle!Moves, stripe
      <3> QED BY <3>1 DEF Lifecycle!Next
    <2>2. CASE CommitFulfill(w)
      <3>1. o \in Orders /\ Lifecycle!Capture(o)
        BY <2>2 DEF CommitFulfill, JobOK, FulfillOK, Lifecycle!Capture, Lifecycle!Moves, stripe
      <3> QED BY <3>1 DEF Lifecycle!Next
    <2>3. CASE StripeRefund(w)
      <3>1. /\ o \in Orders /\ Paid(o) /\ UNCHANGED <<orderStatus, session>>
            /\ refunds' = refunds \/ refunds' = refunds \cup {o}
        BY <2>3 DEF StripeRefund, JobOK, RefundOK, db
      <3>2. CASE orderStatus[o] = "refunded"
        BY <3>1, <3>2 DEF OrdersOK
      <3>3. CASE orderStatus[o] = "captured" /\ refunds' = refunds \cup {o}
        <4>1. Lifecycle!ReturnMoney(o)
          BY <3>1, <3>3 DEF Lifecycle!ReturnMoney
        <4> QED BY <3>1, <4>1 DEF Lifecycle!Next
      <3> QED BY <3>1, <3>2, <3>3 DEF Paid
    <2>4. CASE CommitRefund(w)
      <3>1. /\ o \in Orders /\ Paid(o) /\ o \in refunds /\ UNCHANGED <<session, refunds>>
            /\ orderStatus' = [orderStatus EXCEPT ![o] = "refunded"]
        BY <2>4 DEF CommitRefund, JobOK, RefundOK, stripe
      <3>2. CASE orderStatus[o] = "refunded"
        BY <3>1, <3>2 DEF TypeOK
      <3>3. CASE orderStatus[o] = "captured"
        <4>1. Lifecycle!Close(o)
          BY <3>1, <3>3 DEF Lifecycle!Close, Lifecycle!Moves
        <4> QED BY <3>1, <4>1 DEF Lifecycle!Next
      <3> QED BY <3>1, <3>2, <3>3 DEF Paid
    <2> QED BY <1>6, <2>1, <2>2, <2>3, <2>4
            DEF RequestStep, SettleShare, UpdateRefunded, ReverseTransfer, RetrieveAccount,
                CollectOwed, CheckOrder, SendOwed, CommitRefresh, db, stripe
  <1>7. ASSUME NEW w \in Workers, Rollback(w)
        PROVE  Mapped
    BY <1>7 DEF Rollback, db, stripe
  <1> QED BY <1>1, <1>2, <1>3, <1>4, <1>5, <1>6, <1>7 DEF Next, RequestArrives

LEMMA OrdersStep ==
  ASSUME Inv, [Next]_vars
  PROVE  OrdersOK'
  <1>1. [Lifecycle!Next]_<<orderStatus, session, refunds>>
    BY LifecycleStep
  <1> QED BY <1>1 DEF Inv, TypeOK, OrdersOK, Paid, Lifecycle!Next, Lifecycle!OfferPayment,
                      Lifecycle!Place, Lifecycle!Pay, Lifecycle!Expire, Lifecycle!Capture,
                      Lifecycle!Cancel, Lifecycle!ReturnMoney, Lifecycle!Close,
                      Lifecycle!Moves, Lifecycle!Becomes

\* Only a transfer adds to the transfers, and only a reversal to the reversals.
LEMMA MoneyMoves ==
  ASSUME Inv, [Next]_vars
  PROVE  \/ UNCHANGED <<transfers, reversals>>
         \/ \E w \in Workers, s \in Sales :
              \/ /\ Transfer(w, s) /\ UNCHANGED reversals
                 /\ SettleShare(w, s) \/ (SendOwed(w) /\ s = job[w].sending)
              \/ ReverseTransfer(w, s)
  <1> USE DEF Inv, db, stripe
  <1>1. ASSUME NEW w \in Workers, SendOwed(w)
        PROVE  job[w].sending \in Sales /\ Transfer(w, job[w].sending) /\ UNCHANGED reversals
    BY <1>1 DEF SendOwed, TypeOK, Jobs
  <1>2. ASSUME NEW w \in Workers, NEW s \in Sales, SettleShare(w, s)
        PROVE  UNCHANGED reversals /\ (Transfer(w, s) \/ UNCHANGED transfers)
    BY <1>2 DEF SettleShare
  <1>3. ASSUME NEW w \in Workers, RequestStep(w),
               ~SendOwed(w), ~\E s \in Sales : SettleShare(w, s) \/ ReverseTransfer(w, s)
        PROVE  UNCHANGED <<transfers, reversals>>
    BY <1>3 DEF RequestStep, CommitSession, CommitFulfill, StripeRefund, UpdateRefunded, CommitRefund,
                RetrieveAccount, CollectOwed, CheckOrder, CommitRefresh
  <1>4. ASSUME NEW w \in Workers, RequestArrives(w) \/ Rollback(w)
        PROVE  UNCHANGED <<transfers, reversals>>
    BY <1>4 DEF RequestArrives, CreateSession, Fulfill, Refund, RefreshStatus, Rollback
  <1>5. ASSUME (\E o \in Orders : OrderNext(o)) \/ (\E p \in Photographers : PhotographerNext(p))
        PROVE  UNCHANGED <<transfers, reversals>>
    BY <1>5 DEF OrderNext, PhotographerNext, BuyerPays, SessionExpires, CancelUnpaid, FulfillMismatch,
                AccountChanges, Connect
  <1> QED BY <1>1, <1>2, <1>3, <1>4, <1>5 DEF Next, vars

\* Nothing done at Stripe is undone: payments, refunds, transfers, reversals.
LEMMA StripeKeeps ==
  ASSUME Inv, [Next]_vars
  PROVE  /\ transfers \subseteq transfers' /\ reversals \subseteq reversals' /\ refunds \subseteq refunds'
         /\ \A o \in Orders : session[o] = "paid" => session'[o] = "paid"
  <1> USE DEF Inv, db, stripe
  <1>1. refunds \subseteq refunds' /\ \A o \in Orders : session[o] = "paid" => session'[o] = "paid"
    BY LifecycleStep DEF TypeOK, Lifecycle!Next, Lifecycle!OfferPayment, Lifecycle!Place, Lifecycle!Pay,
          Lifecycle!Expire, Lifecycle!Capture, Lifecycle!Cancel, Lifecycle!ReturnMoney, Lifecycle!Close,
          Lifecycle!Moves, Lifecycle!Becomes
  <1>2. transfers \subseteq transfers' /\ reversals \subseteq reversals'
    BY MoneyMoves, TransferDoes DEF ReverseTransfer
  <1> QED BY <1>1, <1>2

\* The steps that send money, or take it back.
LEMMA TransfersStep ==
  ASSUME Inv, [Next]_vars
  PROVE  TransfersOK'
  <1> USE DEF Inv
  <1>2. ASSUME NEW w \in Workers, NEW s \in Sales, Transfer(w, s),
               SettleShare(w, s) \/ (SendOwed(w) /\ s = job[w].sending)
        PROVE  session[s[1]] = "paid"
    <2>1. s[1] \in Orders
      BY ConstantsAssumption
    <2>2. CASE SettleShare(w, s)
      BY <2>2 DEF SettleShare, JobsOK, JobOK, FulfillOK
    <2>3. CASE SendOwed(w) /\ s = job[w].sending
      BY <2>1, <2>3 DEF SendOwed, JobsOK, JobOK, SettleOK, OrdersOK
    <2> QED BY <1>2, <2>2, <2>3
  <1>3. ASSUME NEW w \in Workers, NEW s \in Sales, ReverseTransfer(w, s)
        PROVE  s[1] \in refunds /\ reversals' \subseteq reversals \cup {s} /\ UNCHANGED transfers
    BY <1>3 DEF ReverseTransfer, JobsOK, JobOK, RefundOK
  <1>4. ASSUME NEW t \in transfers'
        PROVE  t.key = t.sale /\ session'[t.sale[1]] = "paid"
    <2>1. t.sale \in Sales => t.sale[1] \in Orders
      BY ConstantsAssumption
    <2>2. t \in transfers => t.key = t.sale /\ session[t.sale[1]] = "paid" /\ t.sale \in Sales
      BY DEF TransfersOK, TypeOK
    <2>3. ASSUME t \notin transfers
          PROVE  \E s \in Sales : t = [key |-> s, sale |-> s] /\ session[s[1]] = "paid"
      BY <1>2, <1>3, <1>4, <2>3, MoneyMoves, TransferDoes
    <2>4. t.key = t.sale /\ session[t.sale[1]] = "paid" /\ t.sale \in Sales
      BY <2>2, <2>3
    <2> QED BY <2>1, <2>4, StripeKeeps
  <1>5. ASSUME NEW s \in reversals'
        PROVE  s[1] \in refunds'
    <2>1. s \in reversals => s[1] \in refunds
      BY DEF TransfersOK
    <2>2. s \notin reversals => s[1] \in refunds
      BY <1>3, <1>5, MoneyMoves
    <2> QED BY <2>1, <2>2, StripeKeeps
  <1> QED BY <1>4, <1>5 DEF TransfersOK

\* The books change only when a request commits.
LEMMA BooksMove ==
  ASSUME Inv, [Next]_vars
  PROVE  \/ \E w \in Workers : CommitFulfill(w) \/ CommitRefund(w) \/ CommitRefresh(w)
         \/ /\ UNCHANGED payout
            /\ \A o \in Orders :
                 /\ Paid(o)' <=> Paid(o)
                 /\ txns'[o].capture = txns[o].capture
                 /\ orderStatus[o] = "refunded" <=> orderStatus'[o] = "refunded"
  <1> USE DEF Inv, db, stripe
  <1> DEFINE Same == /\ UNCHANGED payout
                     /\ \A o \in Orders :
                          /\ Paid(o)' <=> Paid(o)
                          /\ txns'[o].capture = txns[o].capture
                          /\ orderStatus[o] = "refunded" <=> orderStatus'[o] = "refunded"
  <1>1. ASSUME UNCHANGED <<payout, orderStatus, txns>>
        PROVE  Same
    BY <1>1 DEF Paid
  <1>2. ASSUME NEW o \in Orders, OrderNext(o)
        PROVE  Same
    <2>1. CASE CancelUnpaid(o)
      BY <2>1 DEF CancelUnpaid, TypeOK, Paid
    <2>2. CASE FulfillMismatch(o)
      <3>1. /\ UNCHANGED <<payout, orderStatus>>
            /\ txns' = [txns EXCEPT ![o] = [txns[o] EXCEPT !.mismatch = TRUE]]
        BY <2>2 DEF FulfillMismatch, Records
      <3>2. \A q \in Orders : txns'[q].capture = txns[q].capture
        BY <3>1 DEF TypeOK
      <3> QED BY <3>1, <3>2 DEF Paid
    <2> QED BY <1>1, <1>2, <2>1, <2>2 DEF OrderNext, BuyerPays, SessionExpires
  <1>3. ASSUME NEW p \in Photographers, PhotographerNext(p)
        PROVE  Same
    BY <1>1, <1>3 DEF PhotographerNext, AccountChanges, Connect
  <1>4. ASSUME NEW w \in Workers, RequestArrives(w) \/ Rollback(w)
        PROVE  Same
    BY <1>1, <1>4 DEF RequestArrives, CreateSession, Fulfill, Refund, RefreshStatus, Rollback
  <1>5. ASSUME NEW w \in Workers, RequestStep(w),
               ~CommitFulfill(w), ~CommitRefund(w), ~CommitRefresh(w)
        PROVE  Same
    <2>1. CASE CommitSession(w)
      BY <2>1 DEF CommitSession, TypeOK, Paid, JobsOK, JobOK, CheckoutOK
    <2> QED BY <1>1, <1>5, <2>1
            DEF RequestStep, SettleShare, StripeRefund, UpdateRefunded, ReverseTransfer, RetrieveAccount,
                CollectOwed, CheckOrder, SendOwed
  <1>6. CASE UNCHANGED vars
    BY <1>1, <1>6 DEF vars
  <1> QED BY <1>2, <1>3, <1>4, <1>5, <1>6 DEF Next

LEMMA CaptureStep ==
  ASSUME Inv, [Next]_vars
  PROVE  OneCapture'
  <1> USE DEF Inv
  <1>1. ASSUME NEW w \in Workers, CommitFulfill(w)
        PROVE  OneCapture'
    <2> DEFINE o == job[w].order
    <2>1. /\ o \in Orders /\ orderStatus[o] = "pending"
          /\ orderStatus' = [orderStatus EXCEPT ![o] = "captured"]
          /\ txns' = [txns EXCEPT ![o] = [txns[o] EXCEPT !.capture = @ + 1]]
      BY <1>1 DEF CommitFulfill, Records, JobsOK, JobOK, FulfillOK
    <2>2. txns'[o].capture = 1
      BY <2>1 DEF OneCapture, Paid, TypeOK
    <2> QED BY <2>1, <2>2 DEF OneCapture, Paid, TypeOK
  <1>2. ASSUME NEW w \in Workers, CommitRefund(w)
        PROVE  OneCapture'
    <2> DEFINE o == job[w].order
    <2>1. /\ o \in Orders /\ Paid(o)
          /\ orderStatus' = [orderStatus EXCEPT ![o] = "refunded"]
          /\ txns' = [txns EXCEPT ![o] = [txns[o] EXCEPT !.refund = @ + 1]]
      BY <1>2 DEF CommitRefund, Records, JobsOK, JobOK, RefundOK
    <2>2. txns'[o].capture = txns[o].capture
      BY <2>1 DEF TypeOK
    <2> QED BY <2>1, <2>2 DEF OneCapture, Paid, TypeOK
  <1>3. ASSUME NEW w \in Workers, CommitRefresh(w)
        PROVE  OneCapture'
    BY <1>3 DEF CommitRefresh, OneCapture, Paid
  <1> QED BY <1>1, <1>2, <1>3, BooksMove DEF OneCapture

LEMMA BooksStep ==
  ASSUME Inv, [Next]_vars
  PROVE  BooksMatchStripe'
  <1> USE DEF Inv
  <1>1. \A s \in Sales : Sent(s) => Sent(s)'
    BY StripeKeeps DEF Sent
  <1>2. ASSUME NEW w \in Workers, payout' = Written(w),
               \A s \in Sales : job[w].wrote[s] = "reversed" => s \in reversals
        PROVE  BooksMatchStripe'
    <2> SUFFICES ASSUME NEW s \in Sales
                 PROVE  /\ payout'[s] \in {"transferred", "reversed"} => Sent(s)'
                        /\ payout'[s] = "reversed" => s \in reversals'
      BY DEF BooksMatchStripe, Sent
    <2>1. payout'[s] = payout[s] \/ payout'[s] = job[w].wrote[s]
      BY <1>2 DEF Written
    <2>2. payout[s] \in {"transferred", "reversed"} => Sent(s)
      BY DEF BooksMatchStripe, Sent
    <2>3. payout[s] = "reversed" => s \in reversals
      BY DEF BooksMatchStripe
    <2>4. job[w].wrote[s] \in {"transferred", "reversed"} => Sent(s)
      BY DEF JobsOK, JobOK, WroteOK
    <2> QED BY <1>1, <1>2, <2>1, <2>2, <2>3, <2>4, StripeKeeps
  <1>3. ASSUME NEW w \in Workers, CommitFulfill(w) \/ CommitRefund(w) \/ CommitRefresh(w)
        PROVE  BooksMatchStripe'
    <2>1. payout' = Written(w)
      BY <1>3 DEF CommitFulfill, CommitRefund, CommitRefresh
    <2>2. \A s \in Sales : job[w].wrote[s] = "reversed" => s \in reversals
      BY <1>3 DEF CommitFulfill, CommitRefund, CommitRefresh, JobsOK, JobOK, FulfillOK, RefundOK, SettleOK
    <2> QED BY <1>2, <2>1, <2>2
  <1>4. CASE UNCHANGED payout
    BY <1>1, <1>4, StripeKeeps DEF BooksMatchStripe, Sent
  <1> QED BY <1>3, <1>4, BooksMove

LEMMA SharesStep ==
  ASSUME Inv, [Next]_vars
  PROVE  SharesFollowOrder'
  <1> USE DEF Inv
  <1> SUFFICES ASSUME NEW s \in Sales
               PROVE  /\ payout'[s] = "none" <=> ~Paid(s[1])'
                      /\ payout'[s] \in {"cancelled", "reversed"} => orderStatus'[s[1]] = "refunded"
    BY DEF SharesFollowOrder
  <1>1. s[1] \in Orders
    BY ConstantsAssumption
  <1>2. /\ payout[s] = "none" <=> ~Paid(s[1])
        /\ payout[s] \in {"cancelled", "reversed"} => orderStatus[s[1]] = "refunded"
    BY DEF SharesFollowOrder
  <1>3. ASSUME NEW w \in Workers, CommitFulfill(w) \/ CommitRefund(w) \/ CommitRefresh(w)
        PROVE  payout'[s] = IF job[w].wrote[s] = "same" THEN payout[s] ELSE job[w].wrote[s]
    BY <1>3 DEF CommitFulfill, CommitRefund, CommitRefresh, Written
  <1>4. ASSUME NEW w \in Workers, CommitFulfill(w)
        PROVE  /\ payout'[s] = "none" <=> orderStatus'[s[1]] \notin {"captured", "refunded"}
               /\ payout'[s] \in {"cancelled", "reversed"} => orderStatus'[s[1]] = "refunded"
    <2> DEFINE o == job[w].order
    <2>1. /\ o \in Orders /\ orderStatus' = [orderStatus EXCEPT ![o] = "captured"]
          /\ s[1] = o => job[w].wrote[s] \in {"owed", "failed", "transferred"}
          /\ s[1] # o => job[w].wrote[s] = "same"
      BY <1>4 DEF CommitFulfill, JobsOK, JobOK, FulfillOK
    <2> QED BY <1>1, <1>2, <1>3, <1>4, <2>1 DEF TypeOK, Paid
  <1>5. ASSUME NEW w \in Workers, CommitRefund(w)
        PROVE  /\ payout'[s] = "none" <=> orderStatus'[s[1]] \notin {"captured", "refunded"}
               /\ payout'[s] \in {"cancelled", "reversed"} => orderStatus'[s[1]] = "refunded"
    <2> DEFINE o == job[w].order
    <2>1. /\ o \in Orders /\ Paid(o) /\ orderStatus' = [orderStatus EXCEPT ![o] = "refunded"]
          /\ job[w].wrote[s] \in {"same", "cancelled", "reversed"}
          /\ job[w].wrote[s] # "same" => s[1] = o
      BY <1>5 DEF CommitRefund, JobsOK, JobOK, RefundOK
    <2> QED BY <1>1, <1>2, <1>3, <1>5, <2>1 DEF TypeOK, Paid
  <1>6. ASSUME NEW w \in Workers, CommitRefresh(w)
        PROVE  /\ payout'[s] = "none" <=> orderStatus'[s[1]] \notin {"captured", "refunded"}
               /\ payout'[s] \in {"cancelled", "reversed"} => orderStatus'[s[1]] = "refunded"
    <2>1. /\ UNCHANGED orderStatus
          /\ job[w].wrote[s] \in {"same", "failed", "transferred"}
          /\ job[w].wrote[s] # "same" => Paid(s[1])
      BY <1>6 DEF CommitRefresh, JobsOK, JobOK, SettleOK
    <2> QED BY <1>2, <1>3, <1>6, <2>1 DEF Paid
  <1>7. CASE \E w \in Workers : CommitFulfill(w) \/ CommitRefund(w) \/ CommitRefresh(w)
    BY <1>4, <1>5, <1>6, <1>7 DEF Paid
  <1> QED BY <1>1, <1>2, <1>7, BooksMove

-----------------------------------------------------------------------------
(***************************************************************************)
(* The theorems.                                                           *)
(***************************************************************************)

\* The invariant holds of the empty database and is kept by every step.
THEOREM Invariance == Spec => []Inv
  <1>1. Init => Inv
    <2> SUFFICES ASSUME Init
                 PROVE  Inv
      OBVIOUS
    <2>1. TypeOK
      BY IdleIsJob, ConstantsAssumption
         DEF Init, TypeOK, OrderStatus, PayoutStatus, ConnectStatus, SessionState
    <2>2. JobsOK
      BY DEF Init, JobsOK, JobOK, CheckoutOK, FulfillOK, RefundOK, SettleOK, WroteOK, Idle, NoWrites
    <2>3. \A o \in Orders : ~Paid(o)
      BY DEF Init, Paid
    <2>4. OneCapture /\ BooksMatchStripe /\ SharesFollowOrder
      BY <2>3, ConstantsAssumption DEF Init, OneCapture, BooksMatchStripe, SharesFollowOrder
    <2>5. OrdersOK /\ TransfersOK
      BY <2>3 DEF Init, OrdersOK, TransfersOK
    <2> QED BY <2>1, <2>2, <2>4, <2>5 DEF Inv
  <1>2. Inv /\ [Next]_vars => Inv'
    <2> SUFFICES ASSUME Inv, [Next]_vars
                 PROVE  Inv'
      OBVIOUS
    <2>1. TypeOK'
      BY TypeStep DEF Inv
    <2>2. JobsOK'
      BY JobsStep
    <2> QED BY <2>1, <2>2, OrdersStep, TransfersStep, CaptureStep, BooksStep, SharesStep DEF Inv
  <1> QED BY <1>1, <1>2, PTL DEF Spec

\* Every variable keeps its type.
THEOREM TypeCorrectness == Spec => []TypeOK
  <1>1. Inv => TypeOK
    BY DEF Inv
  <1> QED BY <1>1, Invariance, PTL

\* An order is captured once, whatever webhooks, page loads and crashes happen.
THEOREM CapturedOnce == Spec => []OneCapture
  <1>1. Inv => OneCapture
    BY DEF Inv
  <1> QED BY <1>1, Invariance, PTL

\* A photographer is never sent a second transfer for an order.
THEOREM SentOnce == Spec => []OneTransferPerShare
  <1>1. Inv => OneTransferPerShare
    BY DEF Inv, TypeOK, TransfersOK, OneTransferPerShare
  <1> QED BY <1>1, Invariance, PTL

\* No photographer is sent anything for an order that was not paid in full.
THEOREM SentWhenPaid == Spec => []MoneyOutAfterMoneyIn
  <1>1. Inv => MoneyOutAfterMoneyIn
    BY DEF Inv, TransfersOK, MoneyOutAfterMoneyIn
  <1> QED BY <1>1, Invariance, PTL

\* The books never claim a transfer or a reversal that Stripe did not make.
THEOREM BooksAreTrue == Spec => []BooksMatchStripe
  <1>1. Inv => BooksMatchStripe
    BY DEF Inv
  <1> QED BY <1>1, Invariance, PTL

\* No transfer is taken back from a photographer before the buyer is refunded.
THEOREM ReversedAfterRefund == Spec => []ReversalNeedsRefund
  <1>1. Inv => ReversalNeedsRefund
    BY DEF Inv, TransfersOK, ReversalNeedsRefund
  <1> QED BY <1>1, Invariance, PTL

\* A share is on the books exactly while its order has been paid for, and is
\* given up only once the order is refunded.
THEOREM SharesAreAllOrNothing == Spec => []SharesFollowOrder
  <1>1. Inv => SharesFollowOrder
    BY DEF Inv
  <1> QED BY <1>1, Invariance, PTL

\* The payment service implements the life of an order that OrderLifecycle states.
THEOREM Refinement == Spec => ImplementsLifecycle
  <1>1. Init => Lifecycle!Init
    BY DEF Init, Lifecycle!Init
  <1>2. Inv /\ [Next]_vars => [Lifecycle!Next]_<<orderStatus, session, refunds>>
    BY LifecycleStep
  <1> QED BY <1>1, <1>2, Invariance, PTL DEF Spec, ImplementsLifecycle, Lifecycle!Spec
=============================================================================
