------------------------ MODULE PaymentsSerialProofs ------------------------
(***************************************************************************)
(* Theorems about Payments as long as no two requests have overlapped:     *)
(* what the runs show to fail for overlapping ones holds until then, for   *)
(* every set of orders, photographers, shares and workers, whatever Stripe *)
(* answers and wherever a request dies.                                    *)
(***************************************************************************)
EXTENDS PaymentsProofs, PaymentsOverlap

\* No request but w's is running.
Alone(w) == \A v \in Workers \ {w} : ~Busy(v)

\* A share that a fulfilment has left owed waits for its photographer's account.
LeftOwed(w) ==
    job[w].step = "fulfill" =>
        \A s \in SalesOf(job[w].order) \ job[w].todo :
            job[w].wrote[s] = "owed" /\ Amount[s] > 0 => connect[s[2]] # "active"

\* A refund's order stays captured until its COMMIT, and the refund has dealt with
\* each share according to what is on the books, or is still to do so.
TakesBack(w) ==
    /\ job[w].step \in {"refund", "update", "reverse"} => orderStatus[job[w].order] = "captured"
    /\ job[w].step = "reverse" => \A s \in job[w].todo : payout[s] = "transferred"
    /\ job[w].step = "reverse" =>
         \A s \in SalesOf(job[w].order) :
            /\ job[w].wrote[s] = "same" => payout[s] = "transferred" /\ s \in job[w].todo \cup manual
            /\ job[w].wrote[s] = "cancelled" => payout[s] \in ToSettle
            /\ job[w].wrote[s] = "reversed" => payout[s] = "transferred"

\* A refresh has read what is still on the books, and misses no share to settle.
Refreshing(w) == job[w].step \in {"retrieve", "collect", "settle"}
MissesNone(w) ==
    Refreshing(w) =>
        /\ job[w].loaded = connect[job[w].who]
        /\ job[w].loaded # "not_connected"
        /\ job[w].step # "settle" => /\ job[w].todo = {} /\ job[w].sending = None
                                     /\ \A s \in Sales : job[w].wrote[s] = "same"
        /\ \A s \in job[w].todo : payout[s] \in ToSettle
        /\ job[w].sending # None => job[w].sending \in job[w].todo
        /\ \A s \in Sales : job[w].wrote[s] # "same" => payout[s] \in ToSettle
        /\ job[w].step = "settle" /\ job[w].seen = "active" =>
             \A s \in SalesBy(job[w].who) :
                payout[s] \in ToSettle /\ Amount[s] > 0 => s \in job[w].todo \/ job[w].wrote[s] # "same"

JobSerial(w) == LeftOwed(w) /\ TakesBack(w) /\ MissesNone(w)

SerialInv ==
    /\ RefundTakesSharesBack /\ NoStrandedShare
    /\ \A w \in Workers : JobSerial(w)

\* The inductive invariant, beside Inv.
OverlapInv == overlapped \/ (~Overlap /\ SerialInv)

-----------------------------------------------------------------------------
(***************************************************************************)
(* What the steps of the one request do.                                   *)
(***************************************************************************)

\* Other requests than the one running rely on nothing.
LEMMA OnlyOne ==
  ASSUME NEW w \in Workers, Alone(w)', JobSerial(w)'
  PROVE  \A v \in Workers : JobSerial(v)'
  <1> SUFFICES ASSUME NEW v \in Workers, v # w
               PROVE  JobSerial(v)'
    OBVIOUS
  <1>1. job'[v].step = "idle"
    BY DEF Alone, Busy
  <1> QED BY <1>1 DEF JobSerial, LeftOwed, TakesBack, MissesNone, Refreshing

\* A request that takes a step without overlapping another is alone.
LEMMA OneRequest ==
  ASSUME Inv, NEW w \in Workers, RequestArrives(w) \/ RequestStep(w) \/ Rollback(w),
         ~Overlap, ~Overlap'
  PROVE  Alone(w)'
  <1>1. \E j : Takes(w, j)
    BY DEF RequestArrives, CreateSession, Fulfill, Refund, RefreshStatus, Rollback, RequestStep,
           CommitSession, SettleShare, Transfer, CommitFulfill, StripeRefund, UpdateRefunded,
           ReverseTransfer, CommitRefund, RetrieveAccount, CollectOwed, CheckOrder, SendOwed,
           CommitRefresh
  <1>2. \A v \in Workers \ {w} : job'[v] = job[v]
    BY <1>1, TakesOne DEF Inv
  <1>3. Busy(w) \/ Busy(w)'
    <2>1. RequestStep(w) \/ Rollback(w) => Busy(w)
      BY DEF Busy, Rollback, RequestStep, CommitSession, SettleShare, CommitFulfill, StripeRefund,
             UpdateRefunded, ReverseTransfer, CommitRefund, RetrieveAccount, CollectOwed, CheckOrder,
             SendOwed, CommitRefresh
    <2>2. ASSUME NEW o \in Orders, CreateSession(w, o)
          PROVE  Busy(w)'
      <3>1. job'[w] = [Idle EXCEPT !.step = "checkout", !.order = o]
        BY <2>2, TakesOne DEF CreateSession, Inv
      <3> QED BY <3>1 DEF Busy, Idle
    <2>3. ASSUME NEW o \in Orders, Fulfill(w, o)
          PROVE  Busy(w)'
      <3>1. job'[w] = [Idle EXCEPT !.step = "fulfill", !.order = o, !.todo = SalesOf(o),
                          !.wrote = [s \in Sales |-> IF s[1] = o THEN "owed" ELSE "same"]]
        BY <2>3, TakesOne DEF Fulfill, Inv
      <3> QED BY <3>1 DEF Busy, Idle
    <2>4. ASSUME NEW o \in Orders, Refund(w, o)
          PROVE  Busy(w)'
      <3>1. job'[w] = [Idle EXCEPT !.step = "refund", !.order = o]
        BY <2>4, TakesOne DEF Refund, Inv
      <3> QED BY <3>1 DEF Busy, Idle
    <2>5. ASSUME NEW p \in Photographers, RefreshStatus(w, p)
          PROVE  Busy(w)'
      <3>1. job'[w] = [Idle EXCEPT !.step = "retrieve", !.who = p,
                                   !.loaded = connect[p], !.seen = connect[p]]
        BY <2>5, TakesOne DEF RefreshStatus, Inv
      <3> QED BY <3>1 DEF Busy, Idle
    <2> QED BY <2>1, <2>2, <2>3, <2>4, <2>5 DEF RequestArrives
  <1> QED BY <1>2, <1>3 DEF Overlap, Alone, Busy

\* A finished request has nothing to rely on.
LEMMA IdleSerial ==
  ASSUME NEW w \in Workers, job'[w] = Idle
  PROVE  JobSerial(w)'
  BY DEF JobSerial, LeftOwed, TakesBack, MissesNone, Refreshing, Idle

\* A share that is to be settled belongs to an order still captured.
LEMMA ToSettleIsCaptured ==
  ASSUME Inv, RefundTakesSharesBack, NEW s \in Sales, payout[s] \in ToSettle
  PROVE  orderStatus[s[1]] = "captured"
  BY ConstantsAssumption DEF Inv, SharesFollowOrder, RefundTakesSharesBack, ToSettle, Paid

\* A share of a captured order is still to be settled, or was sent.
LEMMA CapturedShare ==
  ASSUME Inv, NEW s \in Sales, orderStatus[s[1]] = "captured"
  PROVE  payout[s] \in ToSettle \cup {"transferred"}
  BY DEF Inv, TypeOK, SharesFollowOrder, ToSettle, Paid, PayoutStatus

\* A share worth sending does not stay as it was.
LEMMA TransferWrites ==
  ASSUME TypeOK, NEW w \in Workers, NEW s \in Sales, Transfer(w, s)
  PROVE  \E st \in {job[w].wrote[s], "transferred", "failed"} :
           /\ Amount[s] > 0 => st \in {"transferred", "failed"}
           /\ Takes(w, [job[w] EXCEPT !.todo = @ \ {s}, !.sending = None,
                                      !.wrote = [@ EXCEPT ![s] = st]])
  <1> PICK reply \in Outcomes : Transfer(w, s)!(reply)
    BY DEF Transfer
  <1> DEFINE st == IF Amount[s] = 0 THEN job[w].wrote[s]
                   ELSE IF reply = "ok" THEN "transferred" ELSE "failed"
  <1>1. Takes(w, [job[w] EXCEPT !.todo = @ \ {s}, !.sending = None,
                                !.wrote = [@ EXCEPT ![s] = st]])
    OBVIOUS
  <1>2. st \in {job[w].wrote[s], "transferred", "failed"}
    OBVIOUS
  <1>3. Amount[s] > 0 => st \in {"transferred", "failed"}
    BY ConstantsAssumption
  <1> QED BY <1>1, <1>2, <1>3

\* What happens outside the requests: buyers, sessions, accounts.
LEMMA SerialOutside ==
  ASSUME Inv, SerialInv,
         (\E o \in Orders : OrderNext(o)) \/ (\E p \in Photographers : PhotographerNext(p))
  PROVE  SerialInv'
  <1> USE DEF Inv
  <1> DEFINE Quiet ==
        /\ UNCHANGED <<job, payout, manual>>
        /\ \A o \in Orders : orderStatus[o] = "captured" => orderStatus'[o] = "captured"
        /\ \A o \in Orders : orderStatus'[o] = "refunded" => orderStatus[o] = "refunded"
        /\ \A p \in Photographers :
             connect'[p] # connect[p] => connect[p] = "not_connected" /\ connect'[p] = "inactive"
  <1>1. Quiet
    <2>1. ASSUME NEW o \in Orders, OrderNext(o)
          PROVE  Quiet
      BY <2>1 DEF OrderNext, BuyerPays, SessionExpires, CancelUnpaid, FulfillMismatch, TypeOK, db, stripe
    <2>2. ASSUME NEW p \in Photographers, PhotographerNext(p)
          PROVE  Quiet
      BY <2>2 DEF PhotographerNext, AccountChanges, Connect, TypeOK, db, stripe
    <2> QED BY <2>1, <2>2
  <1>2. \A s \in Sales : s[1] \in Orders /\ s[2] \in Photographers
    BY ConstantsAssumption
  <1>3. RefundTakesSharesBack'
    BY <1>1, <1>2 DEF SerialInv, RefundTakesSharesBack
  <1>4. NoStrandedShare'
    BY <1>1, <1>2 DEF SerialInv, NoStrandedShare
  <1>5. ASSUME NEW w \in Workers
        PROVE  JobSerial(w)'
    <2> JobSerial(w) /\ JobOK(w)
      BY DEF SerialInv, JobsOK
    <2>1. LeftOwed(w)'
      BY <1>1, <1>2 DEF JobSerial, LeftOwed, SalesOf
    <2>2. TakesBack(w)'
      BY <1>1 DEF JobSerial, TakesBack, JobOK, RefundOK
    <2>3. MissesNone(w)'
      BY <1>1 DEF JobSerial, MissesNone, Refreshing, JobOK, SettleOK
    <2> QED BY <2>1, <2>2, <2>3 DEF JobSerial
  <1> QED BY <1>3, <1>4, <1>5 DEF SerialInv

\* A step of a request that commits nothing.
LEMMA SerialUncommitted ==
  ASSUME Inv, SerialInv, NEW w \in Workers, Alone(w)', JobSerial(w)',
         UNCHANGED <<orderStatus, payout, connect>>, manual \subseteq manual'
  PROVE  SerialInv'
  <1>1. RefundTakesSharesBack' /\ NoStrandedShare'
    BY DEF SerialInv, RefundTakesSharesBack, NoStrandedShare
  <1> QED BY <1>1, OnlyOne DEF SerialInv

\* A request arrives, or one is rolled back.
LEMMA SerialArrives ==
  ASSUME Inv, SerialInv, NEW w \in Workers, Alone(w)', RequestArrives(w) \/ Rollback(w)
  PROVE  SerialInv'
  <1> USE DEF Inv, db, stripe
  <1>1. /\ UNCHANGED <<orderStatus, payout, connect>>
        /\ manual \subseteq manual'
    BY DEF RequestArrives, CreateSession, Fulfill, Refund, RefreshStatus, Rollback
  <1>2. JobSerial(w)'
    <2>1. CASE Rollback(w)
      BY <2>1, TakesOne, IdleSerial DEF Rollback
    <2>2. ASSUME NEW o \in Orders, CreateSession(w, o)
          PROVE  JobSerial(w)'
      <3>0. job'[w] = [Idle EXCEPT !.step = "checkout", !.order = o]
        BY <2>2, TakesOne DEF CreateSession
      <3>1. job'[w].step = "checkout"
        BY <3>0 DEF Idle
      <3> QED BY <3>1 DEF JobSerial, LeftOwed, TakesBack, MissesNone, Refreshing
    <2>3. ASSUME NEW o \in Orders, Fulfill(w, o)
          PROVE  JobSerial(w)'
      <3>0. job'[w] = [Idle EXCEPT !.step = "fulfill", !.order = o, !.todo = SalesOf(o),
                          !.wrote = [s \in Sales |-> IF s[1] = o THEN "owed" ELSE "same"]]
        BY <2>3, TakesOne DEF Fulfill
      <3>1. job'[w].step = "fulfill" /\ job'[w].order = o /\ job'[w].todo = SalesOf(o)
        BY <3>0 DEF Idle
      <3> QED BY <3>1 DEF JobSerial, LeftOwed, TakesBack, MissesNone, Refreshing
    <2>4. ASSUME NEW o \in Orders, Refund(w, o)
          PROVE  JobSerial(w)'
      <3>0. job'[w] = [Idle EXCEPT !.step = "refund", !.order = o]
        BY <2>4, TakesOne DEF Refund
      <3>1. job'[w].step = "refund" /\ job'[w].order = o
        BY <3>0 DEF Idle
      <3>2. orderStatus'[o] = "captured"
        BY <1>1, <2>4 DEF Refund, Refundable
      <3> QED BY <3>1, <3>2 DEF JobSerial, LeftOwed, TakesBack, MissesNone, Refreshing
    <2>5. ASSUME NEW p \in Photographers, RefreshStatus(w, p)
          PROVE  JobSerial(w)'
      <3>0. job'[w] = [Idle EXCEPT !.step = "retrieve", !.who = p,
                                   !.loaded = connect[p], !.seen = connect[p]]
        BY <2>5, TakesOne DEF RefreshStatus
      <3>1. /\ job'[w].step = "retrieve" /\ job'[w].who = p /\ job'[w].loaded = connect[p]
            /\ job'[w].todo = {} /\ job'[w].sending = None /\ job'[w].wrote = NoWrites
        BY <3>0 DEF Idle
      <3>2. connect'[p] = connect[p] /\ connect[p] # "not_connected"
        BY <1>1, <2>5 DEF RefreshStatus
      <3> QED BY <3>1, <3>2 DEF JobSerial, LeftOwed, TakesBack, MissesNone, Refreshing, NoWrites
    <2> QED BY <2>1, <2>2, <2>3, <2>4, <2>5 DEF RequestArrives
  <1> QED BY <1>1, <1>2, SerialUncommitted

\* The steps of a fulfilment before its COMMIT.
LEMMA SerialSettleShare ==
  ASSUME Inv, SerialInv, NEW w \in Workers, Alone(w)', NEW s \in Sales, SettleShare(w, s)
  PROVE  SerialInv'
  <1> USE DEF Inv, db, stripe
  <1> job[w] \in Jobs
    BY DEF TypeOK
  <1>1. /\ UNCHANGED <<orderStatus, payout, connect, manual>>
        /\ job[w].step = "fulfill" /\ LeftOwed(w)
    BY DEF SettleShare, SerialInv, JobSerial
  <1>2. /\ job'[w].step = "fulfill" /\ job'[w].order = job[w].order
        /\ job'[w].todo = job[w].todo \ {s}
        /\ \A r \in Sales \ {s} : job'[w].wrote[r] = job[w].wrote[r]
        /\ job'[w].wrote[s] = "owed" /\ Amount[s] > 0 => connect[s[2]] # "active"
    <2>1. CASE connect[s[2]] = "active" /\ Transfer(w, s)
      <3>1. PICK st \in {job[w].wrote[s], "transferred", "failed"} :
              /\ Amount[s] > 0 => st \in {"transferred", "failed"}
              /\ Takes(w, [job[w] EXCEPT !.todo = @ \ {s}, !.sending = None,
                                         !.wrote = [@ EXCEPT ![s] = st]])
        BY <2>1, TransferWrites
      <3>2. job'[w] = [job[w] EXCEPT !.todo = @ \ {s}, !.sending = None,
                                     !.wrote = [@ EXCEPT ![s] = st]]
        BY <3>1, TakesOne
      <3> QED BY <1>1, <3>1, <3>2 DEF Jobs
    <2>2. CASE connect[s[2]] # "active" /\ Takes(w, [job[w] EXCEPT !.todo = @ \ {s}])
      <3>1. job'[w] = [job[w] EXCEPT !.todo = @ \ {s}]
        BY <2>2, TakesOne
      <3> QED BY <1>1, <2>2, <3>1 DEF Jobs
    <2> QED BY <2>1, <2>2 DEF SettleShare
  <1>3. JobSerial(w)'
    BY <1>1, <1>2 DEF JobSerial, LeftOwed, TakesBack, MissesNone, Refreshing, SalesOf
  <1> QED BY <1>1, <1>3, SerialUncommitted

\* The steps of a refund before its COMMIT.
LEMMA SerialRefundSteps ==
  ASSUME Inv, SerialInv, NEW w \in Workers, Alone(w)',
         StripeRefund(w) \/ UpdateRefunded(w) \/ (\E s \in Sales : ReverseTransfer(w, s))
  PROVE  SerialInv'
  <1> USE DEF Inv, db, stripe
  <1> job[w] \in Jobs
    BY DEF TypeOK
  <1>1. /\ UNCHANGED <<orderStatus, payout, connect>>
        /\ manual \subseteq manual'
        /\ TakesBack(w)
    BY DEF StripeRefund, UpdateRefunded, ReverseTransfer, SerialInv, JobSerial
  <1>2. CASE StripeRefund(w)
    <2>1. PICK reply \in Outcomes :
            Takes(w, IF Raises(reply) THEN Idle ELSE [job[w] EXCEPT !.step = "update"])
      BY <1>2 DEF StripeRefund
    <2>2. CASE Raises(reply)
      BY <1>1, <2>1, <2>2, TakesOne, IdleSerial, SerialUncommitted
    <2>3. CASE ~Raises(reply)
      <3>1. job'[w] = [job[w] EXCEPT !.step = "update"]
        BY <2>1, <2>3, TakesOne
      <3>2. job'[w].step = "update" /\ job'[w].order = job[w].order /\ job[w].step = "refund"
        BY <1>2, <3>1 DEF StripeRefund, Jobs
      <3>3. JobSerial(w)'
        BY <1>1, <3>2 DEF JobSerial, LeftOwed, TakesBack, MissesNone, Refreshing
      <3> QED BY <1>1, <3>3, SerialUncommitted
    <2> QED BY <2>2, <2>3
  <1>3. CASE UpdateRefunded(w)
    <2> DEFINE o == job[w].order
    <2>1. job'[w] = [job[w] EXCEPT
                       !.step = "reverse",
                       !.todo = {s \in SalesOf(o) : payout[s] = "transferred"},
                       !.wrote = [s \in Sales |->
                           IF s[1] = o /\ Cancels(payout[s]) THEN "cancelled" ELSE "same"]]
      BY <1>3, TakesOne DEF UpdateRefunded
    <2>2. job[w].step = "update" /\ orderStatus[o] = "captured"
      BY <1>1, <1>3 DEF UpdateRefunded, TakesBack
    <2>3. /\ job'[w].step = "reverse" /\ job'[w].order = o
          /\ job'[w].todo = {s \in SalesOf(o) : payout[s] = "transferred"}
          /\ job'[w].wrote = [s \in Sales |->
                 IF s[1] = o /\ Cancels(payout[s]) THEN "cancelled" ELSE "same"]
      BY <2>1 DEF Jobs
    <2>4. \A s \in SalesOf(o) : payout[s] \in ToSettle \cup {"transferred"}
      BY <2>2, CapturedShare DEF SalesOf
    <2>5. TakesBack(w)'
      BY <1>1, <2>2, <2>3, <2>4 DEF TakesBack, SalesOf, Cancels
    <2>6. JobSerial(w)'
      BY <2>3, <2>5 DEF JobSerial, LeftOwed, MissesNone, Refreshing
    <2> QED BY <1>1, <2>6, SerialUncommitted
  <1>4. ASSUME NEW s \in Sales, ReverseTransfer(w, s)
        PROVE  SerialInv'
    <2>1. PICK reply \in Outcomes : ReverseTransfer(w, s)!3!(reply)
      BY <1>4 DEF ReverseTransfer
    <2>2. job'[w] = [job[w] EXCEPT
                       !.todo = @ \ {s},
                       !.wrote = IF reply = "ok" THEN [@ EXCEPT ![s] = "reversed"] ELSE @]
      BY <2>1, TakesOne
    <2>3. job[w].step = "reverse" /\ s \in job[w].todo /\ s[1] = job[w].order
      BY <1>4 DEF ReverseTransfer, JobsOK, JobOK, RefundOK
    <2>4. /\ job'[w].step = "reverse" /\ job'[w].order = job[w].order
          /\ job'[w].todo = job[w].todo \ {s}
          /\ \A r \in Sales \ {s} : job'[w].wrote[r] = job[w].wrote[r]
          /\ job'[w].wrote[s] = IF reply = "ok" THEN "reversed" ELSE job[w].wrote[s]
          /\ manual' = IF reply = "ok" THEN manual ELSE manual \cup {s}
      BY <2>1, <2>2, <2>3 DEF Jobs
    <2>5. TakesBack(w)'
      BY <1>1, <2>3, <2>4 DEF TakesBack, SalesOf
    <2>6. JobSerial(w)'
      BY <2>4, <2>5 DEF JobSerial, LeftOwed, MissesNone, Refreshing
    <2> QED BY <1>1, <2>6, SerialUncommitted
  <1> QED BY <1>2, <1>3, <1>4

\* The steps of a refresh before its COMMIT.
LEMMA SerialRefreshSteps ==
  ASSUME Inv, SerialInv, NEW w \in Workers, Alone(w)',
         \/ RetrieveAccount(w) \/ CollectOwed(w)
         \/ (\E s \in Sales : CheckOrder(w, s)) \/ SendOwed(w)
  PROVE  SerialInv'
  <1> USE DEF Inv, db, stripe
  <1> job[w] \in Jobs
    BY DEF TypeOK
  <1>1. /\ UNCHANGED <<orderStatus, payout, connect>>
        /\ manual \subseteq manual'
        /\ MissesNone(w)
    BY DEF RetrieveAccount, CollectOwed, CheckOrder, SendOwed, SerialInv, JobSerial
  <1>2. ASSUME MissesNone(w)', Refreshing(w)'
        PROVE  SerialInv'
    <2>1. JobSerial(w)'
      BY <1>2 DEF JobSerial, LeftOwed, TakesBack, Refreshing
    <2> QED BY <1>1, <2>1, SerialUncommitted
  <1>3. CASE RetrieveAccount(w)
    <2> DEFINE now == account[job[w].who]
    <2>1. job'[w] = [job[w] EXCEPT !.seen = now, !.step = IF Settles(now) THEN "collect" ELSE "settle"]
      BY <1>3, TakesOne DEF RetrieveAccount
    <2>2. /\ job[w].step = "retrieve"
          /\ job'[w].step = IF now = "active" THEN "collect" ELSE "settle"
          /\ job'[w].seen = now
          /\ job'[w].who = job[w].who /\ job'[w].loaded = job[w].loaded
          /\ job'[w].todo = job[w].todo /\ job'[w].sending = job[w].sending
          /\ job'[w].wrote = job[w].wrote
      BY <1>3, <2>1 DEF RetrieveAccount, Settles, Jobs
    <2> HIDE DEF now
    <2>3. MissesNone(w)' /\ Refreshing(w)'
      BY <1>1, <2>2 DEF MissesNone, Refreshing
    <2> QED BY <1>2, <2>3
  <1>4. CASE CollectOwed(w)
    <2>1. job'[w] = [job[w] EXCEPT !.step = "settle",
                                   !.todo = {s \in SalesBy(job[w].who) : Collected(s)}]
      BY <1>4, TakesOne DEF CollectOwed
    <2>2. /\ job[w].step = "collect" /\ job'[w].step = "settle"
          /\ job'[w].todo = {s \in SalesBy(job[w].who) : payout[s] \in ToSettle}
          /\ job'[w].who = job[w].who /\ job'[w].loaded = job[w].loaded
          /\ job'[w].sending = job[w].sending /\ job'[w].wrote = job[w].wrote
      BY <1>4, <2>1 DEF CollectOwed, Collected, Jobs
    <2>3. MissesNone(w)' /\ Refreshing(w)'
      BY <1>1, <2>2 DEF MissesNone, Refreshing, SalesBy
    <2> QED BY <1>2, <2>3
  <1>5. ASSUME NEW s \in Sales, CheckOrder(w, s)
        PROVE  SerialInv'
    <2>1. orderStatus[s[1]] = "captured"
      BY <1>1, <1>5, ToSettleIsCaptured DEF CheckOrder, MissesNone, Refreshing, SerialInv
    <2>2. job'[w] = [job[w] EXCEPT !.sending = s]
      BY <1>5, <2>1, TakesOne DEF CheckOrder
    <2>3. /\ job[w].step = "settle" /\ job'[w].step = "settle" /\ s \in job[w].todo
          /\ job'[w].seen = job[w].seen /\ job'[w].who = job[w].who /\ job'[w].loaded = job[w].loaded
          /\ job'[w].todo = job[w].todo /\ job'[w].sending = s /\ job'[w].wrote = job[w].wrote
      BY <1>5, <2>2 DEF CheckOrder, Jobs
    <2>4. MissesNone(w)' /\ Refreshing(w)'
      BY <1>1, <2>3 DEF MissesNone, Refreshing
    <2> QED BY <1>2, <2>4
  <1>6. CASE SendOwed(w)
    <2> DEFINE s == job[w].sending
    <2>1. s \in Sales /\ s \in job[w].todo /\ job[w].step = "settle" /\ payout[s] \in ToSettle
      BY <1>1, <1>6 DEF SendOwed, MissesNone, Refreshing, Jobs
    <2>2. PICK st \in {job[w].wrote[s], "transferred", "failed"} :
            /\ Amount[s] > 0 => st \in {"transferred", "failed"}
            /\ Takes(w, [job[w] EXCEPT !.todo = @ \ {s}, !.sending = None,
                                       !.wrote = [@ EXCEPT ![s] = st]])
      BY <1>6, <2>1, TransferWrites DEF SendOwed
    <2>3. job'[w] = [job[w] EXCEPT !.todo = @ \ {s}, !.sending = None,
                                   !.wrote = [@ EXCEPT ![s] = st]]
      BY <2>2, TakesOne
    <2>4. /\ job'[w].step = "settle"
          /\ job'[w].seen = job[w].seen /\ job'[w].who = job[w].who /\ job'[w].loaded = job[w].loaded
          /\ job'[w].todo = job[w].todo \ {s} /\ job'[w].sending = None
          /\ \A r \in Sales \ {s} : job'[w].wrote[r] = job[w].wrote[r]
          /\ Amount[s] > 0 => job'[w].wrote[s] # "same"
      BY <2>1, <2>2, <2>3 DEF Jobs
    <2> HIDE DEF s
    <2>5. MissesNone(w)' /\ Refreshing(w)'
      BY <1>1, <2>1, <2>4 DEF MissesNone, Refreshing, SalesBy
    <2> QED BY <1>2, <2>5
  <1> QED BY <1>3, <1>4, <1>5, <1>6

-----------------------------------------------------------------------------
(***************************************************************************)
(* What the COMMITs do to the books.                                       *)
(***************************************************************************)

\* A fulfilment puts new shares on the books, and changes no others.
LEMMA FulfillWrites ==
  ASSUME Inv, SerialInv, NEW w \in Workers, CommitFulfill(w), NEW s \in Sales
  PROVE  \/ /\ payout[s] = "none" /\ orderStatus'[s[1]] = "captured"
            /\ payout'[s] = "owed" /\ Amount[s] > 0 => connect[s[2]] # "active"
         \/ payout'[s] = payout[s] /\ s[1] # job[w].order
  <1> USE DEF Inv
  <1>1. /\ job[w].step = "fulfill" /\ job[w].todo = {} /\ job[w].order \in Orders
        /\ payout' = Written(w) /\ orderStatus' = [orderStatus EXCEPT ![job[w].order] = "captured"]
        /\ orderStatus[job[w].order] = "pending"
        /\ LeftOwed(w)
        /\ s[1] = job[w].order => job[w].wrote[s] \in {"owed", "failed", "transferred"}
        /\ s[1] # job[w].order => job[w].wrote[s] = "same"
    BY DEF CommitFulfill, SerialInv, JobSerial, JobsOK, JobOK, FulfillOK
  <1>2. payout'[s] = IF job[w].wrote[s] = "same" THEN payout[s] ELSE job[w].wrote[s]
    BY <1>1 DEF Written
  <1>3. CASE s[1] = job[w].order
    <2>1. payout[s] = "none"
      BY <1>1, <1>3 DEF SharesFollowOrder, Paid
    <2>2. payout'[s] = "owed" /\ Amount[s] > 0 => connect[s[2]] # "active"
      BY <1>1, <1>2, <1>3 DEF LeftOwed, SalesOf
    <2>3. orderStatus'[s[1]] = "captured"
      BY <1>1, <1>3 DEF TypeOK
    <2> QED BY <2>1, <2>2, <2>3
  <1>4. CASE s[1] # job[w].order
    BY <1>1, <1>2, <1>4
  <1> QED BY <1>3, <1>4

\* A refund deals with every share of its order, and with no other.
LEMMA RefundWrites ==
  ASSUME Inv, SerialInv, NEW w \in Workers, CommitRefund(w), NEW s \in Sales
  PROVE  \/ /\ s[1] = job[w].order
            /\ \/ payout[s] \in ToSettle /\ payout'[s] = "cancelled"
               \/ payout[s] = "transferred" /\ payout'[s] = "reversed"
               \/ payout[s] = "transferred" /\ payout'[s] = "transferred" /\ s \in manual
         \/ payout'[s] = payout[s] /\ s[1] # job[w].order
  <1> USE DEF Inv
  <1>1. /\ job[w].step = "reverse" /\ job[w].todo = {}
        /\ payout' = Written(w) /\ TakesBack(w)
        /\ job[w].wrote[s] \in {"same", "cancelled", "reversed"}
        /\ job[w].wrote[s] # "same" => s[1] = job[w].order
    BY DEF CommitRefund, SerialInv, JobSerial, JobsOK, JobOK, RefundOK
  <1>2. payout'[s] = IF job[w].wrote[s] = "same" THEN payout[s] ELSE job[w].wrote[s]
    BY <1>1 DEF Written
  <1> QED BY <1>1, <1>2 DEF TakesBack, SalesOf

\* A refresh writes only over shares to settle, and leaves none worth sending.
LEMMA RefreshWrites ==
  ASSUME Inv, SerialInv, NEW w \in Workers, CommitRefresh(w), NEW s \in Sales
  PROVE  /\ \/ payout'[s] = payout[s]
            \/ payout[s] \in ToSettle /\ payout'[s] \in {"failed", "transferred"}
         /\ payout'[s] = "owed" /\ Amount[s] > 0 => connect'[s[2]] # "active"
  <1> USE DEF Inv
  <1>1. /\ job[w].step = "settle" /\ job[w].todo = {} /\ job[w].who \in Photographers
        /\ payout' = Written(w) /\ MissesNone(w)
        /\ job[w].wrote[s] \in {"same", "failed", "transferred"}
        /\ s[2] \in Photographers
    BY ConstantsAssumption DEF CommitRefresh, SerialInv, JobSerial, JobsOK, JobOK, SettleOK
  <1>2. payout'[s] = IF job[w].wrote[s] = "same" THEN payout[s] ELSE job[w].wrote[s]
    BY <1>1 DEF Written
  <1>3. \/ payout'[s] = payout[s]
        \/ payout[s] \in ToSettle /\ payout'[s] \in {"failed", "transferred"}
    BY <1>1, <1>2 DEF MissesNone, Refreshing
  <1>4. ASSUME payout'[s] = "owed", Amount[s] > 0
        PROVE  connect'[s[2]] # "active"
    <2>1. payout[s] = "owed" /\ job[w].wrote[s] = "same"
      BY <1>1, <1>2, <1>4
    <2>2. connect[s[2]] # "active"
      BY <1>4, <2>1 DEF SerialInv, NoStrandedShare
    <2>3. connect'[s[2]] = IF s[2] = job[w].who THEN job[w].seen ELSE connect[s[2]]
      BY <1>1 DEF CommitRefresh, MissesNone, Refreshing, TypeOK
    <2>4. s[2] = job[w].who => job[w].seen # "active"
      BY <1>1, <1>4, <2>1 DEF MissesNone, Refreshing, SalesBy, ToSettle
    <2> QED BY <2>2, <2>3, <2>4
  <1> QED BY <1>3, <1>4

\* A request commits.
LEMMA SerialCommits ==
  ASSUME Inv, SerialInv, NEW w \in Workers, Alone(w)',
         CommitSession(w) \/ CommitFulfill(w) \/ CommitRefund(w) \/ CommitRefresh(w)
  PROVE  SerialInv'
  <1> USE DEF Inv, db, stripe
  <1>1. \A v \in Workers : JobSerial(v)'
    BY TakesOne, IdleSerial, OnlyOne DEF CommitSession, CommitFulfill, CommitRefund, CommitRefresh
  <1>2. UNCHANGED manual
    BY DEF CommitSession, CommitFulfill, CommitRefund, CommitRefresh
  <1> SUFFICES ASSUME NEW s \in Sales
               PROVE  /\ orderStatus'[s[1]] = "refunded" =>
                            \/ payout'[s] \in {"cancelled", "reversed"}
                            \/ payout'[s] = "transferred" /\ s \in manual
                      /\ payout'[s] = "owed" /\ Amount[s] > 0 => connect'[s[2]] # "active"
    BY <1>1, <1>2 DEF SerialInv, RefundTakesSharesBack, NoStrandedShare
  <1>3. /\ orderStatus[s[1]] = "refunded" =>
               \/ payout[s] \in {"cancelled", "reversed"}
               \/ payout[s] = "transferred" /\ s \in manual
        /\ payout[s] = "owed" /\ Amount[s] > 0 => connect[s[2]] # "active"
        /\ s[1] \in Orders
    BY ConstantsAssumption DEF SerialInv, RefundTakesSharesBack, NoStrandedShare
  <1>4. CASE CommitSession(w)
    <2>1. orderStatus'[s[1]] = "refunded" => orderStatus[s[1]] = "refunded"
      BY <1>3, <1>4 DEF CommitSession, TypeOK
    <2> QED BY <1>3, <1>4, <2>1 DEF CommitSession
  <1>5. CASE CommitFulfill(w)
    <2>1. /\ UNCHANGED connect
          /\ s[1] # job[w].order => orderStatus'[s[1]] = orderStatus[s[1]]
      BY <1>3, <1>5 DEF CommitFulfill, TypeOK
    <2> QED BY <1>3, <1>5, <2>1, FulfillWrites
  <1>6. CASE CommitRefund(w)
    <2>1. /\ UNCHANGED connect
          /\ s[1] # job[w].order => orderStatus'[s[1]] = orderStatus[s[1]]
      BY <1>3, <1>6 DEF CommitRefund, TypeOK
    <2> QED BY <1>3, <1>6, <2>1, RefundWrites
  <1>7. CASE CommitRefresh(w)
    <2>1. UNCHANGED orderStatus
      BY <1>7 DEF CommitRefresh
    <2> QED BY <1>3, <1>7, <2>1, RefreshWrites DEF ToSettle
  <1> QED BY <1>4, <1>5, <1>6, <1>7

LEMMA SerialStep ==
  ASSUME Inv, SerialInv, [Next]_vars, ~Overlap, ~Overlap'
  PROVE  SerialInv'
  <1>1. ASSUME NEW w \in Workers, RequestStep(w)
        PROVE  SerialInv'
    <2>1. Alone(w)'
      BY <1>1, OneRequest
    <2> QED BY <1>1, <2>1, SerialSettleShare, SerialRefundSteps, SerialRefreshSteps, SerialCommits
            DEF RequestStep
  <1>2. ASSUME NEW w \in Workers, RequestArrives(w) \/ Rollback(w)
        PROVE  SerialInv'
    BY <1>2, OneRequest, SerialArrives
  <1>3. CASE UNCHANGED vars
    BY <1>3 DEF vars, SerialInv, RefundTakesSharesBack, NoStrandedShare, JobSerial, LeftOwed, TakesBack,
                MissesNone, Refreshing
  <1> QED BY <1>1, <1>2, <1>3, SerialOutside DEF Next

-----------------------------------------------------------------------------
(***************************************************************************)
(* The theorems.                                                           *)
(***************************************************************************)

\* Remembering overlaps changes nothing else.
THEOREM OverlapsArePayments == OverlapSpec => Spec
  <1>1. OverlapInit => Init
    BY DEF OverlapInit
  <1>2. [OverlapNext]_ovars => [Next]_vars
    BY DEF OverlapNext, ovars
  <1> QED BY <1>1, <1>2, PTL DEF OverlapSpec, Spec

\* The invariants hold as long as no two requests have overlapped.
LEMMA OverlapInvariance == OverlapSpec => [](Inv /\ OverlapInv)
  <1>1. OverlapInit => OverlapInv
    <2> SUFFICES ASSUME Init
                 PROVE  ~Overlap /\ SerialInv
      BY DEF OverlapInit, OverlapInv
    <2>1. \A w \in Workers : job[w] = Idle
      BY DEF Init
    <2>2. ~Overlap
      BY <2>1 DEF Overlap, Busy, Idle
    <2>3. SerialInv
      BY ConstantsAssumption
         DEF Init, SerialInv, RefundTakesSharesBack, NoStrandedShare, JobSerial, LeftOwed, TakesBack,
             MissesNone, Refreshing, Idle
    <2> QED BY <2>2, <2>3
  <1>2. Inv /\ OverlapInv /\ [OverlapNext]_ovars => OverlapInv'
    <2> SUFFICES ASSUME Inv, OverlapInv, [OverlapNext]_ovars, ~overlapped'
                 PROVE  (~Overlap)' /\ SerialInv'
      BY DEF OverlapInv
    <2>1. CASE UNCHANGED ovars
      <3>1. ~Overlap /\ SerialInv /\ UNCHANGED vars
        BY <2>1 DEF OverlapInv, ovars
      <3>2. (~Overlap)'
        BY <3>1 DEF Overlap, Busy, vars
      <3> QED BY <3>1, <3>2, SerialStep
    <2>2. CASE OverlapNext
      <3>1. ~overlapped /\ ~Overlap' /\ Next
        BY <2>2 DEF OverlapNext
      <3>2. ~Overlap /\ SerialInv
        BY <3>1 DEF OverlapInv
      <3> QED BY <3>1, <3>2, SerialStep
    <2> QED BY <2>1, <2>2
  <1> QED BY <1>1, <1>2, Invariance, OverlapsArePayments, PTL DEF OverlapSpec

\* Until two requests overlap, a refunded order leaves no share with a
\* photographer that is not reversed, cancelled or in the log.
THEOREM SharesTakenBack == OverlapSpec => []AloneRefundTakesSharesBack
  <1>1. OverlapInv => AloneRefundTakesSharesBack
    BY DEF OverlapInv, SerialInv, AloneRefundTakesSharesBack
  <1> QED BY <1>1, OverlapInvariance, PTL

\* Until two requests overlap, nothing worth sending is left owed to a
\* photographer whose account is active.
THEOREM NoneStranded == OverlapSpec => []AloneNoStrandedShare
  <1>1. OverlapInv => AloneNoStrandedShare
    BY DEF OverlapInv, SerialInv, AloneNoStrandedShare
  <1> QED BY <1>1, OverlapInvariance, PTL

\* Until two requests overlap, a share only moves along the life
\* payout_service.py gives it.
THEOREM SharesMoveForward == OverlapSpec => AlonePayoutMoves
  <1>1. Inv /\ OverlapInv /\ [OverlapNext]_ovars => [overlapped' \/ PayoutMove]_payout
    <2> SUFFICES ASSUME Inv, OverlapInv, [OverlapNext]_ovars, ~overlapped', payout' # payout,
                        NEW s \in Sales
                 PROVE  \/ payout'[s] = payout[s]
                        \/ payout[s] = "none"
                        \/ payout[s] \in ToSettle /\ payout'[s] \in {"owed", "failed", "transferred", "cancelled"}
                        \/ payout[s] = "transferred" /\ payout'[s] = "reversed"
      BY DEF PayoutMove
    <2>1. [Next]_vars /\ SerialInv
      BY DEF OverlapNext, ovars, vars, OverlapInv
    <2>2. PICK w \in Workers : CommitFulfill(w) \/ CommitRefund(w) \/ CommitRefresh(w)
      BY <2>1, BooksMove
    <2> QED BY <2>1, <2>2, FulfillWrites, RefundWrites, RefreshWrites
  <1> QED BY <1>1, OverlapInvariance, PTL DEF OverlapSpec, AlonePayoutMoves
=============================================================================
