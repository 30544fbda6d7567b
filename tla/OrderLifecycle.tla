--------------------------- MODULE OrderLifecycle ---------------------------
(***************************************************************************)
(* What the checkout promises of each order, whatever requests, retries    *)
(* and crashes lie behind it: an order is captured only for a payment,     *)
(* cancelled only when it can no longer be paid, and refunded only after   *)
(* the buyer's money went back; each of these happens at most once.        *)
(***************************************************************************)
CONSTANT Orders

VARIABLES status, session, refunds

Init ==
    /\ status = [o \in Orders |-> "none"]
    /\ session = [o \in Orders |-> "none"]
    /\ refunds = {}

Moves(o, old, new) == status[o] = old /\ status' = [status EXCEPT ![o] = new]

Becomes(o, old, new) == session[o] = old /\ session' = [session EXCEPT ![o] = new]

OfferPayment(o) ==
    status[o] = "none" /\ Becomes(o, "none", "open") /\ UNCHANGED <<status, refunds>>

Place(o) ==
    session[o] \in {"open", "expired"} /\ Moves(o, "none", "pending")
    /\ UNCHANGED <<session, refunds>>

Pay(o) ==
    /\ status[o] # "none"
    /\ Becomes(o, "open", "paid") \/ Becomes(o, "open", "mispaid")
    /\ UNCHANGED <<status, refunds>>

Expire(o) == Becomes(o, "open", "expired") /\ UNCHANGED <<status, refunds>>

Capture(o) ==
    session[o] = "paid" /\ Moves(o, "pending", "captured") /\ UNCHANGED <<session, refunds>>

Cancel(o) ==
    session[o] = "expired" /\ Moves(o, "pending", "cancelled") /\ UNCHANGED <<session, refunds>>

ReturnMoney(o) ==
    status[o] = "captured" /\ refunds' = refunds \cup {o} /\ UNCHANGED <<status, session>>

Close(o) ==
    o \in refunds /\ Moves(o, "captured", "refunded") /\ UNCHANGED <<session, refunds>>

Next ==
    \E o \in Orders :
        \/ OfferPayment(o) \/ Place(o) \/ Pay(o) \/ Expire(o)
        \/ Capture(o) \/ Cancel(o) \/ ReturnMoney(o) \/ Close(o)

Spec == Init /\ [][Next]_<<status, session, refunds>>
=============================================================================
