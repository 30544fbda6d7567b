-------------------------------- MODULE Sales --------------------------------
(***************************************************************************)
(* Money in öre: prices, the photographer's share of a sale, what their    *)
(* sales page reports, and what a settlement sends them.                   *)
(***************************************************************************)
EXTENDS Integers, FiniteSets, Functions

CONSTANTS
    CommissionPercent,   \* platform_commission_percent, today's
    Unset                \* no share, no payout status

ASSUME SalesAssumption ==
    /\ CommissionPercent \in 0..100
    /\ Unset \notin Int \cup {"owed", "failed", "transferred", "cancelled", "reversed"}

\* validate_price: whole SEK from 49 to 10 000.
ValidPrice(amount) == amount % 100 = 0 /\ amount >= 4900 /\ amount <= 1000000

\* split_amount: the share is rounded down, the fee is the rest.
SplitAmount(amount, percent) ==
    LET share == (amount * (100 - percent)) \div 100 IN [share |-> share, fee |-> amount - share]

\* A sale is one photo in one quality of an order.  One from before payouts existed
\* has no share and no payout status: its share is shown at today's rate.
ShownShare(sale) ==
    IF sale.share = Unset THEN SplitAmount(sale.amount, CommissionPercent).share ELSE sale.share

BugOwed(payout) == payout = "owed"
IsOwed(payout) == payout \in {"owed", "failed"}

\* list_my_sales; refunded sales are left out of every total.
SalesTotals(sales) ==
    LET active == {s \in sales : s.order.status = "captured"}
        amounts == [s \in sales |-> s.amount]
        shown == [s \in sales |-> ShownShare(s)]
    IN  [amount |-> SumFunctionOnSet(amounts, active),
         photographer_amount |-> SumFunctionOnSet(shown, active),
         transferred |-> SumFunctionOnSet(shown, {s \in active : s.payout = "transferred"}),
         owed |-> SumFunctionOnSet(shown, {s \in active : IsOwed(s.payout)})]

\* _settle: one transfer per order, of what is owed of it.
TransferAmount(order, sales) ==
    SumFunctionOnSet([s \in sales |-> IF s.share = Unset THEN 0 ELSE s.share],
                     {s \in sales : s.order = order /\ s.payout \in {"owed", "failed"}})

\* settle_photographer: the orders that are captured; nothing is sent for a sum of 0.
Settlement(sales) ==
    LET orders == {s.order : s \in sales}
        transfers == [o \in orders |-> TransferAmount(o, sales)]
    IN  SumFunctionOnSet(transfers, {o \in orders : o.status = "captured" /\ transfers[o] > 0})
=============================================================================
