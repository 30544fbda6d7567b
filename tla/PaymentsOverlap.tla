--------------------------- MODULE PaymentsOverlap ---------------------------
(***************************************************************************)
(* Payments with a memory of whether two requests ever ran at the same     *)
(* time.  What the code keeps while requests are served one by one, and    *)
(* loses when they overlap, is stated here beside what it keeps anyway.    *)
(***************************************************************************)
EXTENDS Payments

VARIABLE overlapped  \* two requests have been running at once

ovars == <<vars, overlapped>>

Busy(w) == job[w].step # "idle"

\* Two requests are running now.
Overlap == \E v, w \in Workers : v # w /\ Busy(v) /\ Busy(w)

OverlapInit == Init /\ overlapped = FALSE

OverlapNext == Next /\ overlapped' = (overlapped \/ Overlap')

OverlapSpec == OverlapInit /\ [][OverlapNext]_ovars

FairOverlapSpec == OverlapSpec /\ Fairness
-----------------------------------------------------------------------------
(***************************************************************************)
(* Properties, besides PaidIsCaptured, which overlapping requests keep.    *)
(***************************************************************************)

\* As long as no two requests have overlapped, a refund takes every share back:
\* cancelled, or reversed, or left transferred with a failed reversal in the log,
\* whatever Stripe answers and wherever a request dies (reverse_order).
AloneRefundTakesSharesBack == overlapped \/ RefundTakesSharesBack

\* As long as no two requests have overlapped, no share worth sending stays owed
\* once its photographer's account is active (settle_order and
\* settle_photographer between them).
AloneNoStrandedShare == overlapped \/ NoStrandedShare

\* As long as no two requests have overlapped, shares only move along
\* payout_service.py's life of a share.
AlonePayoutMoves == [][overlapped' \/ PayoutMove]_payout
=============================================================================
