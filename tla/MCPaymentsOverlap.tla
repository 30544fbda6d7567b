-------------------------- MODULE MCPaymentsOverlap --------------------------
(* The small instances of MCPayments, for PaymentsOverlap. *)
EXTENDS MCPayments, PaymentsOverlap
=============================================================================
