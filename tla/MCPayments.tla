----------------------------- MODULE MCPayments -----------------------------
(* Small instances of Payments for TLC. *)
EXTENDS Payments, TLC

CONSTANTS o1, o2, p1, p2, w1, w2

\* Two orders with photos of one photographer.
TwoOrdersOnePhotographer == {<<o1, p1>>, <<o2, p1>>}

\* One order with photos of two photographers.
OneOrderTwoPhotographers == {<<o1, p1>>, <<o1, p2>>}

OneOrderOnePhotographer == {<<o1, p1>>}

\* The second photographer's share is 0 öre (100 % commission).
SecondShareIsZero == [s \in Sales |-> IF s[2] = p1 THEN 1 ELSE 0]

\* Requests are interchangeable, and so are the two orders of one photographer.
Alike == {f @@ g : f \in Permutations(Workers), g \in Permutations(Orders)}
=============================================================================
