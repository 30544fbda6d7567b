SPECIFICATION FairOverlapSpec
CONSTANTS
    o1 = o1  o2 = o2  p1 = p1  p2 = p2  w1 = w1  w2 = w2
    None = None
    Orders = {o1}
    Photographers = {p1, p2}
    Sales <- OneOrderTwoPhotographers
    Amount <- SecondShareIsZero
    Workers = {w1, w2}
    Outcomes = {"ok", "refused", "lost"}
INVARIANTS
    AloneRefundTakesSharesBack
    AloneNoStrandedShare
PROPERTIES
    AlonePayoutMoves
    PaidIsCaptured
