SPECIFICATION Spec
CONSTANTS
    Requests = {r1}
    Files = {f1}
    Cutoffs = {0}
    Balances = {0}
    MaxNow = 1
    MaxMoves = 1
    MaxReviews = 1
    f1 = f1
    r1 = r1
INVARIANTS LaterMoneyKeepsReviewTrue
