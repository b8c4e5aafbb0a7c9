SPECIFICATION FairSpec
CONSTANTS
    Requests = {r1, r2}
    Files = {f1}
    Cutoffs = {0}
    Balances = {0, 1}
    MaxNow = 0
    MaxMoves = 1
    MaxReviews = 1
    f1 = f1
    r1 = r1
    r2 = r2
PROPERTIES EveryRequestEnds
