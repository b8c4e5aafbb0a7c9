SPECIFICATION Spec
CONSTANTS
    Requests = {r1, r2}
    Files = {f1}
    Cutoffs = {1}
    Balances = {0, 1}
    MaxNow = 2
    MaxMoves = 2
    MaxReviews = 2
    f1 = f1
    r1 = r1
    r2 = r2
SYMMETRY Symmetry
INVARIANTS TypeOK ReviewsAreSound OfficialIsFunded
PROPERTIES ImplementsClosingCertificate
