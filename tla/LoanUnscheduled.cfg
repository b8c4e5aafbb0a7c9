SPECIFICATION Spec
CONSTANTS
    Members = {1, 2}
    Loans = {1, 3}
    Borrower <- OddIsFirst
    Principal <- OneUnit
    Opening = 2
    Quota = 1
    NormalLimit = 1
    MinCash = 1
    MaxExposure = 1
    Simultaneous = 1
    Admins = {1}
INVARIANTS LentMoneyIsScheduled
CHECK_DEADLOCK FALSE
