SPECIFICATION Spec
CONSTANTS
    Insts = {1}
    Amount = 3
    Receivable = {3}
    Requests = {r1}
    MaxPayments = 2
    Plans = {1}
    Notices = 1
    LastDay = 1
    r1 = r1
INVARIANTS DebtIsCollectedOnce
