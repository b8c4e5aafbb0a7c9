SPECIFICATION Spec
CONSTANTS
    Insts = {1}
    Amount = 3
    Receivable = {1, 3}
    Requests = {r1, r2}
    MaxPayments = 2
    Plans = {2}
    Notices = 2
    LastDay = 2
    r1 = r1
    r2 = r2
SYMMETRY Symmetry
INVARIANTS TypeOK DebtsAgree ClosedMoneyIsKnown AgreementCoversDebt
PROPERTIES AttemptsEndOnce
