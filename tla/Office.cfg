SPECIFICATION Spec
CONSTANTS
    Hosts = {"h1", "h2"}
    Sessions = {1, 2}
    Chunks = 2
    None = "none"
    BackupFiles = {1, 2}
    Admins = {1, 2, 3}
    Requester = 1
    Approvals = 2
    DecisionRequests = {1, 2, 3}
    Officers = {1, 2}
    Requests = {1, 2}
    MaxMeasurements = 2
    Assignee = 1
    Files = {1, 2}
    MaxEvents = 3
    Attempts = {1, 2, 3}
    Due = 1
    LastDay = 4
    Principal = 200
    Interest = 30
    Fine = 100
    Shortfalls = {0, 190}
    Members = {1, 2}
    Loans = {1, 3}
    BorrowerOf <- OddIsFirst
    Amount <- OneUnit
    Opening = 2
    Quota = 1
    NormalLimit = 1
    MinCash = 1
    MaxExposure = 1
    Simultaneous = 1
    Lenders = {1, 2}
INVARIANTS BackupsHold FiguresHold PapersHold SumsHold LoansHold  DecisionsHold
CHECK_DEADLOCK FALSE
