SPECIFICATION FairSpec
CONSTANTS
    Owners = {a1, a2}
    NoOwner = NoOwner
    Lease = 2
    Participations = {1, 2}
    MaxTime = 4
    MaxFaults = 1
INVARIANTS TypeOK CheckpointMatchesEffects SucceededRunIsComplete ExecutorIsOwner
PROPERTIES StepsAreFenced ImplementsDailyJob EveryAttemptEnds UndisturbedDayCloses
CHECK_DEADLOCK FALSE
