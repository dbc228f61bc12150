CONSTANTS
    Runs = {r1, r2}
    MaxTasks = 1
    TopSize = 1
    MaxHypotheses = 2
    MaxRestarts = 1
SPECIFICATION FairSpec
INVARIANTS
    TypeOK
    RecordMatchesStream
    FeedsClose
PROPERTIES
    ImplementsRecord
    RunSettles
CHECK_DEADLOCK FALSE
