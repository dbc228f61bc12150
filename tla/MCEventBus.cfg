CONSTANTS
    Runs = {r1, r2}
    Subscribers = {s1}
    NoRun = NoRun
    HistoryLimit = 3
    QueueLimit = 2
    Retention = 1
    MaxEvents = 2
    MaxTime = 2
SPECIFICATION FairSpec
INVARIANTS
    TypeOK
    OrderedDelivery
    NoEventLost
PROPERTIES
    KeptForRetention
    ImplementsFeed
    StreamEnds
CHECK_DEADLOCK FALSE
