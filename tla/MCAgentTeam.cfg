CONSTANTS
    Universe = {sber, gazp}
    Families = {"momentum", "breakout"}
    Screened = {"momentum"}
    NoFamily = "none"
    MaxSpecs = 2
    MaxTasks = 1
SPECIFICATION TeamFairSpec
INVARIANTS
    TeamTypeOK
    OutcomeIsJust
PROPERTIES
    TeamEnds
CHECK_DEADLOCK FALSE
