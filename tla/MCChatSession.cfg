CONSTANTS
    Sockets = {w1, w2}
    Sessions = {s1, s2}
    Messages = {m1, m2}
    HistoryLimit = 3
    MaxSaves = 1
    None = None
SPECIFICATION Spec
INVARIANTS
    TypeOK
    RunsOnOwnCredentials
    PageFollowsHistory
PROPERTIES
    ImplementsDialogue
SYMMETRY Symmetry
CHECK_DEADLOCK FALSE
