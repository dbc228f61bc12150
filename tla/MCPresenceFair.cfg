CONSTANTS
    Hyps = {h1}
    Sessions = {s1, s2}
    Pages = {p1}
    None = None
    LockTTL = 2
    SessionTTL = 1
    CleanupInterval = 1
    MaxUnread = 2
SPECIFICATION FairSpec
PROPERTIES
    StaleGoes
