CONSTANTS
    Hyps = {h1, h2}
    Sessions = {s1, s2}
    Pages = {p1}
    None = None
    LockTTL = 1
    SessionTTL = 1
    CleanupInterval = 1
    MaxUnread = 2
SPECIFICATION Spec
INVARIANTS
    TypeOK
    PagesConverge
PROPERTIES
    HolderKeepsLock
