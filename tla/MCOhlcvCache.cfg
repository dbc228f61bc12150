CONSTANTS
    Loads = {l1, l2}
    Tickers = {sber, gazp}
    LastBar = 3
    MinRows = 2
    Opening = 3
    sber = sber
    l1 = l1
    l2 = l2
    gazp = gazp
    Requests <- MCRequests
SPECIFICATION Spec
INVARIANTS
    TypeOK
    AnswersComplete
    FreshWhenDownloaded
    StoredMeansHit
