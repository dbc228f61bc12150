CONSTANTS
    Scale = 2
    Lookbacks = {1, 3}
    Threshold <- MCThreshold
    Calm = 1
    Prices = {1, 2}
    Fees = {0, 1}
    MaxBars = 6
    MinReturns = 5
    MinPrices = 5
    MinTest = 2
    NoHypothesis = NoHypothesis
    Splits = 4
    TestSplits = 2
    EmbargoNum = 1
    EmbargoDen = 5
    MaxObs = 6
    MaxHorizon = 2
SPECIFICATION Spec
INVARIANTS
    TypeOK
    NothingLeaks
    HistoryUsed
PROPERTIES
    ImplementsTrader
CHECK_DEADLOCK FALSE
