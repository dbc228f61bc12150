CONSTANTS
    Addresses = {a1, a2}
    Capacity = 4
    Cost = 2
    MaxAge = 4
    LongestWatch = 6
SPECIFICATION RateSpec
INVARIANTS
    RateBound
PROPERTIES
    ImplementsBucket
