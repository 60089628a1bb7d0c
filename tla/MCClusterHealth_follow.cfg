\* The three stores of the cache, one change of each, OpenCost down and up again.
CONSTANTS
    Resources <- MCResources
    Order <- MCOrder
    MaxChanges = 1
    MaxFlips = 1
SPECIFICATION LiveSpec
INVARIANTS
    TypeOK
    ReadyRequestsAreSafe
PROPERTIES
    HealthFollows
    CacheFollows
