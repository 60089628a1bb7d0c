\* The smallest cluster; one informer has not synced when the cache says it is ready.
CONSTANTS
    Resources <- MCResources
    Order <- MCOrder
    MaxChanges = 0
    MaxFlips = 0
SPECIFICATION Spec
INVARIANT
    ReadyRequestsAreServed
