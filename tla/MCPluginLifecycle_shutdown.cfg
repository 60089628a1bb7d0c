\* What the comment of ShutdownAll promises.
CONSTANTS
    Plugins = {budgets, costbreakdown}
    EventFirst = {budgets}
    CanFail = {costbreakdown}
    EventCap = 2
    Items = 2
    MaxChecks = 2
    None = None
SPECIFICATION Spec
INVARIANT AllShutDown
