\* Two plugins of the two kinds, two checks each, two budgets, channels of one event.
CONSTANTS
    Plugins = {budgets, costbreakdown}
    EventFirst = {budgets}
    CanFail = {costbreakdown}
    EventCap = 1
    Items = 2
    MaxChecks = 2
    None = None
SPECIFICATION LiveSpec
INVARIANTS
    TypeOK
    BridgeFaithful
    AnnouncedIsStored
PROPERTIES
    ShutdownEnds
    EventsReachHub
