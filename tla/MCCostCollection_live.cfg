\* One run of every type that can be started twice over, sources of the three kinds.
CONSTANTS
    Projects = {p1, p2}
    Sources = {a1, k1, x1}
    Kubernetes = {k1}
    Unregistered = {x1}
    Runs = {r1}
    MaxActive = 1
    Lookback = 1
    MaxTime = 0
    MaxFaults = 1
    Never = Never
    None = None
SPECIFICATION LiveSpec
PROPERTY
    EverySourceHasItsTurn
