\* Three runs that overlap or follow each other, one source: the third may read what the first
\* two left behind.
CONSTANTS
    Projects = {p1}
    Sources = {k1}
    Kubernetes = {k1}
    Unregistered = {}
    Runs = {r1, r2, r3}
    MaxActive = 2
    Lookback = 2
    MaxTime = 2
    MaxFaults = 1
    Never = Never
    None = None
SYMMETRY Symmetry
SPECIFICATION Spec
INVARIANTS
    TypeOK
    NoOrphans
    NoDoubleCountAfterStamp
    LostOnlyWhileCollecting
PROPERTY
    ImplementsLedger
