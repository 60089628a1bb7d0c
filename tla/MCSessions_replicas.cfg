\* Two replicas, one migration, one fault; two tabs, three sign-ins.
CONSTANTS
    Servers = {s1, s2}
    MaxVersion = 1
    MaxFaults = 1
    Tabs = {t1, t2}
    StateAge = 1
    SessionAge = 2
    MaxTime = 3
    States = {n1, n2, n3}
    None = None
SPECIFICATION Spec
SYMMETRY Symmetry
INVARIANTS
    TypeOK
    SessionHonoured
PROPERTIES
    RejectedOnlyByOverlap
