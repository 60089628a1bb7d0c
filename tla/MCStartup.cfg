\* Two replicas, two migrations, two faults.
CONSTANTS
    Servers = {s1, s2}
    MaxVersion = 2
    MaxFaults = 2
SPECIFICATION StartLiveSpec
INVARIANTS
    AppliedOnceInOrder
PROPERTIES
    ImplementsRollout
    AllComeUp
