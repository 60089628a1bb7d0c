\* One connection, two publishers with two events each, two topics, a buffer of two.
CONSTANTS
    Clients = {c1}
    Publishers = {p1, p2}
    Topics = {costs, alerts}
    AllTopics = AllTopics
    BufSize = 2
    MaxEvents = 2
    Welcome = Welcome
    NoEvent = NoEvent
SPECIFICATION Spec
SYMMETRY Symmetry
INVARIANTS
    TypeOK
    WelcomeFirst
    PublisherOrder
    NothingLost
PROPERTY ImplementsFeed
