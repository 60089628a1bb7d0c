\* Two connections, two publishers, broadcasts only: the lock, the closing, liveness.
CONSTANTS
    Clients = {c1, c2}
    Publishers = {p1, p2}
    Topics = {}
    BufSize = 1
    MaxEvents = 1
    AllTopics = AllTopics
    Welcome = Welcome
    NoEvent = NoEvent
SPECIFICATION LiveSpec
INVARIANTS
    NoSendOnClosed
    PumpAlone
PROPERTIES
    PublishReturns
    DeadClientReaped
