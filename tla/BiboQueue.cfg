SPECIFICATION FairSpec
CONSTANTS
    c1 = c1
    c2 = c2
    Unwritten = Unwritten
    MAX_CLIENTS = 2
    NumChildren = 1
    Clients = {c1}
    ServersGroup = {}
    MaxRestarts = 1
    MaxKnocks = 4
INVARIANTS
    TypeOK
    ServesWrittenSlots
PROPERTY
    QueueIsDrained
