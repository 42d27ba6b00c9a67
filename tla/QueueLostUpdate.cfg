SPECIFICATION Spec
CONSTANTS
    c1 = c1
    c2 = c2
    Unwritten = Unwritten
    MAX_CLIENTS = 3
    NumChildren = 1
    Clients = {c1}
    ServersGroup = {}
    MaxRestarts = 1
    MaxKnocks = 3
INVARIANT
    CountIsDistance
