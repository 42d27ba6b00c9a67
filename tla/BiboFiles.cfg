SPECIFICATION FairSpec
CONSTANTS
    c1 = c1
    c2 = c2
    c3 = c3
    a = a
    b = b
    n = n
    MAX_FILES = 4
    Children = {c1, c2, c3}
    Names = {a, b, n}
    Listed = {a, b}
    Requests <- MCRequests
    Text <- MCText
    Old = Old
    Message = Message
    Hole = Hole
    NoName = NoName
    Foreign = Foreign
    NoFd = NoFd
INVARIANTS
    TypeOK
    NothingIsRead
    TableTruthful
PROPERTIES
    AppendsKept
    DeletesRequested
    EverybodyEnds
