SPECIFICATION Spec
CONSTANTS
    f1 = f1
    f2 = f2
    f3 = f3
    f4 = f4
    f5 = f5
    f6 = f6
    NoFile = NoFile
    NumConsumers = 3
    BUFFER_SIZE = 2
    Files = {f1, f2, f3, f4, f5, f6}
    Blocks <- MCBlocks
    OpenDirResults = {TRUE}
    BadSource = {f5}
    BadDest = {f6}
    ReadFails = {}
    WriteFails = {}
    Fifos = {}
    FdLimit = 4
    MaxSpurious = 1
INVARIANTS
    TypeOK
    MutualExclusion
    DescriptorsAccounted
    SleepersHaveReason
    TruncatedIsOwned
    ReportedIsComplete
    CleanupIsSafe
    NothingLeftBehind
PROPERTY
    ImplementsCopyQueue
