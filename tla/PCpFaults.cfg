SPECIFICATION FairSpec
CONSTANTS
    f1 = f1
    f2 = f2
    f3 = f3
    f4 = f4
    f5 = f5
    f6 = f6
    NoFile = NoFile
    NumConsumers = 2
    BUFFER_SIZE = 2
    Files = {f1, f2, f3, f4}
    Blocks <- MCBlocks
    OpenDirResults = {TRUE, FALSE}
    BadSource = {f4}
    BadDest = {}
    ReadFails = {f1}
    WriteFails = {f2, f3}
    Fifos = {}
    FdLimit = 3
    MaxSpurious = 1
INVARIANTS
    IInv
    NothingLeftBehind
PROPERTIES
    Termination
    BufferedGetsCopied
CHECK_DEADLOCK FALSE
