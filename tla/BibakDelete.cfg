SPECIFICATION FairSpec
CONSTANTS
    NoFile = NoFile
    Garbled = Garbled
    LocalFiles <- MCLocalFiles
    UserFiles <- MCUserFiles
    Kept <- MCKept
    MaxCommands = 1
    MaxInterrupts = 2
INVARIANT
    DeletesEntered
CHECK_DEADLOCK FALSE
