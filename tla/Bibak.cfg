SPECIFICATION FairSpec
CONSTANTS
    NoFile = NoFile
    Garbled = Garbled
    LocalFiles <- MCLocalFiles
    UserFiles <- MCUserFiles
    Kept <- MCKept
    MaxCommands = 1
    MaxInterrupts = 2
INVARIANTS
    TypeOK
    OneFilePerConnection
    NamesBeforeUploads
    DeletesAskedFor
PROPERTY
    Termination
CHECK_DEADLOCK FALSE
