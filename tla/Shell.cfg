SPECIFICATION Spec
CONSTANTS
    MAX_COMMANDS = 9
    MAX_CHILDREN = 3
    MAX_FILES = 3
    Lines <- MCLines
    MaxLines = 3
    Signals = {"INT", "TERM"}
INVARIANTS
    TypeOK
    RunsItsSegment
    NoOrphans
