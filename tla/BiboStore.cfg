SPECIFICATION Spec
CONSTANTS
    c1 = c1
    c2 = c2
    txt = txt
    t1 = t1
    t2 = t2
    a = a
    b = b
    NL = NL
    Junk = Junk
    Absent = Absent
    Clients = {c1, c2}
    Names <- MCNames
    Initial <- MCInitial
    Commands <- WritesReads
    MaxCommands = 2
    Impatient = {}
    OperatorStops = FALSE
INVARIANTS
    TypeOK
    BehindByOne

    
