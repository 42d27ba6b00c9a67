SPECIFICATION Spec
CONSTANTS
    p1 = p1
    p2 = p2
    p3 = p3
    Old = Old
    Instances = {p1, p2, p3}
    Appenders = {p3}
    NumBytes <- MCNumBytes
    Contents <- MCContents
    OpenFails = {p3}
    WriteMayFail = TRUE
INVARIANTS
    GrowsByTheLongest
    IInv
PROPERTY
    OnlySeekersOverwrite
