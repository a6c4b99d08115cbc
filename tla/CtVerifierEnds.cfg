SPECIFICATION FairSpec
CONSTANTS
    Key = {k1, k2}
    NoKey = NoKey
    Addr = {a1}
    NoAddr = NoAddr
    MaxGenerations = 2
    Proc = {p1}
    Document = {NoKey}
    Window = 0
    LastDay = 0
    MaxLog = 3
PROPERTIES
    VerificationEnds
    ImplementsSuccession
    ChainsOnlyGrow
CHECK_DEADLOCK FALSE
