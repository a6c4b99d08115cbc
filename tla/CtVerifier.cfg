SPECIFICATION Spec
CONSTANTS
    Key <- MCKey
    NoKey <- MCNoKey
    Addr = {a1}
    NoAddr = NoAddr
    MaxGenerations = 2
    Proc = {p1}
    Document = {0, 1, 2, 3}
    Window = 0
    LastDay = 0
    MaxLog = 4
CONSTRAINTS KeysInOrder NoRepetition
INVARIANTS
    EvidenceAgrees
    TypeOK
    VerifiedIsSound
    WalkFindsDescendants
PROPERTIES
    WalkIsComplete
    ReportedKeyWasCurrent
CHECK_DEADLOCK FALSE
