SPECIFICATION Spec
CONSTANTS
    Key = {1, 2}
    NoKey = 0
    Addr = {a1}
    NoAddr = NoAddr
    MaxGenerations = 2
    Proc = {p1, p2}
    Document = {2}
    Window = 0
    LastDay = 1
    MaxLog = 3
CONSTRAINTS KeysInOrder NoRepetition
INVARIANTS
    VerifiedIsSound
    EvidenceAgrees
CHECK_DEADLOCK FALSE
