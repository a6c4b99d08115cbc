SPECIFICATION Spec
CONSTANTS
    Key <- MCKey
    NoKey <- MCNoKey
    Addr = {a1}
    NoAddr = NoAddr
    MaxGenerations = 2
    Proc = {p1}
    Document = {0, 1, 2, 3}
    Window = 0
    LastDay = 1
    MaxLog = 4
CONSTRAINTS KeysInOrder NoRepetition
PROPERTY VerifiedIfChainReaches
CHECK_DEADLOCK FALSE
