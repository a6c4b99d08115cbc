SPECIFICATION Spec
CONSTANTS
    Key <- MCKey
    NoKey <- MCNoKey
    Addr = {a1}
    NoAddr = NoAddr
    MaxGenerations = 5
    Identity = {i1}
    Outsider = Outsider
    Nobody = Nobody
    Window = 1
    LastGeneration = 2
    LastDay = 1
    MaxLog = 5
CONSTRAINT KeysInOrder
INVARIANTS
    TypeOK
    NoForkTakesHold
    ChainStaysWithIssuer
    UndisturbedDocumentsVerify
    UndisturbedBundleAgrees
CHECK_DEADLOCK FALSE
