SPECIFICATION Spec
CONSTANTS
    Key <- MCKey
    NoKey <- MCNoKey
    Addr = {a1}
    NoAddr = NoAddr
    MaxGenerations = 5
    Identity = {i1}
    Outsider = Outsider
    Nobody = Nobody
    Window = 0
    LastGeneration = 2
    LastDay = 0
    MaxLog = 5
CONSTRAINT KeysInOrder
INVARIANTS
    BundleAgrees
CHECK_DEADLOCK FALSE
