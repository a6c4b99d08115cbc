SPECIFICATION Spec
CONSTANTS
    Key <- MCKey
    NoKey <- MCNoKey
    Addr <- MCAddr
    NoAddr <- MCNoAddr
    MaxGenerations = 2
    Proc = {p1}
    V6 = {2}
    Document = {2}
    Window = 0
    LastDay = 1
    MaxLog = 4
CONSTRAINTS KeysInOrder NoRepetition OneCommits OneHolder ShortSecondDay
INVARIANTS
    TypeOK
    VerifiedIsEndorsed
    EvidenceAgrees
PROPERTIES
    VerifiedIsSound
    WholePoolIsComplete
    PoolNeverForgets
CHECK_DEADLOCK FALSE
