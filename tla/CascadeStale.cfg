SPECIFICATION Spec
CONSTANTS
    Key <- MCKey
    NoKey <- MCNoKey
    Addr <- MCAddr
    NoAddr <- MCNoAddr
    MaxGenerations = 2
    Proc = {p1}
    V6 = {2}
    Document = {2}
    Window = 0
    LastDay = 1
    MaxLog = 3
CONSTRAINTS KeysInOrder NoRepetition OneCommits OneHolder ShortSecondDay
PROPERTY CascadeFallsThrough
CHECK_DEADLOCK FALSE
