CONSTANTS
    Nodes = {n1, n2, n3, n4}
    Keys = {k1, k2}
    Readers = {pe}
    NULL = NULL
SPECIFICATION FairSpec
INVARIANTS
    TypeOK
    TailIsLast
    NoUseAfterFree
    NoLeak
PROPERTIES
    TableSpec
    MutexReleased
CHECK_DEADLOCK FALSE
