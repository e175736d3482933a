CONSTANTS
    Conns = {c1, c2}
    Threads = {c1, c2, "socks"}
    Pids = {pid1}
    Fds = {f1, f2, f3, f4, f5}
    MaxSocks = 2
    QueueCap = 2
SPECIFICATION Spec
SYMMETRY Symmetry
INVARIANTS
    TypeOK
    RegisteredWereEstablished
    RemovedStaysRemoved
    QuietRegistryIsExact
    UntimedOnlyAfterFailure
CHECK_DEADLOCK FALSE
