CONSTANTS
    Conns = {c1, c2}
    Threads = {c1, c2, "socks"}
    Pids = {pid1}
    Fds = {f1, f2, f3}
    MaxSocks = 2
    QueueCap = 2
SPECIFICATION Spec
PROPERTIES
    RemovalIsOwn
CHECK_DEADLOCK FALSE
