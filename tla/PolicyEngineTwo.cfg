CONSTANTS
    AppDescs <- MCAppDescs
    Locations <- MCLocations
    Interfaces <- MCOneInterface
    PolicyFile <- MCOneRule
    Pids = {p1}
    Fds = {f1, f2}
    DescOf <- MCDescOf
    Kinds = {"ipv6"}
    Home = "home"
    Ppp <- MCPpp
    MaxConns = 2
    InfoCap = 1
    EventCap = 1
SPECIFICATION Spec
INVARIANTS
    TypeOK
    EvaluationSerialized
    CursorInTable
    QuietTableIsCurrent
