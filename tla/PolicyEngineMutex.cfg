CONSTANTS
    AppDescs <- MCAppDescs
    Locations <- MCLocations
    Interfaces <- MCOneInterface
    PolicyFile <- MCOneRule
    Pids = {p1}
    Fds = {f1}
    DescOf <- MCDescOf
    Kinds = {"ipv6"}
    Home = "home"
    Ppp <- MCPpp
    MaxConns = 1
    InfoCap = 1
    EventCap = 1
SPECIFICATION Spec
INVARIANTS
    PolicyWalkLocked
