CONSTANTS
    AppDescs <- MCAppDescs
    Locations <- MCLocations
    Interfaces <- MCInterfaces
    PolicyFile <- MCPolicyFile
    Pids = {p1}
    Fds = {f1}
    DescOf <- MCDescOf
    Kinds = {"hip"}
    Home = "home"
    Ppp <- MCPpp
    MaxConns = 1
    InfoCap = 2
    EventCap = 1
SPECIFICATION Spec
INVARIANTS
    EngineInv
    AnswerMatchesRequest
    EvaluationChooses
PROPERTIES
    RecordedRuleIsApplied
