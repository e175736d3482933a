CONSTANTS
    NumChildren = 2
    MaxSignals = 1
    PipeCap = 2
    SignalTargets = {"main_sig", "forwarder"}
SPECIFICATION Spec
INVARIANTS
    TypeOK
    NoOrphans
    WalkedTableIsLive
CHECK_DEADLOCK FALSE
