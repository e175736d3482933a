CONSTANTS
    NumChildren = 1
    MaxSignals = 0
    PipeCap = 3
    SignalTargets = {"main_sig"}
SPECIFICATION FairSpec
PROPERTIES
    DeathTerminates
CHECK_DEADLOCK FALSE
