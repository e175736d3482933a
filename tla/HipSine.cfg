CONSTANTS
    Addrs <- MCAddrs
    IfOf <- MCIfOf
    FamilyOf <- MCFamilyOf
    PeerFamilies = {"inet", "inet6"}
    MaxAssocs = 2
    NetlinkCap = 2
    MaxChanges = 2
    MaxCommands = 2
    Family = "inet"
SPECIFICATION Spec
INVARIANTS
    TypeOK
    OnlySwallowedAreMissed
    LastCommandWins
    HandoverNotLost
CHECK_DEADLOCK FALSE
