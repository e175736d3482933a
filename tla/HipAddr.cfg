CONSTANTS
    Addrs <- MCAddrs
    IfOf <- MCIfOf
    FamilyOf <- MCFamilyOf
    PeerFamilies = {"inet", "inet6"}
    MaxAssocs = 2
    MaxChanges = 5
    NetlinkCap = 2
SPECIFICATION AddrSpec
INVARIANTS
    AddrTypeOK
    MyAddrsAreCurrent
    
    SwitchesIfPossible
    
CHECK_DEADLOCK FALSE
