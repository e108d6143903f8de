SPECIFICATION Spec
CONSTANTS
    Hosts = {d, m}
    Domain = d
    Null = null
    Prefs = {0, 1}
    MaxAddrs = 2
    MaxRcpts = 2
    HostA = d
    HostB = m
    RRsets <- MCRRsets
    Chains <- MCChains
    Roots = {"root"}
INVARIANTS
    TransactionProtected
    RelayInv
PROPERTIES
    ImplementsCall
