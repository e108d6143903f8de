SPECIFICATION Spec
CONSTANTS
    Recorders = {t1, t2}
    t1 = t1
    t2 = t2
    Checkers = {"c"}
    Capacity = 1
    MaxTears = 2
    Ips = {"p", "q"}
    ConfigAllow = {}
    ConfigBlock = {"q"}
    Burst = 1
    MAINTENANCE_INTERVAL = 2
    PRUNE_INTERVAL = 2
    IdleTtl = 1
    MaxTracked = 1
    TraceCapacity = 1
    MaxCalls = 3
    MaxReloads = 1
INVARIANTS
    ChainIntact
    TablesBounded
    BlockHonoured
    PauseAudited
CHECK_DEADLOCK FALSE
SYMMETRY Swap
