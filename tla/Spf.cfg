SPECIFICATION Spec
CONSTANTS
    Zones <- MCZones
    Identities <- MCIdentities
    Bits <- MCBits
    PrefixLengths = {0, 2}
    MAX_LOOKUPS = 3
    MAX_VOID = 1
    MAX_HOSTS = 1
CHECK_DEADLOCK FALSE
INVARIANTS
    ResultRight
    QueriesBounded
PROPERTY
    Terminates
