SPECIFICATION GreylistSpec
CONSTANTS
    Triplets = {t1, t2, t3}
    Delay = 2
    PendingTtl = 3
    PassTtl = 5
    MaxEntries = 2
SYMMETRY Symmetry
INVARIANT GreylistTypeOK
PROPERTIES
    AllowEarned
    RetryAccepted
