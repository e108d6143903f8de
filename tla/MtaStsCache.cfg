SPECIFICATION StsSpec
CONSTANTS
    Domains = {d1, d2}
    MAX_CACHE = 1
    NEGATIVE_TTL = 2
    Ages = {0, 9}
    MAX_AGE_CAP = 2
    MAX_BODY = 5
    MaxVersion = 2
    Horizon = 3
SYMMETRY Symmetry
INVARIANT CacheInv
PROPERTY PolicyCurrent
