SPECIFICATION ThrottleSpec
CONSTANTS
    Ips = {i1, i2}
    Conns = {c1, c2, c3}
    Closed = Closed
    MaxFailures = 2
    Lockout = 3
    MaxBurst = 6
SYMMETRY Symmetry
INVARIANTS
    GuessesCounted
    GuessesBounded
PROPERTY
    LockHeld
