SPECIFICATION FairSpec
CONSTANTS
    BindOrder <- MCBindOrder
    Inbound = "inbound"
    Settings <- MCSettings
    Limit <- MCLimit
    MaxPeers = 4
    MaxErrors = 1
INVARIANT
    PermitsConserved
    NoSilentDowngrade
PROPERTIES
    AcceptedUnlessFull
    ShutdownEnds
CHECK_DEADLOCK FALSE
