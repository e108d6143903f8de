SPECIFICATION Spec
CONSTANTS
    MaxIds = 4
    MaxSubmissions = 1
    SubmitSenders = {"local", "remote"}
    MAX_ATTEMPTS = 3
    BOUNCE_RETENTION = 1
    BackoffBase = 1
    BackoffCap = 2
    MaxCrashes = 1
    MaxFaults = 1
    MaxTrouble = 2
INVARIANTS
    SpoolInv
    SenderNotified
    DuplicatesExplained
PROPERTIES
    BackoffRespected
    ImplementsQueue
