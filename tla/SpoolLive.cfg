SPECIFICATION FairSpec
CONSTANTS
    MaxIds = 3
    MaxSubmissions = 1
    SubmitSenders = {"local", "remote"}
    MAX_ATTEMPTS = 2
    BOUNCE_RETENTION = 1
    BackoffBase = 1
    BackoffCap = 1
    MaxCrashes = 1
    MaxFaults = 1
    MaxTrouble = 1
PROPERTIES
    EventuallySettled
    BouncesFinished
