SPECIFICATION AuthSpec
CONSTANTS
    Spellings = {"org", "ORG", "sub", "alien"}
    Lower <- MCLower
    OrgOf <- MCOrgOf
    Confs <- MCConfs
    Signers = {"ORG", "alien"}
    Profiles <- MCProfiles
    DmarcZones <- MCZones
    MAX_RECEIVED_HOPS = 2
    MaxSteps = 3
INVARIANTS
    DkimRight
    VerdictRight
    RowsAccounted
CHECK_DEADLOCK FALSE
