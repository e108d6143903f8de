SPECIFICATION Spec
CONSTANTS
    Users = {u, v}
    Here = here
    Elsewhere = {far, away}
    Mailboxes <- MCMailboxes
    LocalDomains = {here}
    Null = Null
    Nobody = Nobody
    MaxRecipients = 2
    MaxMessageSize = 5
    BodyLines <- MCBodyLines
SYMMETRY Symmetry
CHECK_DEADLOCK FALSE
INVARIANTS
    SessionInv
    NoOpenRelay
    AcceptedAccountedFor
PROPERTY
    EnvelopeAgreed
