CONSTANTS
    i1 = i1
    i2 = i2
    Invitations = {i1, i2}
    Requests = {r1, r2, r3}
    NoInvitation = NoInvitation
    NoOne = NoOne
    MaxAttempts <- MCMaxAttempts
    OpensAt <- MCOpensAt
    ExpiresAt <- MCExpiresAt
    Seated = {i1}
    Duration = 2
    StartWindow = 1
    Tail = 1
    MaxLife = 5
    MaxTime = 2
SPECIFICATION LiveSpec
INVARIANTS
    SittingsWithinAllowance
    AuditAccountsForSittings
    OutcomeMatchesTable
    SittingInsideWindow
PROPERTIES
    ImplementsSittings
    EveryRequestAnswered
CHECK_DEADLOCK FALSE
