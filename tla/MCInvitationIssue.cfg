CONSTANTS
    b1 = b1
    b2 = b2
    b3 = b3
    ann = ann
    bob = bob
    AnnTyped = AnnTyped
    Publishers = {p1, p2}
    Batches = {b1, b2}
    Emails = {ann, bob}
    Pasted <- MCPasted
    Lower <- MCLower
    MaxAttempts <- MCMaxAttempts
    Lifetime <- MCLifetime
    Needed = 1
    MaxSupply = 1
    MaxTime = 1
    NoOne = NoOne
SPECIFICATION LiveSpec
INVARIANTS
    DuplicatesOnlyFromOverlap
    AuditCountsTrue
    PublishedOnce
PROPERTIES
    EveryBatchAnswered
CHECK_DEADLOCK FALSE
