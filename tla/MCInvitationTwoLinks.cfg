CONSTANTS
    b1 = b1
    b2 = b2
    b3 = b3
    ann = ann
    bob = bob
    AnnTyped = AnnTyped
    Publishers = {p1}
    Batches = {b1, b3}
    Emails = {ann, bob}
    Pasted <- MCPasted
    Lower <- MCLower
    MaxAttempts <- MCMaxAttempts
    Lifetime <- MCLifetime
    Needed = 1
    MaxSupply = 1
    MaxTime = 0
    NoOne = NoOne
SPECIFICATION Spec
INVARIANTS
    OneLiveInvitation
CHECK_DEADLOCK FALSE
