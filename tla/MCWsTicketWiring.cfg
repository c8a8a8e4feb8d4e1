\* The two processes with the keys they are wired with today.
CONSTANTS
    Tickets = {t1, t2}
    TTL = 4
    Skew = 1
    SweepInterval = 2
    MaxPause = 0
    MaxDrift = 2
    SigningKey = derivedKey
    TicketSecret = sessionSecret
    MaxTime = 8
    MaxRestarts = 1
    Never = Never
SPECIFICATION Spec
INVARIANTS
    IssuedTicketsVerify
CHECK_DEADLOCK FALSE
