\* j1 is an import and j2 an export whose result is too large.  The file
\* holds two items, the second of them refused, and one entry the reader
\* itself refuses.
CONSTANTS
    Jobs = {j1, j2}
    Workers = {w1, w2}
    Relays = {r1}
    Imports = {j1}
    Bad = {j2}
    Items = 2
    Problems = 1
    Refused = {1}
    Attempts = 2
    MaxStalled = 1
    MaxCrashes = 2
    MaxFaults = 1
    MaxLostAcks = 0
    MaxLockLosses = 0
    NoOne = NoOne
    NoJob = NoJob
SPECIFICATION Spec
INVARIANTS
    NothingVanishes
PROPERTIES
    ImplementsLedger
CHECK_DEADLOCK FALSE
