CONSTANTS
    Jobs = {j1}
    Workers = {w1, w2}
    Relays = {r1}
    Imports = {j1}
    Bad = {}
    Items = 2
    Problems = 0
    Refused = {}
    Attempts = 2
    MaxStalled = 1
    MaxCrashes = 0
    MaxFaults = 0
    MaxLostAcks = 0
    MaxLockLosses = 1
    NoOne = NoOne
    NoJob = NoJob
SPECIFICATION Spec
INVARIANTS
    WrittenOnce
CHECK_DEADLOCK FALSE
