CONSTANTS
    Jobs = {j1}
    Workers = {w1, w2}
    Relays = {r1}
    Imports = {j1}
    Bad = {}
    Items = 2
    Problems = 1
    Refused = {1}
    Attempts = 2
    MaxStalled = 1
    MaxCrashes = 1
    MaxFaults = 1
    MaxLostAcks = 1
    MaxLockLosses = 1
    NoOne = NoOne
    NoJob = NoJob
SPECIFICATION LiveSpec
INVARIANTS
    NoDoubleImport
    NoItemLost
PROPERTIES
    JobsSettle
CHECK_DEADLOCK FALSE
