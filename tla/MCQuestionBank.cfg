CONSTANTS
    Requests = {r1, r2, r3}
    Ops <- MCOps
    Kind = "sql"
    Items <- MCItems
    Importer = Importer
    NoOne = NoOne
SPECIFICATION Spec
SYMMETRY RequestSymmetry
INVARIANTS
    LifecycleMatchesVersions
    EditsSurvive
    AuditReplays
PROPERTIES
    StatusFollowsLifecycle
    FrozenForever
CHECK_DEADLOCK FALSE
