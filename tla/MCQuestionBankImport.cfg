CONSTANTS
    Requests = {r1, r2, r3}
    Ops <- MCOps
    Kind = "sql"
    Items <- BlankItems
    Importer = Importer
    NoOne = NoOne
SPECIFICATION Spec
SYMMETRY RequestSymmetry
INVARIANTS
    ImportMeetsPublishBar
CHECK_DEADLOCK FALSE
