\* Three skills of a tenant beside a shared one, one question that carries
\* skills, and two people who edit at once.
CONSTANTS
    Skills = {g, a, b, c}
    Global = {g}
    Bearers = {q}
    Editors = {x, y}
    MaxEdited = 2
    MaxBody = 1
    Missing = Missing
SPECIFICATION TaxonomySpec
INVARIANTS
    TwoLevels
CHECK_DEADLOCK FALSE
