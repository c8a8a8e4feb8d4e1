CONSTANTS
    \* websocket tickets
    Tickets = {t1, t2}
    TTL = 2
    Skew = 1
    SweepInterval = 2
    MaxPause = 1
    MaxDrift = 2
    SigningKey = sessionSecret
    TicketSecret = sessionSecret
    MaxTime = 4
    MaxRestarts = 1
    Never = Never
    \* collaboration rooms
    Clients = {p1, p2}
    MaxConnects = 2
    MaxSockets = 3
    MaxOdd = 1
    MaxEdits = 1
    MaxReplaced = 0
    MaxSafe = 2097151
    Malformed = Malformed
    \* staff access
    Users = {u1}
    OrgOf <- MCOrgOf
    Tabs = {"a", "b"}
    WritePermission = "question.write"
    MaxTokens = 2
    MaxFlows = 1
    MaxRequests = 3
    SessionTTL = 1
    UpdateAge = 1
    MaxStaffTime = 1
    \* taxonomy
    Skills = {g, a, b, c}
    Global = {g}
    Bearers = {q}
    Editors = {x, y}
    MaxEdited = 2
    MaxBody = 1
    \* organisation settings
    Legal <- MCLegal
    Stored <- MCStored
    Patches <- MCPatches
    Admins = {"a1", "a2"}
    MaxPatches = 2
    \* job roles
    Codes = {"c1", "c2"}
    Recruiters = {r1, r2}
    NewRoles <- MCNewRoles
    RolePatches <- MCRolePatches
    MaxRoleEdits = 3
    \* the connection pools
    AppConns = {n1, n2}
    JobConns = {j1}
    Callers = {d1, d2}
    Orgs = {o1, o2}
    MaxStray = 1
    MaxBroken = 1
    \* the candidate's page
    Units = 2
    FirstDeadline = 6
    Fixed <- MCFixed
    Gap <- MCGap
    Extensions = {8}
    MaxShellTime = 4
    MaxOffered = 3
    MaxPending = 1
    Offsets = {0, 1}
    \* the question list
    Mangled = Mangled
    RowIds = {1, 2, 3}
    RowStates <- MCRowStates
    FilterSets <- MCFilterSets
    PageSize = 1
    MaxInstant = 1
    MaxWrites = 2
    MaxWalks = 2
    \* the question editor
    Authors = {e1, e2}
    EditorKinds = {"mcq_single"}
    Texts = {"t"}
    MaxVersions = 2
    MaxKeys = 2
    MaxLost = 1
    \* values that are not there, or not what they should be
    Missing = Missing
    Whitespace = Whitespace
    Garbled = Garbled
SPECIFICATION ComponentsSpec
INVARIANTS
    AdmittedOnce
    ReplayMeansAdmitted
    StoreForgets
    SyncedPeersAgree
    WithdrawnMeansRefused
    TokenFollowsSession
    MergesKeepTheBank
    AuditChains
    TenantScopeHolds
    NoThresholdMissed
    NewestStands
    PagesTile
    UntouchedFieldsKept
    EncodingsRoundTrip
    GradingIsFair
    AccessIsSound
CHECK_DEADLOCK FALSE
