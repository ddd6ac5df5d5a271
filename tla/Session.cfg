SPECIFICATION SessionSpec
CONSTANTS
    r1 = r1
    r2 = r2
    k1 = k1
    k2 = k2
    u1 = u1
    u2 = u2
    call1 = call1
    p1 = p1
    a1 = a1
    a2 = a2
    n1 = n1
    n2 = n2
    t1 = t1
    c1 = c1
    c2 = c2
    x1 = x1
    x2 = x2
    x3 = x3
    m1 = m1
    m2 = m2
    Roots = {r1, r2}
    Kids = {k1, k2}
    Uses = {u1, u2}
    LongUses = {u1}
    NoRun = NoRun
    NoUse = NoUse
    MaxTurns = 2
    Callers = {call1}
    AutoCompaction = TRUE
    Hybrid = TRUE
    KeepToolOutputs = FALSE
    PreserveLastN = 1
    ProtectedTokens = 1
    TargetTokens = 8
    TriggerThreshold = 9
    ApiTotals = {12}
    Markable = {1}
    MaxFaults = 1
    MaxCompactions = 2
    Pages = {p1}
    PageLimit = 4
    RunLimit = 2
    PendingLimit = 2
    RecentRuns = 2
    RecentMessages = 2
    AgentIds = {a1, a2}
    Names = {n1, n2}
    Tags = {t1}
    NoTag = NoTag
    OwnTools = {n2}
    Helpers = {a1}
    Apps = {c1, c2}
    Drivers = {"pgx", "sql"}
    NoAgent = NoAgent
    Rows = {x1, x2, x3}
    Own = {x1, x2}
    AskedLimits = {0, 2}
    MaxPageLimit = 2
    Members = {m1, m2}
    Nobody = Nobody
    LeaseTTL = 1
    MemberTTL = 1
    MayDie = {m2}
    Tardy = {}
INVARIANTS
    SessionTypeOK
    RequestPaired
    NothingLost
    NothingForgotten
    AnswerShown
    HierarchyShowsAll
    WalkComplete
    FleetShown
PROPERTIES
    DeletesOldOnly
    MissIsFree
CHECK_DEADLOCK FALSE
