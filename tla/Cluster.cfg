SPECIFICATION ClusterSpec
CONSTANTS
    i1 = i1
    i2 = i2
    w1 = w1
    w2 = w2
    run1 = run1
    Members = {i1, i2}
    Nobody = Nobody
    LeaseTTL = 2
    MemberTTL = 1
    MayDie = {i2}
    Tardy = {i2}
    Waiters = {w1, w2}
    AwaitedRuns = {run1}
    Nothing = Nothing
INVARIANTS
    ClusterTypeOK
    OneLeader
    OneSweeper
    MembersCanWork
    WakeUpOnItsWay
    AnswerIsTrue
    NoWaiterLeaks
PROPERTIES
    LeaderEmerges
    DeadCleaned
    WaiterReturns
CHECK_DEADLOCK FALSE
