SPECIFICATION Spec
CONSTANTS
    b = b
    s = s
    Runs = {b, s}
    Instances = {i1, i2}
    None = None
    RunMode <- MCRunMode
    Tooled <- MCTooled
    MaxTurns = 2
    MaxIter = 2
    MaxClaim = 1
    MaxRescue = 1
    MayLead = {i1}
    MayCrash = {i1}
    Faults = {"slow", "fast_batch", "lost_result", "timeout", "restart", "stall", "error", "late_notify"}
INVARIANTS
    TypeOK
    IterationsContiguous
    AskedOnce
    ExclusivePreparation
    RescueBudget
PROPERTIES
    TerminalNeverReopened
    CurrentIterationNeverRegresses
ACTION_CONSTRAINT
    OneRun
CHECK_DEADLOCK FALSE
