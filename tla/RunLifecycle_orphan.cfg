SPECIFICATION Spec
CONSTANTS
    b = b
    s = s
    Runs = {b}
    Instances = {i1, i2}
    None = None
    RunMode <- MCRunMode
    Tooled <- MCTooled
    MaxTurns = 1
    MaxIter = 2
    MaxClaim = 1
    MaxRescue = 1
    MayLead = {i1}
    MayCrash = {}
    Faults = {"slow"}
INVARIANTS
    NoRunForgotten
CHECK_DEADLOCK FALSE
