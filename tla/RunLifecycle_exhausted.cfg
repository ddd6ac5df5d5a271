SPECIFICATION FairSpec
CONSTANTS
    b = b
    s = s
    Runs = {b}
    Instances = {i1}
    None = None
    RunMode <- MCRunMode
    Tooled <- MCTooled
    MaxTurns = 1
    MaxIter = 2
    MaxClaim = 1
    MaxRescue = 1
    MayLead = {i1}
    MayCrash = {}
    Faults = {"slow", "lost_result"}
PROPERTIES
    ExhaustedRunFails
CHECK_DEADLOCK FALSE
