SPECIFICATION FairSpec
CONSTANTS
    b = b
    s = s
    Runs = {b, s}
    Instances = {i1, i2}
    None = None
    RunMode <- MCRunMode
    Tooled <- MCTooled
    MaxTurns = 2
    MaxIter = 3
    MaxClaim = 2
    MaxRescue = 0
    MayLead = {}
    MayCrash = {i1}
    Faults = {}
INVARIANTS
    OneOwner
    NoRunForgotten
    WellFormedConversation
PROPERTIES
    ImplementsLoop
    EventuallyFinal
CHECK_DEADLOCK FALSE
