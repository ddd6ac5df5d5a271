SPECIFICATION CompSpec
CONSTANTS
    Roots = {r1}
    Kids = {}
    Uses = {u1, u2}
    LongUses = {u1}
    NoRun = NoRun
    NoUse = NoUse
    MaxTurns = 3
    Callers = {call1}
    AutoCompaction = FALSE
    Hybrid = TRUE
    KeepToolOutputs = FALSE
    PreserveLastN = 1
    ProtectedTokens = 1
    TargetTokens = 8
    TriggerThreshold = 9
    ApiTotals = {}
    MaxCompactions = 1
    MaxFaults = 0
    Markable = {}
INVARIANTS
    PruningKeepsPairs
CHECK_DEADLOCK FALSE
