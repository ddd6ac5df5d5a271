SPECIFICATION Spec
CONSTANTS
    i1 = i1
    i2 = i2
    tool = tool
    agent = agent
    None = None
    Instances <- MCInstances
    Calls <- MCTool
    AgentCalls = {}
    Free = {}
    MaxTurns = 2
    MaxAttempts = 2
    MaxSnooze = 1
    MayCrash = {i1}
    MayStall = {i1}
    Faults = {"error", "restart", "late"}
INVARIANTS
    TypeOK
    OneGoroutine
    AttemptsBounded
    OneAnswerPerTurn
PROPERTIES
    FinishedStaysFinished
CHECK_DEADLOCK FALSE
