SPECIFICATION FairSpec
CONSTANTS
    i1 = i1
    i2 = i2
    tool = tool
    agent = agent
    None = None
    Instances <- MCInstances
    Calls <- MCCalls
    AgentCalls = {agent}
    Free = {}
    MaxTurns = 2
    MaxAttempts = 1
    MaxSnooze = 0
    MayCrash = {i1}
    MayStall = {}
    Faults = {}
INVARIANTS
    AnswersComplete
PROPERTIES
    ImplementsTurns
CHECK_DEADLOCK FALSE
