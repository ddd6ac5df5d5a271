SPECIFICATION FairSpec
CONSTANTS
    i1 = i1
    i2 = i2
    tool = tool
    agent = agent
    None = None
    Instances <- MCInstances
    Calls <- MCTool
    AgentCalls = {}
    Free = {}
    MaxTurns = 1
    MaxAttempts = 2
    MaxSnooze = 0
    MayCrash = {}
    MayStall = {}
    Faults = {"error"}
PROPERTIES
    EventuallyContinued
CHECK_DEADLOCK FALSE
