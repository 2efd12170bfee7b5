SPECIFICATION FairSpec
CONSTANTS
    Agents <- MCAgents
    Engines = {e1}
    Stages <- MCPercentStages
    Labels = {}
    InitialMembers <- MCAgents
    InitialLabels <- MCNoLabels
    HasPrevious = TRUE
    MaxDrifted = 0
    Commands = {"abort"}
    Faults = {}
    MaxCommands = 1
    MaxFaults = 0
INVARIANT EveryCanaryReverted
CHECK_DEADLOCK FALSE
