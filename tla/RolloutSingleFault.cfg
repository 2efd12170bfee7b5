SPECIFICATION FairSpec
CONSTANTS
    Agents <- MCAgents
    Engines = {e1}
    Stages <- MCLabelStages
    Labels = {"canary", "site"}
    InitialMembers <- MCAgents
    InitialLabels <- MCShards
    HasPrevious = TRUE
    MaxDrifted = 0
    Commands = {"pause", "resume", "abort", "exclude"}
    Faults = {"store", "write", "crash", "churn", "window", "drift"}
    MaxCommands = 2
    MaxFaults = 1
PROPERTIES SuccessLasts RollbackLasts
CHECK_DEADLOCK FALSE
