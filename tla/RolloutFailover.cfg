SPECIFICATION FairSpec
CONSTANTS
    Agents <- MCAgents
    Engines = {e1, e2}
    Stages <- MCTwoStages
    Labels = {}
    InitialMembers <- MCAgents
    InitialLabels <- MCNoLabels
    HasPrevious = FALSE
    MaxDrifted = 0
    Commands = {"pause", "resume", "abort", "exclude"}
    Faults = {"crash", "store"}
    MaxCommands = 3
    MaxFaults = 1
INVARIANTS SnapshotInv PromotedOnlyIfSucceeded
PROPERTIES OperatorWins ImplementsLifecycle DwellRestarted
CHECK_DEADLOCK FALSE
