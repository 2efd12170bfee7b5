SPECIFICATION EngineSpec
CONSTANTS
    Agents <- MCAgents
    Engines = {e1}
    Stages <- MCPercentStages
    Labels = {}
    InitialMembers <- MCAgents
    InitialLabels <- MCNoLabels
    HasPrevious = TRUE
    MaxDrifted = 0
    Commands = {"pause", "resume", "abort", "exclude"}
    Faults = {"drift", "burn", "window"}
    MaxCommands = 3
    MaxFaults = 2
INVARIANTS TypeOK BlastRadius RecordedCanaryReleased UnattendedReverted NoStuckPin StageAllOrNothing
PROPERTIES AdvanceOnlyConverged Settles
CHECK_DEADLOCK FALSE
