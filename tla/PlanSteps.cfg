\* A rollout, an action and a rollout; operators and faults.
CONSTANTS
    Kinds <- MCKinds
    Engines = {e1}
    Api = api
    Commands = {"pause", "resume", "abort", "approve", "reject", "exclude"}
    Faults = {"store", "crash", "dispatch", "post", "restart"}
    MaxCommands = 2
    FlagCost = 2
    MaxFaults = 1
SPECIFICATION FairSpec
INVARIANTS
    PlanInv PlanOrder ActionsInOrder SucceededActionRan RunsOnce
    UndoOnlyAfterFailure FailureHandled
PROPERTY PlanEnds
CHECK_DEADLOCK FALSE
