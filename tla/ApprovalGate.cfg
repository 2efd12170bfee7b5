SPECIFICATION Spec
CONSTANTS
    Names <- MCNames
    Fold <- MCFold
    Requester = "alice"
    RequiredApprovals = 2
    RequiredRoles = {"sre"}
    RolesOf <- MCRolesOf
    Calls = {c1, c2, c3}
    Kinds = {"approve", "reject", "abort", "exclude"}
    Faults = {"crash", "resolver"}
    MaxCalls = 4
    MaxFaults = 1
INVARIANTS ApprovalInv QuorumIsActedOn
PROPERTY DecisionStands
SYMMETRY CallSymmetry
CHECK_DEADLOCK FALSE
