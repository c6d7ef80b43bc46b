SPECIFICATION Spec
CONSTANTS
    Jobs = {j1, j2}
    Plans = {p1, p2}
    Approvals = {a1, a2, a3}
    CallerStatus = {draft}
    None = None
SYMMETRY Symmetry
INVARIANTS TypeOK Ownership ApprovalBacksJob PlanAgrees
PROPERTIES ExecutionFollowsApproval
