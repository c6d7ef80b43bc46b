SPECIFICATION Spec
CONSTANTS
    Jobs = {j1}
    Plans = {p1}
    Approvals = {a1}
    CallerStatus = {draft}
    None = None
PROPERTIES RunsOnlyApproved
