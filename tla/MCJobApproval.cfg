SPECIFICATION Spec
CONSTANTS
    Jobs = {j1}
    Plans = {p1, p2}
    Approvals = {a1, a2}
    CallerStatus = {draft}
    Clients = {c1, c2}
    Times = {1, 2}
    None = None
SYMMETRY Symmetry
INVARIANTS TypeOK NoWaitCycle
PROPERTIES RefinesLedger
