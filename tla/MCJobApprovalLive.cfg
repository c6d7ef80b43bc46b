SPECIFICATION FairSpec
CONSTANTS
    Jobs = {j1}
    Plans = {p1}
    Approvals = {a1, a2}
    CallerStatus = {draft}
    Clients = {c1, c2}
    Times = {1}
    None = None
PROPERTIES EveryCallReturns
