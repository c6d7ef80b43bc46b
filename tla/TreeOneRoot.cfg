\* Two first calls of GetOrCreateTree for an old workspace.
SPECIFICATION Spec
CONSTANTS
    w1 = w1  w2 = w2  j1 = j1  j2 = j2  x1 = x1  x2 = x2  c1 = c1  c2 = c2
    Workspaces = {w1, w2}
    Legacy = {w1}
    Jobs = {j1, j2}
    Contents = {x1, x2}
    None = None
    Clients = {c1, c2}
    Home <- HomeOfJobs
    Operations <- NoOperations
    Budget <- BudgetOfOne
    Writes <- SharedAndOwnContent
    EditorStates = {"system_generated", "locked"}
    MaxItems = 4
    MaxLog = 4
    MaxMisled <- NoFailedQueries
INVARIANTS OneTree
