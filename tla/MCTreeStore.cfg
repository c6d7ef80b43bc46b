\* An old and a new workspace; a job with a budget of one creation and one that only
\* revises, two contents, two processes; one failed root query and one failed count.
SPECIFICATION FairSpec
CONSTANTS
    w1 = w1  w2 = w2  j1 = j1  j2 = j2  x1 = x1  x2 = x2  c1 = c1  c2 = c2
    Workspaces = {w1, w2}
    Legacy = {w1}
    Jobs = {j1, j2}
    Contents = {x1, x2}
    None = None
    Clients = {c1, c2}
    Home <- HomeOfJobs
    Operations <- OneCreatorTwoRevisers
    Budget <- BudgetOfOne
    Writes <- SharedAndOwnContent
    EditorStates = {"system_generated", "human_curated"}
    MaxItems = 3
    MaxLog = 3
    MaxMisled <- NewRootAndCreatorOnce
INVARIANTS TypeOK BudgetBound RootsBound LateBound AuditTail BeforeWasContent PathsAreAncestors
PROPERTIES CallsReturn
