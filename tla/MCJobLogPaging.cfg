\* Pages of one and of two, three log rows and two jobs that appear at any time.
SPECIFICATION Spec
CONSTANTS
    j1 = j1  j2 = j2  w1 = w1
    Jobs = {j1, j2}
    Workspaces = {w1}
    None = None
    Ids = {1, 2, 3}
    Times = {1, 2}
    Asked = {0, 1}
    Max <- AtMostTwo
    Default <- TwoByDefault
SYMMETRY MCSymmetry
INVARIANTS TypeOK EachOnce NothingMissed NoJobMissed RepeatsBound
