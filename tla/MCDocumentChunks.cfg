\* Every text of up to four lines, saved by three calls that overlap and fail.
SPECIFICATION Spec
CONSTANTS
    c1 = c1  c2 = c2  c3 = c3
    Titles = {"a", "b"}
    NoTitle = NoTitle
    MaxLines = 4
    Texts <- TextsOfKinds
    Calls = {c1, c2, c3}
INVARIANTS TypeOK TextKept SectionBound HeadingLeads
PROPERTIES RefinesChunkLists
CHECK_DEADLOCK FALSE
