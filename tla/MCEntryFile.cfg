\* Four writing calls, one reader.
SPECIFICATION Spec
CONSTANTS
    Writes = {w1, w2, w3, w4}
    Readers = {r1}
    None = None
    Torn = Torn
SYMMETRY MCSymmetry
INVARIANTS TypeOK LastWritten ReadsLast WholeOrPending OwnTemp
