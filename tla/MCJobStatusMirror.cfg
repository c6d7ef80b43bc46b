SPECIFICATION Spec
CONSTANTS
    Callers = {c1, c2}
    Stages = {s1, s2}
    Percents = {50, 100}
    Evaluations = {"passed"}
    None = None
SYMMETRY Symmetry
INVARIANTS TypeOK SuccessIsRecorded FinishedDocument SoloCallSyncs
