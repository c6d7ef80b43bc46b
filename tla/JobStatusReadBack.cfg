SPECIFICATION Spec
CONSTANTS
    Callers = {c1}
    Stages = {s1}
    Percents = {50}
    Evaluations = {"passed"}
    None = None
INVARIANTS RunningReadsRunning
