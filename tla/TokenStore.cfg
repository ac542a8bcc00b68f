SPECIFICATION FairSpec
CONSTANTS
    Callers = {c1, c2}
    FileLines = 2
    MaxRotations = 2
    MaxRestarts = 1
    MaxFailures = 1
INVARIANTS TypeOK CrashRisksOneToken NewestPresented
PROPERTY CallersAnswered
CHECK_DEADLOCK FALSE
