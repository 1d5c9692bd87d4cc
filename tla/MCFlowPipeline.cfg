\* Three runs, two of them at a time, one regeneration, one loss.
SPECIFICATION FairFlowSpec
CONSTANTS
    Absent = Absent
    MaxAtATime = 2
    MaxAttempts = 1
    MaxRuns = 3
    MaxQueued = 1
    MaxLosses = 1
INVARIANTS
    FlowTypeOK
PROPERTIES
    RecapSettles
    FlowGraded
    LowReplaced
CHECK_DEADLOCK FALSE
