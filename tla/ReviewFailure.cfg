SPECIFICATION Spec
CONSTANTS
    criterion = criterion
    Null = Null
    Criteria = {criterion}
    Weight <- MCWeight
    LevelScores = {0, 1}
    FullConfidence = 2
    Signals <- MCSignals
    Packages = {p1}
    Runs = {r1}
    Graders = {g1}
    Teachers = {t1}
INVARIANTS
    FailureRecorded
CHECK_DEADLOCK FALSE
