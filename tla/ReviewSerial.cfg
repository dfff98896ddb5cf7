SPECIFICATION Spec
CONSTANTS
    criterion = criterion
    Null = Null
    Criteria = {criterion}
    Weight <- MCWeight
    LevelScores = {0, 1}
    FullConfidence = 2
    Signals <- MCSignals
    Packages = {p1, p2}
    Runs = {r1, r2, r3}
    Graders = {g1, g2}
    Teachers = {t1}
SYMMETRY Symmetry
INVARIANTS
    SerialInv
    OneDecisionPerTask
    HistoryComplete
    ResultShowsDecision
PROPERTIES
    ImplementsReviewOutcome
CHECK_DEADLOCK FALSE
