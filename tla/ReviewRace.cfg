SPECIFICATION Spec
CONSTANTS
    criterion = criterion
    Null = Null
    Criteria = {criterion}
    Weight <- MCWeight
    LevelScores = {0, 1}
    FullConfidence = 2
    Signals <- MCSignals
    Packages = {p1}
    Runs = {r1, r2, r3}
    Graders = {g1}
    Teachers = {t1, t2}
SYMMETRY Symmetry
INVARIANTS
    ReviewInv
    NoResultForgotten
    FinalResultHasOrigin
    TotalHasAuthor
CHECK_DEADLOCK FALSE
