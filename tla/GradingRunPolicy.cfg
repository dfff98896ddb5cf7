SPECIFICATION Spec
CONSTANTS
    first = first
    second = second
    Null = Null
    unknown = unknown
    Criteria = {first, second}
    Weight <- MCWeight
    LevelScores = {0, 1}
    FullConfidence = 3
    RequestPolicies <- MCRequestPolicies
    ForeignKeys = {unknown}
    MaxSuggestions = 2
INVARIANTS
    TypeOK
    AutoAcceptIsEarned
    ReviewHasCause
    UnusableOutputIsNotUsed
    DeterministicPrevails
    ConfidenceIsWeakestSignal
CHECK_DEADLOCK FALSE
