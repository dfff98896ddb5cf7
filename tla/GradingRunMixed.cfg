SPECIFICATION Spec
CONSTANTS
    first = first
    second = second
    Null = Null
    unknown = unknown
    Criteria = {first, second}
    Weight <- MCWeight
    LevelScores = {0, 1}
    FullConfidence = 3
    RequestPolicies <- MCDefaultPolicy
    ForeignKeys = {unknown}
    MaxSuggestions = 2
INVARIANTS
    TotalCoversRubric
CHECK_DEADLOCK FALSE
