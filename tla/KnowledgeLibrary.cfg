SPECIFICATION Spec
CONSTANTS
    None = None
    s1 = s1
    s2 = s2
    g1 = g1
    u1 = u1
    u2 = u2
    Sources = {s1, s2}
    Suggestions = {g1}
    Sessions = {u1, u2}
    Contents <- MCContents
    Title <- MCTitle
    Scopes = {"organization"}
    Queries <- MCQueries
    Limit = 1
    Chunked <- MCChunked
    Named = {"text", "other"}
    Limits = {9, 20}
    MaxTransactions = 4
INVARIANTS
    TypeOK
    ChunksReadBack
    CitedChunkStays
    NothingReplacesChunks
    ActiveMeansConverted
SYMMETRY MCSymmetry
CHECK_DEADLOCK FALSE
