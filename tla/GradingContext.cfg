SPECIFICATION FairSpec
CONSTANTS
    None = None
    Absent = Absent
    r1 = r1
    k1 = k1
    g1 = g1
    g2 = g2
    s1 = s1
    s2 = s2
    Rubrics = {r1}
    AnswerKeys = {k1}
    Suggestions = {g1, g2}
    Sessions = {s1, s2}
    Schemas <- MCSchemas
    Payloads <- MCPayloads
    Proposals <- MCProposals
    EditedPayloads <- MCEdited
    MaxTransactions = 5
INVARIANTS
    TypeOK
    PublishedMeansLatest
    TracedToDecision
    DescriptorNeverAccepted
    LastBindingResolves
    ResolvedKeyIsCurrent
PROPERTIES
    ImplementsVersionHistory
    DraftKeepsAccepted
    PublicationSettles
CHECK_DEADLOCK FALSE
