SPECIFICATION Spec
CONSTANTS
    Packages = {p1, p2, p3}
    Contexts = {c1, c2}
    Sessions = {s1}
    Null = Null
    MaxEvidence = 2
CHECK_DEADLOCK FALSE
SYMMETRY Symmetry
INVARIANTS SerialInv OneCurrentPackage EvidenceSealed LinksAgree HistoryAcyclic
PROPERTIES HistoryIsFinal ImplementsPackageHistory
