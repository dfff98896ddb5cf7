SPECIFICATION Spec
CONSTANTS
    Packages = {p1, p2}
    Contexts = {c1}
    Sessions = {s1, s2}
    Null = Null
    MaxEvidence = 1
CHECK_DEADLOCK FALSE
INVARIANT OneCurrentPackage
