SPECIFICATION Spec
CONSTANTS
    Packages = {p1, p2, p3}
    Contexts = {c1, c2}
    Sessions = {s1, s2}
    Null = Null
    MaxEvidence = 1
CHECK_DEADLOCK FALSE
SYMMETRY Symmetry
INVARIANTS LifecycleInv SupersededIffLinked LinksStayInContext GradableHasEvidence
