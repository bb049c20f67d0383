SPECIFICATION FairSpec
CONSTANTS
    a1 = a1
    a2 = a2
    q1 = q1
    Actions = {a1, a2}
    Requests = {q1}
    Age = 0
    Budget = 2
    MaxKeys = 2
    MaxTime = 1
INVARIANTS
    ChainIsWhole
    EvidenceKept
    AppendsGoOn
    VerdictIsTrue
PROPERTIES
    RetentionBounds
    RetentionHappens
