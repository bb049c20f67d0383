\* Two builds of one task: retries, a shared snapshot table, two crashes.
SPECIFICATION Spec
CONSTANTS
    b1 = b1
    b2 = b2
    i1 = i1
    i2 = i2
    t1 = t1
    Builds = {b1, b2}
    Agents = {}
    Tasks = {t1}
    Intents = {i1, i2}
    Nothing = Nothing
    MaxCrashes = 2
    MaxReports = 0
SYMMETRY Symmetry
INVARIANTS
    OutcomeMatchesWorkspace
    CompletedHasEvidence
    LostLeaseNotSuccess
