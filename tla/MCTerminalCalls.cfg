\* One terminal call and one reconciliation call, two crashes. Action ids are
\* used up in the end, so the model may stop.
SPECIFICATION Spec
CONSTANTS
    Terminals = {t1}
    Agents = {}
    Checks = {c1}
    Nothing = Nothing
    MaxPending = 2
    MaxResolves = 2
    MaxCrashes = 2
    t1 = t1
    c1 = c1
INVARIANTS
    RanUnderReceipt
    RunsOnce
    DeniedNeverRuns
    StateMatchesReceipts
    RunIsAccountedFor
    NeverSafeMode
CHECK_DEADLOCK FALSE
