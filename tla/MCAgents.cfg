\* Two runs of one task, with a continuation, through one crash.  The run ids
\* are used up in the end, so the model may stop.
SPECIFICATION Spec
CONSTANTS
    a1 = a1
    a2 = a2
    t1 = t1
    Builds = {}
    Agents = {a1, a2}
    Tasks = {t1}
    Intents = {}
    Nothing = Nothing
    MaxCrashes = 1
    MaxReports = 2
SYMMETRY Symmetry
INVARIANTS
    AgentSuccessWasReported
    NoBlindRetry
CHECK_DEADLOCK FALSE
