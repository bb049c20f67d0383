SPECIFICATION Spec
CONSTANTS
    Nodes = {1, 2, 3, 4}
    DataEdges <- MixedData
    FailureEdges <- MixedFailure
    Required <- MixedRequired
    AnyJoin = {3}
    Parallel = {2, 3}
    NeedsApproval = {1}
    Tries <- RetryJoin
    MaxTry = 2
    MaxParallel = 2
    Drivers = {d1, d2}
    MaxRestarts = 1
SYMMETRY DriverSymmetry
INVARIANTS
    AttemptRunsOnce
    NoBlindRetry
    DispatchedHadInputs
    NoEffectWithoutGrant
    SuccessIsWhole
PROPERTIES
    OutcomesStay
CHECK_DEADLOCK FALSE
