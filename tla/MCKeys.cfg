SPECIFICATION FairSpec
CONSTANTS
    MaxHistory = 4
    MaxKeys = 5
    MaxFaults = 3
INVARIANTS
    RotationNeverStrands
    HistoryVerifies
PROPERTIES
    InterruptedRotationCompletes
