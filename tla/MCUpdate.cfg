SPECIFICATION FairSpec
CONSTANTS
    Required = {"exe", "core"}
    Extra = {"listener"}
    Payload = {"asar"}
    ShellFiles = {"exe", "asar"}
    UiVersions = {"u1", "u2"}
    Releases = {"r0", "r1", "r2"}
    Base = "r0"
    Jobs <- MCJobs
    MaxUpdates = 2
    MaxBreaks = 2
INVARIANTS
    NativeFilesAtomic
    WholeUpdateAtomic
PROPERTIES
    CommittedStays
    InterruptedUpdateResolves
