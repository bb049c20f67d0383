SPECIFICATION Spec
CONSTANTS
    Schedules = {"s1"}
    Rank <- MCRank
    Plans <- RunPlans
    Zones = {0}
    Day = 2
    SkipAfter = 0
    Clients = {"c1"}
    Triggers = {}
    MaxQueued = 1
    Overflow = "drop"
    CatchUp = 1
    WaitLimit = 1
    ListLimit = 1
    MaxTime = 3
    MaxPeriod = 2
    MaxRevision = 2
    MaxCommands = 3
    MaxCrashes = 1
INVARIANTS
    DailySlotAtMostOnce
PROPERTIES
    NoSlotLost
    ExclusiveWhenQueued
    EndedRunsStay
