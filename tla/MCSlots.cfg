SPECIFICATION FairSpec
CONSTANTS
    Schedules = {"s1", "s2"}
    Rank <- MCRank
    Plans <- SlotPlans
    Zones = {0}
    Day = 1
    SkipAfter = 0
    Clients = {}
    Triggers = {"t1"}
    MaxQueued = 1
    Overflow = "drop"
    CatchUp = 2
    WaitLimit = 1
    ListLimit = 1
    MaxTime = 2
    MaxPeriod = 1
    MaxRevision = 1
    MaxCommands = 2
    MaxCrashes = 1
PROPERTIES
    DueSlotsAreHandled
