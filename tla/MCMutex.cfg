\* A terminal call and an agent call contend for the database mutex.
SPECIFICATION FairSpec
CONSTANTS
    Terminals = {t1}
    Agents = {a1}
    Checks = {}
    Nothing = Nothing
    MaxPending = 2
    MaxResolves = 1
    MaxCrashes = 0
    t1 = t1
    a1 = a1
PROPERTIES
    DecisionIsActedOn
CHECK_DEADLOCK FALSE
