\* One build and one agent run in one startup pass, interrupted up to twice.
SPECIFICATION FairSpec
CONSTANTS
    b1 = b1
    a1 = a1
    t1 = t1
    i1 = i1
    Builds = {b1}
    Agents = {a1}
    Tasks = {t1}
    Intents = {i1}
    Nothing = Nothing
    MaxCrashes = 2
    MaxReports = 1
PROPERTIES
    SweptIsDecided
    KeepsPromise
