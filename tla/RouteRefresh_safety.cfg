\* Two services, two health checks, two changes, any failure.
SPECIFICATION FairSpec
CONSTANTS
    s1 = s1
    s2 = s2
    h1 = h1
    h2 = h2
    NoReport = NoReport
    Services = {s1, s2}
    Checks = {h1, h2}
    MayFail = TRUE
    MaxChanges = 2
    Tables <- MCTables
INVARIANTS TypeOK HeardChangesStayQueued
PROPERTIES HealthCountsSubscribed EveryCheckAnswered
CHECK_DEADLOCK FALSE
