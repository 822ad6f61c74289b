\* A service added to the routes while the gateway starts.
SPECIFICATION FairSpec
CONSTANTS
    s1 = s1
    s2 = s2
    h1 = h1
    h2 = h2
    NoReport = NoReport
    Services = {s1}
    Checks = {h1}
    MayFail = FALSE
    MaxChanges = 1
    Tables <- MCTables
PROPERTY NewServicesGetSubscribed
CHECK_DEADLOCK FALSE
