\* A service added to the routes, with Nacos calls that may fail.
SPECIFICATION FairSpec
CONSTANTS
    s1 = s1
    s2 = s2
    h1 = h1
    h2 = h2
    NoReport = NoReport
    Services = {s1}
    Checks = {h1}
    MayFail = TRUE
    MaxChanges = 1
    Tables <- MCTables
PROPERTY HeardServicesGetSubscribed
CHECK_DEADLOCK FALSE
