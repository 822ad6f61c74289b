\* An upgrade and an HTTP request side by side; every await that has to settles.
SPECIFICATION UpgradesFairSpec
CONSTANTS
    i1 = i1
    r1 = r1
    r2 = r2
    u1 = u1
    Unset = Unset
    NoRoute = NoRoute
    NoShape = NoShape
    NoTarget = NoTarget
    FallbackTarget = FallbackTarget
    DeadTarget = DeadTarget
    Requests = {r1}
    Instances = {i1}
    Upgrades = {u1}
    Paths <- MCPaths
    Length <- MCLength
    Shapes <- TogetherShapes
    UpgradeShapes <- MCUpgradeShapes
    Configs <- TogetherConfigs
    ServiceOf <- MCServiceOf
    Listings <- EnabledListings
INVARIANTS UpgradesTypeOK UpgradesFollowOneRoute RefusedAreCutOff
PROPERTIES OnlySubscriptionSkipsTheToken UpgradeCrashesExplained UpgradesComeToRest EveryRequestSettles
CHECK_DEADLOCK FALSE
