\* An upgrade that needs a token, after an HTTP request has gone through the proxy.
SPECIFICATION UpgradesSpec
CONSTANTS
    i1 = i1
    r1 = r1
    r2 = r2
    u1 = u1
    Unset = Unset
    NoRoute = NoRoute
    NoShape = NoShape
    NoTarget = NoTarget
    FallbackTarget = FallbackTarget
    DeadTarget = DeadTarget
    Requests = {r1}
    Instances = {i1}
    Upgrades = {u1}
    Paths <- MCPaths
    Length <- MCLength
    Shapes <- PlainShapes
    UpgradeShapes <- ForgingShapes
    Configs <- PlainConfigs
    ServiceOf <- MCServiceOf
    Listings <- PlainListings
INVARIANT NobodyForgesIdentity
CHECK_DEADLOCK FALSE
