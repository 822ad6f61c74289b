\* Two requests whose configuration changes under them, and crashes.
SPECIFICATION Spec
CONSTANTS
    i1 = i1
    r1 = r1
    r2 = r2
    Unset = Unset
    NoRoute = NoRoute
    NoShape = NoShape
    NoTarget = NoTarget
    FallbackTarget = FallbackTarget
    DeadTarget = DeadTarget
    Requests = {r1, r2}
    Instances = {i1}
    Paths <- MCPaths
    Length <- MCLength
    Shapes <- SafetyShapes
    Configs <- RaceConfigs
    ServiceOf <- MCServiceOf
    Listings <- WeightListings
INVARIANTS TypeOK OneRouteDecides NeverPastAnEmptyListing FailuresToldApart IdentityTravels ReportedOnce
PROPERTIES  AnsweredOnce CrashesExplained 
SYMMETRY Symmetric
CHECK_DEADLOCK FALSE
