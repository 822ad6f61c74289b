\* One gateway, two requests, YAMLs that are good, bad and partly bad.
SPECIFICATION FairSpec
CONSTANTS
    Unset = Unset
    Blank = Blank
    Junk = Junk
    Throws = Throws
    Any = Any
    Site = Site
    Url = Url
    R1 = R1
    R2 = R2
    RouteIds <- MCRouteIds
    Environments <- MCEnvironments
    Configurations <- MCConfigurations
    NoYaml <- MCNoYaml
    Requests <- MCRequests
INVARIANTS TypeOK OnlyGapsSlipThrough NobodyMeetsTheUninitialised CleanExitsCutNothing
PROPERTIES NoAbruptEnd ClosingEnds
CHECK_DEADLOCK FALSE
