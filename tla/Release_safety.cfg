\* One developer, three releases: a deployment can be superseded twice.
SPECIFICATION FairSpec
CONSTANTS
    Branches = {developer}
    MaxReleases = 3
    Unreadable = {1}
    NoTitle = NoTitle
INVARIANTS TypeOK OnlyProvenImagesStay VersionsClimbInOrder
PROPERTIES OnlyRollbacksGoBack EveryRunEnds
CHECK_DEADLOCK FALSE
