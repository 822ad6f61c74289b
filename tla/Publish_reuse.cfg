\* Two branches release in turn; the second was behind.
SPECIFICATION PublishSpec
CONSTANTS
    Branches = {developer, feature}
    MaxReleases = 3
    Unreadable = {}
    NoTitle = NoTitle
INVARIANT KeptVersionsAreNew
CHECK_DEADLOCK FALSE
