\* The YAML of the README.
SPECIFICATION Spec
CONSTANTS
    m1 = m1
    m2 = m2
    Unset = Unset
    NoRoute = NoRoute
    NoContent = NoContent
    Runs = {m1, m2}
    MaxEdits = 3
    Paths <- MCPaths
    Ids <- MCIds
    Origins <- MCOrigins
    Length <- MCLength
    Pool <- ReadmePool
    Contents <- ReadmeContents
INVARIANT ManualConfigStaysInForce
