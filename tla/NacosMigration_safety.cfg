\* Two runs of the script and an operator who edits twice.
SPECIFICATION Spec
CONSTANTS
    m1 = m1
    m2 = m2
    Unset = Unset
    NoRoute = NoRoute
    NoContent = NoContent
    Runs = {m1, m2}
    MaxEdits = 2
    Paths <- MCPaths
    Ids <- MCIds
    Origins <- MCOrigins
    Length <- MCLength
    Pool <- MixedPool
    Contents <- MixedContents
INVARIANTS NothingLeftToDo ManualEntriesSurvive UsableStaysUsable
PROPERTY RunsAreAtomic
SYMMETRY Symmetric
