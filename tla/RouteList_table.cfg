\* Every list of up to three entries out of the pool.
SPECIFICATION Spec
CONSTANTS
    Unset = Unset
    NoRoute = NoRoute
    MaxEntries = 3
    Paths <- MCPaths
    Length <- MCLength
    Entries <- MCEntries
    Operations <- MCOperations
INVARIANTS MostSpecificRouteWins DocumentedPathsLeadBack OneDocumentPerService OperationsStayApart
