SPECIFICATION FairSpec
CONSTANTS
    Packages = {1, 2, 3, 4}
    RttRos2 = 4
    Graphs <- MCGraphs
    Prefix <- MCPrefix
    ComponentPath <- MCPath
    MaxImports = 2
INVARIANTS
    TrueMeansComplete
    PathIsComplete
PROPERTIES
    DependenciesFirst
    ImportReturns
CHECK_DEADLOCK FALSE
