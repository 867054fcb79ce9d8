CONSTANTS
    spot1 = spot1
    spot2 = spot2
    NoPoint = NoPoint
    NoId = NoId
    Config <- MCConfig
    Entities <- MCEntities
    MaxEntities = 4
    MergeBelow = 2
    AisleWidth = 3
    Databases <- MCDatabases
    Directories <- MCDirectories
    MaxImports = 2
SPECIFICATION ImportSpec
INVARIANTS
    MergingCovers
    AislesAreBands
    GeneratedIdsDiffer
    ImportIsAtomic
    ConsistentFilesAreImported
CHECK_DEADLOCK FALSE
