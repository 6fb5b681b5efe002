CONSTANTS
    Modulus = 6
    Geometries <- MCGeometries
    EraseCounts = {1, 2}
SPECIFICATION FairSpec
INVARIANTS
    TypeOK
    PrefixErased
    RestsBetweenCommands
PROPERTIES
    EraseSuccess
    EraseReturns
