SPECIFICATION FairSpec
CONSTANTS
    Platforms <- AllPlatforms
    Calls <- MCCalls
    Units <- MCUnits
    Files = {2, 4, 5}
    Chunk = 3
    Buf = 3
    Cap = 3
INVARIANTS
    TypeOK
    NothingLostOrRepeated
    TrueMeansAll
    BufferIsWhole
    OffsetTracks
PROPERTIES
    ImplementsItems
    CallReturns
CHECK_DEADLOCK FALSE
