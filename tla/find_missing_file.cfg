SPECIFICATION Spec
CONSTANTS
    a = a
    b = b
    d1 = d1
    d2 = d2
    none = none
    missing = missing
    Block <- MCBlock
    Garbage = b
    Path = {1, 2, 3}
    Crc <- MCCrc
    Missing = missing
    Cap = 2
    Dir <- MCDir
    NoDir = none
    MaxSize = 2
    TooLong = {}
    Options <- MissingOption
    Unsafe = {3}
    Faults = {}
    Trees <- MCTrees
    Stores <- MCStores
    Edits <- MCEdits
    MaxEdits = 0
INVARIANTS
    ZeroMeansSent
