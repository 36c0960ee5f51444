SPECIFICATION FairSpec
CONSTANTS
    a = a
    b = b
    d1 = d1
    d2 = d2
    none = none
    missing = missing
    Block <- MCBlock
    Garbage = b
    Path = {1, 2, 3}
    Crc <- MCCrc
    Missing = missing
    Cap = 1
    Dir <- MCDir
    NoDir = none
    MaxSize = 2
    TooLong = {3}
    Options <- LiveOptions
    Unsafe = {3}
    Faults = {"reset", "crash", "edit"}
    Trees <- MCTrees
    Stores <- MCStores
    Edits <- MCEdits
    MaxEdits = 1
INVARIANTS
    Delivery
    Smooth
PROPERTIES
    Termination
