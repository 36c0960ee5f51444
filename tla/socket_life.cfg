SPECIFICATION Spec
CONSTANTS
    listener = listener
    result = result
    out = out
    none = none
    NoObject = none
    Object <- MCObject
    Descriptor = {0, 1, 2, 3}
    MaxAddr = 2
SYMMETRY Symmetric
INVARIANTS
    OneOwner
    NoLeak
    NoStale
