SPECIFICATION Spec
CONSTANTS
    Base = 2
    Magic <- Magics
    Header <- Headers
    Path <- Paths
    Payload <- Payloads
    Wrong = {0, 1, 255}
    Buf = 2
    MaxFiles = 2
INVARIANTS
    ReadsWhatWasWritten
    RefusesOnlyDamage
    SumIsCrc32c
CHECK_DEADLOCK FALSE
