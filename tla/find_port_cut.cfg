SPECIFICATION Spec
CONSTANTS
    Plain <- PlainArguments
    Argument <- Arguments
    Number <- NumberOf
    NoNumber = NoNumber
    MaxArgs = 3
    MaxRun = 0
    Plan <- Plans
    Block = 2
    Interval = 2
    MaxTime = 4
INVARIANTS
    PortInRange
CHECK_DEADLOCK FALSE
