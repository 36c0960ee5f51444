SPECIFICATION Spec
CONSTANTS
    Plain <- PlainArguments
    Argument <- Arguments
    Number <- NumberOf
    NoNumber = NoNumber
    MaxArgs = 4
    MaxRun = 3
    Plan <- Plans
    Block = 2
    Interval = 2
    MaxTime = 4
INVARIANTS
    ParseIsMeaning
    RejectsExactlyFaults
    CountsToTotal
    CleanAfterFinish
CHECK_DEADLOCK FALSE
