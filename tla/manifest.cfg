SPECIFICATION Spec
CONSTANTS
    Names <- MCNames
    MaxLinks = 3
    Trees <- MCTrees
    Calls <- AllCalls
    Cwd <- MCCwd
    Out <- MCOut
INVARIANTS
    TypeOK
    OneSourceResolves
    EachFileOnce
    ClosedSourceArrives
    NoOverwrite
    BelowOutput
CHECK_DEADLOCK FALSE
