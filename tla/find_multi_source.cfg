SPECIFICATION Spec
CONSTANTS
    Names <- MCNames
    MaxLinks = 3
    Trees <- PlainTrees
    Calls <- MultiSource
    Cwd <- MCCwd
    Out <- MCOut
INVARIANTS
    SourcesResolve
CHECK_DEADLOCK FALSE
