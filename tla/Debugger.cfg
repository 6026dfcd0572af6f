CONSTANTS
    long = long
    short = short
    missing = missing
    NULL = NULL
    File = {long, short, missing}
    Length <- MCLength
    CodeLine <- MCCodeLine
    BreakLine = {1, 2, 5}
    MaxInstructions = 4
    MaxDepth = 2
    MaxBreakpoints = 2
SPECIFICATION Spec
INVARIANT ContextShown
PROPERTIES StopsOnce NoneMissed SessionEnds
