CONSTANTS
    Value = {u, v}
    NULL = NULL
    Garbage = Garbage
    Rate = 2
    Pointer = 2
    Initial = {1, 2, 5}
    Most = 5
SPECIFICATION Spec
SYMMETRY Symmetry
INVARIANTS Holds InBounds CleanUntilGrown
PROPERTIES PopsLast
CHECK_DEADLOCK FALSE
