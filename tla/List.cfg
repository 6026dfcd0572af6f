CONSTANTS
    Node = {n1, n2, n3, n4}
    Value = {u, v}
    NULL = NULL
    Trimmed = FALSE
SPECIFICATION Spec
SYMMETRY Symmetry
INVARIANTS Linked NoFault NoLeak
PROPERTIES DequeSpec
CHECK_DEADLOCK FALSE
