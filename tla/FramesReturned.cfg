CONSTANTS
    Frame = {f0, f1, f2, f3}
    Closure = {c1, c2}
    Function = {F, G}
    Top = f0
    NULL = NULL
    Collection = "returned"
    Redefinition = FALSE
    Requires = FALSE
SPECIFICATION Spec
INVARIANTS NoDangling NoFault Anchored
PROPERTIES LifetimesSpec ExitEnds
