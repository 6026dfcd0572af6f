CONSTANTS
    Frame = {f0, f1, f2, f3}
    Closure = {c1, c2, c3}
    Function = {F, G}
    Top = f0
    NULL = NULL
    Collection = "any"
    Redefinition = FALSE
    Requires = TRUE
SPECIFICATION Spec
SYMMETRY Symmetry
INVARIANTS Counted ScopeIsHome NoLeak
PROPERTIES FreedIsUnheld LexicalScope
