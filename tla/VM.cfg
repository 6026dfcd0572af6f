CONSTANTS
    Frame = {f0, f1, f2, f3}
    Closure = {c1, c2, c3}
    Object = {o1, o2, o3, o4}
    Top = f0
    NULL = NULL
    Number <- MCNumber
    IntOf <- MCIntOf
    Name <- MCName
    Function <- MCFunction
    Program <- Programs
    Collects = TRUE
    Depth = 2
SPECIFICATION Spec
INVARIANTS TypeOK ExpectedResults
PROPERTIES TestsComplete ExamplesCareful RunsMatch OperandsBalance CollectorKeeps
