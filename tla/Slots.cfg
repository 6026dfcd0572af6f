CONSTANTS
    a = a
    b = b
    c = c
    u = u
    v = v
    shared = shared
    other = other
    NULL = NULL
    Object = {o1}
    Name = {a, b, c}
    Value = {u, v}
    Bucket = {shared, other}
    BucketOf <- MCBucketOf
    Literal <- MCLiteral
    MaxFields = 4
    MaxLoops = 2
SPECIFICATION Spec
INVARIANTS KeysOnce FieldsAgree Traced
PROPERTIES VisitsAll EachReturns DictionarySpec
