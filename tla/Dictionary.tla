------------------------------ MODULE Dictionary -------------------------------
(***************************************************************************)
(* What the slots of TerrorVM's values promise: each value has a partial   *)
(* function from names to values.  There are no buckets, no order and no   *)
(* list of fields here.                                                    *)
(***************************************************************************)
CONSTANTS
    Object,     \* the values that have slots
    Name,       \* the names of slots
    Value       \* what slots hold

VARIABLE dict   \* of each object that exists, what its slots hold

Init == dict = [o \in {} |-> {}]

New(o) ==
    /\ o \notin DOMAIN dict
    /\ dict' = [p \in DOMAIN dict \union {o} |-> IF p = o THEN [n \in {} |-> {}] ELSE dict[p]]

Put(o, n, v) ==
    /\ o \in DOMAIN dict
    /\ dict' = [dict EXCEPT ![o] =
                  [m \in DOMAIN dict[o] \union {n} |-> IF m = n THEN v ELSE dict[o][m]]]

Discard(o) ==
    /\ o \in DOMAIN dict
    /\ dict' = [p \in DOMAIN dict \ {o} |-> dict[p]]

Next ==
    \/ \E o \in Object : New(o) \/ Discard(o)
    \/ \E o \in Object, n \in Name, v \in Value : Put(o, n, v)

Spec == Init /\ [][Next]_dict
==============================================================================
