-------------------------------- MODULE Deque --------------------------------
(***************************************************************************)
(* What list.h promises: a sequence of values that grows and shrinks at    *)
(* both ends, and of which a value in between may be removed.              *)
(***************************************************************************)
EXTENDS Integers, SequencesExt

CONSTANTS
    Value,      \* what the list holds
    NULL        \* what popping an empty list returns

VARIABLES
    q,          \* the values, the first one first
    result,     \* what the last operation that returns a value returned
    call,       \* the operation that was called last
    open        \* the list has not been destroyed

vars == <<q, result, call, open>>

Init ==
    /\ q = <<>>
    /\ result = NULL
    /\ call = "create"
    /\ open = TRUE

Push(v) ==
    /\ call' = "push"
    /\ q' = Append(q, v)
    /\ UNCHANGED result

Shift(v) ==
    /\ call' = "shift"
    /\ q' = <<v>> \o q
    /\ UNCHANGED result

Take(i) ==
    /\ result' = q[i]
    /\ q' = RemoveAt(q, i)

TakeNothing ==
    /\ q = <<>>
    /\ result' = NULL
    /\ UNCHANGED q

Pop ==
    /\ call' = "pop"
    /\ TakeNothing \/ (q # <<>> /\ Take(Len(q)))

Unshift ==
    /\ call' = "unshift"
    /\ TakeNothing \/ (q # <<>> /\ Take(1))

RemoveNode(i) ==
    /\ call' = "remove"
    /\ Take(i)

Destroy ==
    /\ q' = <<>>
    /\ open' = FALSE
    /\ UNCHANGED <<result, call>>

Next ==
    /\ open
    /\ \/ Destroy
       \/ /\ UNCHANGED open
          /\ \/ \E v \in Value : Push(v) \/ Shift(v)
             \/ Pop \/ Unshift
             \/ \E i \in DOMAIN q : RemoveNode(i)

Spec == Init /\ [][Next]_vars
===============================================================================
