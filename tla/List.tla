--------------------------------- MODULE List ---------------------------------
(***************************************************************************)
(* The doubly linked list of list.c, on a heap of nodes.  The operand      *)
(* stack and the stack of frames are lists (stack.h), the collector walks  *)
(* them from the last node along prev (gc.c:72, 91), and State_destroy     *)
(* destroys them.                                                          *)
(*                                                                         *)
(* List_remove unlinks an end of the list without clearing the pointer     *)
(* that its neighbour keeps to it, so next of the last node and prev of    *)
(* the first one may point to freed memory, or to a node that has been     *)
(* allocated again in its place.                                           *)
(***************************************************************************)
EXTENDS Integers, SequencesExt

CONSTANTS
    Node,       \* memory cells
    Value,      \* what the list holds
    NULL,       \* the null pointer
    Trimmed     \* whether a list whose ends dangle may be destroyed

ASSUME NodeAssumption ==
    /\ NULL \notin Node \union Value
    /\ Trimmed \in BOOLEAN

VARIABLES
    first, last, count,     \* struct List
    next, prev, value,      \* struct ListNode
    allocated,              \* the nodes that calloc has given and free has not taken
    result,                 \* what List_pop, List_unshift or List_remove returned
    phase,                  \* "open", "destroying" or "destroyed"
    cursor,                 \* the node that the loop of List_destroy is at
    fault,                  \* a freed node has been accessed
    items,                  \* history: the nodes that are in the list, in order
    call                    \* history: the operation that was called last

vars == <<first, last, count, next, prev, value, allocated, result, phase, cursor, fault, items, call>>

Calls == {"create", "push", "shift", "pop", "unshift", "remove"}

Cells == [Node -> Node \union {NULL}]

TypeOK ==
    /\ {first, last, cursor} \subseteq Node \union {NULL}
    /\ count \in Int
    /\ next \in Cells /\ prev \in Cells
    /\ value \in [Node -> Value \union {NULL}]
    /\ allocated \subseteq Node
    /\ result \in Value \union {NULL}
    /\ phase \in {"open", "destroying", "destroyed"}
    /\ fault \in BOOLEAN
    /\ items \in Seq(Node)
    /\ call \in Calls

Init ==
    /\ first = NULL /\ last = NULL /\ count = 0 /\ cursor = NULL
    /\ next = [n \in Node |-> NULL]
    /\ prev = [n \in Node |-> NULL]
    /\ value = [n \in Node |-> NULL]
    /\ allocated = {}
    /\ result = NULL
    /\ phase = "open"
    /\ fault = FALSE
    /\ items = <<>>
    /\ call = "create"

-------------------------------------------------------------------------------
\* The operation dereferences the nodes of S.
Touch(S) == fault' = ~(S \subseteq allocated)

\* A call on a list that has not been destroyed.
Called(operation) ==
    /\ phase = "open"
    /\ call' = operation
    /\ UNCHANGED <<phase, cursor>>

\* The node that calloc returns.  When calloc fails, List_push and List_shift
\* log an error and leave the list as it was.
Calloc(n, v) ==
    /\ n \notin allocated
    /\ allocated' = allocated \union {n}
    /\ value' = [value EXCEPT ![n] = v]

\* free, which does nothing for NULL.  The model forgets what was in the node:
\* reading it is a fault.
Free(n) ==
    /\ allocated' = allocated \ {n}
    /\ value' = [m \in Node |-> IF m = n THEN NULL ELSE value[m]]

\* The first node of an empty list.
Alone(n) ==
    /\ first' = n /\ last' = n
    /\ next' = [next EXCEPT ![n] = NULL]
    /\ prev' = [prev EXCEPT ![n] = NULL]
    /\ Touch({})

Push(n, v) ==
    /\ Called("push")
    /\ Calloc(n, v)
    /\ \/ last = NULL /\ Alone(n)
       \/ /\ last # NULL
          /\ next' = [next EXCEPT ![n] = NULL, ![last] = n]
          /\ prev' = [prev EXCEPT ![n] = last]
          /\ last' = n
          /\ Touch({last})
          /\ UNCHANGED first
    /\ count' = count + 1
    /\ items' = Append(items, n)
    /\ UNCHANGED result

Shift(n, v) ==
    /\ Called("shift")
    /\ Calloc(n, v)
    /\ \/ first = NULL /\ Alone(n)
       \/ /\ first # NULL
          /\ next' = [next EXCEPT ![n] = first]
          /\ prev' = [prev EXCEPT ![n] = NULL, ![first] = n]
          /\ first' = n
          /\ Touch({first})
          /\ UNCHANGED last
    /\ count' = count + 1
    /\ items' = <<n>> \o items
    /\ UNCHANGED result

-------------------------------------------------------------------------------
\* The four cases of List_remove.

UnlinkOnly(n) ==
    /\ n = first /\ n = last
    /\ first' = NULL /\ last' = NULL
    /\ Touch({n})
    /\ UNCHANGED <<next, prev>>

UnlinkFirst(n) ==
    /\ n = first /\ n # last
    /\ first' = next[n]
    /\ Touch({n})
    /\ UNCHANGED <<last, next, prev>>

\* Mutant of UnlinkLast: list->last is left at the node that is freed.
LastStays(n) ==
    /\ n # first /\ n = last
    /\ Touch({n})
    /\ UNCHANGED <<first, last, next, prev>>

UnlinkLast(n) ==
    /\ n # first /\ n = last
    /\ last' = prev[n]
    /\ Touch({n})
    /\ UNCHANGED <<first, next, prev>>

\* Mutant of UnlinkInner: `after->prev = before' is missing.
InnerForgetsPrev(n) ==
    /\ n # first /\ n # last
    /\ next' = [next EXCEPT ![prev[n]] = next[n]]
    /\ Touch({n, prev[n]})
    /\ UNCHANGED <<first, last, prev>>

UnlinkInner(n) ==
    /\ n # first /\ n # last
    /\ prev' = [prev EXCEPT ![next[n]] = prev[n]]
    /\ next' = [next EXCEPT ![prev[n]] = next[n]]
    /\ Touch({n, next[n], prev[n]})
    /\ UNCHANGED <<first, last>>

\* List_remove.
Take(n) ==
    /\ UnlinkOnly(n) \/ UnlinkFirst(n) \/ UnlinkLast(n) \/ UnlinkInner(n)
    /\ count' = count - 1
    /\ result' = value[n]
    /\ Free(n)

\* Mutant of Pop: it takes the node that unshift takes.
PopsFirst ==
    /\ Called("pop")
    /\ last # NULL
    /\ Take(first)
    /\ items' = RemoveAt(items, 1)

Pop ==
    /\ Called("pop")
    /\ last # NULL
    /\ Take(last)
    /\ items' = RemoveAt(items, Len(items))

Unshift ==
    /\ Called("unshift")
    /\ first # NULL
    /\ Take(first)
    /\ items' = RemoveAt(items, 1)

\* List_remove is called with a pointer to the i-th node, got by following the list.
RemoveNode(i) ==
    /\ Called("remove")
    /\ Take(items[i])
    /\ items' = RemoveAt(items, i)

\* List_pop and List_unshift return NULL when they find nothing.
TakeNothing ==
    /\ \/ last = NULL /\ Called("pop")
       \/ first = NULL /\ Called("unshift")
    /\ result' = NULL
    /\ UNCHANGED <<first, last, count, next, prev, value, allocated, fault, items>>

-------------------------------------------------------------------------------
\* The pointers out of the list are NULL.
EndsClean ==
    /\ first # NULL => prev[first] = NULL
    /\ last # NULL => next[last] = NULL

\* List_destroy: the loop frees the node before each node, and the last one is
\* freed after it.
Destroy ==
    /\ phase = "open"
    /\ Trimmed \/ EndsClean
    /\ phase' = "destroying"
    /\ cursor' = first
    /\ UNCHANGED <<first, last, count, next, prev, value, allocated, result, fault, items, call>>

DestroyPrevious ==
    /\ phase = "destroying"
    /\ cursor # NULL
    /\ Touch({cursor} \union ({prev[cursor]} \ {NULL}))
    /\ Free(prev[cursor])
    /\ cursor' = next[cursor]
    /\ UNCHANGED <<first, last, count, next, prev, result, phase, items, call>>

\* Mutant of DestroyLast: the loop is taken to have freed every node.
LastKept ==
    /\ phase = "destroying"
    /\ cursor = NULL
    /\ phase' = "destroyed"
    /\ UNCHANGED <<first, last, count, next, prev, value, allocated, result, fault, cursor, items, call>>

DestroyLast ==
    /\ phase = "destroying"
    /\ cursor = NULL
    /\ Touch({last} \ {NULL})
    /\ Free(last)
    /\ phase' = "destroyed"
    /\ UNCHANGED <<first, last, count, next, prev, result, cursor, items, call>>

Next ==
    /\ ~fault
    /\ \/ \E n \in Node, v \in Value : Push(n, v) \/ Shift(n, v)
       \/ Pop \/ Unshift \/ TakeNothing
       \/ \E i \in 1..Len(items) : RemoveNode(i)
       \/ Destroy \/ DestroyPrevious \/ DestroyLast

Spec == Init /\ [][Next]_vars

-------------------------------------------------------------------------------
(***************************************************************************)
(* Properties.                                                             *)
(***************************************************************************)

\* Following next from first and prev from last visits the nodes of items.
Chained ==
    /\ items = <<>> => first = NULL /\ last = NULL
    /\ items # <<>> => first = items[1] /\ last = items[Len(items)]
    /\ \A i \in 1..Len(items) - 1 :
        /\ next[items[i]] = items[i + 1]
        /\ prev[items[i + 1]] = items[i]

\* While the list is open, following next from first, as List_destroy does, and
\* following prev from last, as the collector does with the stacks, both visit
\* the nodes that were put in and not taken out, in order, and List_count counts
\* them: no sequence of removals at the ends and in between ever loses a node or
\* leads into the dangling pointers that it leaves behind.
Linked == phase = "open" => Chained /\ count = Len(items)

\* No operation dereferences or frees a node that has been freed, provided that
\* List_destroy is not given a list with a dangling end; State_destroy empties
\* its stacks before it destroys them (state.c:43-47).
NoFault == ~fault

\* The nodes that are allocated are those of the list: each removal frees its
\* node once, and List_destroy frees all that are left.
NoLeak ==
    /\ phase = "open" => allocated = {items[i] : i \in 1..Len(items)}
    /\ phase = "destroyed" => allocated = {}

\* The values found by following next from first.
Contents ==
    LET at[i \in 1..count] == IF i = 1 THEN first ELSE next[at[i - 1]]
    IN  [i \in 1..count |-> value[at[i]]]

Abstract == INSTANCE Deque WITH
    q <- IF phase = "open" THEN Contents ELSE <<>>,
    open <- (phase = "open")

\* Read through its pointers, the list is the sequence that Deque describes:
\* every operation changes it at the right place and returns the right value.
DequeSpec == Abstract!Spec
===============================================================================
