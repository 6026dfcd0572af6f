------------------------------ MODULE Lifetimes ------------------------------
(***************************************************************************)
(* What the reference counts of call frames are for.  A call frame holds   *)
(* the locals of one activation of a function.  It has to be kept in       *)
(* memory while it is on the frame stack, while a closure made in it       *)
(* exists, and while a frame nested in it is kept; once nobody needs it,   *)
(* it is reclaimed.  This specification has no counter: it says when a     *)
(* frame may be reclaimed, and that every frame nobody needs is.           *)
(***************************************************************************)
EXTENDS Sequences, Integers

CONSTANTS
    Frame,      \* the memory cells frames are allocated from
    Closure,    \* the memory cells closures are allocated from
    Top,        \* the frame of the main function
    NULL

VARIABLES
    stack,      \* the frames being run, the current one last
    kept,       \* the frames in memory
    home,       \* for a closure, the frame it was made in
    parent      \* for a frame, the frame it is nested in

vars == <<stack, kept, home, parent>>

OnStack == {stack[i] : i \in 1..Len(stack)}

Current == stack[Len(stack)]

\* Somebody other than the frame stack holds f.
Held(f) ==
    \/ \E c \in Closure : home[c] = f
    \/ \E g \in kept : parent[g] = f

Needed(f) == f \in OnStack \/ Held(f)

Init ==
    /\ stack = <<Top>>
    /\ kept = {Top}
    /\ home = [c \in Closure |-> NULL]
    /\ parent = [f \in Frame |-> NULL]

Create(c) ==
    /\ stack # <<>>
    /\ home[c] = NULL
    /\ home' = [home EXCEPT ![c] = Current]
    /\ UNCHANGED <<stack, kept, parent>>

\* A frame g is entered, nested in the frame p (NULL for a file's main function).
Enter(g, p) ==
    /\ stack # <<>>
    /\ g \notin kept
    /\ stack' = Append(stack, g)
    /\ kept' = kept \union {g}
    /\ parent' = [parent EXCEPT ![g] = p]
    /\ UNCHANGED home

Call(c, g) == home[c] # NULL /\ Enter(g, home[c])

\* The frame that returns may be reclaimed at once, if nobody holds it.
Leave ==
    /\ stack # <<>>
    /\ stack' = SubSeq(stack, 1, Len(stack) - 1)
    /\ UNCHANGED home
    /\ \/ UNCHANGED <<kept, parent>>
       \/ /\ ~ Held(Current)
          /\ kept' = kept \ {Current}
          /\ parent' = [parent EXCEPT ![Current] = NULL]

Drop(c) ==
    /\ home[c] # NULL
    /\ home' = [home EXCEPT ![c] = NULL]
    /\ UNCHANGED <<stack, kept, parent>>

Reclaim(f) ==
    /\ f \in kept
    /\ ~ Needed(f)
    /\ kept' = kept \ {f}
    /\ parent' = [parent EXCEPT ![f] = NULL]
    /\ UNCHANGED <<stack, home>>

Next ==
    \/ \E c \in Closure : Create(c) \/ Drop(c)
    \/ \E c \in Closure, g \in Frame : Call(c, g)
    \/ \E g \in Frame : Enter(g, NULL)
    \/ Leave
    \/ \E f \in Frame : Reclaim(f)

Safety == Init /\ [][Next]_vars

Spec == Safety /\ \A f \in Frame : WF_vars(Reclaim(f))
==============================================================================
