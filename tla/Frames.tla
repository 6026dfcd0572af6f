------------------------------- MODULE Frames --------------------------------
(***************************************************************************)
(* The lifetime of TerrorVM's call frames: call_frame.c with its three     *)
(* macros, the parts of function.c, value.c and vm.c that retain, release, *)
(* push, pop and destroy frames, and the order in which a collection and   *)
(* State_destroy destroy closures.                                         *)
(*                                                                         *)
(* A frame is retained when a closure is made in it and when a frame is    *)
(* nested in it, and released when that closure or that frame is           *)
(* destroyed.  It is freed by RET when nobody has captured it, else by the *)
(* release that takes its count to zero.  The link from a closure to the   *)
(* frame that it captured is the field `scope' of its Function, which all  *)
(* the closures of that Function share.                                    *)
(*                                                                         *)
(* What drives the frames (the instructions, the allocations that start a  *)
(* collection, what the collector finds reachable) is left open here:      *)
(* three constants say how much of it may happen.  The memory of a freed   *)
(* frame is used again only when no pointer to the old frame is left, so a *)
(* dangling pointer is never mistaken for a good one; the first access     *)
(* through a dangling pointer, which is undefined behaviour, is recorded   *)
(* in `fault' and stops the system.                                        *)
(***************************************************************************)
EXTENDS Integers, Sequences, FiniteSets

CONSTANTS
    Frame,          \* the memory cells call frames are allocated from
    Closure,        \* the memory cells closures are allocated from
    Function,       \* the functions that DEFN instructions name
    Top,            \* the frame of 0_main, pushed by VM_start
    NULL,
    Collection,     \* which closures a collection in a running program may destroy
    Redefinition,   \* may a DEFN run while closures of its function belong elsewhere
    Requires        \* may the program require files

ASSUME FrameAssumption ==
    /\ IsFiniteSet(Frame)
    /\ Top \in Frame
    /\ NULL \notin Frame

ASSUME ClosureAssumption == IsFiniteSet(Closure)

ASSUME FunctionAssumption == NULL \notin Function

ASSUME EnvironmentAssumption ==
    /\ Collection \in {"none", "returned", "any"}
    /\ Redefinition \in BOOLEAN
    /\ Requires \in BOOLEAN

VARIABLES
    frames,     \* FRAMES: the stack of call frames, CURR_FRAME last
    live,       \* the frames that are allocated
    refcount,   \* frame->refcount
    parent,     \* frame->parent
    code,       \* frame->fn; NULL stands for a file's main function
    scope,      \* fn->scope
    made,       \* VAL2FN of an allocated closure, NULL for a cell not in use
    home,       \* history: the frame whose DEFN made the closure
    releasing,  \* the frame that CallFrame_release is about to be applied to
    condemned,  \* the closures the collection under way has still to destroy
    phase,      \* VM_run, then State_destroy
    fault       \* the first access to freed memory

vars == <<frames, live, refcount, parent, code, scope, made, home,
          releasing, condemned, phase, fault>>

TypeOK ==
    /\ frames \in Seq(Frame)
    /\ live \subseteq Frame
    /\ refcount \in [Frame -> Int]
    /\ parent \in [Frame -> Frame \union {NULL}]
    /\ code \in [Frame -> Function \union {NULL}]
    /\ scope \in [Function -> Frame \union {NULL}]
    /\ made \in [Closure -> Function \union {NULL}]
    /\ home \in [Closure -> Frame \union {NULL}]
    /\ releasing \in Frame \union {NULL}
    /\ condemned \subseteq {c \in Closure : made[c] # NULL}
    /\ phase \in {"running", "exiting", "done"}
    /\ fault \in {"none", "current", "parent", "scope", "roots", "require"}
------------------------------------------------------------------------------
Active == {frames[i] : i \in 1..Len(frames)}

Current == frames[Len(frames)]

ClosuresOf(f) == {c \in Closure : made[c] # NULL /\ home[c] = f}

NestedIn(f) == {g \in live : parent[g] = f}

\* No pointer to f is left: its memory may be used for a new frame.
Fresh(f) ==
    /\ f \notin live
    /\ f \notin Active
    /\ f # releasing
    /\ \A g \in live : parent[g] # f
    /\ \A F \in Function : scope[F] # f
    /\ \A c \in Closure : home[c] # f

\* The interpreter is between two instructions, or at an allocation inside one.
Running ==
    /\ phase = "running"
    /\ fault = "none"
    /\ releasing = NULL
    /\ condemned = {}
    /\ frames # <<>>

Init ==
    /\ frames = <<Top>>
    /\ live = {Top}
    /\ refcount = [f \in Frame |-> 0]
    /\ parent = [f \in Frame |-> NULL]
    /\ code = [f \in Frame |-> NULL]
    /\ scope = [F \in Function |-> NULL]
    /\ made = [c \in Closure |-> NULL]
    /\ home = [c \in Closure |-> NULL]
    /\ releasing = NULL
    /\ condemned = {}
    /\ phase = "running"
    /\ fault = "none"

Fail(what) ==
    /\ fault' = what
    /\ UNCHANGED <<frames, live, refcount, parent, code, scope, made, home,
                   releasing, condemned, phase>>
------------------------------------------------------------------------------
\* Everything the Function F is used for now belongs to the current frame.
BelongsHere(F) ==
    /\ \A c \in Closure : made[c] = F => home[c] = Current
    /\ \A f \in Active : code[f] = F => parent[f] = Current

\* Mutants of Defn: Closure_new forgets the retain; it keeps the first scope.
DefnWithoutRetain(F, c) ==
    /\ Running
    /\ Current \in live
    /\ made[c] = NULL
    /\ Redefinition \/ BelongsHere(F)
    /\ made' = [made EXCEPT ![c] = F]
    /\ home' = [home EXCEPT ![c] = Current]
    /\ scope' = [scope EXCEPT ![F] = Current]
    /\ UNCHANGED <<frames, live, refcount, parent, code, releasing, condemned, phase, fault>>

DefnKeepsScope(F, c) ==
    /\ Running
    /\ Current \in live
    /\ made[c] = NULL
    /\ Redefinition \/ BelongsHere(F)
    /\ made' = [made EXCEPT ![c] = F]
    /\ home' = [home EXCEPT ![c] = Current]
    /\ scope' = [scope EXCEPT ![F] = IF @ = NULL THEN Current ELSE @]
    /\ refcount' = [refcount EXCEPT ![Current] = @ + 1]
    /\ UNCHANGED <<frames, live, parent, code, releasing, condemned, phase, fault>>

\* DEFN: Closure_new retains the current frame and makes it the scope of F.
Defn(F, c) ==
    /\ Running
    /\ Current \in live
    /\ made[c] = NULL
    /\ Redefinition \/ BelongsHere(F)
    /\ made' = [made EXCEPT ![c] = F]
    /\ home' = [home EXCEPT ![c] = Current]
    /\ scope' = [scope EXCEPT ![F] = Current]
    /\ refcount' = [refcount EXCEPT ![Current] = @ + 1]
    /\ UNCHANGED <<frames, live, parent, code, releasing, condemned, phase, fault>>

\* CallFrame_new and Stack_push(FRAMES, ...).
PushFrame(g, F, p) ==
    /\ Fresh(g)
    /\ frames' = Append(frames, g)
    /\ live' = live \union {g}
    /\ parent' = [parent EXCEPT ![g] = p]
    /\ code' = [code EXCEPT ![g] = F]

\* Mutants of Call: the scope is not retained; the caller becomes the parent.
CallWithoutRetain(c, g) ==
    /\ Running
    /\ Current \in live
    /\ made[c] # NULL
    /\ scope[made[c]] \in live
    /\ PushFrame(g, made[c], scope[made[c]])
    /\ refcount' = [refcount EXCEPT ![g] = 0]
    /\ UNCHANGED <<scope, made, home, releasing, condemned, phase, fault>>

CallInCaller(c, g) ==
    /\ Running
    /\ Current \in live
    /\ made[c] # NULL
    /\ scope[made[c]] \in live
    /\ PushFrame(g, made[c], Current)
    /\ refcount' = [refcount EXCEPT ![g] = 0, ![Current] = @ + 1]
    /\ UNCHANGED <<scope, made, home, releasing, condemned, phase, fault>>

\* Function_call of the closure c: the new frame is nested in the scope of the
\* closure's Function, which is retained.
Call(c, g) ==
    /\ Running
    /\ Current \in live
    /\ made[c] # NULL
    /\ scope[made[c]] \in live
    /\ PushFrame(g, made[c], scope[made[c]])
    /\ refcount' = [refcount EXCEPT ![g] = 0, ![scope[made[c]]] = @ + 1]
    /\ UNCHANGED <<scope, made, home, releasing, condemned, phase, fault>>

\* The same, when the scope was freed: the retain writes to freed memory.
CallFreedScope(c) ==
    /\ Running
    /\ Current \in live
    /\ made[c] # NULL
    /\ scope[made[c]] \notin live
    /\ Fail("scope")

\* Primitive_require pushes a frame for the file's main function, which has no scope,
\* whatever has become of the current frame.
Require(g) ==
    /\ Requires
    /\ Running
    /\ PushFrame(g, NULL, NULL)
    /\ refcount' = [refcount EXCEPT ![g] = 0]
    /\ UNCHANGED <<scope, made, home, releasing, condemned, phase, fault>>

\* An instruction that reads or writes CURR_FRAME after it was freed.
CurrentFreed ==
    /\ Running
    /\ Current \notin live
    /\ Fail("current")
------------------------------------------------------------------------------
PopFrame == frames' = SubSeq(frames, 1, Len(frames) - 1)

\* Mutants of Free: the parent is not released; the frame itself is.
FreeWithoutRelease(f) ==
    /\ live' = live \ {f}
    /\ releasing' = NULL
    /\ parent' = [parent EXCEPT ![f] = NULL]
    /\ code' = [code EXCEPT ![f] = NULL]
    /\ refcount' = [refcount EXCEPT ![f] = 0]

FreeReleasesItself(f) ==
    /\ live' = live \ {f}
    /\ releasing' = f
    /\ parent' = [parent EXCEPT ![f] = NULL]
    /\ code' = [code EXCEPT ![f] = NULL]
    /\ refcount' = [refcount EXCEPT ![f] = 0]

\* The part of CallFrame_destroy that is behind `refcount <= 0'.
Free(f) ==
    /\ live' = live \ {f}
    /\ releasing' = parent[f]
    /\ parent' = [parent EXCEPT ![f] = NULL]
    /\ code' = [code EXCEPT ![f] = NULL]
    /\ refcount' = [refcount EXCEPT ![f] = 0]

\* Frames that a require pushed: primitives.c destroys them again after RET did.
Required(f) == code[f] = NULL /\ f # frames[1]

\* RET of a frame that a closure or a nested frame has captured.
RetCaptured ==
    /\ Running
    /\ Current \in live
    /\ refcount[Current] > 0
    /\ PopFrame
    /\ UNCHANGED <<live, refcount, parent, code, scope, made, home,
                   releasing, condemned, phase, fault>>

\* Mutant of Ret: CallFrame_destroy does not look at the count.
RetRegardless ==
    /\ Running
    /\ Current \in live
    /\ PopFrame
    /\ Free(Current)
    /\ fault' = IF Required(Current) THEN "require" ELSE "none"
    /\ UNCHANGED <<scope, made, home, condemned, phase>>

\* RET of a frame nobody has captured.
Ret ==
    /\ Running
    /\ Current \in live
    /\ refcount[Current] <= 0
    /\ PopFrame
    /\ Free(Current)
    /\ fault' = IF Required(Current) THEN "require" ELSE "none"
    /\ UNCHANGED <<scope, made, home, condemned, phase>>

\* Mutant of Release: it frees one release too early.
ReleaseEarly ==
    /\ fault = "none"
    /\ releasing \in live
    /\ IF refcount[releasing] <= 2
         THEN Free(releasing)
         ELSE /\ refcount' = [refcount EXCEPT ![releasing] = @ - 1]
              /\ releasing' = NULL
              /\ UNCHANGED <<live, parent, code>>
    /\ UNCHANGED <<frames, scope, made, home, condemned, phase, fault>>

\* CallFrame_release: decrement, and CallFrame_destroy if the count is now zero
\* (`!CallFrame_is_captured(A)' expands to (!A->refcount) > 0).
Release ==
    /\ fault = "none"
    /\ releasing \in live
    /\ IF refcount[releasing] = 1
         THEN Free(releasing)
         ELSE /\ refcount' = [refcount EXCEPT ![releasing] = @ - 1]
              /\ releasing' = NULL
              /\ UNCHANGED <<live, parent, code>>
    /\ UNCHANGED <<frames, scope, made, home, condemned, phase, fault>>

ReleaseFreed ==
    /\ fault = "none"
    /\ releasing \notin live \union {NULL}
    /\ Fail("parent")
------------------------------------------------------------------------------
\* GC_add_roots follows the parent of every frame on FRAMES and the scope of its
\* function, and the frame itself.
RootsFreed ==
    \E f \in Active :
        \/ f \notin live
        \/ parent[f] \notin live \union {NULL}
        \/ code[f] # NULL /\ scope[code[f]] \notin live \union {NULL}

Collectable(c) ==
    /\ made[c] # NULL
    /\ \/ Collection = "any"
       \/ Collection = "returned" /\ home[c] \notin Active

\* An allocation starts a collection, which finds the closures of S unreachable.
Collect(S) ==
    /\ Running
    /\ S # {}
    /\ \A c \in S : Collectable(c)
    /\ ~ RootsFreed
    /\ condemned' = S
    /\ UNCHANGED <<frames, live, refcount, parent, code, scope, made, home,
                   releasing, phase, fault>>

CollectFreed ==
    /\ Running
    /\ Collection # "none"
    /\ RootsFreed
    /\ Fail("roots")

\* Mutant of Sweep: the closure stays on the list of what has to be destroyed.
SweepAgain(c) ==
    /\ fault = "none"
    /\ releasing = NULL
    /\ c \in condemned
    /\ releasing' = scope[made[c]]
    /\ made' = [made EXCEPT ![c] = NULL]
    /\ home' = [home EXCEPT ![c] = NULL]
    /\ UNCHANGED <<frames, live, refcount, parent, code, scope, condemned, phase, fault>>

\* GC_release of a condemned closure: Value_destroy releases the scope that its
\* Function has at this moment.
Sweep(c) ==
    /\ fault = "none"
    /\ releasing = NULL
    /\ c \in condemned
    /\ condemned' = condemned \ {c}
    /\ releasing' = scope[made[c]]
    /\ made' = [made EXCEPT ![c] = NULL]
    /\ home' = [home EXCEPT ![c] = NULL]
    /\ UNCHANGED <<frames, live, refcount, parent, code, scope, phase, fault>>

\* The main function has returned: the collection of State_destroy has no roots.
Exit ==
    /\ phase = "running"
    /\ fault = "none"
    /\ releasing = NULL
    /\ condemned = {}
    /\ frames = <<>>
    /\ phase' = "exiting"
    /\ condemned' = {c \in Closure : made[c] # NULL}
    /\ UNCHANGED <<frames, live, refcount, parent, code, scope, made, home,
                   releasing, fault>>

ExitDone ==
    /\ phase = "exiting"
    /\ fault = "none"
    /\ releasing = NULL
    /\ condemned = {}
    /\ phase' = "done"
    /\ UNCHANGED <<frames, live, refcount, parent, code, scope, made, home,
                   releasing, condemned, fault>>

\* The process is over.
Halted ==
    /\ phase = "done" \/ fault # "none"
    /\ UNCHANGED vars

Next ==
    \/ \E F \in Function, c \in Closure : Defn(F, c)
    \/ \E c \in Closure, g \in Frame : Call(c, g)
    \/ \E c \in Closure : CallFreedScope(c)
    \/ \E g \in Frame : Require(g)
    \/ CurrentFreed
    \/ RetCaptured
    \/ Ret
    \/ Release
    \/ ReleaseFreed
    \/ \E S \in SUBSET Closure : Collect(S)
    \/ CollectFreed
    \/ \E c \in Closure : Sweep(c)
    \/ Exit
    \/ ExitDone
    \/ Halted

\* The interpreter is one thread: a release, a sweep and an exit that were begun
\* are carried through.  Nothing says that the program itself ever returns.
Fairness ==
    /\ WF_vars(Release)
    /\ WF_vars(ExitDone)
    /\ \A c \in Closure : WF_vars(Sweep(c))

Spec == Init /\ [][Next]_vars /\ Fairness
------------------------------------------------------------------------------
(***************************************************************************)
(* Properties.  Those that hold only for some environments say for which.  *)
(***************************************************************************)

\* The holder of f that was destroyed last, as long as its release has not been done.
Pending(f) == IF releasing = f THEN 1 ELSE 0

\* call_frame.h: without redefinition the count of a frame is exactly the number of
\* closures made in it plus the number of frames nested in it, whatever the
\* collector destroys; nothing is retained twice, released twice or forgotten.
Counted ==
    fault = "none" =>
        \A f \in live :
            refcount[f] = Cardinality(ClosuresOf(f)) + Cardinality(NestedIn(f)) + Pending(f)

\* The shared field fn->scope: while no DEFN takes a function over, it is the frame
\* each living closure of the function was made in.
ScopeIsHome == \A c \in Closure : made[c] # NULL => scope[made[c]] = home[c]

\* In every environment: a frame that some function still has as its scope, and that
\* was not freed, is counted; only such a frame can be retained through the function.
ScopeCounted ==
    fault = "none" => \A F \in Function : scope[F] \in live => refcount[scope[F]] >= 1

\* No pointer that the program may follow dangles: not FRAMES, not the parent of a
\* frame, not the scope a closure is called or collected with.
NoDangling ==
    /\ Active \subseteq live
    /\ \A f \in live : parent[f] \in live \union {NULL}
    /\ \A c \in Closure : made[c] # NULL => scope[made[c]] \in live
    /\ releasing \in live \union {NULL}

\* No access to freed memory: the sum of the hazards this module is about.
NoFault == fault = "none"

\* call_frame.c, function.c: a captured frame that is running is held by one of its own
\* closures, not by the frames that are nested in it alone.  Their returns, and the releases
\* that a collection starts, then never count it down to zero before it has returned itself.
Anchored == \A f \in Active \intersect live : refcount[f] > 0 => ClosuresOf(f) # {}

\* State_destroy: when the process ends every frame has been freed.
NoLeak == phase = "done" => live = {}

\* CallFrame_destroy is applied to a captured frame only by the release of its last
\* holder: no closure made in the frame and no frame nested in it is left behind.
FreedIsUnheld ==
    [][\A f \in live : f \notin live' => ClosuresOf(f)' = {} /\ NestedIn(f)' = {}]_vars

\* README, PUSHLOCALDEPTH "from an enclosing scope": the frame of a call is nested in
\* the frame in which the closure that is called was made.
LexicalScope ==
    [][\A c \in Closure, g \in Frame : Call(c, g) => parent'[g] = home[c]]_vars

\* State_destroy's collection comes to an end.
ExitEnds == (phase = "exiting") ~> (phase = "done")

\* The counts implement the lifetimes they are meant to implement.
Abstract == INSTANCE Lifetimes WITH stack <- frames, kept <- live

LifetimesSpec == Abstract!Spec
==============================================================================
