------------------------------- MODULE VMProofs --------------------------------
(***************************************************************************)
(* Proofs about module VM, for every program, every heap and whatever the  *)
(* collector destroys:                                                     *)
(*                                                                         *)
(*   - the interpreter uses the call frames as module Frames says.  Each   *)
(*     instruction, each round of a native, each collection and the end of *)
(*     the process is one step of Frames or leaves the frames alone;       *)
(*                                                                         *)
(*   - so what FramesProofs shows of frames holds of every run of the      *)
(*     interpreter that redefines no closure's function, requires no file  *)
(*     and loses no closure of a running call, which are the steps of      *)
(*     `Careful'.  MCVM checks that the runs of its examples are such;     *)
(*                                                                         *)
(*   - in such a state the way from a frame to the frames around it, which *)
(*     PUSHLOCALDEPTH takes, leads through no freed frame;                 *)
(*                                                                         *)
(*   - what the interpreter holds is of the type that it is taken for;     *)
(*                                                                         *)
(*   - VM_runs are nested.  Each native that calls back into the           *)
(*     interpreter, and VM_start, run it until the frame that they pushed  *)
(*     for it returns, whatever the program does in between.               *)
(***************************************************************************)
EXTENDS VM, TLAPS, WellFoundedInduction, FiniteSetTheorems, SequenceTheorems

\* What an action of VM does to the frames: nothing, or one step of Frames, which makes
\* closures of the functions of the program only and requires only a file that was read.
\* The program stays as it was loaded.
FrameStep ==
    /\ prog' = prog
    /\ \/ UNCHANGED frameVars
       \/ \E fn \in Function \intersect Loaded, c \in Closure : F!Defn(fn, c)
       \/ Unfinished("file") /\ \E g \in Frame : F!Require(g)
       \/ \E c \in Closure, g \in Frame : F!Call(c, g)
       \/ \E c \in Closure : F!CallFreedScope(c) \/ F!Sweep(c)
       \/ \E S \in SUBSET Closure : F!Collect(S)
       \/ F!CollectFreed \/ F!CurrentFreed
       \/ F!RetCaptured \/ F!Ret \/ F!Release \/ F!ReleaseFreed
       \/ F!Exit \/ F!ExitDone

\* The process does not end here by an access to a freed frame of vm.c's own.
ReadsNoFreedFrame == end' = "freed frame" => end = "freed frame"

\* The natives (primitives.c) push no frame and release none: those that run a block only
\* prepare to.
LEMMA CallNativeSteps ==
  ASSUME NEW native, NEW receiver, NEW args, NEW k, CallNative(native, receiver, args, k)
  PROVE  UNCHANGED <<frameVars, prog>> /\ ReadsNoFreedFrame
<1> USE DEF ReadsNoFreedFrame, Trouble, Crash, Abort, Using, Typed, GoOn, Make, Allocate, BeginNative
<1>1. PICK b, c :
        \/ CallNumber(native, receiver, b, k)
        \/ CallObject(native, receiver, b, k)
        \/ CallString(native, receiver, b, k)
        \/ CallVector(native, receiver, b, k)
        \/ CallMap(native, receiver, b, c, k)
  BY DEF CallNative
<1>2. CASE CallNumber(native, receiver, b, k)
  BY <1>2 DEF CallNumber, Calculate
<1>3. CASE CallObject(native, receiver, b, k)
  BY <1>3 DEF CallObject, ToText, WriteText, Describing, Obstacle, Equal
<1>4. CASE CallString(native, receiver, b, k)
  BY <1>4 DEF CallString
<1>5. CASE CallVector(native, receiver, b, k)
  BY <1>5 DEF CallVector, ElementAt, PushElement, Iterate
<1>6. CASE CallMap(native, receiver, b, c, k)
  BY <1>6 DEF CallMap, GetMember, BeginSet
<1> QED BY <1>1, <1>2, <1>3, <1>4, <1>5, <1>6

\* Function_call (function.c) pushes a frame in the scope of the closure, or accesses a scope
\* that was freed; for a native it pushes none.
LEMMA CallFunctionSteps ==
  ASSUME NEW callee, NEW receiver, NEW args, NEW max, NEW r, NEW k,
         CallFunction(callee, receiver, args, max, r, k)
  PROVE  FrameStep /\ ReadsNoFreedFrame
<1>1. CASE callee \in Native /\ CallNative(callee, receiver, args, k)
  BY <1>1, CallNativeSteps DEF FrameStep, ReadsNoFreedFrame
<1>2. CASE callee \in Closure /\ CallClosure(callee, receiver, args, max, r, k)
  <2>1. CASE F!CallFreedScope(callee) /\ UNCHANGED <<prog, end>>
    BY <1>2, <2>1 DEF FrameStep, ReadsNoFreedFrame
  <2>2. CASE F!Call(callee, NewFrame) /\ (\E g \in Frame : F!Fresh(g)) /\ UNCHANGED <<prog, end>>
    <3>1. NewFrame \in Frame
      BY <2>2 DEF NewFrame
    <3> QED BY <1>2, <2>2, <3>1 DEF FrameStep, ReadsNoFreedFrame
  <2>3. CASE Crash("bound")
    BY <2>3 DEF Crash, FrameStep, ReadsNoFreedFrame
  <2> QED BY <1>2, <2>1, <2>2, <2>3 DEF CallClosure, EnterFrame
<1>3. CASE Crash("no value")
  BY <1>3 DEF Crash, FrameStep, ReadsNoFreedFrame
<1> QED BY <1>1, <1>2, <1>3 DEF CallFunction

\* SEND enters a closure, runs a native, reads a slot, or ends the process.
LEMMA SendSteps ==
  ASSUME Send
  PROVE  FrameStep /\ ReadsNoFreedFrame
<1>1. PICK n, k, args, receiver :
        Using({receiver},
          IF TypeOf(receiver) = "Closure" /\ n = "apply"
            THEN CallFunction(receiver, self[Current], args, Operand(2) + 1, k.next, k)
          ELSE Using({Owner(receiver, n)},
                 \E callee \in {Lookup(receiver, n)} :
                   IF callee = NULL THEN Abort
                   ELSE Using({callee},
                          IF TypeOf(callee) = "Closure" \/ callee = "nil"
                            THEN CallFunction(callee, receiver, args, Operand(2) + 1, k.next, k)
                            ELSE GoOn(k, callee))))
  BY DEF Send
<1>2. CASE \E callee, r : CallFunction(callee, r, args, Operand(2) + 1, k.next, k)
  BY <1>2, CallFunctionSteps
<1>3. CASE \E how : how # "freed frame" /\ Crash(how)
  BY <1>3 DEF Crash, FrameStep, ReadsNoFreedFrame
<1>4. CASE \E v : GoOn(k, v)
  BY <1>4 DEF GoOn, FrameStep, ReadsNoFreedFrame
<1> QED BY <1>1, <1>2, <1>3, <1>4 DEF Using, Trouble, Abort

\* Closure_invoke enters the block of a native that loops, or ends the process.
LEMMA InvokeSteps ==
  ASSUME NEW args, Invoke(args)
  PROVE  FrameStep /\ ReadsNoFreedFrame
<1>1. CASE \E callee, r, k : CallFunction(callee, r, args, 10, NULL, k)
  BY <1>1, CallFunctionSteps
<1>2. CASE \E how : how # "freed frame" /\ Crash(how)
  BY <1>2 DEF Crash, FrameStep, ReadsNoFreedFrame
<1> QED BY <1>1, <1>2 DEF Invoke, Using, Trouble

\* An instruction, a round of a native, a collection, the end: each is one step of Frames.
LEMMA FramesTakeOneStep ==
  ASSUME [Next]_vars
  PROVE  FrameStep
<1> USE DEF FrameStep
<1>1. CASE Skip \/ RunOff \/ PushConstant \/ Jump \/ Goto \/ Pop \/ GetSlot
  BY <1>1 DEF Skip, RunOff, PushConstant, Jump, Goto, Pop, GetSlot, Advance, Proceed, Using,
              Crash, Abort
<1>2. CASE PushLocal \/ PushLocalDepth \/ SetLocal \/ SetLocalDepth
  BY <1>2 DEF PushLocal, PushLocalDepth, SetLocal, SetLocalDepth, PushLocalOf, SetLocalOf,
              Advance, Proceed, Crash
<1>3. CASE Send
  BY <1>3, SendSteps
<1>4. CASE Return
  BY <1>4 DEF Return
<1>5. CASE EachElement \/ EachIndexed
  <2>1. CASE \E args : Invoke(args)
    BY <2>1, InvokeSteps
  <2>2. CASE \E how : Crash(how)
    BY <2>2 DEF Crash
  <2> QED BY <1>5, <2>1, <2>2 DEF EachElement, EachIndexed, Using
<1>6. CASE EachIndex \/ EachDone \/ RequireDone
  BY <1>6 DEF EachIndex, EachDone, RequireDone, Using, Crash, Make, Allocate, GoOn
<1>7. CASE RequireFile \/ FinishFile
  <2>1. (\E g \in Frame : F!Fresh(g)) => NewFrame \in Frame
    BY DEF NewFrame
  <2> QED BY <1>7, <2>1 DEF RequireFile, FinishFile, EnterFrame, Make, Allocate, Crash, Abort
<1>8. CASE Defn \/ MakeVec \/ SetSlot \/ Dump
  BY <1>8 DEF Defn, MakeVec, SetSlot, Dump, Describing, Advance, Proceed, Using, Crash, Abort,
              Make, Allocate, BeginSet
<1>9. CASE FinishClosure
  <2>1. ASSUME FreeCells(Closure) # {} PROVE (CHOOSE c \in FreeCells(Closure) : TRUE) \in Closure
    BY <2>1 DEF FreeCells
  <2> QED BY <1>9, <2>1 DEF FinishClosure, Finish, Crash
<1>10. CASE ReadAgain \/ FinishValue \/ FinishMap \/ FinishIndex \/ FinishField \/ FinishNil
             \/ FinishPrint \/ OutOfCells
  BY <1>10 DEF ReadAgain, FinishValue, FinishMap, FinishIndex, FinishField, FinishNil, FinishPrint,
               OutOfCells, Finish, Using, Crash, Abort
<1>11. CASE Collect
  BY <1>11 DEF Collect
<1>12. CASE CollectFreed \/ CurrentFreed \/ Stranded
  BY <1>12 DEF CollectFreed, CurrentFreed, Stranded, Crash
<1>13. CASE Destroy \/ Exit
  BY <1>13 DEF Destroy, Exit
<1>14. CASE Halted \/ UNCHANGED vars
  BY <1>14 DEF Halted, vars
<1> QED
  BY <1>1, <1>2, <1>3, <1>4, <1>5, <1>6, <1>7, <1>8, <1>9, <1>10, <1>11, <1>12, <1>13, <1>14
     DEF Next

\* Every run of VM_run, VM_start and State_destroy is a behaviour of module Frames: the frames
\* are created, captured, returned and destroyed in no other way, whatever the program.
THEOREM VMRunsFrames == Spec => F!Init /\ [][F!Next]_frameVars
<1>1. Init => F!Init
  BY DEF Init
<1>2. [Next]_vars => FrameStep
  BY FramesTakeOneStep
<1>3. FrameStep => [F!Next]_frameVars
  BY DEF FrameStep, F!Next
<1> QED BY <1>1, <1>2, <1>3, PTL DEF Spec
------------------------------------------------------------------------------
\* What is proved of the frames of a careful run.
P == INSTANCE FramesProofs WITH Collection <- "returned", Redefinition <- FALSE, Requires <- FALSE

\* A run of the interpreter that takes only careful steps never accesses a freed frame, nor
\* is there a pointer to one that it may follow: not in vm.c, not in the release of a frame
\* by gc.c and not in State_destroy.
THEOREM CarefulProgramsAreSafe ==
  Spec /\ [][Careful!Next]_frameVars => [](Careful!TypeOK /\ Careful!NoFault /\ Careful!NoDangling)
<1>a. /\ P!IsFiniteSet(Frame) /\ P!IsFiniteSet(Closure) /\ Top \in Frame
      /\ NULL \notin Frame /\ NULL \notin Function
  BY InstanceAssumption, ValueAssumption DEF IsFiniteSet, P!IsFiniteSet, Value, Permanent
<1>1. Init => P!SafeInv
  BY P!SafeInvInit, <1>a DEF Init, F!Init, P!Init
<1>2. P!SafeInv /\ [P!Next]_(P!vars) => P!SafeInv'
  BY P!SafeInvNext, <1>a
<1>3. [Careful!Next]_frameVars => [P!Next]_(P!vars)
  BY DEF frameVars,
     Careful!Next, P!Next, Careful!Defn, P!Defn, Careful!Call, P!Call,
     Careful!CallFreedScope, P!CallFreedScope, Careful!Require, P!Require,
     Careful!CurrentFreed, P!CurrentFreed, Careful!RetCaptured, P!RetCaptured,
     Careful!Ret, P!Ret, Careful!Release, P!Release, Careful!ReleaseFreed,
     P!ReleaseFreed, Careful!Collect, P!Collect, Careful!CollectFreed,
     P!CollectFreed, Careful!Sweep, P!Sweep, Careful!Exit, P!Exit, Careful!ExitDone,
     P!ExitDone, Careful!Halted, P!Halted, Careful!Running, P!Running,
     Careful!Current, P!Current, Careful!Fresh, P!Fresh, Careful!PushFrame,
     P!PushFrame, Careful!BelongsHere, P!BelongsHere, Careful!Active, P!Active,
     Careful!Fail, P!Fail, Careful!Free, P!Free, Careful!PopFrame, P!PopFrame,
     Careful!Required, P!Required, Careful!RootsFreed, P!RootsFreed,
     Careful!Collectable, P!Collectable, Careful!vars, P!vars
<1>4. P!SafeInv => Careful!TypeOK /\ Careful!NoFault /\ Careful!NoDangling
  BY DEF P!SafeInv, P!CountInv, Careful!TypeOK, P!TypeOK, Careful!NoFault, P!NoFault, Careful!NoDangling, P!NoDangling,
         Careful!Active, P!Active
<1> QED BY <1>1, <1>2, <1>3, <1>4, PTL DEF Spec
------------------------------------------------------------------------------
\* One unfolding of the recursion by which `Outer' follows the parents.
OuterStep(d, f) ==
    [i \in 0..d |-> IF i = 0 THEN Current
                    ELSE IF f[i - 1] \in live THEN parent[f[i - 1]] ELSE f[i - 1]]

\* Some number of a set is the least, or the one before it is outside.
LEMMA LeastNat ==
  ASSUME NEW S, S \subseteq Nat, S # {}
  PROVE  \E n \in S : n = 0 \/ n - 1 \in Nat \ S
<1>1. PICK n \in S : \A m \in S : ~ (<<m, n>> \in OpToRel(<, Nat))
  BY NatLessThanWellFounded, WFMin
<1>2. CASE n # 0
  <2>1. n - 1 \in Nat /\ <<n - 1, n>> \in OpToRel(<, Nat)
    BY <1>2 DEF OpToRel
  <2> QED BY <1>1, <2>1
<1> QED BY <1>1, <1>2

\* The recursion has a solution: that of one step less, extended.
LEMMA OuterExists ==
  ASSUME NEW d \in Nat
  PROVE  \E f : f = OuterStep(d, f)
<1> DEFINE S == {i \in Nat : ~ \E f : f = OuterStep(i, f)}
<1> SUFFICES ASSUME S # {} PROVE FALSE
  OBVIOUS
<1>1. PICK n \in S : n = 0 \/ n - 1 \in Nat \ S
  <2> HIDE DEF S
  <2>1. S \subseteq Nat
    BY DEF S
  <2> QED BY LeastNat, <2>1
<1>2. n \in Nat /\ ~ \E f : f = OuterStep(n, f)
  OBVIOUS
<1>3. CASE n = 0
  <2>1. [i \in 0..0 |-> Current] = OuterStep(0, [i \in 0..0 |-> Current])
    BY DEF OuterStep
  <2> QED BY <1>2, <1>3, <2>1
<1>4. CASE n - 1 \in Nat \ S
  <2>1. PICK f : f = OuterStep(n - 1, f)
    BY <1>4
  <2> DEFINE g == [i \in 0..n |-> IF i = n THEN IF f[n - 1] \in live THEN parent[f[n - 1]]
                                                ELSE f[n - 1]
                                  ELSE f[i]]
  <2>2. n # 0
    BY <1>4
  <2>3. ASSUME NEW i \in 0..n
        PROVE  g[i] = IF i = 0 THEN Current
                      ELSE IF g[i - 1] \in live THEN parent[g[i - 1]] ELSE g[i - 1]
    <3>1. CASE i = n
      <4>1. g[i - 1] = f[n - 1] /\ i # 0
        BY <1>2, <2>2, <3>1
      <4> QED BY <3>1, <4>1
    <3>2. CASE i # n
      <4>1. i \in 0..n - 1
        BY <1>2, <3>2
      <4>2. f[i] = IF i = 0 THEN Current
                   ELSE IF f[i - 1] \in live THEN parent[f[i - 1]] ELSE f[i - 1]
        <5> HIDE DEF g
        <5> QED BY <2>1, <4>1 DEF OuterStep
      <4>3. g[i] = f[i] /\ (i # 0 => g[i - 1] = f[i - 1])
        BY <1>2, <3>2
      <4> QED BY <4>2, <4>3
    <3> QED BY <3>1, <3>2
  <2>4. g = OuterStep(n, g)
    <3>1. g = [i \in 0..n |-> g[i]]
      OBVIOUS
    <3> HIDE DEF g
    <3> QED BY <2>3, <3>1 DEF OuterStep
  <2> QED BY <1>2, <2>4
<1> QED BY <1>1, <1>3, <1>4

\* From a frame that exists the parents lead to frames that exist.
LEMMA OuterIsLive ==
  ASSUME Current \in live, \A f \in live : parent[f] \in live \union {NULL}, NULL \notin live,
         NEW d \in Nat
  PROVE  Outer(d) \in live \union {NULL}
<1> DEFINE up == CHOOSE f : f = OuterStep(d, f)
           S == {i \in Nat : i <= d /\ up[i] \notin live \union {NULL}}
<1>1. up = OuterStep(d, up)
  BY OuterExists
<1>2. Outer(d) = up[d]
  BY DEF Outer, OuterStep
<1>3. \A i \in 0..d : up[i] = IF i = 0 THEN Current
                              ELSE IF up[i - 1] \in live THEN parent[up[i - 1]] ELSE up[i - 1]
  <2> HIDE DEF up
  <2> QED BY <1>1 DEF OuterStep
<1> HIDE DEF up
<1>4. S = {}
  <2> SUFFICES ASSUME S # {} PROVE FALSE
    OBVIOUS
  <2>1. PICK n \in S : n = 0 \/ n - 1 \in Nat \ S
    <3>1. S \subseteq Nat
      OBVIOUS
    <3> HIDE DEF S
    <3> QED BY LeastNat, <3>1
  <2>2. n \in 0..d /\ up[n] \notin live \union {NULL}
    OBVIOUS
  <2>3. n # 0
    BY <1>3, <2>2
  <2>4. n - 1 \in Nat \ S
    BY <2>1, <2>3
  <2>5. up[n - 1] \in live \union {NULL}
    BY <2>2, <2>4
  <2> QED BY <1>3, <2>2, <2>3, <2>5
<1> QED BY <1>2, <1>4

\* What the compiler guarantees of PUSHLOCALDEPTH and SETLOCALDEPTH (Scope#try_local counts
\* the scopes it goes through).
DepthsAreNaturals == At(PUSHLOCALDEPTH) \/ At(SETLOCALDEPTH) => Operand(1) \in Nat

\* No step but those four reads the locals of a frame by following pointers.
LEMMA StepsReadNoFreedFrame ==
  ASSUME [Next]_vars, ~ PushLocal, ~ PushLocalDepth, ~ SetLocal, ~ SetLocalDepth
  PROVE  ReadsNoFreedFrame
<1> USE DEF ReadsNoFreedFrame
<1>1. CASE Skip \/ RunOff \/ PushConstant \/ Jump \/ Goto \/ Pop \/ GetSlot
  BY <1>1 DEF Skip, RunOff, PushConstant, Jump, Goto, Pop, GetSlot, Advance, Proceed, Using,
              Trouble, Crash, Abort
<1>2. CASE Send
  BY <1>2, SendSteps
<1>3. CASE EachElement \/ EachIndexed
  <2>1. CASE \E args : Invoke(args)
    BY <2>1, InvokeSteps
  <2>2. CASE \E how : how # "freed frame" /\ Crash(how)
    BY <2>2 DEF Crash
  <2> QED BY <1>3, <2>1, <2>2 DEF EachElement, EachIndexed, Using, Trouble
<1>4. CASE Return \/ EachIndex \/ EachDone \/ RequireDone \/ RequireFile \/ FinishFile
  BY <1>4 DEF Return, EachIndex, EachDone, RequireDone, RequireFile, FinishFile, Using, Trouble,
              Crash, Abort, Make, Allocate, GoOn, EnterFrame
<1>5. CASE Defn \/ MakeVec \/ SetSlot \/ Dump
  BY <1>5 DEF Defn, MakeVec, SetSlot, Dump, Describing, Obstacle, Advance, Proceed, Using, Trouble,
              Crash, Abort, Make, Allocate, BeginSet
<1>6. CASE \/ ReadAgain \/ FinishClosure \/ FinishValue \/ FinishMap \/ FinishIndex \/ FinishField
           \/ FinishNil \/ FinishPrint \/ OutOfCells
  BY <1>6 DEF ReadAgain, FinishClosure, FinishValue, FinishMap, FinishIndex, FinishField,
              FinishNil, FinishPrint, OutOfCells, Finish, Using, Trouble, Crash, Abort
<1>7. CASE Collect \/ CollectFreed \/ CurrentFreed \/ Stranded \/ Destroy \/ Exit
  BY <1>7 DEF Collect, CollectFreed, CurrentFreed, Stranded, Destroy, Exit, Crash
<1>8. CASE Halted \/ UNCHANGED vars
  BY <1>8 DEF Halted, vars
<1> QED BY <1>1, <1>2, <1>3, <1>4, <1>5, <1>6, <1>7, <1>8 DEF Next

\* Those four read a frame that exists, if no parent dangles.
LEMMA LocalsReadNoFreedFrame ==
  ASSUME \A f \in live : parent[f] \in live \union {NULL}, NULL \notin live, DepthsAreNaturals,
         PushLocal \/ PushLocalDepth \/ SetLocal \/ SetLocalDepth
  PROVE  ReadsNoFreedFrame
<1>1. PICK f : /\ f \in live \union {NULL}
               /\ (\E i, cells : PushLocalOf(f, i, cells)) \/ \E i, cells : SetLocalOf(f, i, cells)
  <2>1. CASE PushLocal \/ SetLocal
    BY <2>1 DEF PushLocal, SetLocal, At, Ready
  <2>2. CASE PushLocalDepth \/ SetLocalDepth
    <3>1. Operand(1) \in Nat /\ Current \in live
      BY <2>2 DEF DepthsAreNaturals, PushLocalDepth, SetLocalDepth, At, Ready
    <3>2. Outer(Operand(1)) \in live \union {NULL}
      BY <3>1, OuterIsLive
    <3> QED BY <2>2, <3>2 DEF PushLocalDepth, SetLocalDepth
  <2> QED BY <2>1, <2>2
<1> QED BY <1>1 DEF PushLocalOf, SetLocalOf, Advance, Proceed, Crash, ReadsNoFreedFrame
------------------------------------------------------------------------------
(***************************************************************************)
(* What the interpreter holds is what it is taken for, whatever program it *)
(* runs and whenever the collector comes: type correctness.                *)
(***************************************************************************)
Word == Value \union {NULL}

\* Every frame runs a function of the program, and only a frame that Primitive_require
\* pushed on top of that of 0_main runs the main function of a file.
CodeInv ==
    /\ prog \in DOMAIN Program
    /\ \A f \in Frame : code[f] # NULL => code[f] \in Loaded
    /\ \A c \in Closure : made[c] # NULL => made[c] \in Loaded
    /\ \A f \in live : code[f] = NULL => f = Top \/ "file" \in Loaded
    /\ frames # << >> => frames[1] = Top

IsArray(l) ==
    /\ l = [end |-> l.end, max |-> l.max, at |-> l.at]
    /\ l.max \in Nat
    /\ l.end \in 0..l.max
    /\ l.at \in [0..l.max - 1 -> Word]

RecordInv ==
    /\ self \in [Frame -> Word]
    /\ DOMAIN locals = Frame
    /\ \A f \in Frame : IsArray(locals[f])
    /\ ret \in [Frame -> Nat \union {NULL}]
    /\ base \in [Frame -> Nat]

\* What a native that waits for VM_run has in hand.
Wait == [kind : {"each", "each_with_index", "require"}, values : Seq(Value),
         index : Nat, count : Nat, next : Nat]

WaitOK(n) ==
    /\ n \in Wait
    /\ n.kind = "each" => Len(n.values) = 2
    /\ n.kind = "each_with_index" => Len(n.values) \in {2, 4}

WaitsOK(ns) == ns \in Seq(Wait) /\ Len(ns) <= Depth /\ \A i \in 1..Len(ns) : WaitOK(ns[i])

\* What an instruction that allocates has in hand.
ContOK(k) ==
    /\ k = [kind |-> k.kind, values |-> k.values, safe |-> k.safe, name |-> k.name,
            next |-> k.next]
    /\ k.values \in Seq(Value)
    /\ k.next \in Nat \union {NULL}
    /\ k.kind = "field" => Len(k.values) = 2
    /\ k.kind = "clone" => Len(k.values) = 1 /\ k.name \in Value
    /\ k.kind = "Number" => k.name \in Int
    /\ k.kind = "index" => Len(k.values) = 1 /\ k.name \in Int

\* The ways in which the process may have ended early.
Ends == {"no", "abort", "bound", "no value", "no frame", "freed value", "freed frame",
         "local bounds", "code bounds", "vector bounds", "not a vector", "not a string", "no end"}

ControlInv ==
    /\ ip \in Nat \union {NULL}
    /\ stack \in Seq(Word)
    /\ WaitsOK(natives)
    /\ cont # Idle => /\ ContOK(cont)
                      /\ cont.kind = "index" =>
                           /\ natives # << >>
                           /\ natives[Len(natives)].kind = "each_with_index"
                           /\ Len(natives[Len(natives)].values) = 2
                      /\ cont.kind = "file" =>
                           /\ natives # << >>
                           /\ natives[Len(natives)].kind = "require"
                           /\ "file" \in Loaded
    /\ end \in Ends

ObjectOK(r) ==
    /\ DOMAIN r = {"type", "prototype", "own", "data"}
    /\ r.type \in Value
    /\ r.prototype \in Value
    /\ r.own \in BOOLEAN
    /\ r.own /\ r.type = "Vector" => r.data \in Seq(Value)
    /\ r.own /\ r.type = "Number" => r.data \in Int

HeapInv ==
    /\ DOMAIN obj = Object
    /\ \A o \in Object : obj[o] = Unused \/ ObjectOK(obj[o])
    /\ DOMAIN slots = Value
    /\ \A v \in Value : \A n \in DOMAIN slots[v] : slots[v][n] \in Value
    /\ DOMAIN fields = Value
    /\ \A v \in Value : fields[v] \subseteq DOMAIN slots[v]

\* A native that loops goes through a vector that may have grown, but not shrunk, since it
\* was counted; if it was collected no other value has taken its cell.  The slot that an
\* instruction has set is still there when it comes to record it as a field.
LoopsOn(n) ==
    /\ n.values[1] \in Object
    /\ obj[n.values[1]].type # NULL =>
         /\ obj[n.values[1]].type = "Vector"
         /\ obj[n.values[1]].own
         /\ n.count <= Len(obj[n.values[1]].data)

LinkInv ==
    /\ \A i \in 1..Len(natives) : natives[i].kind # "require" => LoopsOn(natives[i])
    /\ cont # Idle /\ cont.kind = "field" /\ cont.values[1] \notin condemned
         /\ Allocated(cont.values[1]) => cont.name \in DOMAIN slots[cont.values[1]]

ValueInv == RecordInv /\ ControlInv /\ HeapInv /\ LinkInv

TypeInv == F!TypeOK /\ CodeInv /\ ValueInv
------------------------------------------------------------------------------
(***************************************************************************)
(* The call frames                                                         *)
(***************************************************************************)
\* What is proved of the frames of any run.
Q == INSTANCE FramesProofs WITH Collection <- "any", Redefinition <- TRUE, Requires <- TRUE

LEMMA FunctionsAreNames == NULL \notin Function /\ NULL \notin Object /\ NULL \notin Closure
BY InstanceAssumption, ValueAssumption DEF Value, Permanent

LEMMA FramesTyped ==
  ASSUME F!TypeOK, FrameStep
  PROVE  F!TypeOK'
<1>a. /\ Q!IsFiniteSet(Frame) /\ Q!IsFiniteSet(Closure) /\ Top \in Frame
      /\ NULL \notin Frame /\ NULL \notin Function
  BY InstanceAssumption, FunctionsAreNames DEF IsFiniteSet, Q!IsFiniteSet
<1>1. Q!TypeOK /\ [Q!Next]_(Q!vars) => Q!TypeOK'
  BY Q!TypeStep, <1>a
<1>2. [F!Next]_frameVars
  BY DEF FrameStep, F!Next
<1>3. [F!Next]_frameVars => [Q!Next]_(Q!vars)
  BY DEF frameVars,
     F!Next, Q!Next, F!Defn, Q!Defn, F!Call, Q!Call, F!CallFreedScope, Q!CallFreedScope,
     F!Require, Q!Require, F!CurrentFreed, Q!CurrentFreed, F!RetCaptured, Q!RetCaptured,
     F!Ret, Q!Ret, F!Release, Q!Release, F!ReleaseFreed, Q!ReleaseFreed, F!Collect, Q!Collect,
     F!CollectFreed, Q!CollectFreed, F!Sweep, Q!Sweep, F!Exit, Q!Exit, F!ExitDone, Q!ExitDone,
     F!Halted, Q!Halted, F!Running, Q!Running, F!Current, Q!Current, F!Fresh, Q!Fresh,
     F!PushFrame, Q!PushFrame, F!BelongsHere, Q!BelongsHere, F!Active, Q!Active,
     F!Fail, Q!Fail, F!Free, Q!Free, F!PopFrame, Q!PopFrame, F!Required, Q!Required,
     F!RootsFreed, Q!RootsFreed, F!Collectable, Q!Collectable, F!vars, Q!vars
<1>4. F!TypeOK => Q!TypeOK
  BY DEF F!TypeOK, Q!TypeOK
<1>5. Q!TypeOK' => F!TypeOK'
  BY DEF F!TypeOK, Q!TypeOK
<1> QED BY <1>1, <1>2, <1>3, <1>4, <1>5

\* A frame that is popped is not the first, or there is none left.
LEMMA PopKeepsFirst ==
  ASSUME frames \in Seq(Frame), frames # << >>, F!PopFrame, frames' # << >>
  PROVE  frames'[1] = frames[1]
BY DEF F!PopFrame

LEMMA CodeStep ==
  ASSUME F!TypeOK, CodeInv, FrameStep, prog' = prog, Unfinished("file") => "file" \in Loaded
  PROVE  CodeInv'
<1> USE FunctionsAreNames DEF CodeInv, F!TypeOK
<1>0. Loaded' = Loaded
  BY DEF Loaded
<1> HIDE DEF F!TypeOK
<1>1. CASE UNCHANGED frameVars
  BY <1>0, <1>1 DEF frameVars
<1>2. ASSUME NEW fn \in Function \intersect Loaded, NEW c \in Closure, F!Defn(fn, c)
      PROVE  CodeInv'
  BY <1>0, <1>2 DEF F!Defn, F!TypeOK
<1>3. ASSUME "file" \in Loaded, NEW g \in Frame, F!Require(g) PROVE CodeInv'
  <2>1. frames'[1] = frames[1]
    BY <1>3 DEF F!Require, F!PushFrame, F!Running, F!TypeOK
  <2> QED BY <1>0, <1>3, <2>1 DEF F!Require, F!PushFrame, F!Running, F!TypeOK
<1>4. ASSUME NEW c \in Closure, NEW g \in Frame, F!Call(c, g) PROVE CodeInv'
  <2>1. frames'[1] = frames[1]
    BY <1>4 DEF F!Call, F!PushFrame, F!Running, F!TypeOK
  <2> QED BY <1>0, <1>4, <2>1 DEF F!Call, F!PushFrame, F!Running, F!TypeOK
<1>5. ASSUME NEW c \in Closure, F!CallFreedScope(c) \/ F!Sweep(c) PROVE CodeInv'
  <2>1. CASE F!CallFreedScope(c)
    BY <1>0, <2>1 DEF F!CallFreedScope, F!Fail
  <2>2. CASE F!Sweep(c)
    BY <1>0, <2>2 DEF F!Sweep, F!TypeOK
  <2> QED BY <1>5, <2>1, <2>2
<1>6. CASE \/ \E S \in SUBSET Closure : F!Collect(S)
           \/ F!CollectFreed \/ F!CurrentFreed \/ F!ReleaseFreed \/ F!Exit \/ F!ExitDone
  BY <1>0, <1>6 DEF F!Collect, F!CollectFreed, F!CurrentFreed, F!ReleaseFreed, F!Fail, F!Exit,
                    F!ExitDone
<1>7. CASE F!RetCaptured \/ F!Ret
  <2>1. frames # << >> /\ (frames' # << >> => frames'[1] = frames[1])
    BY <1>7, PopKeepsFirst DEF F!RetCaptured, F!Ret, F!Running, F!TypeOK
  <2> QED BY <1>0, <1>7, <2>1 DEF F!RetCaptured, F!Ret, F!Free, F!TypeOK
<1>8. CASE F!Release
  BY <1>0, <1>8 DEF F!Release, F!Free, F!TypeOK
<1> QED BY <1>1, <1>2, <1>3, <1>4, <1>5, <1>6, <1>7, <1>8 DEF FrameStep
------------------------------------------------------------------------------
(***************************************************************************)
(* The operand stack, the values and the cells of the code                 *)
(***************************************************************************)
LEMMA PeekWord ==
  ASSUME stack \in Seq(Word), NEW k \in Nat \ {0}
  PROVE  Peek(k) \in Word
BY DEF Peek, Word

LEMMA WithoutType ==
  ASSUME stack \in Seq(Word), NEW k \in Nat
  PROVE  Without(k) \in Seq(Word)
<1>1. \A i \in 1..Len(stack) - k : stack[i] \in Word
  OBVIOUS
<1> QED BY <1>1, SubSeqProperties DEF Without

LEMMA PeeksType ==
  ASSUME stack \in Seq(Word), NEW n \in Nat
  PROVE  [i \in 1..n |-> Peek(i)] \in Seq(Word) /\ Len([i \in 1..n |-> Peek(i)]) = n
<1>1. \A i \in 1..n : Peek(i) \in Word
  BY PeekWord
<1> QED BY <1>1

LEMMA NoLocalsIsArray == IsArray(NoLocals)
<1>1. << >> \in [0..0 - 1 -> Word]
  OBVIOUS
<1> QED BY <1>1 DEF IsArray, NoLocals

LEMMA NewLocalsIsArray ==
  ASSUME NEW args \in Seq(Word), NEW m \in Nat, Len(args) <= m
  PROVE  IsArray(NewLocals(args, m))
<1>1. \A i \in 0..m - 1 : (IF i < Len(args) THEN args[i + 1] ELSE NULL) \in Word
  BY DEF Word
<1> QED BY <1>1 DEF IsArray, NewLocals

\* The literals and the natives are values.
LEMMA NamesAreValues ==
  /\ Number \subseteq Value /\ Name \subseteq Value /\ Native \subseteq Value
  /\ Closure \subseteq Value /\ Object \subseteq Value /\ Blueprint \subseteq Value
  /\ {"nil", "true", "false", "lobby"} \subseteq Value
  /\ Value \subseteq Word /\ NULL \in Word /\ NULL \notin Value
BY ValueAssumption DEF Value, Permanent, Word

\* What passes for data of some type is a value of that type.
LEMMA DataKinds ==
  ASSUME HeapInv, NEW v \in Value, Allocated(v)
  PROVE  /\ TypeOf(v) = "Vector" /\ Own(v) => v \in Object /\ obj[v].type # NULL /\ obj[v].own
                                              /\ obj[v].type = "Vector"
                                              /\ obj[v].data \in Seq(Value)
         /\ TypeOf(v) = "Number" => NumberOf(v) \in Int
         /\ PrototypeOf(v) \in Word
         /\ TypeOf(v) \in Value
<1>1. CASE v \in Object
  <2>1. /\ ObjectOK(obj[v]) /\ v \notin Closure
        /\ v \notin Native \union Blueprint \union Number \union Name \union {"nil", "true", "false"}
    BY <1>1, ValueAssumption DEF HeapInv, Allocated, Unused, Permanent
  <2>2. TypeOf(v) = obj[v].type /\ PrototypeOf(v) = obj[v].prototype
    BY <1>1, <2>1 DEF TypeOf, PrototypeOf
  <2>a. Own(v) <=> obj[v].own
    BY <1>1, <2>1 DEF Own
  <2>3. NumberOf(v) = IF obj[v].own THEN obj[v].data ELSE 0
    BY <2>1, <2>a DEF NumberOf
  <2> QED BY <1>1, <2>1, <2>2, <2>a, <2>3, NamesAreValues DEF ObjectOK, Allocated
<1>2. CASE v \notin Object
  <2>1. /\ TypeOf(v) = "Vector" => v \in Blueprint
        /\ TypeOf(v) = "Number" => v \in Number \/ v \in Blueprint
    BY <1>2, ValueAssumption DEF TypeOf, Blueprint
  <2>2. NumberOf(v) \in Int \/ v \notin Number \union Blueprint
    BY <1>2, ValueAssumption, InstanceAssumption DEF NumberOf, Own
  <2>3. PrototypeOf(v) \in Word
    BY <1>2, NamesAreValues DEF PrototypeOf, TypeOf, Blueprint
  <2>4. TypeOf(v) \in Value
    BY <1>2, NamesAreValues DEF TypeOf, Blueprint
  <2> QED BY <2>1, <2>2, <2>3, <2>4 DEF Own
<1> QED BY <1>1, <1>2
------------------------------------------------------------------------------
\* Going on from some x by g, d times over, has a result.
LEMMA Iteration ==
  ASSUME NEW g, NEW x \in DOMAIN g, \A w \in DOMAIN g : g[w] \in DOMAIN g, NEW d \in Nat
  PROVE  \E f : /\ f = [i \in 0..d |-> IF i = 0 THEN x ELSE g[f[i - 1]]]
                /\ \A i \in 0..d : f[i] \in DOMAIN g
<1> DEFINE Is(f, n) == /\ f = [i \in 0..n |-> IF i = 0 THEN x ELSE g[f[i - 1]]]
                       /\ \A i \in 0..n : f[i] \in DOMAIN g
           S == {n \in Nat : ~ \E f : Is(f, n)}
<1> SUFFICES ASSUME S # {} PROVE FALSE
  OBVIOUS
<1>1. PICK n \in S : n = 0 \/ n - 1 \in Nat \ S
  <2>1. S \subseteq Nat
    OBVIOUS
  <2> HIDE DEF S
  <2> QED BY LeastNat, <2>1
<1>2. n \in Nat /\ ~ \E f : Is(f, n)
  OBVIOUS
<1>3. CASE n = 0
  <2>1. Is([i \in 0..0 |-> x], 0)
    OBVIOUS
  <2> QED BY <1>2, <1>3, <2>1
<1>4. CASE n # 0
  <2>1. PICK f : Is(f, n - 1)
    BY <1>1, <1>4
  <2>a. \A i \in 0..n - 1 : f[i] = (IF i = 0 THEN x ELSE g[f[i - 1]]) /\ f[i] \in DOMAIN g
    BY <2>1
  <2>b. f[n - 1] \in DOMAIN g
    BY <1>2, <1>4, <2>a
  <2> DEFINE h == [i \in 0..n |-> IF i = n THEN g[f[n - 1]] ELSE f[i]]
  <2>2. ASSUME NEW i \in 0..n PROVE h[i] = (IF i = 0 THEN x ELSE g[h[i - 1]]) /\ h[i] \in DOMAIN g
    <3>1. i # 0 => h[i - 1] = f[i - 1] /\ i - 1 \in 0..n - 1
      BY <1>2
    <3>2. i # n => i \in 0..n - 1
      BY <1>2
    <3>3. CASE i = n
      BY <1>2, <1>4, <2>b, <3>1, <3>3
    <3>4. CASE i # n
      BY <2>a, <3>1, <3>2, <3>4
    <3> QED BY <3>3, <3>4
  <2>3. h = [i \in 0..n |-> h[i]]
    OBVIOUS
  <2>4. Is(h, n)
    <3> HIDE DEF h
    <3> QED BY <2>2, <2>3
  <2> QED BY <1>2, <2>4
<1> QED BY <1>3, <1>4
\* One unfolding of the recursion by which Value_get follows the prototypes.
OwnerStep(v, n, f) ==
    [d \in 0..Cardinality(Object) + 2 |->
       IF d = 0 THEN v
       ELSE IF \/ ~ Allocated(f[d - 1]) \/ n \in DOMAIN slots[f[d - 1]]
               \/ PrototypeOf(f[d - 1]) = NULL
              THEN f[d - 1]
            ELSE PrototypeOf(f[d - 1])]

LEMMA OwnerIsValue ==
  ASSUME HeapInv, NEW v \in Value, NEW n
  PROVE  Owner(v, n) \in Value
<1> DEFINE N == Cardinality(Object) + 2
           next == [w \in Value |-> IF ~ Allocated(w) \/ n \in DOMAIN slots[w] \/ PrototypeOf(w) = NULL
                                      THEN w ELSE PrototypeOf(w)]
           up == CHOOSE f : f = OwnerStep(v, n, f)
           S == {i \in Nat : i <= N /\ up[i] \notin Value}
<1>1. N \in Nat
  BY InstanceAssumption, FS_CardinalityType
<1>2. \A w \in Value : next[w] \in Value
  BY DataKinds DEF Word
<1>4. up = OwnerStep(v, n, up)
  <2>1. PICK f : /\ f = [i \in 0..N |-> IF i = 0 THEN v ELSE next[f[i - 1]]]
                 /\ \A i \in 0..N : f[i] \in Value
    <3>1. DOMAIN next = Value /\ \A w \in DOMAIN next : next[w] \in DOMAIN next
      BY <1>2
    <3> HIDE DEF N, next
    <3> QED BY <1>1, <3>1, Iteration
  <2>2. ASSUME NEW i \in 0..N, i # 0 PROVE f[i - 1] \in Value
    BY <1>1, <2>1, <2>2
  <2>3. f = OwnerStep(v, n, f)
    BY <2>1, <2>2 DEF OwnerStep
  <2> QED BY <2>3
<1>5. Owner(v, n) = up[N]
  BY DEF Owner, OwnerStep
<1>6. \A i \in 0..N : up[i] = IF i = 0 THEN v
                              ELSE IF \/ ~ Allocated(up[i - 1]) \/ n \in DOMAIN slots[up[i - 1]]
                                      \/ PrototypeOf(up[i - 1]) = NULL
                                     THEN up[i - 1]
                                   ELSE PrototypeOf(up[i - 1])
  <2> HIDE DEF up
  <2> QED BY <1>4 DEF OwnerStep
<1> HIDE DEF up
<1>7. S = {}
  <2> SUFFICES ASSUME S # {} PROVE FALSE
    OBVIOUS
  <2>1. PICK m \in S : m = 0 \/ m - 1 \in Nat \ S
    <3>1. S \subseteq Nat
      OBVIOUS
    <3> HIDE DEF S
    <3> QED BY LeastNat, <3>1
  <2> HIDE DEF N
  <2>2. m \in 0..N /\ up[m] \notin Value
    BY <1>1
  <2>3. m # 0
    BY <1>6, <2>2
  <2>4. up[m - 1] \in Value
    BY <1>1, <2>1, <2>2, <2>3
  <2> QED BY <1>6, <2>2, <2>3, <2>4, DataKinds DEF Word
<1> HIDE DEF N
<1> QED BY <1>1, <1>5, <1>7

LEMMA LookupIsWord ==
  ASSUME HeapInv, NEW v \in Value, NEW n
  PROVE  Lookup(v, n) \in Word
BY OwnerIsValue DEF Lookup, HeapInv, Word

\* A set of values and the parts of those that exist.
WithParts(T) == T \union (UNION {Parts(v) : v \in {w \in T \ {NULL} : Allocated(w)}})

\* One unfolding of the recursion by which Value_to_s goes into the parts.
WithinStep(S, f) ==
    [n \in 0..Cardinality(Object) + 1 |->
       IF n = 0 THEN S
       ELSE f[n - 1] \union
              (UNION {Parts(v) : v \in {w \in f[n - 1] \ {NULL} : Allocated(w)}})]

\* It stays inside a set that holds the parts of its values.
LEMMA WithinStays ==
  ASSUME NEW X, NEW S \in SUBSET X, \A v \in X \ {NULL} : Allocated(v) => Parts(v) \subseteq X
  PROVE  S \subseteq Within(S) /\ Within(S) \subseteq X
<1> DEFINE N == Cardinality(Object) + 1
           next == [T \in SUBSET X |-> WithParts(T)]
           up == CHOOSE f : f = WithinStep(S, f)
           Out == {i \in Nat : i <= N /\ ~ (S \subseteq up[i] /\ up[i] \subseteq X)}
<1>1. N \in Nat
  BY InstanceAssumption, FS_CardinalityType
<1>2. \A T \in SUBSET X : next[T] \in SUBSET X
  BY DEF WithParts
<1>4. up = WithinStep(S, up)
  <2>1. PICK f : /\ f = [i \in 0..N |-> IF i = 0 THEN S ELSE next[f[i - 1]]]
                 /\ \A i \in 0..N : f[i] \in SUBSET X
    <3>1. DOMAIN next = SUBSET X
      OBVIOUS
    <3>2. S \in DOMAIN next /\ \A w \in DOMAIN next : next[w] \in DOMAIN next
      BY <1>2, <3>1
    <3> HIDE DEF N, next
    <3>3. \E f : /\ f = [i \in 0..N |-> IF i = 0 THEN S ELSE next[f[i - 1]]]
                 /\ \A i \in 0..N : f[i] \in DOMAIN next
      BY <1>1, <3>2, Iteration
    <3> QED BY <3>1, <3>3, Zenon
  <2>2. ASSUME NEW i \in 0..N, i # 0 PROVE f[i - 1] \in SUBSET X
    <3>1. i - 1 \in 0..N
      <4> HIDE DEF N
      <4> QED BY <1>1, <2>2
    <3> HIDE DEF N, next
    <3> QED BY <2>1, <3>1, Zenon
  <2>3. f = WithinStep(S, f)
    BY <2>1, <2>2 DEF WithinStep, WithParts
  <2> QED BY <2>3
<1>5. Within(S) = up[N]
  BY DEF Within, WithinStep
<1>6. \A i \in 0..N : up[i] = IF i = 0 THEN S ELSE WithParts(up[i - 1])
  <2> HIDE DEF up
  <2> QED BY <1>4 DEF WithinStep, WithParts
<1> HIDE DEF up
<1>7. Out = {}
  <2> SUFFICES ASSUME Out # {} PROVE FALSE
    OBVIOUS
  <2>1. PICK m \in Out : m = 0 \/ m - 1 \in Nat \ Out
    <3>1. Out \subseteq Nat
      OBVIOUS
    <3> HIDE DEF Out
    <3> QED BY LeastNat, <3>1
  <2> HIDE DEF N
  <2>2. m \in 0..N /\ ~ (S \subseteq up[m] /\ up[m] \subseteq X)
    BY <1>1
  <2>3. m # 0
    BY <1>6, <2>2
  <2>4. S \subseteq up[m - 1] /\ up[m - 1] \subseteq X
    BY <1>1, <2>1, <2>2, <2>3
  <2>5. up[m] = WithParts(up[m - 1])
    BY <1>6, <2>2, <2>3
  <2> QED BY <2>2, <2>4, <2>5 DEF WithParts
<1> HIDE DEF N
<1> QED BY <1>1, <1>5, <1>7

LEMMA PartsAreWords ==
  ASSUME HeapInv, NEW v \in Value, Allocated(v)
  PROVE  Parts(v) \subseteq Word
<1>1. v \in Object => Held(v) \subseteq Value
  BY DEF HeapInv, ObjectOK, Held, ValuesIn, Allocated, Unused
<1>2. \A n \in fields[v] : slots[v][n] \in Value
  BY DEF HeapInv
<1> QED BY <1>1, <1>2 DEF Parts, Word

\* What can be described is a value that exists, and so is all that is read for its text.
LEMMA DescribedExists ==
  ASSUME HeapInv, NEW v \in Word, Obstacle({v}) = "none"
  PROVE  /\ v \in Value /\ Allocated(v)
         /\ \A w \in Within({v}) : w \in Value /\ Allocated(w)
<1>1. {v} \subseteq Within({v}) /\ Within({v}) \subseteq Word
  <2>1. \A w \in Word \ {NULL} : Allocated(w) => Parts(w) \subseteq Word
    BY PartsAreWords DEF Word
  <2> QED BY <2>1, WithinStays
<1>2. Trouble(Within({v})) = "none"
  BY DEF Obstacle
<1>3. NULL \notin Within({v}) /\ \A w \in Within({v}) : Allocated(w)
  BY <1>2 DEF Trouble
<1> QED BY <1>1, <1>3 DEF Word

\* The values that are read again, in a sequence.
LEMMA SequenceOf ==
  ASSUME NEW T, IsFiniteSet(T)
  PROVE  SetToSeq(T) \in Seq(T)
<1>1. Cardinality(T) \in Nat /\ ExistsBijection(1..Cardinality(T), T)
  BY FS_CardinalityType
<1>2. \E f \in [1..Cardinality(T) -> T] : IsInjective(f)
  BY <1>1 DEF ExistsBijection, Bijection, Injection
<1>3. SetToSeq(T) \in [1..Cardinality(T) -> T]
  BY <1>2 DEF SetToSeq
<1> QED BY <1>1, <1>3

LEMMA RereadIsSequence ==
  ASSUME NEW v
  PROVE  SetToSeq(Reread(v)) \in Seq(Reread(v)) /\ SetToSeq(Reread(v)) \in Seq(Value)
<1>1. Reread(v) \subseteq Object
  BY DEF Reread
<1>2. IsFiniteSet(Reread(v))
  BY <1>1, InstanceAssumption, FS_Subset
<1>3. SetToSeq(Reread(v)) \in Seq(Reread(v))
  BY <1>2, SequenceOf
<1> HIDE DEF Reread
<1> QED BY <1>1, <1>3, NamesAreValues
------------------------------------------------------------------------------
\* The frame that runs has code, and its literals are numbers and strings.
LEMMA CodeIsThere ==
  ASSUME TypeInv, Ready
  PROVE  /\ Running(Current) \in Loaded
         /\ Cells \in Seq(Nat)
         /\ Literals \in Seq(Number \union Name)
         /\ Current \in Frame /\ ip \in Nat
<1>1. /\ Current \in live /\ live \subseteq Frame /\ ip # NULL /\ frames # << >> /\ cont = Idle
      /\ frames \in Seq(Frame) /\ Current = frames[Len(frames)]
  BY DEF TypeInv, Ready, Going, F!Running, F!TypeOK, Current, F!Current
<1>2. Current \in Frame /\ ip \in Nat
  BY <1>1 DEF TypeInv, ValueInv, ControlInv
<1>3. Running(Current) \in Loaded
  BY <1>1, <1>2, ProgramAssumption DEF TypeInv, CodeInv, Running, Loaded
<1>4. Cells \in Seq(Nat) /\ Literals \in Seq(Number \union Name)
  BY <1>3, ProgramAssumption DEF TypeInv, CodeInv, Cells, Literals, Loaded
<1> QED BY <1>2, <1>3, <1>4

LEMMA Widths ==
  /\ \A o \in {SEND, PUSHLOCALDEPTH, SETLOCALDEPTH} : Width(o) = 3
  /\ \A o \in {SETLINE, PUSH, JMP, JIF, JIT, GOTO, GETSLOT, SETSLOT, POP, DEFN, MAKEVEC,
               PUSHLOCAL, SETLOCAL} : Width(o) = 2
BY DEF Width, SEND, PUSHLOCALDEPTH, SETLOCALDEPTH, SETLINE, PUSH, JMP, JIF, JIT, GOTO, GETSLOT,
       SETSLOT, POP, DEFN, MAKEVEC, PUSHLOCAL, SETLOCAL

\* The operands of an instruction are numbers, and the literal it names is a value.
LEMMA Decode ==
  ASSUME TypeInv, NEW opcode, At(opcode)
  PROVE  /\ Ready /\ ip \in Nat /\ Current \in Frame /\ Current \in live /\ cont = Idle
         /\ opcode \in {SEND, PUSHLOCALDEPTH, SETLOCALDEPTH} =>
              Operand(1) \in Nat /\ Operand(2) \in Nat
         /\ opcode \in {SETLINE, PUSH, JMP, JIF, JIT, GOTO, GETSLOT, SETSLOT, POP, DEFN, MAKEVEC,
                        PUSHLOCAL, SETLOCAL} => Operand(1) \in Nat
         /\ opcode \in {PUSH, GETSLOT, SETSLOT, DEFN, SEND} =>
              Literal(Operand(1)) \in Number \union Name
<1>1. /\ Cells \in Seq(Nat) /\ Literals \in Seq(Number \union Name) /\ ip \in Nat
      /\ Current \in Frame /\ Ready /\ InBounds /\ Operand(0) = opcode
  BY CodeIsThere DEF At
<1>2. ip + Width(opcode) <= Len(Cells)
  BY <1>1 DEF InBounds
<1>a. ASSUME NEW k \in Nat, ip + 1 + k \in 1..Len(Cells) PROVE Operand(k) \in Nat
  BY <1>1, <1>a DEF Operand
<1>3. opcode \in {SEND, PUSHLOCALDEPTH, SETLOCALDEPTH} => Operand(1) \in Nat /\ Operand(2) \in Nat
  <2> SUFFICES ASSUME opcode \in {SEND, PUSHLOCALDEPTH, SETLOCALDEPTH}
               PROVE  Operand(1) \in Nat /\ Operand(2) \in Nat
    OBVIOUS
  <2>1. Width(opcode) = 3
    BY Widths
  <2>2. ip + 1 + 1 \in 1..Len(Cells) /\ ip + 1 + 2 \in 1..Len(Cells)
    BY <1>1, <1>2, <2>1
  <2> QED BY <1>a, <2>2
<1>4. opcode \in {SETLINE, PUSH, JMP, JIF, JIT, GOTO, GETSLOT, SETSLOT, POP, DEFN, MAKEVEC,
                  PUSHLOCAL, SETLOCAL} => Operand(1) \in Nat
  <2> SUFFICES ASSUME opcode \in {SETLINE, PUSH, JMP, JIF, JIT, GOTO, GETSLOT, SETSLOT, POP, DEFN,
                                  MAKEVEC, PUSHLOCAL, SETLOCAL}
               PROVE  Operand(1) \in Nat
    OBVIOUS
  <2>1. Width(opcode) = 2
    BY Widths
  <2>2. ip + 1 + 1 \in 1..Len(Cells)
    BY <1>1, <1>2, <2>1
  <2> QED BY <1>a, <2>2
<1>5. opcode \in {PUSH, GETSLOT, SETSLOT, DEFN, SEND} =>
        Literal(Operand(1)) \in Number \union Name
  <2> SUFFICES ASSUME opcode \in {PUSH, GETSLOT, SETSLOT, DEFN, SEND}
               PROVE  Literal(Operand(1)) \in Number \union Name
    OBVIOUS
  <2>1. Operand(1) \in Nat /\ Operand(1) < Len(Literals)
    BY <1>1, <1>3, <1>4 DEF InBounds
  <2> QED BY <1>1, <2>1 DEF Literal
<1> QED BY <1>1, <1>3, <1>4, <1>5 DEF Ready
------------------------------------------------------------------------------
(***************************************************************************)
(* How an instruction may turn out                                         *)
(***************************************************************************)
\* What goes on at k finds cells, a stack and waiting natives there.
Continuation(k) ==
    /\ k.next \in Nat
    /\ k.stack \in Seq(Word)
    /\ WaitsOK(k.natives)
    /\ \A i \in 1..Len(k.natives) : k.natives[i].kind # "require" => LoopsOn(k.natives[i])

LEMMA SameRecords ==
  ASSUME RecordInv, UNCHANGED recordVars
  PROVE  RecordInv'
BY DEF RecordInv, recordVars

LEMMA SameHeap ==
  ASSUME HeapInv, UNCHANGED heapVars
  PROVE  HeapInv'
BY DEF HeapInv, heapVars

LEMMA SameLoops ==
  ASSUME NEW n, LoopsOn(n), UNCHANGED obj
  PROVE  LoopsOn(n)'
BY DEF LoopsOn

LEMMA AfterGoesOn ==
  ASSUME ValueInv, ip \in Nat, NEW cells \in Nat, NEW st \in Seq(Word)
  PROVE  Continuation(After(cells, st)) /\ After(cells, st).next \in Nat
BY DEF ValueInv, ControlInv, LinkInv, Continuation, After

LEMMA CrashStep ==
  ASSUME ValueInv, NEW how \in Ends, Crash(how)
  PROVE  ValueInv'
<1> USE DEF Crash, ValueInv
<1>1. RecordInv' /\ HeapInv'
  BY SameRecords, SameHeap
<1>2. ControlInv'
  BY DEF ControlInv, Loaded
<1>3. LinkInv'
  BY SameLoops DEF LinkInv, Allocated, frameVars, heapVars
<1> QED BY <1>1, <1>2, <1>3

LEMMA TroubleStep ==
  ASSUME ValueInv, NEW S, Crash(Trouble(S))
  PROVE  ValueInv' \/ Trouble(S) = "none"
BY CrashStep DEF Trouble, Ends

LEMMA ObstacleStep ==
  ASSUME ValueInv, NEW S, Obstacle(S) # "none", Crash(Obstacle(S))
  PROVE  ValueInv'
BY CrashStep DEF Obstacle, Trouble, Ends

LEMMA NoTrouble ==
  ASSUME NEW S, Trouble(S) = "none"
  PROVE  NULL \notin S /\ \A v \in S : Allocated(v)
BY DEF Trouble

LEMMA ProceedStep ==
  ASSUME ValueInv, cont = Idle, NEW next \in Nat, NEW st \in Seq(Word), Proceed(next, st)
  PROVE  ValueInv'
<1> USE DEF Proceed, ValueInv
<1>1. RecordInv' /\ HeapInv'
  BY SameRecords, SameHeap
<1>2. ControlInv'
  BY DEF ControlInv
<1>3. LinkInv'
  BY SameLoops DEF LinkInv, heapVars
<1> QED BY <1>1, <1>2, <1>3

LEMMA AdvanceStep ==
  ASSUME ValueInv, cont = Idle, ip \in Nat, NEW cells \in Nat, NEW st \in Seq(Word),
         Advance(cells, st)
  PROVE  ValueInv'
BY ProceedStep DEF Advance

LEMMA GoOnStep ==
  ASSUME ValueInv, cont = Idle, NEW k, Continuation(k), NEW v \in Word, GoOn(k, v)
  PROVE  ValueInv'
<1> USE DEF GoOn, ValueInv, Continuation
<1>1. RecordInv' /\ HeapInv'
  BY SameRecords, SameHeap
<1>2. ControlInv'
  BY DEF ControlInv
<1>3. LinkInv'
  BY SameLoops DEF LinkInv, heapVars
<1> QED BY <1>1, <1>2, <1>3

\* An allocation leaves what it has in hand for the second step.
LEMMA AllocateStep ==
  ASSUME ValueInv, NEW kind, NEW values, NEW safe, NEW name, NEW k, Continuation(k),
         ContOK([kind |-> kind, values |-> values, safe |-> safe, name |-> name,
                 next |-> k.next]),
         kind \notin {"index", "file"}, HeapInv', kind = "field" => name \in DOMAIN slots'[values[1]],
         Allocate(kind, values, safe, name, k)
  PROVE  ValueInv'
<1> USE DEF Allocate, ValueInv, Continuation
<1>1. RecordInv'
  BY SameRecords
<1>2. ControlInv'
  BY DEF ControlInv
<1>3. LinkInv'
  BY SameLoops DEF LinkInv
<1> QED BY <1>1, <1>2, <1>3

LEMMA MakeStep ==
  ASSUME ValueInv, NEW values \in Seq(Value), NEW name, NEW k, Continuation(k),
         NEW kind \in {"closure", "print", "nil", "String", "Number", "Map", "clone"},
         kind = "Number" => name \in Int,
         kind = "clone" => Len(values) = 1 /\ name \in Value,
         Make(kind, values, name, k)
  PROVE  ValueInv'
<1> DEFINE r == [kind |-> kind, values |-> values, safe |-> {}, name |-> name, next |-> k.next]
<1>1. ContOK(r)
  <2>1. /\ r.kind = kind /\ r.values = values /\ r.safe = {} /\ r.name = name
        /\ r.next = k.next /\ k.next \in Nat
    BY DEF Continuation
  <2>2. r = [kind |-> r.kind, values |-> r.values, safe |-> r.safe, name |-> r.name,
             next |-> r.next]
    OBVIOUS
  <2> HIDE DEF r
  <2> QED BY <2>1, <2>2 DEF ContOK
<1>2. HeapInv'
  BY SameHeap DEF Make, Allocate, ValueInv, heapVars
<1> QED BY <1>1, <1>2, AllocateStep DEF Make

LEMMA BeginNativeStep ==
  ASSUME ValueInv, cont = Idle, NEW values \in Seq(Value), NEW count \in Nat,
         NEW k, Continuation(k), NEW kind \in {"each", "each_with_index", "require"},
         kind # "require" =>
           Len(values) = 2 /\ LoopsOn([kind |-> kind, values |-> values, index |-> 0,
                                       count |-> count, next |-> k.next]),
         BeginNative(kind, values, count, k)
  PROVE  ValueInv'
<1> DEFINE n == [kind |-> kind, values |-> values, index |-> 0, count |-> count, next |-> k.next]
<1>1. CASE Crash("bound")
  BY <1>1, CrashStep DEF Ends
<1>2. CASE ~ Crash("bound")
  <2>1. /\ Len(k.natives) # Depth
        /\ natives' = Append(k.natives, n)
        /\ ip' = NULL /\ stack' = k.stack
        /\ UNCHANGED <<frameVars, prog, recordVars, cont, heapVars, end, result>>
    BY <1>2 DEF BeginNative
  <2>2. n \in Wait /\ WaitOK(n) /\ n.kind = kind
    BY DEF Wait, WaitOK, Continuation
  <2>3. kind # "require" => LoopsOn(n)
    OBVIOUS
  <2> HIDE DEF n
  <2>4. WaitsOK(natives')
    BY <2>1, <2>2, InstanceAssumption DEF WaitsOK, Continuation
  <2>5. RecordInv' /\ HeapInv'
    BY <2>1, SameRecords, SameHeap DEF ValueInv
  <2>6. ControlInv'
    BY <2>1, <2>4 DEF ValueInv, ControlInv, Continuation
  <2>7. \A i \in 1..Len(natives') : natives'[i].kind # "require" => LoopsOn(natives'[i])
    BY <2>1, <2>2, <2>3 DEF Continuation, WaitsOK
  <2>8. LinkInv'
    BY <2>1, <2>7, SameLoops DEF LinkInv, heapVars
  <2> QED BY <2>5, <2>6, <2>8 DEF ValueInv
<1> QED BY <1>1, <1>2

\* A call pushes a frame with room for its arguments.
LEMMA EnterStep ==
  ASSUME ValueInv, cont' = Idle, NEW g \in Frame, NEW receiver \in Word,
         NEW args \in Seq(Word), NEW max \in Nat, Len(args) <= max,
         NEW r \in Nat \union {NULL}, NEW k, Continuation(k),
         EnterFrame(g, receiver, args, max, r, k)
  PROVE  ValueInv'
<1> USE DEF EnterFrame, ValueInv
<1>1. RecordInv'
  <2>1. IsArray(NewLocals(args, max)) /\ Len(k.stack) \in Nat
    BY NewLocalsIsArray DEF Continuation
  <2> QED BY <2>1 DEF RecordInv
<1>2. HeapInv'
  BY SameHeap
<1>3. ControlInv'
  BY DEF ControlInv, Continuation
<1>4. LinkInv'
  BY SameLoops DEF LinkInv, Continuation, heapVars
<1> QED BY <1>1, <1>2, <1>3, <1>4
------------------------------------------------------------------------------
(***************************************************************************)
(* Instructions that neither call nor allocate                             *)
(***************************************************************************)
LEMMA PushStep ==
  ASSUME ValueInv, cont = Idle, ip \in Nat, NEW cells \in Nat, NEW v \in Word,
         Advance(cells, Append(stack, v))
  PROVE  ValueInv'
<1>1. Append(stack, v) \in Seq(Word)
  BY DEF ValueInv, ControlInv
<1> QED BY <1>1, AdvanceStep

LEMMA SkipStep ==
  ASSUME TypeInv, Skip
  PROVE  ValueInv'
<1>1. ValueInv /\ stack \in Seq(Word)
  BY DEF TypeInv, ValueInv, ControlInv
<1>2. CASE At(NOOP) /\ Advance(1, stack)
  BY <1>1, <1>2, Decode, AdvanceStep
<1>3. CASE At(SETLINE) /\ Advance(2, stack)
  BY <1>1, <1>3, Decode, AdvanceStep
<1>4. CASE Ready /\ Advance(1, stack)
  BY <1>1, <1>4, CodeIsThere, AdvanceStep DEF Ready
<1> QED BY <1>2, <1>3, <1>4 DEF Skip

LEMMA PushConstantStep ==
  ASSUME TypeInv, PushConstant
  PROVE  ValueInv'
<1>1. ASSUME NEW opcode, At(opcode), NEW cells \in Nat, NEW v \in Word,
             Advance(cells, Append(stack, v))
      PROVE  ValueInv'
  BY <1>1, Decode, PushStep DEF TypeInv
<1>2. CASE At(PUSH) /\ Advance(2, Append(stack, Literal(Operand(1))))
  BY <1>1, <1>2, Decode, NamesAreValues
<1>3. CASE At(PUSHSELF) /\ Advance(1, Append(stack, self[Current]))
  <2>1. self[Current] \in Word
    BY <1>3, Decode DEF TypeInv, ValueInv, RecordInv
  <2> QED BY <1>1, <1>3, <2>1
<1>4. CASE \E v \in {"nil", "true", "false", "lobby"} : \E opcode :
             At(opcode) /\ Advance(1, Append(stack, v))
  BY <1>1, <1>4, NamesAreValues
<1> QED BY <1>2, <1>3, <1>4 DEF PushConstant

LEMMA JumpStep ==
  ASSUME TypeInv, Jump \/ Goto
  PROVE  ValueInv'
<1>1. ValueInv /\ stack \in Seq(Word) /\ Without(1) \in Seq(Word)
  BY WithoutType DEF TypeInv, ValueInv, ControlInv
<1>2. CASE Jump
  <2>1. PICK opcode \in {JMP, JIF, JIT} : At(opcode)
    BY <1>2 DEF Jump
  <2>2. Operand(1) \in Nat /\ ip \in Nat /\ cont = Idle
    BY <2>1, Decode
  <2>3. PICK cells \in Nat, st \in Seq(Word) : Advance(cells, st)
    BY <1>1, <1>2, <2>2 DEF Jump
  <2> QED BY <1>1, <2>2, <2>3, AdvanceStep
<1>3. CASE Goto
  <2>1. Operand(1) \in Nat /\ Operand(1) >= 2 /\ cont = Idle
    BY <1>3, Decode DEF Goto, At, InBounds
  <2> QED BY <1>1, <1>3, <2>1, ProceedStep DEF Goto
<1> QED BY <1>2, <1>3

LEMMA PopStep ==
  ASSUME TypeInv, Pop
  PROVE  ValueInv'
<1>1. ValueInv /\ stack \in Seq(Word)
  BY DEF TypeInv, ValueInv, ControlInv
<1>2. At(POP) /\ (Advance(2, Without(Operand(1))) \/ Abort)
  BY DEF Pop
<1>3. Operand(1) \in Nat /\ ip \in Nat /\ cont = Idle
  BY <1>2, Decode
<1>4. CASE Abort
  BY <1>1, <1>4, CrashStep DEF Abort, Ends
<1> QED BY <1>1, <1>2, <1>3, <1>4, WithoutType, AdvanceStep

LEMMA GetSlotStep ==
  ASSUME TypeInv, GetSlot
  PROVE  ValueInv'
<1> DEFINE n == Literal(Operand(1))
           v == Lookup(Peek(1), n)
<1>1. ValueInv /\ HeapInv /\ stack \in Seq(Word)
  BY DEF TypeInv, ValueInv, ControlInv
<1>2. At(GETSLOT) /\ ip \in Nat /\ cont = Idle
  BY Decode DEF GetSlot
<1>3. CASE \E S : Trouble(S) # "none" /\ Crash(Trouble(S))
  BY <1>1, <1>3, TroubleStep
<1>4. CASE Abort
  BY <1>1, <1>4, CrashStep DEF Abort, Ends
<1>5. CASE Trouble({Peek(1)}) = "none" /\ Advance(2, Append(Without(1), v)) /\ v # NULL
  <2>1. Peek(1) \in Value
    BY <1>1, <1>5, PeekWord, NoTrouble DEF Word
  <2>2. v \in Word
    BY <1>1, <2>1, LookupIsWord
  <2>3. Append(Without(1), v) \in Seq(Word)
    BY <1>1, <2>2, WithoutType
  <2> QED BY <1>1, <1>2, <1>5, <2>3, AdvanceStep
<1> QED BY <1>3, <1>4, <1>5 DEF GetSlot, Using

LEMMA PushLocalOfStep ==
  ASSUME TypeInv, ip \in Nat, cont = Idle, NEW f, NEW i \in Nat, NEW cells \in Nat,
         PushLocalOf(f, i, cells)
  PROVE  ValueInv'
<1>1. ValueInv /\ live \subseteq Frame
  BY DEF TypeInv, F!TypeOK
<1>2. CASE Crash("freed frame") \/ Crash("local bounds")
  BY <1>1, <1>2, CrashStep DEF Ends
<1>3. CASE Advance(cells, Append(stack, NULL))
  BY <1>1, <1>3, PushStep, NamesAreValues
<1>4. CASE f \in live /\ i < locals[f].max /\ Advance(cells, Append(stack, LocalAt(f, i)))
  <2>0. IsArray(locals[f])
    BY <1>1, <1>4 DEF ValueInv, RecordInv
  <2>1. locals[f].at[i] \in Word
    BY <1>4, <2>0 DEF IsArray
  <2>2. LocalAt(f, i) \in Word
    BY <2>1, NamesAreValues DEF LocalAt
  <2> QED BY <1>1, <1>4, <2>2, PushStep
<1> QED BY <1>2, <1>3, <1>4 DEF PushLocalOf

LEMMA ArraySet ==
  ASSUME NEW l, IsArray(l), NEW i \in Nat, i < l.max, NEW w \in Word
  PROVE  IsArray([l EXCEPT !.at[i] = w])
<1>1. [l EXCEPT !.at[i] = w] = [end |-> l.end, max |-> l.max, at |-> [l.at EXCEPT ![i] = w]]
  BY DEF IsArray
<1>2. [l.at EXCEPT ![i] = w] \in [0..l.max - 1 -> Word]
  BY DEF IsArray
<1> QED BY <1>1, <1>2 DEF IsArray

LEMMA SetLocalOfStep ==
  ASSUME TypeInv, ip \in Nat, cont = Idle, NEW f, NEW i \in Nat, NEW cells \in Nat,
         SetLocalOf(f, i, cells)
  PROVE  ValueInv'
<1>1. ValueInv /\ live \subseteq Frame /\ stack \in Seq(Word)
  BY DEF TypeInv, ValueInv, ControlInv, F!TypeOK
<1>2. CASE Crash("freed frame")
  BY <1>1, <1>2, CrashStep DEF Ends
<1>3. CASE Advance(cells, stack)
  BY <1>1, <1>3, AdvanceStep
<1>4. CASE /\ f \in live
           /\ locals' = IF i < locals[f].max THEN [locals EXCEPT ![f].at[i] = Peek(1)] ELSE locals
           /\ ip' = ip + cells
           /\ UNCHANGED <<frameVars, prog, stack, self, ret, base, natives, cont, heapVars,
                          end, result>>
  <2>1. RecordInv'
    <3>1. CASE i < locals[f].max
      <4>1. locals' = [locals EXCEPT ![f] = [locals[f] EXCEPT !.at[i] = Peek(1)]]
        BY <1>4, <3>1
      <4>2. IsArray([locals[f] EXCEPT !.at[i] = Peek(1)])
        <5>1. IsArray(locals[f])
          BY <1>1, <1>4 DEF ValueInv, RecordInv
        <5>2. Peek(1) \in Word
          BY <1>1, PeekWord
        <5> QED BY <3>1, <5>1, <5>2, ArraySet
      <4> QED BY <1>1, <1>4, <4>1, <4>2 DEF ValueInv, RecordInv
    <3>2. CASE ~ (i < locals[f].max)
      BY <1>1, <1>4, <3>2 DEF ValueInv, RecordInv
    <3> QED BY <3>1, <3>2
  <2>2. HeapInv'
    BY <1>1, <1>4, SameHeap DEF ValueInv
  <2>3. ControlInv'
    BY <1>1, <1>4 DEF ValueInv, ControlInv
  <2>4. LinkInv'
    BY <1>1, <1>4, SameLoops DEF ValueInv, LinkInv, heapVars
  <2> QED BY <2>1, <2>2, <2>3, <2>4 DEF ValueInv
<1> QED BY <1>2, <1>3, <1>4 DEF SetLocalOf

LEMMA LocalStep ==
  ASSUME TypeInv, PushLocal \/ PushLocalDepth \/ SetLocal \/ SetLocalDepth
  PROVE  ValueInv'
<1>1. PICK opcode \in {PUSHLOCAL, SETLOCAL, PUSHLOCALDEPTH, SETLOCALDEPTH} : At(opcode)
  BY DEF PushLocal, PushLocalDepth, SetLocal, SetLocalDepth
<1>2. ip \in Nat /\ cont = Idle /\ Operand(1) \in Nat
  BY <1>1, Decode
<1>3. CASE PushLocal
  BY <1>2, <1>3, PushLocalOfStep DEF PushLocal
<1>4. CASE SetLocal
  BY <1>2, <1>4, SetLocalOfStep DEF SetLocal
<1>5. CASE PushLocalDepth
  <2>1. Operand(2) \in Nat
    BY <1>5, Decode DEF PushLocalDepth
  <2> QED BY <1>2, <1>5, <2>1, PushLocalOfStep DEF PushLocalDepth
<1>6. CASE SetLocalDepth
  <2>1. Operand(2) \in Nat
    BY <1>6, Decode DEF SetLocalDepth
  <2> QED BY <1>2, <1>6, <2>1, SetLocalOfStep DEF SetLocalDepth
<1> QED BY <1>3, <1>4, <1>5, <1>6
------------------------------------------------------------------------------
(***************************************************************************)
(* The natives                                                             *)
(***************************************************************************)
\* What a native is called with: its receiver, an argument and where it goes on.
Called(receiver, b, k) ==
    /\ ValueInv
    /\ cont = Idle
    /\ receiver \in Word
    /\ b \in Word
    /\ Continuation(k)

LEMMA AbortStep ==
  ASSUME ValueInv, Abort
  PROVE  ValueInv'
BY CrashStep DEF Abort, Ends

LEMMA NumberStep ==
  ASSUME NEW native, NEW receiver, NEW b, NEW k, Called(receiver, b, k),
         CallNumber(native, receiver, b, k)
  PROVE  ValueInv'
<1> USE DEF Called
<1>1. CASE \E S : Trouble(S) # "none" /\ Crash(Trouble(S))
  BY <1>1, TroubleStep
<1>2. CASE Abort
  BY <1>2, AbortStep
<1>3. CASE /\ Trouble({receiver, b}) = "none" /\ TypeOf(receiver) = "Number" /\ TypeOf(b) = "Number"
           /\ Calculate(native, NumberOf(receiver), NumberOf(b), k)
  <2>1. receiver \in Value /\ b \in Value /\ Allocated(receiver) /\ Allocated(b)
    BY <1>3, NoTrouble DEF Word
  <2>2. PICK i \in Int, j \in Int : Calculate(native, i, j, k)
    BY <1>3, <2>1, DataKinds DEF ValueInv
  <2>3. << >> \in Seq(Value)
    OBVIOUS
  <2>4. ASSUME NEW n \in Int, Make("Number", << >>, n, k) PROVE ValueInv'
    BY <2>3, <2>4, MakeStep
  <2>5. ASSUME NEW v \in {"true", "false"}, GoOn(k, v) PROVE ValueInv'
    BY <2>5, GoOnStep, NamesAreValues
  <2>6. /\ i + j \in Int /\ i - j \in Int /\ i * j \in Int
        /\ j # 0 => (IF j > 0 THEN i \div j ELSE (- i) \div (- j)) \in Int
    OBVIOUS
  <2> QED BY <1>2, <2>2, <2>4, <2>5, <2>6 DEF Calculate, Bool
<1> QED BY <1>1, <1>2, <1>3 DEF CallNumber, Typed, Using

LEMMA ObjectStep ==
  ASSUME NEW native, NEW receiver, NEW b, NEW k, Called(receiver, b, k),
         CallObject(native, receiver, b, k)
  PROVE  ValueInv'
<1> USE DEF Called
<1>1. CASE \E S : Trouble(S) # "none" /\ Crash(Trouble(S))
  BY <1>1, TroubleStep
<1>2. CASE Crash("not a vector")
  BY <1>2, CrashStep DEF Ends
<1>3. ASSUME NEW v \in {"true", "false"}, GoOn(k, v) PROVE ValueInv'
  BY <1>3, GoOnStep, NamesAreValues
<1>4. ASSUME Trouble({receiver}) = "none" \/ \E w : Trouble({receiver, w}) = "none"
      PROVE  receiver \in Value /\ Allocated(receiver)
  BY <1>4, NoTrouble DEF Word
<1>5. ASSUME ToText(receiver, k) \/ WriteText(b, k) PROVE ValueInv'
  <2>1. ASSUME NEW v, NEW kind \in {"String", "nil"}, NEW name,
               Make(kind, SetToSeq(Reread(v)), name, k)
        PROVE  ValueInv'
    BY <2>1, RereadIsSequence, MakeStep
  <2>2. ASSUME NEW v, Obstacle({v}) # "none" /\ Crash(Obstacle({v})) PROVE ValueInv'
    BY <2>2, ObstacleStep
  <2>3. CASE ToText(receiver, k)
    BY <2>1, <2>2, <2>3, GoOnStep DEF ToText, Describing
  <2>4. CASE WriteText(b, k)
    BY <2>1, <2>2, <2>4, GoOnStep, NamesAreValues DEF WriteText, Describing
  <2> QED BY <1>5, <2>3, <2>4
<1>6. ASSUME Trouble({receiver}) = "none",
             GoOn(k, IF PrototypeOf(receiver) = NULL THEN "nil" ELSE PrototypeOf(receiver))
      PROVE  ValueInv'
  <2>1. PrototypeOf(receiver) \in Word
    BY <1>4, <1>6, DataKinds DEF ValueInv
  <2> QED BY <1>6, <2>1, GoOnStep, NamesAreValues
<1>7. ASSUME Trouble({receiver}) = "none", Make("clone", <<receiver>>, TypeOf(receiver), k)
      PROVE  ValueInv'
  <2>1. <<receiver>> \in Seq(Value) /\ Len(<<receiver>>) = 1
    BY <1>4, <1>7
  <2>2. TypeOf(receiver) \in Value
    BY <1>4, <1>7, DataKinds DEF ValueInv
  <2> QED BY <1>7, <2>1, <2>2, MakeStep
<1>9. ASSUME Equal(receiver, b, k) PROVE ValueInv'
  BY <1>1, <1>2, <1>3, <1>9 DEF Equal, Using, Bool
<1> QED BY <1>1, <1>3, <1>5, <1>6, <1>7, <1>9 DEF CallObject, Using, Bool

LEMMA StringStep ==
  ASSUME NEW native, NEW receiver, NEW b, NEW k, Called(receiver, b, k),
         CallString(native, receiver, b, k)
  PROVE  ValueInv'
<1> USE DEF Called
<1>0. << >> \in Seq(Value)
  OBVIOUS
<1>1. CASE \E S : Trouble(S) # "none" /\ Crash(Trouble(S))
  BY <1>1, TroubleStep
<1>2. CASE Abort
  BY <1>2, AbortStep
<1>3. CASE BeginNative("require", << >>, 1, k)
  BY <1>0, <1>3, BeginNativeStep
<1>4. CASE \E name : Make("String", << >>, name, k)
  BY <1>0, <1>4, MakeStep
<1> QED BY <1>1, <1>2, <1>3, <1>4 DEF CallString, Typed, Using

\* Only a vector of its own has elements.
LEMMA VectorKinds ==
  ASSUME ValueInv, NEW v \in Word, NEW S, Trouble(S) = "none", v \in S, TypeOf(v) = "Vector",
         Trouble({DataOf(v)}) = "none"
  PROVE  /\ v \in Object /\ obj[v].type # NULL /\ obj[v].type = "Vector" /\ obj[v].own
         /\ obj[v].data \in Seq(Value)
<1>1. v \in Value /\ Allocated(v)
  BY NoTrouble DEF Word
<1>2. DataOf(v) # NULL
  BY NoTrouble
<1>3. Own(v)
  BY <1>2 DEF DataOf
<1> QED BY <1>1, <1>3, DataKinds DEF ValueInv

LEMMA PushElementStep ==
  ASSUME NEW v, NEW element \in Value, NEW k, Called(v, element, k), PushElement(v, element, k),
         v \in Object, obj[v].type # NULL, obj[v].type = "Vector", obj[v].own,
         obj[v].data \in Seq(Value)
  PROVE  ValueInv'
<1> USE DEF Called, ValueInv
<1> DEFINE d == Append(obj[v].data, element)
           r == [obj[v] EXCEPT !.data = d]
<1>1. d \in Seq(Value) /\ Len(d) >= Len(obj[v].data)
  OBVIOUS
<1>2. obj' = [obj EXCEPT ![v] = r]
  BY DEF PushElement
<1>3. ObjectOK(obj[v])
  BY DEF HeapInv, Unused
<1> HIDE DEF d
<1>4. ObjectOK(r) /\ r.type = "Vector" /\ r.own /\ r.data = d
  BY <1>1, <1>3 DEF ObjectOK
<1> HIDE DEF r
<1>6. \A o \in Object : obj'[o] = IF o = v THEN r ELSE obj[o]
  BY <1>2 DEF HeapInv
<1>7. HeapInv'
  BY <1>2, <1>4, <1>6 DEF HeapInv, PushElement
<1>8. RecordInv'
  BY SameRecords DEF PushElement
<1>9. ControlInv'
  <2>1. Append(k.stack, v) \in Seq(Word)
    BY NamesAreValues DEF Continuation
  <2> QED BY <2>1 DEF ControlInv, PushElement, Continuation
<1>10. ASSUME NEW n, n.count \in Nat, LoopsOn(n) PROVE LoopsOn(n)'
  <2>1. CASE n.values[1] = v
    <3>1. obj'[v] = r /\ n.count <= Len(obj[v].data)
      BY <1>6, <1>10, <2>1 DEF LoopsOn
    <3>2. n.count <= Len(d) /\ Len(d) \in Nat
      BY <1>1, <1>10, <3>1
    <3> QED BY <1>4, <1>10, <2>1, <3>1, <3>2 DEF LoopsOn
  <2>2. CASE n.values[1] # v
    BY <1>6, <1>10, <2>2 DEF LoopsOn
  <2> QED BY <2>1, <2>2
<1>11. ASSUME NEW i \in 1..Len(k.natives) PROVE k.natives[i].count \in Nat
  <2>1. k.natives[i] \in Wait
    BY DEF Continuation, WaitsOK
  <2> QED BY <2>1 DEF Wait
<1>12. LinkInv'
  BY <1>10, <1>11 DEF LinkInv, PushElement, Continuation
<1> QED BY <1>7, <1>8, <1>9, <1>12

LEMMA VectorStep ==
  ASSUME NEW native, NEW receiver, NEW b, NEW k, Called(receiver, b, k),
         CallVector(native, receiver, b, k)
  PROVE  ValueInv'
<1> USE DEF Called
<1>1. CASE \E S : Trouble(S) # "none" /\ Crash(Trouble(S))
  BY <1>1, TroubleStep
<1>2. CASE Abort
  BY <1>2, AbortStep
<1>3. CASE /\ Trouble({receiver, b}) = "none" /\ TypeOf(receiver) = "Vector"
           /\ Trouble({DataOf(receiver)}) = "none"
           /\ ElementAt(receiver, NumberOf(b), k)
  <2>1. obj[receiver].data \in Seq(Value)
    BY <1>3, VectorKinds
  <2>2. CASE Crash("vector bounds")
    BY <2>2, CrashStep DEF Ends
  <2>3. CASE GoOn(k, "nil")
    BY <2>3, GoOnStep, NamesAreValues
  <2>4. ASSUME NEW i \in DOMAIN obj[receiver].data, GoOn(k, obj[receiver].data[i]) PROVE ValueInv'
    <3>1. obj[receiver].data[i] \in Word
      BY <2>1, NamesAreValues
    <3> QED BY <2>4, <3>1, GoOnStep
  <2> QED BY <1>3, <2>2, <2>3, <2>4 DEF ElementAt
<1>4. CASE /\ Trouble({receiver}) = "none" /\ TypeOf(receiver) = "Vector" /\ b # NULL
           /\ Trouble({DataOf(receiver)}) = "none"
           /\ PushElement(receiver, b, k)
  <2>1. b \in Value
    BY <1>4 DEF Word
  <2>2. /\ receiver \in Object /\ obj[receiver].type # NULL /\ obj[receiver].type = "Vector"
        /\ obj[receiver].own /\ obj[receiver].data \in Seq(Value)
    BY <1>4, VectorKinds
  <2> QED BY <1>4, <2>1, <2>2, PushElementStep
<1>5. ASSUME NEW kind \in {"each", "each_with_index"}, Trouble({receiver, b}) = "none",
             TypeOf(receiver) = "Vector", Trouble({DataOf(receiver)}) = "none",
             BeginNative(kind, <<receiver, b>>, Len(obj[receiver].data), k)
      PROVE  ValueInv'
  <2> DEFINE values == <<receiver, b>>
             n == [kind |-> kind, values |-> values, index |-> 0,
                   count |-> Len(obj[receiver].data), next |-> k.next]
  <2>1. b \in Value
    BY <1>5, NoTrouble DEF Word
  <2>2. /\ receiver \in Object /\ obj[receiver].type # NULL /\ obj[receiver].type = "Vector"
        /\ obj[receiver].own /\ obj[receiver].data \in Seq(Value)
    BY <1>5, VectorKinds
  <2>3. values \in Seq(Value) /\ Len(values) = 2 /\ values[1] = receiver
    BY <2>1, <2>2, NamesAreValues
  <2>4. Len(obj[receiver].data) \in Nat
    BY <2>2
  <2>5. LoopsOn(n)
    BY <2>2, <2>3, <2>4 DEF LoopsOn
  <2> HIDE DEF values
  <2> QED BY <1>5, <2>3, <2>4, <2>5, BeginNativeStep DEF values
<1>6. CASE /\ Trouble({receiver}) = "none" /\ TypeOf(receiver) = "Vector"
           /\ Trouble({DataOf(receiver)}) = "none"
           /\ Make("Map", obj[receiver].data, NULL, k)
  <2>1. obj[receiver].data \in Seq(Value)
    BY <1>6, VectorKinds
  <2> QED BY <1>6, <2>1, MakeStep
<1> QED BY <1>1, <1>2, <1>3, <1>4, <1>5, <1>6 DEF CallVector, Typed, Iterate, Using

\* Value_set writes one slot, of a value that exists.
LEMMA BeginSetStep ==
  ASSUME ValueInv, cont = Idle, NEW receiver \in Value, NEW n, NEW v \in Value,
         NEW k, Continuation(k), BeginSet(receiver, n, v, k)
  PROVE  ValueInv'
<1> DEFINE t == [m \in DOMAIN slots[receiver] \union {n} |->
                   IF m = n THEN v ELSE slots[receiver][m]]
           values == <<receiver, v>>
           r == [kind |-> "field", values |-> values, safe |-> {v}, name |-> n, next |-> k.next]
<1>1. slots' = [slots EXCEPT ![receiver] = t] /\ Allocate("field", values, {v}, n, k)
  BY DEF BeginSet
<1>2. /\ n \in DOMAIN t /\ DOMAIN slots[receiver] \subseteq DOMAIN t
      /\ \A m \in DOMAIN t : t[m] \in Value
  BY DEF ValueInv, HeapInv
<1>3. values \in Seq(Value) /\ Len(values) = 2 /\ values[1] = receiver
  OBVIOUS
<1> HIDE DEF t, values
<1>4. \A w \in Value : slots'[w] = IF w = receiver THEN t ELSE slots[w]
  BY <1>1 DEF ValueInv, HeapInv
<1>5. HeapInv'
  BY <1>1, <1>2, <1>4 DEF ValueInv, HeapInv, Allocate
<1>6. ContOK(r)
  <2>1. /\ r.kind = "field" /\ r.values = values /\ r.safe = {v} /\ r.name = n
        /\ r.next = k.next /\ k.next \in Nat
    BY DEF Continuation
  <2>2. r = [kind |-> r.kind, values |-> r.values, safe |-> r.safe, name |-> r.name,
             next |-> r.next]
    OBVIOUS
  <2> HIDE DEF r
  <2> QED BY <1>3, <2>1, <2>2 DEF ContOK
<1>7. n \in DOMAIN slots'[values[1]]
  BY <1>2, <1>3, <1>4
<1> QED BY <1>1, <1>5, <1>6, <1>7, AllocateStep

LEMMA MapStep ==
  ASSUME NEW native, NEW receiver, NEW b, NEW c \in Word, NEW k, Called(receiver, b, k),
         CallMap(native, receiver, b, c, k)
  PROVE  ValueInv'
<1> USE DEF Called
<1>1. CASE \E S : Trouble(S) # "none" /\ Crash(Trouble(S))
  BY <1>1, TroubleStep
<1>2. CASE Abort
  BY <1>2, AbortStep
<1>3. ASSUME Trouble({receiver, DataOf(b)}) = "none", native = "Primitive_Map_get",
             GetMember(receiver, TextOf(b), k)
      PROVE  ValueInv'
  <2>1. receiver \in Value
    BY <1>3, NoTrouble DEF Word
  <2>2. Lookup(receiver, TextOf(b)) \in Word
    BY <2>1, LookupIsWord DEF ValueInv
  <2> QED BY <1>1, <1>2, <1>3, <2>2, GoOnStep DEF GetMember, Using
<1>4. ASSUME Trouble({receiver, DataOf(b)}) = "none", c # NULL, BeginSet(receiver, TextOf(b), c, k)
      PROVE  ValueInv'
  <2>1. receiver \in Value /\ c \in Value
    BY <1>4, NoTrouble DEF Word
  <2> QED BY <1>4, <2>1, BeginSetStep
<1> QED BY <1>1, <1>2, <1>3, <1>4 DEF CallMap, Using

LEMMA CallNativeStep ==
  ASSUME ValueInv, cont = Idle, NEW native, NEW receiver \in Word, NEW args \in Seq(Word),
         NEW k, Continuation(k), CallNative(native, receiver, args, k)
  PROVE  ValueInv'
<1>1. PICK b \in Word, c \in Word :
        \/ CallNumber(native, receiver, b, k)
        \/ CallObject(native, receiver, b, k)
        \/ CallString(native, receiver, b, k)
        \/ CallVector(native, receiver, b, k)
        \/ CallMap(native, receiver, b, c, k)
  <2>1. /\ (IF Len(args) >= 1 THEN args[1] ELSE NULL) \in Word
        /\ (IF Len(args) >= 2 THEN args[2] ELSE NULL) \in Word
    BY NamesAreValues
  <2> QED BY <2>1 DEF CallNative
<1>2. Called(receiver, b, k)
  BY DEF Called
<1> QED BY <1>1, <1>2, NumberStep, ObjectStep, StringStep, VectorStep, MapStep
------------------------------------------------------------------------------
(***************************************************************************)
(* Calls and returns                                                       *)
(***************************************************************************)
LEMMA StillStep ==
  ASSUME ValueInv, cont = Idle,
         UNCHANGED <<ip, stack, recordVars, natives, cont, heapVars, end>>
  PROVE  ValueInv'
<1>1. RecordInv' /\ HeapInv'
  BY SameRecords, SameHeap DEF ValueInv
<1>2. ControlInv'
  BY DEF ValueInv, ControlInv
<1>3. LinkInv'
  BY SameLoops DEF ValueInv, LinkInv, heapVars
<1> QED BY <1>1, <1>2, <1>3 DEF ValueInv

LEMMA CallFunctionStep ==
  ASSUME ValueInv, cont = Idle, NEW callee, NEW receiver \in Word, NEW args \in Seq(Word),
         NEW max \in Nat, Len(args) <= max, NEW r \in Nat \union {NULL},
         NEW k, Continuation(k), CallFunction(callee, receiver, args, max, r, k)
  PROVE  ValueInv'
<1>1. CASE CallNative(callee, receiver, args, k)
  BY <1>1, CallNativeStep
<1>2. CASE Crash("no value") \/ Crash("bound")
  BY <1>2, CrashStep DEF Ends
<1>3. CASE UNCHANGED <<prog, ip, stack, recordVars, natives, cont, heapVars, end, result>>
  BY <1>3, StillStep
<1>4. CASE /\ \E g \in Frame : F!Fresh(g)
           /\ EnterFrame(NewFrame, receiver, args, max, r, k)
           /\ UNCHANGED cont
  <2>1. NewFrame \in Frame
    BY <1>4 DEF NewFrame
  <2> QED BY <1>4, <2>1, EnterStep
<1> QED BY <1>1, <1>2, <1>3, <1>4 DEF CallFunction, CallClosure

LEMMA SendStep ==
  ASSUME TypeInv, Send
  PROVE  ValueInv'
<1> DEFINE n == Literal(Operand(1))
           argc == Operand(2)
           k == After(3, Without(argc + 1))
           args == [i \in 1..argc |-> Peek(i)]
           receiver == Peek(argc + 1)
           callee == Lookup(receiver, n)
<1>1. At(SEND) /\ ValueInv /\ stack \in Seq(Word)
  BY DEF Send, TypeInv, ValueInv, ControlInv
<1>2. argc \in Nat /\ ip \in Nat /\ Current \in Frame /\ cont = Idle
  BY <1>1, Decode
<1>a. Without(argc + 1) \in Seq(Word) /\ receiver \in Word
  <2> HIDE DEF argc
  <2>1. argc + 1 \in Nat \ {0}
    BY <1>2
  <2> QED BY <1>1, <2>1, WithoutType, PeekWord
<1>b. args \in Seq(Word) /\ Len(args) <= argc + 1
  <2> HIDE DEF argc
  <2>1. args \in Seq(Word) /\ Len(args) = argc
    BY <1>1, <1>2, PeeksType
  <2> QED BY <1>2, <2>1
<1>3. Continuation(k) /\ k.next \in Nat
  BY <1>1, <1>2, <1>a, AfterGoesOn
<1>4. self[Current] \in Word
  BY <1>1, <1>2 DEF ValueInv, RecordInv
<1>5. \/ \E S : Trouble(S) # "none" /\ Crash(Trouble(S))
      \/ Abort
      \/ CallFunction(receiver, self[Current], args, argc + 1, k.next, k)
      \/ CallFunction(callee, receiver, args, argc + 1, k.next, k)
      \/ Trouble({receiver}) = "none" /\ GoOn(k, callee)
  BY DEF Send, Using
<1> HIDE DEF k, args, receiver, callee, argc, n
<1>6. CASE \E S : Trouble(S) # "none" /\ Crash(Trouble(S))
  BY <1>1, <1>6, TroubleStep
<1>7. CASE Abort
  BY <1>1, <1>7, AbortStep
<1>8. CASE CallFunction(receiver, self[Current], args, argc + 1, k.next, k)
  BY <1>1, <1>2, <1>a, <1>b, <1>3, <1>4, <1>8, CallFunctionStep
<1>9. CASE CallFunction(callee, receiver, args, argc + 1, k.next, k)
  BY <1>1, <1>2, <1>a, <1>b, <1>3, <1>9, CallFunctionStep
<1>10. CASE Trouble({receiver}) = "none" /\ GoOn(k, callee)
  <2>1. receiver \in Value
    BY <1>a, <1>10, NoTrouble DEF Word
  <2>2. callee \in Word
    BY <1>1, <2>1, LookupIsWord DEF ValueInv, callee
  <2> QED BY <1>1, <1>2, <1>3, <1>10, <2>2, GoOnStep
<1> QED BY <1>5, <1>6, <1>7, <1>8, <1>9, <1>10

\* What is recorded goes with the frames that are freed.
LEMMA KeptRecords ==
  ASSUME RecordInv, DropRecords
  PROVE  RecordInv'
<1>1. \A f \in Frame : IsArray(locals'[f])
  BY NoLocalsIsArray DEF RecordInv, DropRecords, Kept
<1> QED BY <1>1, NamesAreValues DEF RecordInv, DropRecords, Kept

LEMMA ReturnStep ==
  ASSUME TypeInv, Return
  PROVE  ValueInv'
<1>1. ValueInv /\ stack \in Seq(Word)
  BY DEF TypeInv, ValueInv, ControlInv
<1>2. ip \in Nat /\ Current \in Frame /\ cont = Idle
  BY Decode DEF Return
<1>3. RecordInv' /\ HeapInv'
  BY <1>1, KeptRecords, SameHeap DEF Return, ValueInv
<1>4. ret[Current] \in Nat \union {NULL} /\ Without(1) \in Seq(Word)
  BY <1>1, <1>2, WithoutType DEF ValueInv, RecordInv
<1>5. ControlInv'
  BY <1>1, <1>2, <1>4 DEF Return, ValueInv, ControlInv, Ends
<1>6. LinkInv'
  BY <1>1, <1>2, SameLoops DEF Return, ValueInv, LinkInv, heapVars
<1> QED BY <1>3, <1>5, <1>6 DEF ValueInv
------------------------------------------------------------------------------
(***************************************************************************)
(* The natives that wait for VM_run                                        *)
(***************************************************************************)
LEMMA WaitingIsOK ==
  ASSUME ValueInv, natives # << >>
  PROVE  /\ Len(natives) \in 1..Len(natives)
         /\ WaitOK(Waiting) /\ Waiting \in Wait
         /\ Waiting.kind # "require" => LoopsOn(Waiting)
<1>1. natives \in Seq(Wait) /\ WaitsOK(natives)
  BY DEF ValueInv, ControlInv, WaitsOK
<1>2. Len(natives) \in 1..Len(natives)
  BY <1>1
<1> QED BY <1>1, <1>2 DEF WaitsOK, Waiting, ValueInv, LinkInv

\* The record of a wait, with another index and other values.
Rewait(n, index, values) ==
    [kind |-> n.kind, values |-> values, index |-> index, count |-> n.count, next |-> n.next]

LEMMA RewaitStep ==
  ASSUME ValueInv, natives # << >>, NEW index \in Nat, NEW values \in Seq(Value),
         Waiting.kind = "each" => Len(values) = 2,
         Waiting.kind = "each_with_index" => Len(values) \in {2, 4},
         Waiting.kind # "require" => values[1] = Waiting.values[1],
         NEW ns, ns = [natives EXCEPT ![Len(natives)] = Rewait(Waiting, index, values)]
  PROVE  /\ WaitsOK(ns)
         /\ \A i \in 1..Len(ns) : ns[i].kind # "require" => LoopsOn(ns[i])
<1> DEFINE n == Rewait(Waiting, index, values)
<1>1. natives \in Seq(Wait) /\ Len(natives) <= Depth /\ Len(natives) \in 1..Len(natives)
  BY WaitingIsOK DEF ValueInv, ControlInv, WaitsOK
<1>2. n \in Wait /\ WaitOK(n) /\ n.kind = Waiting.kind
  BY WaitingIsOK DEF Wait, WaitOK, Rewait
<1>3. n.kind # "require" => LoopsOn(n)
  BY WaitingIsOK DEF LoopsOn, Rewait
<1> HIDE DEF n
<1>4. /\ ns \in Seq(Wait) /\ Len(ns) = Len(natives)
      /\ \A i \in 1..Len(ns) : ns[i] = IF i = Len(natives) THEN n ELSE natives[i]
  BY <1>1, <1>2 DEF n
<1> QED BY <1>1, <1>2, <1>3, <1>4 DEF WaitsOK, ValueInv, ControlInv, LinkInv

\* A native that has called its closure waits with one element less to go through.
LEMMA InvokedWaits ==
  ASSUME ValueInv, natives # << >>, Waiting.kind # "require", NEW ns,
         ns = [natives EXCEPT ![Len(natives)] =
                 [[Waiting EXCEPT !.index = @ + 1] EXCEPT !.values = SubSeq(@, 1, 2)]]
  PROVE  /\ WaitsOK(ns) /\ Len(ns) = Len(natives)
         /\ \A i \in 1..Len(ns) : ns[i].kind # "require" => LoopsOn(ns[i])
<1> DEFINE values == SubSeq(Waiting.values, 1, 2)
           next == [Waiting EXCEPT !.index = @ + 1]
<1>1. WaitOK(Waiting) /\ Waiting \in Wait
  BY WaitingIsOK
<1>2. /\ Waiting.kind \in {"each", "each_with_index"} /\ Waiting.values \in Seq(Value)
      /\ Len(Waiting.values) \in {2, 4} /\ Waiting.index \in Nat
  BY <1>1 DEF WaitOK, Wait
<1>3. values \in Seq(Value) /\ Len(values) = 2 /\ values[1] = Waiting.values[1]
  BY <1>2
<1> HIDE DEF values
<1>4. ns = [natives EXCEPT ![Len(natives)] = Rewait(Waiting, Waiting.index + 1, values)]
  <2>1. next = Rewait(Waiting, Waiting.index + 1, Waiting.values)
    BY <1>1 DEF Rewait, Wait
  <2> HIDE DEF next
  <2>2. [next EXCEPT !.values = values] = Rewait(Waiting, Waiting.index + 1, values)
    BY <2>1 DEF Rewait
  <2>3. next.values = Waiting.values
    BY <2>1 DEF Rewait
  <2>4. [next EXCEPT !.values = SubSeq(@, 1, 2)] = [next EXCEPT !.values = values]
    BY <2>3 DEF values
  <2> QED BY <2>2, <2>4 DEF next
<1>5. /\ WaitsOK(ns)
      /\ \A i \in 1..Len(ns) : ns[i].kind # "require" => LoopsOn(ns[i])
  <2>1. Waiting.index + 1 \in Nat
    BY <1>2
  <2> QED BY <1>1, <1>2, <1>3, <1>4, <2>1, RewaitStep
<1>6. Len(ns) = Len(natives)
  BY DEF ValueInv, ControlInv, WaitsOK
<1> QED BY <1>5, <1>6

LEMMA InvokeStep ==
  ASSUME TypeInv, NativeHasControl, Waiting.kind # "require", NEW args \in Seq(Word),
         Len(args) <= 10, Invoke(args)
  PROVE  ValueInv'
<1> DEFINE next == [Waiting EXCEPT !.index = @ + 1]
           ns == [natives EXCEPT ![Len(natives)] = [next EXCEPT !.values = SubSeq(@, 1, 2)]]
           k == [next |-> 0, stack |-> stack, natives |-> ns]
<1>1. ValueInv /\ cont = Idle /\ Current \in Frame /\ stack \in Seq(Word)
  BY DEF TypeInv, ValueInv, ControlInv, F!TypeOK, NativeHasControl
<1>2. self[Current] \in Word
  BY <1>1 DEF ValueInv, RecordInv
<1>3. WaitsOK(ns) /\ \A i \in 1..Len(ns) : ns[i].kind # "require" => LoopsOn(ns[i])
  BY <1>1, InvokedWaits DEF NativeHasControl
<1>4. \/ Trouble({Waiting.values[2]}) # "none" /\ Crash(Trouble({Waiting.values[2]}))
      \/ CallFunction(Waiting.values[2], self[Current], args, 10, NULL, k)
  BY DEF Invoke, Using
<1> HIDE DEF ns, next
<1>5. Continuation(k)
  BY <1>1, <1>3 DEF Continuation
<1> HIDE DEF k
<1> QED BY <1>1, <1>2, <1>4, <1>5, TroubleStep, CallFunctionStep

\* The element that is next is there, however much was pushed since they were counted.
LEMMA NextIsThere ==
  ASSUME ValueInv, NativeHasControl, Waiting.kind # "require", Waiting.index < Waiting.count,
         Trouble({Waiting.values[1]}) = "none"
  PROVE  NextElement \in Value
<1>1. Waiting \in Wait /\ LoopsOn(Waiting)
  BY WaitingIsOK DEF NativeHasControl
<1>2. Allocated(Waiting.values[1])
  BY NoTrouble
<1> DEFINE o == obj[Waiting.values[1]]
<1>3. o.type = "Vector" /\ o.own /\ Waiting.count <= Len(o.data) /\ ObjectOK(o)
  BY <1>1, <1>2 DEF LoopsOn, Allocated, ValueInv, HeapInv, Unused
<1>4. o.data \in Seq(Value) /\ Waiting.index \in Nat /\ Waiting.count \in Nat
  BY <1>1, <1>3 DEF ObjectOK, Wait
<1> HIDE DEF o
<1>5. Waiting.index + 1 \in 1..Len(o.data)
  BY <1>3, <1>4
<1>6. o.data[Waiting.index + 1] \in Value
  BY <1>4, <1>5
<1> QED BY <1>6 DEF NextElement, o

LEMMA EachElementStep ==
  ASSUME TypeInv, EachElement \/ EachIndexed
  PROVE  ValueInv'
<1>1. ValueInv
  BY DEF TypeInv
<1>2. CASE \E S : Trouble(S) # "none" /\ Crash(Trouble(S))
  BY <1>1, <1>2, TroubleStep
<1>3. CASE EachElement /\ Trouble({Waiting.values[1]}) = "none" /\ Invoke(<<NextElement>>)
  <2>1. NativeHasControl /\ Waiting.kind # "require" /\ Waiting.index < Waiting.count
    BY <1>3 DEF EachElement, Iterating
  <2>2. NextElement \in Word
    BY <1>1, <1>3, <2>1, NextIsThere, NamesAreValues
  <2>3. <<NextElement>> \in Seq(Word) /\ Len(<<NextElement>>) <= 10
    BY <2>2
  <2> QED BY <1>3, <2>1, <2>3, InvokeStep
<1>4. CASE EachIndexed
  <2>1. NativeHasControl /\ Waiting.kind # "require" /\ Len(Waiting.values) = 4
    BY <1>4 DEF EachIndexed, Iterating
  <2>2. Waiting.values \in Seq(Value)
    BY <1>1, <2>1, WaitingIsOK DEF Wait, NativeHasControl
  <2>3. SubSeq(Waiting.values, 3, 4) \in Seq(Word) /\ Len(SubSeq(Waiting.values, 3, 4)) <= 10
    BY <2>1, <2>2, NamesAreValues
  <2> QED BY <1>4, <2>1, <2>3, InvokeStep DEF EachIndexed
<1> QED BY <1>2, <1>3, <1>4 DEF EachElement, Using

LEMMA EachIndexStep ==
  ASSUME TypeInv, EachIndex
  PROVE  ValueInv'
<1>1. ValueInv /\ NativeHasControl /\ natives # << >> /\ cont = Idle
  BY DEF TypeInv, EachIndex, Iterating, NativeHasControl
<1>2. CASE \E S : Trouble(S) # "none" /\ Crash(Trouble(S))
  BY <1>1, <1>2, TroubleStep
<1>3. CASE /\ Trouble({Waiting.values[1]}) = "none"
           /\ Make("index", <<NextElement>>, Waiting.index,
                   [next |-> NULL, stack |-> stack, natives |-> natives])
  <2> DEFINE values == <<NextElement>>
             r == [kind |-> "index", values |-> values, safe |-> {}, name |-> Waiting.index,
                   next |-> NULL]
  <2>1. /\ Waiting.kind = "each_with_index" /\ Waiting.index < Waiting.count
        /\ Len(Waiting.values) = 2
    BY DEF EachIndex, Iterating
  <2>2. values \in Seq(Value) /\ Len(values) = 1
    BY <1>1, <1>3, <2>1, NextIsThere
  <2> HIDE DEF values
  <2>3. Waiting.index \in Int
    BY <1>1, WaitingIsOK DEF Wait
  <2>4. ContOK(r) /\ r.kind = "index"
    BY <2>2, <2>3 DEF ContOK
  <2>5. /\ cont' = r
        /\ UNCHANGED <<stack, natives, frameVars, prog, ip, recordVars, heapVars, end>>
    BY <1>3 DEF Make, Allocate, heapVars, values
  <2> HIDE DEF r
  <2>6. RecordInv' /\ HeapInv'
    BY <1>1, <2>5, SameRecords, SameHeap DEF ValueInv
  <2>7. ControlInv'
    BY <1>1, <2>1, <2>4, <2>5 DEF ValueInv, ControlInv, Waiting
  <2>8. LinkInv'
    BY <1>1, <2>4, <2>5, SameLoops DEF ValueInv, LinkInv, heapVars
  <2> QED BY <2>6, <2>7, <2>8 DEF ValueInv
<1> QED BY <1>2, <1>3 DEF EachIndex, Using

\* When a native is done the ones below it go on waiting.
LEMMA BelowGoesOn ==
  ASSUME ValueInv, NativeHasControl, NEW st \in Seq(Word)
  PROVE  Continuation([next |-> Waiting.next, stack |-> st, natives |-> NativesBelow])
<1>1. natives \in Seq(Wait) /\ natives # << >> /\ Waiting.next \in Nat
  BY WaitingIsOK DEF NativeHasControl, ValueInv, ControlInv, WaitsOK, Wait
<1>2. /\ NativesBelow \in Seq(Wait) /\ Len(NativesBelow) = Len(natives) - 1
      /\ \A i \in 1..Len(NativesBelow) : NativesBelow[i] = natives[i] /\ i \in 1..Len(natives)
  <2> DEFINE n == Len(natives) - 1
  <2>1. n \in Nat /\ \A i \in 1..n : natives[i] \in Wait /\ i \in 1..Len(natives)
    BY <1>1
  <2>2. NativesBelow = SubSeq(natives, 1, n)
    BY DEF NativesBelow
  <2> HIDE DEF n
  <2>3. /\ SubSeq(natives, 1, n) \in Seq(Wait) /\ Len(SubSeq(natives, 1, n)) = n
        /\ \A i \in 1..n : SubSeq(natives, 1, n)[i] = natives[1 + i - 1]
    BY <2>1, SubSeqProperties
  <2> QED BY <2>1, <2>2, <2>3 DEF n
<1>3. WaitsOK(NativesBelow)
  BY <1>1, <1>2, InstanceAssumption DEF ValueInv, ControlInv, WaitsOK
<1> QED BY <1>1, <1>2, <1>3 DEF Continuation, ValueInv, LinkInv

LEMMA DoneStep ==
  ASSUME TypeInv, EachDone \/ RequireDone
  PROVE  ValueInv'
<1>1. /\ ValueInv /\ NativeHasControl /\ natives # << >> /\ cont = Idle
      /\ stack \in Seq(Word)
  BY DEF TypeInv, EachDone, RequireDone, NativeHasControl, ValueInv, ControlInv
<1>2. CASE EachDone
  <2>1. Waiting.values[1] \in Word
    BY <1>1, <1>2, WaitingIsOK, NamesAreValues DEF EachDone, LoopsOn
  <2> QED BY <1>1, <1>2, <2>1, BelowGoesOn, GoOnStep DEF EachDone
<1>3. CASE RequireDone
  <2>1. SubSeq(stack, 1, Len(stack) - 1) \in Seq(Word)
    BY <1>1, WithoutType DEF Without
  <2> QED BY <1>1, <1>3, <2>1, BelowGoesOn, GoOnStep, NamesAreValues DEF RequireDone
<1> QED BY <1>2, <1>3

LEMMA RequireFileStep ==
  ASSUME TypeInv, RequireFile
  PROVE  ValueInv'
<1>1. /\ ValueInv /\ natives # << >> /\ cont = Idle /\ Waiting.kind = "require"
  BY DEF TypeInv, RequireFile, NativeHasControl
<1>2. CASE Abort
  BY <1>1, <1>2, AbortStep
<1>3. CASE /\ "file" \in Loaded
           /\ Make("file", << >>, NULL, [next |-> NULL, stack |-> stack, natives |-> natives])
  <2> DEFINE r == [kind |-> "file", values |-> << >>, safe |-> {}, name |-> NULL, next |-> NULL]
  <2>1. << >> \in Seq(Value)
    OBVIOUS
  <2>2. ContOK(r) /\ r.kind = "file"
    BY <2>1 DEF ContOK
  <2>3. /\ cont' = r
        /\ UNCHANGED <<stack, natives, frameVars, prog, ip, recordVars, heapVars, end>>
    BY <1>3 DEF Make, Allocate, heapVars
  <2> HIDE DEF r
  <2>4. RecordInv' /\ HeapInv'
    BY <1>1, <2>3, SameRecords, SameHeap DEF ValueInv
  <2>5. ControlInv'
    BY <1>1, <1>3, <2>2, <2>3 DEF ValueInv, ControlInv, Waiting, Loaded
  <2>6. LinkInv'
    BY <1>1, <2>2, <2>3, SameLoops DEF ValueInv, LinkInv, heapVars
  <2> QED BY <2>4, <2>5, <2>6 DEF ValueInv
<1> QED BY <1>2, <1>3 DEF RequireFile

LEMMA FinishFileStep ==
  ASSUME TypeInv, FinishFile
  PROVE  ValueInv'
<1> DEFINE ns == [natives EXCEPT ![Len(natives)].index = 1]
           k == [stack |-> stack, natives |-> ns]
<1>1. /\ ValueInv /\ natives # << >> /\ stack \in Seq(Word)
      /\ Waiting.kind = "require" /\ Waiting \in Wait
  BY WaitingIsOK DEF TypeInv, FinishFile, Unfinished, ValueInv, ControlInv, Waiting
<1>2. CASE Crash("bound")
  BY <1>1, <1>2, CrashStep DEF Ends
<1>3. CASE /\ \E g \in Frame : F!Fresh(g)
           /\ EnterFrame(NewFrame, "lobby", << >>, 10, NULL, k)
           /\ cont' = Idle
  <2>1. NewFrame \in Frame
    BY <1>3 DEF NewFrame
  <2>2. ns = [natives EXCEPT ![Len(natives)] = Rewait(Waiting, 1, Waiting.values)]
    <3>1. [natives[Len(natives)] EXCEPT !.index = 1] = Rewait(Waiting, 1, Waiting.values)
      BY <1>1 DEF Rewait, Wait, Waiting
    <3> QED BY <3>1
  <2> HIDE DEF ns
  <2>3. /\ WaitsOK(ns)
        /\ \A i \in 1..Len(ns) : ns[i].kind # "require" => LoopsOn(ns[i])
    <3>1. Waiting.values \in Seq(Value)
      BY <1>1 DEF Wait
    <3> QED BY <1>1, <2>2, <3>1, RewaitStep
  <2> DEFINE j == [next |-> 0, stack |-> stack, natives |-> ns]
  <2>4. Continuation(j)
    BY <1>1, <2>3 DEF Continuation
  <2>5. EnterFrame(NewFrame, "lobby", << >>, 10, NULL, j)
    BY <1>3 DEF EnterFrame
  <2>6. << >> \in Seq(Word) /\ Len(<< >>) <= 10
    OBVIOUS
  <2> HIDE DEF j
  <2> QED BY <1>1, <1>3, <2>1, <2>4, <2>5, <2>6, EnterStep, NamesAreValues
<1> QED BY <1>2, <1>3 DEF FinishFile
------------------------------------------------------------------------------
(***************************************************************************)
(* Instructions that allocate                                              *)
(***************************************************************************)
LEMMA AllocatingStep ==
  ASSUME TypeInv, Defn \/ MakeVec \/ SetSlot \/ Dump
  PROVE  ValueInv'
<1>1. ValueInv /\ stack \in Seq(Word) /\ << >> \in Seq(Value)
  BY DEF TypeInv, ValueInv, ControlInv
<1>2. CASE \E S : Trouble(S) # "none" /\ Crash(Trouble(S))
  BY <1>1, <1>2, TroubleStep
<1>3. CASE Abort
  BY <1>1, <1>3, AbortStep
<1>4. CASE Defn
  <2>1. ip \in Nat /\ Continuation(After(2, stack))
    BY <1>1, <1>4, Decode, AfterGoesOn DEF Defn
  <2> QED BY <1>1, <1>4, <2>1, MakeStep DEF Defn
<1>5. CASE Dump
  <2>1. ip \in Nat /\ cont = Idle /\ Continuation(After(1, stack))
    BY <1>1, <1>5, Decode, AfterGoesOn DEF Dump
  <2>2. CASE Make("print", << >>, NULL, After(1, stack))
    BY <1>1, <2>1, <2>2, MakeStep
  <2>3. CASE Advance(1, stack)
    BY <1>1, <2>1, <2>3, AdvanceStep
  <2>4. CASE \E S : Obstacle(S) # "none" /\ Crash(Obstacle(S))
    BY <1>1, <2>4, ObstacleStep
  <2> QED BY <1>5, <2>2, <2>3, <2>4 DEF Dump, Describing
<1>6. CASE MakeVec
  <2> DEFINE elements == [i \in 1..Operand(1) |-> Peek(i)]
             k == After(2, Without(Operand(1)))
             r == [kind |-> "Vector", values |-> elements, safe |-> ValuesIn(elements),
                   name |-> NULL, next |-> k.next]
  <2>1. Operand(1) \in Nat /\ ip \in Nat
    BY <1>6, Decode DEF MakeVec
  <2>2. elements \in Seq(Word)
    BY <1>1, <2>1, PeeksType
  <2>3. Continuation(k)
    BY <1>1, <2>1, WithoutType, AfterGoesOn
  <2>4. CASE /\ NULL \notin ValuesIn(elements)
             /\ Allocate("Vector", elements, ValuesIn(elements), NULL, k) /\ UNCHANGED slots
    <3> HIDE DEF elements, k
    <3>1. elements \in Seq(Value)
      <4>1. \A i \in 1..Len(elements) : elements[i] \in Value
        BY <2>2, <2>4 DEF ValuesIn, Word
      <4> QED BY <2>2, <4>1
    <3>2. ContOK(r)
      <4>1. /\ r.kind = "Vector" /\ r.values = elements /\ r.safe = ValuesIn(elements)
            /\ r.name = NULL /\ r.next = k.next /\ k.next \in Nat
        BY <2>3 DEF Continuation
      <4>2. r = [kind |-> r.kind, values |-> r.values, safe |-> r.safe, name |-> r.name,
                 next |-> r.next]
        OBVIOUS
      <4> HIDE DEF r
      <4> QED BY <3>1, <4>1, <4>2 DEF ContOK
    <3>3. HeapInv'
      BY <1>1, <2>4, SameHeap DEF Allocate, ValueInv, heapVars
    <3> QED BY <1>1, <2>3, <2>4, <3>2, <3>3, AllocateStep
  <2> QED BY <1>2, <1>3, <1>6, <2>4 DEF MakeVec, Using
<1>7. CASE SetSlot
  <2> DEFINE k == After(2, Without(2))
  <2>1. ip \in Nat /\ cont = Idle
    BY <1>7, Decode DEF SetSlot
  <2>2. Continuation(k)
    BY <1>1, <2>1, WithoutType, AfterGoesOn
  <2>3. CASE /\ Trouble({Peek(1), Peek(2)}) = "none"
             /\ BeginSet(Peek(2), Literal(Operand(1)), Peek(1), k)
    <3>1. Peek(1) \in Value /\ Peek(2) \in Value
      BY <1>1, <2>3, PeekWord, NoTrouble DEF Word
    <3> HIDE DEF k
    <3> QED BY <1>1, <2>1, <2>2, <2>3, <3>1, BeginSetStep
  <2> QED BY <1>2, <1>3, <1>7, <2>3 DEF SetSlot, Using
<1> QED BY <1>4, <1>5, <1>6, <1>7
------------------------------------------------------------------------------
\* The cells that are taken for new values are referred to by nothing.
LEMMA NewObjectIsNew ==
  ASSUME FreeCells(Object) # {}
  PROVE  /\ NewObject \in Object /\ NewObject \in Value /\ obj[NewObject].type = NULL
         /\ \A i \in DOMAIN natives : NewObject \notin ValuesIn(natives[i].values)
<1>1. NewObject \in FreeCells(Object)
  BY DEF NewObject
<1>2. NewObject \in Object /\ obj[NewObject].type = NULL /\ NewObject \notin References
  BY <1>1 DEF FreeCells
<1>3. \A i \in DOMAIN natives : ValuesIn(natives[i].values) \subseteq References
  <2>1. InHand \subseteq References
    BY DEF References
  <2>2. \A i \in DOMAIN natives : ValuesIn(natives[i].values) \subseteq InHand
    BY DEF InHand
  <2> QED BY <2>1, <2>2
<1> QED BY <1>2, <1>3, NamesAreValues

\* What is made in a new cell is none of the vectors that are gone through.
LEMMA LoopsGoOn ==
  ASSUME ValueInv, FreeCells(Object) # {}, NEW r, obj' = [obj EXCEPT ![NewObject] = r],
         NEW n, NEW i \in 1..Len(natives), n = natives[i], n.kind # "require"
  PROVE  LoopsOn(n)'
<1>1. n \in Wait /\ WaitOK(n) /\ natives \in Seq(Wait) /\ LoopsOn(n)
  BY DEF ValueInv, ControlInv, WaitsOK, LinkInv
<1>2. n.values \in Seq(Value) /\ Len(n.values) \in {2, 4}
  BY <1>1 DEF WaitOK, Wait
<1>3. n.values[1] \in ValuesIn(n.values)
  BY <1>2 DEF ValuesIn
<1>4. n.values[1] # NewObject
  BY <1>1, <1>3, NewObjectIsNew
<1>5. obj'[n.values[1]] = obj[n.values[1]]
  BY <1>1, <1>4 DEF ValueInv, HeapInv, LoopsOn
<1> QED BY <1>1, <1>5 DEF LoopsOn

LEMMA LoopsGoOnStill ==
  ASSUME ValueInv, FreeCells(Object) # {}, NEW r, obj' = [obj EXCEPT ![NewObject] = r],
         UNCHANGED natives
  PROVE  \A i \in 1..Len(natives') : natives'[i].kind # "require" => LoopsOn(natives[i])'
<1> SUFFICES ASSUME NEW i \in 1..Len(natives'), natives'[i].kind # "require"
             PROVE  LoopsOn(natives[i])'
  OBVIOUS
<1> DEFINE n == natives[i]
<1>1. LoopsOn(n)' <=> LoopsOn(natives[i])'
  OBVIOUS
<1>2. PICK m : m = natives[i]
  OBVIOUS
<1>3. LoopsOn(m)'
  BY <1>2, LoopsGoOn
<1>4. m = natives'[i]
  BY <1>2
<1> QED BY <1>3, <1>4 DEF LoopsOn

LEMMA FinishStep ==
  ASSUME ValueInv, cont # Idle, NEW v \in Word, Finish(v), HeapInv',
         \A i \in 1..Len(natives') : natives'[i].kind # "require" => LoopsOn(natives[i])'
  PROVE  ValueInv'
<1> USE DEF Finish, ValueInv
<1>1. RecordInv'
  BY SameRecords
<1>2. ControlInv'
  BY DEF ControlInv, ContOK
<1>3. LinkInv'
  BY DEF LinkInv
<1> QED BY <1>1, <1>2, <1>3

LEMMA FinishStillStep ==
  ASSUME ValueInv, cont # Idle, NEW v \in Word, Finish(v), HeapInv', UNCHANGED obj
  PROVE  ValueInv'
<1>1. ASSUME NEW i \in 1..Len(natives'), natives'[i].kind # "require"
      PROVE  LoopsOn(natives[i])'
  BY <1>1 DEF Finish, ValueInv, LinkInv, LoopsOn
<1> QED BY <1>1, FinishStep

LEMMA SmallFinishStep ==
  ASSUME TypeInv, FinishClosure \/ FinishNil \/ FinishPrint \/ OutOfCells \/ RunOff
  PROVE  ValueInv'
<1>1. ValueInv
  BY DEF TypeInv
<1>2. CASE \E how \in Ends : Crash(how)
  BY <1>1, <1>2, CrashStep
<1>3. CASE FinishClosure /\ ~ Crash("no value")
  <2>1. PICK c \in {CHOOSE c \in FreeCells(Closure) : TRUE} : Finish(c)
    BY <1>3 DEF FinishClosure
  <2>2. c \in Word
    <3>1. c \in FreeCells(Closure)
      BY <1>3, <2>1 DEF FinishClosure
    <3> QED BY <3>1, NamesAreValues DEF FreeCells, Word, Value
  <2>3. cont # Idle /\ UNCHANGED heapVars
    BY <1>3 DEF FinishClosure, Unfinished
  <2>4. HeapInv'
    BY <1>1, <2>3, SameHeap DEF ValueInv
  <2> QED BY <1>1, <2>1, <2>2, <2>3, <2>4, FinishStillStep DEF heapVars
<1>4. CASE FinishNil
  <2>1. HeapInv' /\ cont # Idle
    BY <1>1, <1>4, SameHeap DEF ValueInv, FinishNil, Unfinished
  <2> QED BY <1>1, <1>4, <2>1, FinishStillStep, NamesAreValues DEF FinishNil, heapVars
<1>5. CASE FinishPrint
  <2> USE <1>5 DEF FinishPrint, Unfinished
  <2>1. RecordInv' /\ HeapInv'
    BY <1>1, SameRecords, SameHeap DEF ValueInv
  <2>2. ControlInv'
    BY <1>1 DEF ValueInv, ControlInv, ContOK
  <2>3. LinkInv'
    BY <1>1, SameLoops DEF ValueInv, LinkInv, heapVars
  <2> QED BY <2>1, <2>2, <2>3 DEF ValueInv
<1> QED BY <1>2, <1>3, <1>4, <1>5 DEF FinishClosure, OutOfCells, RunOff, Ends

LEMMA ReadAgainStep ==
  ASSUME TypeInv, ReadAgain
  PROVE  ValueInv'
<1>1. /\ ValueInv /\ cont # Idle /\ cont.kind \in {"String", "nil"} /\ ContOK(cont)
  BY DEF TypeInv, ReadAgain, Unfinished, ValueInv, ControlInv
<1>2. CASE \E S : Trouble(S) # "none" /\ Crash(Trouble(S))
  BY <1>1, <1>2, TroubleStep
<1>3. CASE /\ cont' = [cont EXCEPT !.values = << >>]
           /\ UNCHANGED <<frameVars, prog, ip, stack, recordVars, natives, heapVars, end, result>>
  <2>1. << >> \in Seq(Value)
    OBVIOUS
  <2>2. cont' = [kind |-> cont.kind, values |-> << >>, safe |-> cont.safe, name |-> cont.name,
                 next |-> cont.next]
    BY <1>1, <1>3 DEF ContOK
  <2>3. ContOK(cont') /\ cont'.kind \in {"String", "nil"}
    BY <1>1, <2>1, <2>2 DEF ContOK
  <2>4. RecordInv' /\ HeapInv'
    BY <1>1, <1>3, SameRecords, SameHeap DEF ValueInv
  <2>5. ControlInv'
    BY <1>1, <1>3, <2>3 DEF ValueInv, ControlInv
  <2>6. LinkInv'
    BY <1>1, <1>3, <2>3, SameLoops DEF ValueInv, LinkInv, heapVars
  <2> QED BY <2>4, <2>5, <2>6 DEF ValueInv
<1> QED BY <1>2, <1>3 DEF ReadAgain, Using

\* What is made is an object with all its parts.
LEMMA MadeObject ==
  ASSUME HeapInv, NEW o \in Object, NEW r, ObjectOK(r), obj' = [obj EXCEPT ![o] = r],
         UNCHANGED <<slots, fields>>
  PROVE  HeapInv'
BY DEF HeapInv

LEMMA FinishValueStep ==
  ASSUME TypeInv, FinishValue
  PROVE  ValueInv'
<1> DEFINE isClone == cont.kind = "clone"
           r == [type |-> IF isClone THEN cont.name ELSE cont.kind,
                 prototype |-> IF isClone THEN cont.values[1] ELSE cont.kind,
                 own |-> ~ isClone,
                 data |-> IF cont.kind = "Vector" THEN cont.values ELSE cont.name]
<1>1. /\ ValueInv /\ cont # Idle /\ FreeCells(Object) # {}
      /\ cont.kind \in {"Vector", "Number", "String", "clone"}
  BY DEF TypeInv, FinishValue, Makings
<1>3. /\ obj' = [obj EXCEPT ![NewObject] = r] /\ Finish(NewObject)
      /\ UNCHANGED <<frameVars, slots, fields>>
  BY DEF FinishValue
<1>4. ValueInv'
  <2>1. NewObject \in Object /\ NewObject \in Word
    BY <1>1, NewObjectIsNew DEF Word
  <2>2. ContOK(cont)
    BY <1>1 DEF ValueInv, ControlInv
  <2>3. ObjectOK(r)
    <3>1. DOMAIN r = {"type", "prototype", "own", "data"} /\ r.type \in Value
      BY <1>1, <2>2, NamesAreValues DEF ContOK, Blueprint
    <3>2. r.prototype \in Value
      <4>1. isClone => cont.values[1] \in Value
        BY <2>2 DEF ContOK
      <4>2. {"Vector", "Number", "String"} \subseteq Value
        BY NamesAreValues DEF Value, Permanent, Blueprint
      <4> QED BY <1>1, <4>1, <4>2
    <3>3. r.own \in BOOLEAN
      OBVIOUS
    <3>4. r.own /\ r.type = "Vector" => r.data \in Seq(Value)
      BY <2>2 DEF ContOK
    <3>5. r.own /\ r.type = "Number" => r.data \in Int
      BY <2>2 DEF ContOK
    <3> HIDE DEF r
    <3> QED BY <3>1, <3>2, <3>3, <3>4, <3>5 DEF ObjectOK
  <2> HIDE DEF r
  <2>4. HeapInv'
    BY <1>1, <1>3, <2>1, <2>3, MadeObject DEF ValueInv
  <2>5. UNCHANGED natives
    BY <1>3 DEF Finish
  <2>6. \A i \in 1..Len(natives') : natives'[i].kind # "require" => LoopsOn(natives[i])'
    BY <1>1, <1>3, <2>5, LoopsGoOnStill
  <2> QED BY <1>1, <1>3, <2>1, <2>4, <2>6, FinishStep
<1> QED BY <1>4

LEMMA MinimumOfNat ==
  ASSUME NEW S, S \subseteq Nat, S # {}
  PROVE  \E n \in S : \A m \in S : n <= m
<1>1. PICK n \in S : \A m \in S : ~ (<<m, n>> \in OpToRel(<, Nat))
  BY NatLessThanWellFounded, WFMin
<1>2. \A m \in S : ~ (m < n)
  BY <1>1 DEF OpToRel
<1> QED BY <1>2

LEMMA PairsOf ==
  ASSUME NEW s \in Seq(Value)
  PROVE  \A i \in 1..Len(s) \div 2 : i \in Nat /\ s[2 * i] \in Value
<1> DEFINE m == Len(s)
<1>1. m \in Nat
  OBVIOUS
<1>2. \A i \in 1..m \div 2 : i \in Nat /\ 2 * i \in 1..m
  <2> HIDE DEF m
  <2> QED BY <1>1
<1> QED BY <1>2

LEMMA FinishMapStep ==
  ASSUME TypeInv, FinishMap
  PROVE  ValueInv'
<1> DEFINE key(i) == cont.values[2 * i - 1]
           pairs == 1..Len(cont.values) \div 2
           keys == {cont.values[i] : i \in {j \in DOMAIN cont.values : j % 2 = 1}}
           names == {KeyText(key(i)) : i \in pairs} \ {NULL}
           First(n) == CHOOSE i \in pairs : /\ KeyText(key(i)) = n
                                            /\ \A j \in pairs : KeyText(key(j)) = n => i <= j
           r == [type |-> "Map", prototype |-> "Map", own |-> TRUE,
                 data |-> {KeyText(v) : v \in keys}]
           table == [n \in names |-> cont.values[2 * First(n)]]
<1>1. /\ ValueInv /\ cont # Idle /\ FreeCells(Object) # {} /\ cont.values \in Seq(Value)
  BY DEF TypeInv, FinishMap, Makings, ValueInv, ControlInv, ContOK
<1>2. CASE Crash("not a string") \/ \E S : Trouble(S) # "none" /\ Crash(Trouble(S))
  BY <1>1, <1>2, CrashStep, TroubleStep DEF Ends
<1>3. CASE /\ obj' = [obj EXCEPT ![NewObject] = r]
           /\ slots' = [slots EXCEPT ![NewObject] = table]
           /\ fields' = [fields EXCEPT ![NewObject] = names]
           /\ Finish(NewObject)
           /\ UNCHANGED frameVars
  <2>1. NewObject \in Object /\ NewObject \in Value /\ NewObject \in Word
    BY <1>1, NewObjectIsNew DEF Word
  <2>2. ASSUME NEW n \in names
        PROVE  table[n] \in Value
    <3> DEFINE S == {i \in pairs : KeyText(key(i)) = n}
    <3>1. S \subseteq Nat /\ S # {}
      <4>1. PICK i \in pairs : KeyText(key(i)) = n
        OBVIOUS
      <4>3. i \in S
        BY <4>1
      <4>4. pairs \subseteq Nat
        BY <1>1, PairsOf
      <4> QED BY <4>3, <4>4
    <3>2. \E i \in S : \A j \in S : i <= j
      <4> HIDE DEF S
      <4> QED BY <3>1, MinimumOfNat
    <3>3. First(n) \in pairs
      BY <3>2
    <3>4. table[n] = cont.values[2 * First(n)]
      OBVIOUS
    <3>5. PICK i \in pairs : i = First(n)
      BY <3>3
    <3>6. cont.values[2 * i] \in Value
      BY <1>1, PairsOf
    <3> QED BY <3>4, <3>5, <3>6
  <2>3. ObjectOK(r)
    BY NamesAreValues DEF ObjectOK, Blueprint
  <2>4. DOMAIN table = names
    OBVIOUS
  <2> HIDE DEF r, table, names
  <2>5. HeapInv'
    <3>1. DOMAIN obj' = Object /\ \A o \in Object : obj'[o] = Unused \/ ObjectOK(obj'[o])
      BY <1>1, <1>3, <2>1, <2>3 DEF ValueInv, HeapInv
    <3>2. DOMAIN slots' = Value /\ DOMAIN fields' = Value
      BY <1>1, <1>3 DEF ValueInv, HeapInv
    <3>3. \A v \in Value : \A n \in DOMAIN slots'[v] : slots'[v][n] \in Value
      BY <1>1, <1>3, <2>1, <2>2, <2>4 DEF ValueInv, HeapInv
    <3>4. \A v \in Value : fields'[v] \subseteq DOMAIN slots'[v]
      BY <1>1, <1>3, <2>1, <2>4 DEF ValueInv, HeapInv
    <3> QED BY <3>1, <3>2, <3>3, <3>4 DEF HeapInv, ObjectOK
  <2>6. UNCHANGED natives
    BY <1>3 DEF Finish
  <2>7. \A i \in 1..Len(natives') : natives'[i].kind # "require" => LoopsOn(natives[i])'
    BY <1>1, <1>3, <2>6, LoopsGoOnStill
  <2> QED BY <1>1, <1>3, <2>1, <2>5, <2>7, FinishStep
<1> QED BY <1>2, <1>3 DEF FinishMap, Using

LEMMA WithTwoMore ==
  ASSUME NEW s \in Seq(Value), Len(s) = 2, NEW v \in Value, NEW w \in Value
  PROVE  /\ s \o <<v, w>> \in Seq(Value)
         /\ Len(s \o <<v, w>>) = 4
         /\ (s \o <<v, w>>)[1] = s[1]
<1>1. <<v, w>> \in Seq(Value) /\ Len(<<v, w>>) = 2
  OBVIOUS
<1> QED BY <1>1, ConcatProperties

LEMMA FinishIndexStep ==
  ASSUME TypeInv, FinishIndex
  PROVE  ValueInv'
<1> DEFINE r == [type |-> "Number", prototype |-> "Number", own |-> TRUE, data |-> cont.name]
           values == Waiting.values \o <<cont.values[1], NewObject>>
           ns == [natives EXCEPT ![Len(natives)].values = @ \o <<cont.values[1], NewObject>>]
<1>1. /\ ValueInv /\ cont # Idle /\ cont.kind = "index" /\ FreeCells(Object) # {}
      /\ ContOK(cont) /\ natives # << >> /\ Waiting.kind = "each_with_index"
      /\ Len(Waiting.values) = 2
  BY DEF TypeInv, FinishIndex, Makings, ValueInv, ControlInv, Waiting
<1>2. /\ NewObject \in Object /\ NewObject \in Value
      /\ cont.values[1] \in Value /\ cont.name \in Int
  BY <1>1, NewObjectIsNew DEF ContOK
<1>3. Waiting \in Wait /\ natives \in Seq(Wait) /\ Waiting.index \in Nat
      /\ Waiting.values \in Seq(Value)
  BY <1>1, WaitingIsOK DEF ValueInv, ControlInv, WaitsOK, Wait
<1>4. values \in Seq(Value) /\ Len(values) = 4 /\ values[1] = Waiting.values[1]
  BY <1>1, <1>2, <1>3, WithTwoMore
<1>5. ns = [natives EXCEPT ![Len(natives)] = Rewait(Waiting, Waiting.index, values)]
  <2>1. Waiting = [kind |-> Waiting.kind, values |-> Waiting.values, index |-> Waiting.index,
                   count |-> Waiting.count, next |-> Waiting.next]
    BY <1>3 DEF Wait
  <2>2. PICK n : n = Waiting
    OBVIOUS
  <2> HIDE DEF values
  <2>3. [n EXCEPT !.values = values] = Rewait(n, n.index, values)
    BY <2>1, <2>2 DEF Rewait
  <2>4. ns = [natives EXCEPT ![Len(natives)] = [n EXCEPT !.values = values]]
    BY <2>2 DEF values, Waiting
  <2> QED BY <2>2, <2>3, <2>4
<1> HIDE DEF values
<1>6. natives' = ns /\ obj' = [obj EXCEPT ![NewObject] = r] /\ cont' = Idle
      /\ UNCHANGED <<frameVars, prog, ip, stack, recordVars, slots, fields, end>>
  BY DEF FinishIndex
<1>7. ObjectOK(r)
  BY <1>2, NamesAreValues DEF ObjectOK, Blueprint
<1> HIDE DEF r, ns
<1>8. /\ WaitsOK(ns)
      /\ \A i \in 1..Len(ns) : ns[i].kind # "require" => LoopsOn(ns[i])
  BY <1>1, <1>3, <1>4, <1>5, RewaitStep
<1>9. HeapInv'
  BY <1>1, <1>2, <1>6, <1>7, MadeObject DEF ValueInv
<1>10. RecordInv'
  BY <1>1, <1>6, SameRecords DEF ValueInv
<1>11. ControlInv'
  BY <1>1, <1>6, <1>8 DEF ValueInv, ControlInv
<1>12. /\ Len(ns) = Len(natives)
       /\ \A i \in 1..Len(ns) : /\ ns[i].values[1] = natives[i].values[1]
                                /\ ns[i].count = natives[i].count
                                /\ ns[i].kind = natives[i].kind
  <2>1. Len(natives) \in 1..Len(natives)
    BY <1>1, <1>3
  <2>2. \A i \in 1..Len(natives) :
          ns[i] = IF i = Len(natives) THEN Rewait(Waiting, Waiting.index, values) ELSE natives[i]
    BY <1>3, <1>5
  <2>3. Len(ns) = Len(natives)
    BY <1>3, <1>5
  <2> QED BY <1>4, <2>1, <2>2, <2>3 DEF Rewait, Waiting
<1>13. ASSUME NEW i \in 1..Len(natives'), natives'[i].kind # "require"
       PROVE  LoopsOn(natives[i])'
  <2>1. i \in 1..Len(natives) /\ natives[i].kind # "require"
    BY <1>6, <1>12, <1>13
  <2>2. PICK n : n = natives[i]
    OBVIOUS
  <2>3. LoopsOn(n)'
    BY <1>1, <1>6, <2>1, <2>2, LoopsGoOn
  <2> QED BY <1>6, <1>12, <1>13, <2>2, <2>3 DEF LoopsOn
<1>14. LinkInv'
  BY <1>6, <1>13 DEF LinkInv
<1> QED BY <1>9, <1>10, <1>11, <1>14 DEF ValueInv

LEMMA FinishFieldStep ==
  ASSUME TypeInv, FinishField
  PROVE  ValueInv'
<1>1. ValueInv /\ cont # Idle /\ cont.kind = "field" /\ ContOK(cont) /\ condemned = {}
  BY DEF TypeInv, FinishField, Unfinished, ValueInv, ControlInv, Going, F!Running
<1>2. CASE Crash("freed value")
  BY <1>1, <1>2, CrashStep DEF Ends
<1>3. CASE /\ Allocated(cont.values[1])
           /\ fields' = [fields EXCEPT ![cont.values[1]] = @ \union {cont.name}]
           /\ Finish(cont.values[2])
           /\ UNCHANGED <<frameVars, obj, slots>>
  <2>1. cont.values[1] \in Value /\ cont.values[2] \in Value
    BY <1>1 DEF ContOK
  <2>2. cont.name \in DOMAIN slots[cont.values[1]]
    BY <1>1, <1>3 DEF ValueInv, LinkInv
  <2>3. HeapInv'
    BY <1>1, <1>3, <2>1, <2>2 DEF ValueInv, HeapInv
  <2>4. UNCHANGED obj /\ cont.values[2] \in Word
    BY <1>3, <2>1, NamesAreValues
  <2> QED BY <1>1, <1>3, <2>3, <2>4, FinishStillStep
<1> QED BY <1>2, <1>3 DEF FinishField
------------------------------------------------------------------------------
(***************************************************************************)
(* Collections and the end                                                 *)
(***************************************************************************)
LEMMA CollectStep ==
  ASSUME TypeInv, Collect
  PROVE  ValueInv'
<1>1. /\ ValueInv /\ condemned = {}
      /\ UNCHANGED <<made, prog, ip, stack, recordVars, natives, cont, end>>
  BY DEF TypeInv, Collect, Going, F!Running, F!Collect, frameVars
<1>2. RecordInv' /\ ControlInv'
  BY <1>1, SameRecords DEF ValueInv, ControlInv, Loaded
<1>3. /\ obj' = [o \in Object |-> IF o \in Garbage THEN Unused ELSE obj[o]]
      /\ slots' = Cleared(slots, Garbage, << >>)
      /\ fields' = Cleared(fields, Garbage, {})
  BY DEF Collect
<1>4. HeapInv'
  <2>1. \A o \in Object : obj'[o] \in {Unused, obj[o]}
    BY <1>3
  <2>2. ASSUME NEW o \in Object, obj'[o] # Unused PROVE ObjectOK(obj'[o])
    BY <1>1, <2>1, <2>2 DEF ValueInv, HeapInv, ObjectOK
  <2>3. DOMAIN obj' = Object
    BY <1>3
  <2> QED BY <1>1, <1>3, <2>2, <2>3 DEF ValueInv, HeapInv, Cleared
<1>5. ASSUME NEW i \in 1..Len(natives'), natives'[i].kind # "require"
      PROVE  LoopsOn(natives[i])'
  BY <1>1, <1>3, <1>5 DEF ValueInv, LinkInv, LoopsOn, Unused
<1>6. ASSUME cont # Idle, cont.kind = "field", cont.values[1] \notin condemned',
             Allocated(cont.values[1])'
      PROVE  cont.name \in DOMAIN slots'[cont.values[1]]
  <2> DEFINE v == cont.values[1]
  <2>1. v \in Value
    BY <1>1, <1>6 DEF ValueInv, ControlInv, ContOK
  <2>2. v \notin Garbage
    <3>1. v \in Object => obj'[v].type # NULL
      BY <1>1, <1>6 DEF Allocated
    <3>2. Garbage \intersect Closure = {} \/ condemned' = Garbage \intersect Closure
      BY DEF Collect, F!Collect
    <3>3. Garbage \subseteq Closure \union Object
      BY DEF Garbage
    <3>4. v \in Object => v \notin Garbage
      BY <1>3, <3>1 DEF Unused
    <3> QED BY <1>6, <3>2, <3>3, <3>4
  <2>3. Allocated(v)
    <3>1. v \in Object => obj'[v].type # NULL
      BY <1>1, <1>6 DEF Allocated
    <3>2. v \in Closure => made[v] # NULL
      BY <1>1, <1>6 DEF Allocated
    <3> QED BY <1>3, <2>2, <3>1, <3>2 DEF Allocated
  <2>4. slots'[v] = slots[v]
    BY <1>3, <2>1, <2>2 DEF Cleared
  <2>5. cont.name \in DOMAIN slots[v]
    BY <1>1, <1>6, <2>3 DEF ValueInv, LinkInv
  <2> QED BY <2>4, <2>5
<1>7. LinkInv'
  BY <1>1, <1>5, <1>6 DEF LinkInv
<1> QED BY <1>2, <1>4, <1>7 DEF ValueInv

\* A step of the frames that destroys no closure.
LEMMA FrameFaultStep ==
  ASSUME TypeInv, CollectFreed \/ CurrentFreed
  PROVE  ValueInv'
<1>1. ValueInv
  BY DEF TypeInv
<1>2. CASE Crash("freed value")
  BY <1>1, <1>2, CrashStep DEF Ends
<1>3. CASE /\ UNCHANGED <<made, condemned>>
           /\ UNCHANGED <<prog, ip, stack, recordVars, natives, cont, heapVars, end, result>>
  <2>1. RecordInv' /\ HeapInv'
    BY <1>1, <1>3, SameRecords, SameHeap DEF ValueInv
  <2>2. ControlInv'
    BY <1>1, <1>3 DEF ValueInv, ControlInv, Loaded
  <2>3. LinkInv'
    BY <1>1, <1>3, SameLoops DEF ValueInv, LinkInv, Allocated, heapVars
  <2> QED BY <2>1, <2>2, <2>3 DEF ValueInv
<1> QED BY <1>2, <1>3 DEF CollectFreed, CurrentFreed, F!CollectFreed, F!CurrentFreed, F!Fail

LEMMA DestroyStep ==
  ASSUME TypeInv, Destroy
  PROVE  ValueInv'
<1>1. /\ ValueInv /\ DropRecords /\ made \in [Closure -> Function \union {NULL}]
      /\ UNCHANGED <<prog, ip, stack, natives, cont, heapVars, end>>
  BY DEF TypeInv, Destroy, F!TypeOK
<1>2. RecordInv' /\ HeapInv' /\ ControlInv'
  BY <1>1, KeptRecords, SameHeap DEF ValueInv, ControlInv, Loaded
<1>3. ASSUME NEW v, v \notin condemned', Allocated(v)'
      PROVE  v \notin condemned /\ Allocated(v)
  <2>1. CASE UNCHANGED <<made, condemned>>
    BY <1>1, <1>3, <2>1 DEF Allocated, heapVars
  <2>2. ASSUME NEW c \in Closure, F!Sweep(c)
        PROVE  v \notin condemned /\ Allocated(v)
    <3>1. condemned' = condemned \ {c} /\ made' = [made EXCEPT ![c] = NULL]
      BY <2>2 DEF F!Sweep
    <3>2. v # c
      BY <1>1, <1>3, <3>1 DEF Allocated
    <3> QED BY <1>1, <1>3, <3>1, <3>2 DEF Allocated, heapVars
  <2> QED BY <2>1, <2>2 DEF Destroy, F!Release, F!ReleaseFreed, F!Fail
<1>4. LinkInv'
  BY <1>1, <1>3, SameLoops DEF ValueInv, LinkInv, heapVars
<1> QED BY <1>2, <1>4 DEF ValueInv

LEMMA ExitStep ==
  ASSUME TypeInv, Exit
  PROVE  ValueInv'
<1>1. /\ ValueInv /\ condemned = {} /\ natives = << >> /\ stack' = << >>
      /\ obj' = [o \in Object |-> Unused]
      /\ UNCHANGED <<made, prog, ip, recordVars, natives, cont, slots, fields, end>>
  BY DEF TypeInv, Exit, F!Exit, F!ExitDone
<1>2. RecordInv' /\ ControlInv'
  BY <1>1, SameRecords DEF ValueInv, ControlInv, Loaded
<1>3. HeapInv'
  BY <1>1 DEF ValueInv, HeapInv, ObjectOK, Unused
<1>4. ASSUME NEW v, v \notin condemned', Allocated(v)'
      PROVE  Allocated(v)
  BY <1>1, <1>4 DEF Allocated, Unused
<1>5. LinkInv'
  BY <1>1, <1>4 DEF ValueInv, LinkInv
<1> QED BY <1>2, <1>3, <1>5 DEF ValueInv
------------------------------------------------------------------------------
(***************************************************************************)
(* Every run                                                               *)
(***************************************************************************)
\* The slots that are installed hold natives.
LEMMA InstalledIsTable ==
  /\ DOMAIN Installed = Value
  /\ \A v \in Value : \A n \in DOMAIN Installed[v] : Installed[v][n] \in Native
<1>1. ASSUME NEW S, \A p \in S : p[2] \in Native, NEW n \in DOMAIN Table(S)
      PROVE  Table(S)[n] \in Native
  BY <1>1 DEF Table
<1>2. ASSUME NEW b \in DOMAIN Natives, NEW n \in DOMAIN Natives[b]
      PROVE  Natives[b][n] \in Native
  <2>1. CASE b = "Object"
    BY <1>1, <1>2, <2>1 DEF Natives, Native, Arithmetic, Comparison
  <2>2. CASE b = "Number"
    BY <1>1, <1>2, <2>2 DEF Natives, Native, Arithmetic, Comparison
  <2>3. CASE b = "String"
    BY <1>1, <1>2, <2>3 DEF Natives, Native, Arithmetic, Comparison
  <2>4. CASE b = "Vector"
    BY <1>1, <1>2, <2>4 DEF Natives, Native, Arithmetic, Comparison
  <2> QED BY <1>2, <2>1, <2>2, <2>3, <2>4 DEF Natives
<1> QED BY <1>2, NamesAreValues DEF Installed

LEMMA TypeInvInit == Init => TypeInv
<1> SUFFICES ASSUME Init PROVE TypeInv
  OBVIOUS
<1> USE DEF Init
<1>1. F!TypeOK
  BY InstanceAssumption, FunctionsAreNames DEF F!Init, F!TypeOK
<1>2. CodeInv
  BY ProgramAssumption DEF CodeInv, F!Init, Loaded
<1>3. RecordInv
  <2>1. Program[prog].arguments \in Seq(Value) /\ Len(Program[prog].arguments) <= 10
    <3>1. /\ Program[prog].arguments \in Seq(Permanent)
          /\ Len(Program[prog].arguments) <= 10
      BY ProgramAssumption
    <3> QED BY <3>1 DEF Value
  <2>2. Program[prog].arguments \in Seq(Word)
    BY <2>1, NamesAreValues
  <2>3. IsArray(NewLocals(Program[prog].arguments, 10))
    BY <2>1, <2>2, NewLocalsIsArray
  <2>4. \A f \in Frame : IsArray(locals[f])
    BY <2>3, NoLocalsIsArray
  <2> QED BY <2>4, NamesAreValues DEF RecordInv
<1>4. ControlInv
  BY InstanceAssumption DEF ControlInv, WaitsOK, Ends
<1>5. HeapInv
  BY InstalledIsTable, NamesAreValues DEF HeapInv, Unused
<1>6. LinkInv
  BY DEF LinkInv
<1> QED BY <1>1, <1>2, <1>3, <1>4, <1>5, <1>6 DEF TypeInv, ValueInv

LEMMA StandStill ==
  ASSUME TypeInv, UNCHANGED vars
  PROVE  ValueInv'
<1>1. RecordInv' /\ HeapInv'
  BY SameRecords, SameHeap DEF TypeInv, ValueInv, vars
<1>2. ControlInv'
  BY DEF TypeInv, ValueInv, ControlInv, Loaded, vars
<1>3. LinkInv'
  BY SameLoops DEF TypeInv, ValueInv, LinkInv, Allocated, vars, frameVars, heapVars
<1> QED BY <1>1, <1>2, <1>3 DEF ValueInv

LEMMA TypeInvNext == TypeInv /\ [Next]_vars => TypeInv'
<1> SUFFICES ASSUME TypeInv, [Next]_vars PROVE TypeInv'
  OBVIOUS
<1>1. FrameStep
  BY FramesTakeOneStep
<1>2. prog' = prog
  BY <1>1 DEF FrameStep
<1>3. F!TypeOK' /\ CodeInv'
  <2>1. Unfinished("file") => "file" \in Loaded
    BY DEF TypeInv, ValueInv, ControlInv, Unfinished
  <2> QED BY <1>1, <1>2, <2>1, FramesTyped, CodeStep DEF TypeInv
<1>4. ValueInv'
  <2>1. CASE Skip \/ PushConstant \/ Jump \/ Goto \/ Pop \/ GetSlot
    BY <2>1, SkipStep, PushConstantStep, JumpStep, PopStep, GetSlotStep
  <2>2. CASE PushLocal \/ PushLocalDepth \/ SetLocal \/ SetLocalDepth
    BY <2>2, LocalStep
  <2>3. CASE Send \/ Return
    BY <2>3, SendStep, ReturnStep
  <2>4. CASE EachElement \/ EachIndex \/ EachIndexed \/ EachDone \/ RequireFile \/ RequireDone
    BY <2>4, EachElementStep, EachIndexStep, DoneStep, RequireFileStep
  <2>5. CASE Defn \/ MakeVec \/ SetSlot \/ Dump
    BY <2>5, AllocatingStep
  <2>6. CASE FinishClosure \/ FinishNil \/ FinishPrint \/ FinishFile \/ OutOfCells \/ RunOff
    BY <2>6, SmallFinishStep, FinishFileStep
  <2>7. CASE ReadAgain \/ FinishValue \/ FinishMap \/ FinishIndex \/ FinishField
    BY <2>7, ReadAgainStep, FinishValueStep, FinishMapStep, FinishIndexStep, FinishFieldStep
  <2>8. CASE Collect \/ CollectFreed \/ CurrentFreed \/ Destroy \/ Exit
    BY <2>8, CollectStep, FrameFaultStep, DestroyStep, ExitStep
  <2>9. CASE Stranded
    BY <2>9, CrashStep DEF Stranded, TypeInv, Ends
  <2>10. CASE Halted \/ UNCHANGED vars
    BY <2>10, StandStill DEF Halted
  <2> QED
    BY <2>1, <2>2, <2>3, <2>4, <2>5, <2>6, <2>7, <2>8, <2>9, <2>10 DEF Next
<1> QED BY <1>3, <1>4 DEF TypeInv

LEMMA ElementsAreValues ==
  ASSUME NEW l, IsArray(l)
  PROVE  l.end \in 0..l.max /\ Elements(l) \subseteq Value
<1>1. l.end \in 0..l.max /\ l.at \in [0..l.max - 1 -> Word]
  BY DEF IsArray
<1>2. \A i \in DOMAIN l.at : l.at[i] \in Word
  BY <1>1
<1> QED BY <1>1, <1>2 DEF Elements, Word

LEMMA TypeInvIsTypeOK == TypeInv => TypeOK
<1> SUFFICES ASSUME TypeInv PROVE TypeOK
  OBVIOUS
<1>1. prog \in DOMAIN Program /\ RecordInv /\ ControlInv
  BY DEF TypeInv, CodeInv, ValueInv
<1>a. /\ self \in [Frame -> Value \union {NULL}]
      /\ ret \in [Frame -> Nat \union {NULL}] /\ base \in [Frame -> Nat]
  BY <1>1 DEF RecordInv, Word
<1>b. /\ ip \in Nat \union {NULL} /\ stack \in Seq(Value \union {NULL})
      /\ Len(natives) <= Depth
  BY <1>1 DEF ControlInv, WaitsOK, Word
<1>2. \A f \in Frame : locals[f].end \in 0..locals[f].max /\ Elements(locals[f]) \subseteq Value
  BY ElementsAreValues DEF TypeInv, ValueInv, RecordInv
<1>3. \A o \in Object : DOMAIN obj[o] = {"type", "prototype", "own", "data"}
  BY DEF TypeInv, ValueInv, HeapInv, ObjectOK, Unused
<1>4. \A v \in Value : ValuesIn(slots[v]) \subseteq Value /\ fields[v] \subseteq DOMAIN slots[v]
  BY DEF TypeInv, ValueInv, HeapInv, ValuesIn
<1>5. end \in Ends
  BY DEF TypeInv, ValueInv, ControlInv
<1> QED BY <1>1, <1>a, <1>b, <1>2, <1>3, <1>4, <1>5 DEF TypeOK, Ends

\* Whatever program VM_start (vm.c) runs, and whenever its collector runs: an instruction finds
\* its operands in the code, each frame runs a function that was loaded, and a native that
\* loops finds in its vector every element that it has counted.
THEOREM RunsAreTyped == Spec => []TypeInv
BY TypeInvInit, TypeInvNext, PTL DEF Spec

\* vm.c, value.c: so what is on the operand stack, in the locals of a frame and in a slot is a
\* value, and `fields' names slots only.
THEOREM ValuesAreTyped == Spec => []TypeOK
BY RunsAreTyped, TypeInvIsTypeOK, PTL

\* PUSHLOCALDEPTH and SETLOCALDEPTH (vm.c) have met no frame that was freed.
NoFreedFrameRead == end # "freed frame"

\* In a careful run every frame that PUSHLOCAL, SETLOCAL, PUSHLOCALDEPTH and SETLOCALDEPTH
\* come to on their way out along the parents, however far, still exists.
THEOREM EnclosingFramesAreLive ==
  Spec /\ [][Careful!Next]_frameVars => []NoFreedFrameRead
<1>1. Init => NoFreedFrameRead
  BY DEF Init, NoFreedFrameRead
<1>2. /\ [Next]_vars /\ TypeInv /\ Careful!TypeOK /\ Careful!NoDangling
      /\ NoFreedFrameRead
      => NoFreedFrameRead'
  <2> SUFFICES ASSUME [Next]_vars, TypeInv, Careful!TypeOK, Careful!NoDangling
               PROVE  ReadsNoFreedFrame
    BY DEF ReadsNoFreedFrame, NoFreedFrameRead
  <2>1. NULL \notin live /\ \A f \in live : parent[f] \in live \union {NULL}
    BY InstanceAssumption DEF Careful!TypeOK, Careful!NoDangling
  <2>2. DepthsAreNaturals
    BY Decode DEF DepthsAreNaturals
  <2> QED BY <2>1, <2>2, LocalsReadNoFreedFrame, StepsReadNoFreedFrame
<1>3. Spec /\ [][Careful!Next]_frameVars
      => [](Careful!TypeOK /\ Careful!NoFault /\ Careful!NoDangling)
  BY CarefulProgramsAreSafe
<1> QED BY <1>1, <1>2, <1>3, RunsAreTyped, PTL DEF Spec
------------------------------------------------------------------------------
(***************************************************************************)
(* The VM_runs that have not returned                                      *)
(***************************************************************************)
\* The frames at which a VM_run returns.
Heads == {i \in DOMAIN frames : ret[frames[i]] = NULL}

\* How many VM_runs have not returned: that of every native that waits for one, and the one
\* that has control, if it is not a native.
OpenRuns == Len(natives) + (IF ip = NULL THEN 0 ELSE 1)

\* Between instructions, and when an instruction is half done, the frames are matched; the
\* rest of an instruction goes on in the VM_run it is in.
RunInv ==
    /\ cont # Idle => IF cont.kind \in {"index", "file"} THEN ip = NULL
                      ELSE ip # NULL /\ cont.next # NULL
    /\ end = "no" /\ phase = "running" /\ F!Active \subseteq live =>
         Cardinality(Heads) = OpenRuns
------------------------------------------------------------------------------
(***************************************************************************)
(* How a step changes the matching                                         *)
(***************************************************************************)
LEMMA NaturalsAreNotNULL == NULL \notin Nat
BY InstanceAssumption

\* The rest of an instruction stays with the VM_run it is in.
ContIsInRun ==
    cont # Idle => IF cont.kind \in {"index", "file"} THEN ip = NULL
                   ELSE ip # NULL /\ cont.next # NULL

LEMMA HeadsAreCounted ==
  ASSUME F!TypeOK
  PROVE  IsFiniteSet(Heads) /\ Cardinality(Heads) \in Nat /\ Heads \subseteq 1..Len(frames)
<1>1. Heads \subseteq 1..Len(frames) /\ Len(frames) \in Nat
  BY DEF Heads, F!TypeOK
<1>2. IsFiniteSet(1..Len(frames))
  BY <1>1, FS_Interval
<1> QED BY <1>1, <1>2, FS_Subset, FS_CardinalityType

\* A step that pushes and pops no frame keeps as many VM_runs as there were.
LEMMA SameFrames ==
  ASSUME RunInv, F!TypeOK, frames' = frames, live' \subseteq live,
         \A f \in live' : ret'[f] = ret[f],
         end' = "no" => end = "no", phase' = "running" => phase = "running",
         end' = "no" /\ phase' = "running" => OpenRuns' = OpenRuns, ContIsInRun'
  PROVE  RunInv'
<1>1. ASSUME end' = "no", phase' = "running", F!Active' \subseteq live'
      PROVE  Cardinality(Heads') = OpenRuns'
  <2>1. F!Active' = F!Active
    BY DEF F!Active
  <2>2. F!Active \subseteq live
    BY <1>1, <2>1
  <2>3. \A i \in DOMAIN frames : frames[i] \in live'
    BY <1>1 DEF F!Active, F!TypeOK
  <2>4. Heads' = Heads
    BY <2>3 DEF Heads
  <2> QED BY <1>1, <2>2, <2>4 DEF RunInv
<1> QED BY <1>1 DEF RunInv, ContIsInRun

\* A step that pushes a frame starts a VM_run with it, or goes on in the one there is.
LEMMA OneFrameMore ==
  ASSUME RunInv, F!TypeOK, RecordInv, NEW g \in Frame, F!Fresh(g), NEW r,
         frames' = Append(frames, g), live' = live \union {g}, ret' = [ret EXCEPT ![g] = r],
         UNCHANGED <<end, phase>>, ContIsInRun',
         OpenRuns' = OpenRuns + (IF r = NULL THEN 1 ELSE 0)
  PROVE  RunInv'
<1> DEFINE n == Len(frames)
<1>1. ASSUME end' = "no", phase' = "running", F!Active' \subseteq live'
      PROVE  Cardinality(Heads') = OpenRuns'
  <2>1. /\ frames \in Seq(Frame) /\ n \in Nat /\ Len(frames') = n + 1
        /\ frames'[n + 1] = g /\ \A i \in 1..n : frames'[i] = frames[i]
    BY DEF F!TypeOK
  <2>2. \A i \in 1..n : frames[i] # g /\ frames[i] \in Frame
    BY <2>1 DEF F!Fresh, F!Active
  <2>3. F!Active \subseteq live
    <3>1. \A i \in 1..n : frames'[i] \in live'
      BY <1>1, <2>1 DEF F!Active
    <3> QED BY <2>1, <2>2, <3>1 DEF F!Active
  <2>4. ret'[g] = r /\ \A i \in 1..n : ret'[frames[i]] = ret[frames[i]]
    BY <2>2 DEF RecordInv
  <2>5. Heads' = IF r = NULL THEN Heads \union {n + 1} ELSE Heads
    <3>1. DOMAIN frames' = 1..n + 1 /\ DOMAIN frames = 1..n
      BY <2>1
    <3>2. \A i \in DOMAIN frames' : i \in 1..n \/ i = n + 1
      BY <2>1, <3>1
    <3>3. n + 1 \in DOMAIN frames' /\ \A i \in DOMAIN frames : i \in DOMAIN frames'
      BY <2>1, <3>1
    <3> QED BY <2>1, <2>4, <3>1, <3>2, <3>3 DEF Heads
  <2>6. n + 1 \notin Heads /\ IsFiniteSet(Heads) /\ Cardinality(Heads) \in Nat
    BY <2>1, HeadsAreCounted
  <2>7. Cardinality(Heads') = Cardinality(Heads) + (IF r = NULL THEN 1 ELSE 0)
    <3>1. Cardinality(Heads \union {n + 1}) = Cardinality(Heads) + 1
      BY <2>6, FS_AddElement
    <3>2. Cardinality(Heads) + 0 = Cardinality(Heads)
      BY <2>6
    <3> QED BY <2>5, <3>1, <3>2
  <2> QED BY <1>1, <2>3, <2>7 DEF RunInv
<1> QED BY <1>1 DEF RunInv, ContIsInRun

\* A step that pops a frame ends a VM_run, if it was the frame that it returns at.
LEMMA OneFrameLess ==
  ASSUME RunInv, F!TypeOK, frames # << >>, Current \in live, F!PopFrame, live' \subseteq live,
         \A f \in live' : ret'[f] = ret[f], end' = "no" => end = "no", phase' = phase,
         end' = "no" => OpenRuns' = OpenRuns - (IF ret[Current] = NULL THEN 1 ELSE 0),
         ContIsInRun'
  PROVE  RunInv'
<1> DEFINE n == Len(frames)
<1>1. ASSUME end' = "no", phase' = "running", F!Active' \subseteq live'
      PROVE  Cardinality(Heads') = OpenRuns'
  <2>1. /\ frames \in Seq(Frame) /\ n \in Nat \ {0} /\ Len(frames') = n - 1
        /\ Current = frames[n] /\ \A i \in 1..n - 1 : frames'[i] = frames[i]
    <3>1. frames \in Seq(Frame) /\ n \in Nat \ {0} /\ Current = frames[n]
      BY DEF F!TypeOK, Current, F!Current
    <3>2. \A i \in 1..n - 1 : frames[i] \in Frame
      BY <3>1
    <3> HIDE DEF n
    <3>3. Len(SubSeq(frames, 1, n - 1)) = n - 1
      BY <3>1, <3>2, SubSeqProperties
    <3>4. \A i \in 1..n - 1 : SubSeq(frames, 1, n - 1)[i] = frames[i]
      BY <3>1, <3>2, SubSeqProperties
    <3>5. frames' = SubSeq(frames, 1, n - 1)
      BY DEF F!PopFrame, n
    <3> QED BY <3>1, <3>3, <3>4, <3>5
  <2>2. \A i \in 1..n - 1 : frames[i] \in live'
    BY <1>1, <2>1 DEF F!Active
  <2>3. F!Active \subseteq live
    <3>1. \A i \in 1..n : i = n \/ i \in 1..n - 1
      BY <2>1
    <3> QED BY <2>1, <2>2, <3>1 DEF F!Active
  <2>4. Heads' = Heads \ {n}
    <3>1. DOMAIN frames' = 1..n - 1 /\ DOMAIN frames = 1..n
      BY <2>1 DEF F!PopFrame
    <3>2. \A i : i \in 1..n - 1 <=> i \in 1..n /\ i # n
      BY <2>1
    <3> QED BY <2>1, <2>2, <3>1, <3>2 DEF Heads
  <2>5. n \in Heads <=> ret[Current] = NULL
    BY <2>1 DEF Heads
  <2>6. IsFiniteSet(Heads) /\ Cardinality(Heads) \in Nat
    BY HeadsAreCounted
  <2>7. Cardinality(Heads') = Cardinality(Heads) - (IF ret[Current] = NULL THEN 1 ELSE 0)
    <3>1. Cardinality(Heads \ {n})
            = IF n \in Heads THEN Cardinality(Heads) - 1 ELSE Cardinality(Heads)
      BY <2>6, FS_RemoveElement
    <3>2. Cardinality(Heads) - 0 = Cardinality(Heads)
      BY <2>6
    <3> QED BY <2>4, <2>5, <3>1, <3>2
  <2> QED BY <1>1, <2>3, <2>7 DEF RunInv
<1> QED BY <1>1 DEF RunInv, ContIsInRun
------------------------------------------------------------------------------
(***************************************************************************)
(* Instructions                                                            *)
(***************************************************************************)
\* How an instruction turns out which pushes no frame: the process ends, it goes on at k at
\* once or when it has allocated, or a native waits for a VM_run of its own.
Stays(k) ==
    \/ \E how \in Ends \ {"no"} : Crash(how)
    \/ /\ UNCHANGED <<frameVars, recordVars, end, prog>>
       /\ natives' = k.natives
       /\ \/ ip' = k.next /\ cont' = cont
          \/ ip' = ip /\ cont'.kind \notin {"index", "file"} /\ cont'.next = k.next
    \/ /\ UNCHANGED <<frameVars, recordVars, end, cont, prog>>
       /\ Len(natives') = Len(k.natives) + 1
       /\ ip' = NULL

LEMMA TroubleStays ==
  ASSUME NEW S, NEW k, Trouble(S) # "none", Crash(Trouble(S))
  PROVE  Stays(k)
BY DEF Stays, Trouble, Ends

LEMMA ObstacleStays ==
  ASSUME NEW S, NEW k, Obstacle(S) # "none", Crash(Obstacle(S))
  PROVE  Stays(k)
BY DEF Stays, Obstacle, Trouble, Ends

LEMMA AbortStays ==
  ASSUME NEW k, Abort \/ Crash("bound") \/ Crash("no value") \/ Crash("not a vector")
                  \/ Crash("vector bounds") \/ Crash("local bounds") \/ Crash("freed frame")
  PROVE  Stays(k)
BY DEF Stays, Abort, Ends

LEMMA GoOnStays ==
  ASSUME NEW k, NEW v, GoOn(k, v)
  PROVE  Stays(k)
BY DEF Stays, GoOn

LEMMA AllocateStays ==
  ASSUME NEW k, NEW kind, kind \notin {"index", "file"}, NEW values, NEW safe, NEW name,
         Allocate(kind, values, safe, name, k)
  PROVE  Stays(k)
BY DEF Stays, Allocate

LEMMA BeginNativeStays ==
  ASSUME NEW k, WaitsOK(k.natives), NEW kind, NEW values, NEW count,
         BeginNative(kind, values, count, k)
  PROVE  Stays(k)
<1>1. CASE Crash("bound")
  BY <1>1, AbortStays
<1>2. CASE ~ Crash("bound")
  BY <1>2 DEF Stays, BeginNative, WaitsOK
<1> QED BY <1>1, <1>2

LEMMA NativeStays ==
  ASSUME NEW native, NEW receiver, NEW args, NEW k, WaitsOK(k.natives),
         CallNative(native, receiver, args, k)
  PROVE  Stays(k)
<1> USE TroubleStays, AbortStays, GoOnStays, AllocateStays, BeginNativeStays DEF Using, Typed, Make
<1>1. PICK b, c :
        \/ CallNumber(native, receiver, b, k)
        \/ CallObject(native, receiver, b, k)
        \/ CallString(native, receiver, b, k)
        \/ CallVector(native, receiver, b, k)
        \/ CallMap(native, receiver, b, c, k)
  BY DEF CallNative
<1>2. CASE CallNumber(native, receiver, b, k)
  BY <1>2 DEF CallNumber, Calculate
<1>3. CASE CallObject(native, receiver, b, k)
  <2>1. CASE Equal(receiver, b, k)
    BY <2>1 DEF Equal
  <2>2. CASE ToText(receiver, k)
    BY <2>2, ObstacleStays DEF ToText, Describing
  <2>3. CASE WriteText(b, k)
    BY <2>3, ObstacleStays DEF WriteText, Describing
  <2> QED BY <1>3, <2>1, <2>2, <2>3 DEF CallObject
<1>4. CASE CallString(native, receiver, b, k)
  BY <1>4 DEF CallString
<1>5. CASE CallVector(native, receiver, b, k)
  <2>1. ASSUME NEW i, ElementAt(receiver, i, k) PROVE Stays(k)
    BY <2>1 DEF ElementAt
  <2>2. CASE PushElement(receiver, b, k)
    BY <2>2 DEF PushElement, Stays
  <2>3. ASSUME NEW kind, Iterate(kind, receiver, b, k) PROVE Stays(k)
    BY <2>3 DEF Iterate
  <2> QED BY <1>5, <2>1, <2>2, <2>3 DEF CallVector
<1>6. CASE CallMap(native, receiver, b, c, k)
  BY <1>6 DEF CallMap, GetMember, BeginSet
<1> QED BY <1>1, <1>2, <1>3, <1>4, <1>5, <1>6

\* An instruction that stays in its frame stays in its VM_run.
LEMMA StaysInRun ==
  ASSUME RunInv, TypeInv, cont = Idle, ip # NULL, NEW k, k.next \in Nat, k.natives = natives,
         Stays(k)
  PROVE  RunInv'
<1>1. natives \in Seq(Wait) /\ Len(natives) \in Nat
  BY DEF TypeInv, ValueInv, ControlInv, WaitsOK
<1>2. /\ UNCHANGED <<frameVars, recordVars>>
      /\ end' = "no" => end = "no"
      /\ end' = "no" => OpenRuns' = OpenRuns
      /\ ContIsInRun'
  <2>1. CASE \E how \in Ends \ {"no"} : Crash(how)
    BY <2>1 DEF Crash, ContIsInRun
  <2>2. CASE ~ \E how \in Ends \ {"no"} : Crash(how)
    BY <1>1, <2>2, NaturalsAreNotNULL DEF Stays, OpenRuns, ContIsInRun
  <2> QED BY <2>1, <2>2
<1>3. /\ frames' = frames /\ live' = live /\ phase' = phase /\ ret' = ret /\ F!TypeOK
  BY <1>2 DEF frameVars, recordVars, TypeInv
<1> QED BY <1>2, <1>3, SameFrames

\* Function_call.
LEMMA CalleeRuns ==
  ASSUME RunInv, TypeInv, cont = Idle, NEW callee, NEW receiver, NEW args, NEW max, NEW r,
         NEW k, WaitsOK(k.natives), Len(k.natives) = Len(natives),
         CallFunction(callee, receiver, args, max, r, k), k.next \in Nat,
         (r # NULL /\ ip # NULL) \/ (r = NULL /\ ip = NULL /\ callee \notin Native)
  PROVE  RunInv'
<1>1. natives \in Seq(Wait) /\ Len(natives) \in Nat /\ F!TypeOK /\ RecordInv
  BY DEF TypeInv, ValueInv, ControlInv, WaitsOK
<1>2. CASE callee \in Native /\ CallNative(callee, receiver, args, k)
  <2>1. Stays(k)
    BY <1>2, NativeStays
  <2>2. /\ UNCHANGED <<frameVars, recordVars>>
        /\ end' = "no" => end = "no"
        /\ end' = "no" => OpenRuns' = OpenRuns
        /\ ContIsInRun'
    <3>1. CASE \E how \in Ends \ {"no"} : Crash(how)
      BY <3>1 DEF Crash, ContIsInRun
    <3>2. CASE ~ \E how \in Ends \ {"no"} : Crash(how)
      BY <1>1, <1>2, <2>1, <3>2, NaturalsAreNotNULL DEF Stays, OpenRuns, ContIsInRun
    <3> QED BY <3>1, <3>2
  <2>3. frames' = frames /\ live' = live /\ phase' = phase /\ ret' = ret
    BY <2>2 DEF frameVars, recordVars
  <2> QED BY <1>1, <2>2, <2>3, SameFrames
<1>3. CASE \E how \in Ends \ {"no"} : Crash(how)
  <2>1. /\ frames' = frames /\ live' = live /\ phase' = phase /\ ret' = ret /\ cont' = Idle
        /\ end' # "no"
    BY <1>3 DEF Crash, frameVars, recordVars
  <2> QED BY <1>1, <2>1, SameFrames DEF ContIsInRun
<1>4. CASE F!CallFreedScope(callee)
             /\ UNCHANGED <<prog, ip, stack, recordVars, natives, cont, heapVars, end, result>>
  <2>1. /\ frames' = frames /\ live' = live /\ phase' = phase /\ ret' = ret /\ cont' = Idle
        /\ UNCHANGED <<ip, natives, end>>
    BY <1>4 DEF F!CallFreedScope, F!Fail, recordVars
  <2> QED BY <1>1, <2>1, SameFrames DEF ContIsInRun, OpenRuns
<1>5. CASE /\ \E g \in Frame : F!Fresh(g)
           /\ F!Call(callee, NewFrame)
           /\ EnterFrame(NewFrame, receiver, args, max, r, k)
           /\ UNCHANGED cont
  <2>1. PICK g \in Frame : g = NewFrame
    BY <1>5 DEF NewFrame
  <2>2. /\ F!Fresh(g) /\ frames' = Append(frames, g) /\ live' = live \union {g}
        /\ ret' = [ret EXCEPT ![g] = r] /\ UNCHANGED <<end, phase>> /\ cont' = Idle
    BY <1>5, <2>1 DEF F!Call, F!PushFrame, EnterFrame
  <2>3. OpenRuns' = OpenRuns + (IF r = NULL THEN 1 ELSE 0)
    <3>1. ip' = 0 /\ Len(natives') = Len(natives)
      BY <1>5 DEF EnterFrame
    <3>2. ip' # NULL
      BY <3>1, NaturalsAreNotNULL
    <3>3. OpenRuns' = Len(natives) + 1
      BY <3>1, <3>2 DEF OpenRuns
    <3>4. OpenRuns = Len(natives) + (IF r = NULL THEN 0 ELSE 1)
      BY DEF OpenRuns
    <3> QED BY <1>1, <3>3, <3>4
  <2> QED BY <1>1, <2>2, <2>3, OneFrameMore DEF ContIsInRun
<1> QED BY <1>2, <1>3, <1>4, <1>5 DEF CallFunction, CallClosure, Ends

\* SEND.
LEMMA SendRuns ==
  ASSUME RunInv, TypeInv, Send
  PROVE  RunInv'
<1> DEFINE n == Literal(Operand(1))
           argc == Operand(2)
           k == After(3, Without(argc + 1))
           args == [i \in 1..argc |-> Peek(i)]
           receiver == Peek(argc + 1)
           callee == Lookup(receiver, n)
<1>1. At(SEND) /\ ip \in Nat /\ cont = Idle /\ WaitsOK(natives)
  BY Decode DEF Send, TypeInv, ValueInv, ControlInv
<1>2. k.next \in Nat /\ k.natives = natives /\ ip # NULL /\ k.next # NULL
  BY <1>1, NaturalsAreNotNULL DEF After
<1>3. \/ \E S : Trouble(S) # "none" /\ Crash(Trouble(S))
      \/ Abort
      \/ CallFunction(receiver, self[Current], args, argc + 1, k.next, k)
      \/ CallFunction(callee, receiver, args, argc + 1, k.next, k)
      \/ GoOn(k, callee)
  BY DEF Send, Using
<1> HIDE DEF k, args, receiver, callee, argc, n
<1>4. CASE (\E S : Trouble(S) # "none" /\ Crash(Trouble(S))) \/ Abort \/ GoOn(k, callee)
  <2>1. Stays(k)
    BY <1>4, TroubleStays, AbortStays, GoOnStays
  <2> QED BY <1>1, <1>2, <2>1, StaysInRun
<1>5. CASE \E c, s : CallFunction(c, s, args, argc + 1, k.next, k)
  BY <1>1, <1>2, <1>5, CalleeRuns
<1> QED BY <1>3, <1>4, <1>5

\* All that neither call nor return.
LEMMA InstructionRuns ==
  ASSUME RunInv, TypeInv,
         \/ Skip \/ RunOff \/ PushConstant \/ Jump \/ Goto \/ Pop \/ GetSlot
         \/ PushLocal \/ PushLocalDepth \/ SetLocal \/ SetLocalDepth
         \/ Defn \/ MakeVec \/ SetSlot \/ Dump
  PROVE  RunInv'
<1>1. /\ ip \in Nat /\ ip # NULL /\ cont = Idle
      /\ \A st : \A cells \in Nat : /\ After(cells, st).next \in Nat
                                     /\ After(cells, st).natives = natives
  <2>1. Ready
    BY DEF Skip, RunOff, PushConstant, Jump, Goto, Pop, GetSlot, PushLocal, PushLocalDepth,
           SetLocal, SetLocalDepth, Defn, MakeVec, SetSlot, Dump, At
  <2> QED BY <2>1, CodeIsThere, NaturalsAreNotNULL DEF Ready, After
<1>2. ASSUME NEW k, k.next \in Nat, k.natives = natives, Stays(k) PROVE RunInv'
  BY <1>1, <1>2, StaysInRun
<1>3. CASE \E how \in Ends \ {"no"} : Crash(how)
  <2> DEFINE k == After(0, stack)
  <2>1. Stays(k)
    BY <1>3 DEF Stays
  <2> QED BY <1>1, <1>2, <2>1
<1>4. CASE \E st : \E next \in Nat : Proceed(next, st)
  <2>1. PICK st : \E next \in Nat : Proceed(next, st)
    BY <1>4
  <2>a. PICK next \in Nat : Proceed(next, st)
    BY <2>1
  <2> DEFINE k == [next |-> next, natives |-> natives]
  <2>2. Stays(k)
    BY <2>a DEF Stays, Proceed
  <2> QED BY <1>2, <2>2
<1>a. ASSUME NEW cells \in Nat, NEW st, Advance(cells, st) PROVE RunInv'
  <2>1. ip + cells \in Nat
    BY <1>1
  <2> QED BY <1>4, <1>a, <2>1 DEF Advance
<1>b. ASSUME Abort PROVE RunInv'
  BY <1>3, <1>b DEF Abort, Ends
<1>5. ASSUME NEW f, NEW i, NEW cells \in Nat, SetLocalOf(f, i, cells) PROVE RunInv'
  <2>1. SetLocalOf(f, i, cells)
    BY <1>5
  <2>2. CASE \E st : Proceed(ip + cells, st)
    BY <1>1, <1>4, <2>2
  <2>3. CASE Crash("freed frame")
    BY <1>3, <2>3 DEF Ends
  <2>4. CASE /\ ip' = ip + cells
             /\ UNCHANGED <<frameVars, prog, stack, self, ret, base, natives, cont, heapVars,
                            end, result>>
    <3>1. /\ frames' = frames /\ live' = live /\ phase' = phase /\ ret' = ret /\ end' = end
          /\ cont' = Idle /\ natives' = natives /\ ip' # NULL /\ F!TypeOK
      BY <1>1, <2>4, NaturalsAreNotNULL DEF frameVars, TypeInv
    <3>2. OpenRuns' = OpenRuns
      BY <1>1, <3>1 DEF OpenRuns
    <3> QED BY <3>1, <3>2, SameFrames DEF ContIsInRun
  <2> QED BY <2>1, <2>2, <2>3, <2>4 DEF SetLocalOf, Advance
<1>6. CASE Skip \/ RunOff \/ PushConstant \/ Pop
  <2>1. At(POP) => Operand(1) \in Nat
    BY Decode
  <2>2. CASE RunOff
    BY <1>3, <2>2 DEF RunOff, Ends
  <2>3. CASE Skip
    BY <1>a, <2>3 DEF Skip
  <2>4. CASE PushConstant
    BY <1>a, <2>4 DEF PushConstant
  <2>5. CASE Pop
    BY <1>a, <1>b, <2>5 DEF Pop
  <2> QED BY <1>6, <2>2, <2>3, <2>4, <2>5
<1>7. CASE Jump \/ Goto
  <2>1. At(JMP) \/ At(JIF) \/ At(JIT) \/ At(GOTO) => Operand(1) \in Nat
    BY Decode
  <2>2. At(GOTO) => Operand(1) - 1 \in Nat
    <3>1. At(GOTO) => Operand(1) >= 2
      BY DEF At, InBounds, GOTO
    <3> QED BY <2>1, <3>1
  <2> QED BY <1>1, <1>4, <1>7, <2>1, <2>2 DEF Jump, Goto, Advance
<1>8. CASE GetSlot
  <2>1. ASSUME NEW S, Trouble(S) # "none", Crash(Trouble(S)) PROVE RunInv'
    BY <1>3, <2>1 DEF Trouble, Ends
  <2> QED BY <1>a, <1>b, <1>8, <2>1 DEF GetSlot, Using
<1>9. CASE PushLocal \/ PushLocalDepth
  <2>1. ASSUME Crash("freed frame") \/ Crash("local bounds") PROVE RunInv'
    BY <1>3, <2>1 DEF Ends
  <2> QED BY <1>a, <1>9, <2>1 DEF PushLocal, PushLocalDepth, PushLocalOf
<1>10. CASE SetLocal \/ SetLocalDepth
  BY <1>5, <1>10 DEF SetLocal, SetLocalDepth
<1>11. CASE Defn \/ Dump
  <2>1. ASSUME NEW k, NEW kind, NEW name, k.next \in Nat, k.natives = natives,
               kind \notin {"index", "file"}, Make(kind, << >>, name, k)
        PROVE  RunInv'
    BY <1>2, <2>1, AllocateStays DEF Make
  <2>2. CASE Defn
    BY <1>1, <2>1, <2>2 DEF Defn
  <2>3. CASE Dump
    <3>1. CASE \E S : Obstacle(S) # "none" /\ Crash(Obstacle(S))
      BY <1>3, <3>1 DEF Obstacle, Trouble, Ends
    <3>2. CASE Advance(1, stack)
      BY <1>a, <3>2
    <3>3. CASE Make("print", << >>, NULL, After(1, stack))
      BY <1>1, <2>1, <3>3
    <3> QED BY <2>3, <3>1, <3>2, <3>3 DEF Dump, Describing
  <2> QED BY <1>11, <2>2, <2>3
<1>12. CASE MakeVec
  <2>1. CASE \E S : Trouble(S) # "none" /\ Crash(Trouble(S))
    BY <1>3, <2>1 DEF Trouble, Ends
  <2>2. CASE Abort
    BY <1>3, <2>2 DEF Abort, Ends
  <2>3. CASE \E values, safe, st : Allocate("Vector", values, safe, NULL, After(2, st))
    BY <1>1, <1>2, <2>3, AllocateStays
  <2> QED BY <1>12, <2>1, <2>2, <2>3 DEF MakeVec, Using
<1>13. CASE SetSlot
  <2>1. CASE \E S : Trouble(S) # "none" /\ Crash(Trouble(S))
    BY <1>3, <2>1 DEF Trouble, Ends
  <2>2. CASE Abort
    BY <1>3, <2>2 DEF Abort, Ends
  <2>3. CASE \E values, safe, name, st : Allocate("field", values, safe, name, After(2, st))
    BY <1>1, <1>2, <2>3, AllocateStays
  <2> QED BY <1>13, <2>1, <2>2, <2>3 DEF SetSlot, Using, BeginSet
<1> QED BY <1>6, <1>7, <1>8, <1>9, <1>10, <1>11, <1>12, <1>13

\* RET ends the VM_run whose frame it pops.
LEMMA ReturnRuns ==
  ASSUME RunInv, TypeInv, Return
  PROVE  RunInv'
<1>1. /\ Ready /\ ip \in Nat /\ ip # NULL /\ cont = Idle /\ Current \in live /\ frames # << >>
      /\ F!TypeOK /\ end = "no"
  BY Decode, NaturalsAreNotNULL DEF Return, Ready, Going, F!Running, TypeInv
<1>2. /\ F!PopFrame /\ live' \subseteq live /\ phase' = phase /\ cont' = Idle
      /\ natives' = natives /\ \A f \in live' : ret'[f] = ret[f]
  BY <1>1 DEF Return, F!Ret, F!RetCaptured, F!Free, DropRecords, Kept, TypeInv, F!TypeOK
<1>3. ASSUME end' = "no"
      PROVE  OpenRuns' = OpenRuns - (IF ret[Current] = NULL THEN 1 ELSE 0)
  <2>1. ip' = ret[Current]
    BY <1>3 DEF Return
  <2>2. Len(natives) \in Nat
    BY DEF TypeInv, ValueInv, ControlInv, WaitsOK
  <2>3. OpenRuns = Len(natives) + 1 /\ OpenRuns' = Len(natives) + (IF ret[Current] = NULL THEN 0 ELSE 1)
    BY <1>1, <1>2, <2>1 DEF OpenRuns
  <2> QED BY <2>2, <2>3
<1> QED BY <1>1, <1>2, <1>3, OneFrameLess DEF ContIsInRun
------------------------------------------------------------------------------
(***************************************************************************)
(* Natives                                                                 *)
(***************************************************************************)
\* A step that leaves the frames alone.
LEMMA StillRuns ==
  ASSUME RunInv, TypeInv, UNCHANGED <<frameVars, ret>>,
         end' = "no" => end = "no" /\ OpenRuns' = OpenRuns, ContIsInRun'
  PROVE  RunInv'
<1>1. frames' = frames /\ live' = live /\ phase' = phase /\ ret' = ret /\ F!TypeOK
  BY DEF frameVars, TypeInv
<1> QED BY <1>1, SameFrames

LEMMA CrashRuns ==
  ASSUME RunInv, TypeInv, NEW how \in Ends \ {"no"}, Crash(how)
  PROVE  RunInv'
<1>1. UNCHANGED <<frameVars, ret>> /\ end' # "no" /\ ContIsInRun'
  BY DEF Crash, recordVars, RunInv, ContIsInRun
<1> QED BY <1>1, StillRuns

LEMMA TroubleRuns ==
  ASSUME RunInv, TypeInv, NEW S, Trouble(S) # "none", Crash(Trouble(S))
  PROVE  RunInv'
BY CrashRuns DEF Trouble, Ends

\* A native that loops starts a VM_run for each call of the closure it was given.
LEMMA InvokeRuns ==
  ASSUME RunInv, TypeInv, NativesCallClosures, NativeHasControl, Waiting.kind # "require",
         NEW args, Invoke(args)
  PROVE  RunInv'
<1> DEFINE next == [Waiting EXCEPT !.index = @ + 1]
           ns == [natives EXCEPT ![Len(natives)] = [next EXCEPT !.values = SubSeq(@, 1, 2)]]
           k == [next |-> 0, stack |-> stack, natives |-> ns]
<1>1. /\ natives \in Seq(Wait) /\ natives # << >> /\ ip = NULL /\ cont = Idle
      /\ Len(natives) \in 1..Len(natives)
  BY WaitingIsOK DEF NativeHasControl, TypeInv, ValueInv, ControlInv, WaitsOK
<1>2. Waiting.values[2] \notin Native
  BY <1>1 DEF NativesCallClosures, Waiting
<1>3. WaitsOK(ns) /\ Len(ns) = Len(natives)
  BY InvokedWaits, <1>1 DEF TypeInv
<1>4. \/ Trouble({Waiting.values[2]}) # "none" /\ Crash(Trouble({Waiting.values[2]}))
      \/ CallFunction(Waiting.values[2], self[Current], args, 10, NULL, k)
  BY DEF Invoke, Using
<1>5. k.next \in Nat /\ k.natives = ns
  OBVIOUS
<1> HIDE DEF ns, next, k
<1> QED BY <1>1, <1>2, <1>3, <1>4, <1>5, TroubleRuns, CalleeRuns

LEMMA EachRuns ==
  ASSUME RunInv, TypeInv, NativesCallClosures, EachElement \/ EachIndexed
  PROVE  RunInv'
<1>1. CASE \E S : Trouble(S) # "none" /\ Crash(Trouble(S))
  BY <1>1, TroubleRuns
<1>2. CASE EachElement /\ Invoke(<<NextElement>>)
  BY <1>2, InvokeRuns DEF EachElement, Iterating
<1>3. CASE EachIndexed
  BY <1>3, InvokeRuns DEF EachIndexed, Iterating
<1> QED BY <1>1, <1>2, <1>3 DEF EachElement, Using

\* Counting, and a native that is done: the VM_run that it interrupted goes on.
LEMMA NativeRuns ==
  ASSUME RunInv, TypeInv, EachIndex \/ EachDone \/ RequireFile \/ RequireDone
  PROVE  RunInv'
<1>1. /\ NativeHasControl /\ natives \in Seq(Wait) /\ natives # << >> /\ ip = NULL /\ cont = Idle
      /\ Len(natives) \in Nat /\ Waiting.next \in Nat
  BY WaitingIsOK DEF EachIndex, EachDone, RequireFile, RequireDone, Iterating, NativeHasControl,
                     TypeInv, ValueInv, ControlInv, WaitsOK, Wait
<1>2. CASE \E S : Trouble(S) # "none" /\ Crash(Trouble(S))
  BY <1>2, TroubleRuns
<1>3. CASE \E st, v : GoOn([next |-> Waiting.next, stack |-> st, natives |-> NativesBelow], v)
  <2>1. /\ ip' = Waiting.next /\ natives' = NativesBelow /\ cont' = Idle /\ end' = end
        /\ UNCHANGED <<frameVars, ret>>
    BY <1>1, <1>3 DEF GoOn, recordVars
  <2>2. Len(NativesBelow) = Len(natives) - 1
    <3> DEFINE n == Len(natives) - 1
    <3>1. n \in Nat /\ \A i \in 1..n : natives[i] \in Wait
      BY <1>1
    <3>2. NativesBelow = SubSeq(natives, 1, n)
      BY DEF NativesBelow
    <3> HIDE DEF n
    <3>3. Len(NativesBelow) = n
      BY <3>1, <3>2, SubSeqProperties
    <3> QED BY <3>3 DEF n
  <2>3. OpenRuns' = Len(natives) - 1 + 1
    BY <1>1, <2>1, <2>2, NaturalsAreNotNULL DEF OpenRuns
  <2>4. OpenRuns = Len(natives) + 0
    BY <1>1 DEF OpenRuns
  <2> QED BY <1>1, <2>1, <2>3, <2>4, StillRuns DEF ContIsInRun
<1>4. CASE \E values : Make("index", values, Waiting.index,
                            [next |-> NULL, stack |-> stack, natives |-> natives])
  <2>1. /\ UNCHANGED <<frameVars, ret, ip, natives, end>> /\ cont'.kind = "index"
    BY <1>4 DEF Make, Allocate, recordVars
  <2> QED BY <1>1, <2>1, StillRuns DEF ContIsInRun, OpenRuns
<1>5. CASE Make("file", << >>, NULL, [next |-> NULL, stack |-> stack, natives |-> natives])
  <2>1. /\ UNCHANGED <<frameVars, ret, ip, natives, end>> /\ cont'.kind = "file"
    BY <1>5 DEF Make, Allocate, recordVars
  <2> QED BY <1>1, <2>1, StillRuns DEF ContIsInRun, OpenRuns
<1>6. CASE Abort
  BY <1>6, CrashRuns DEF Abort, Ends
<1> QED BY <1>2, <1>3, <1>4, <1>5, <1>6 DEF EachIndex, EachDone, RequireDone, RequireFile, Using

\* Primitive_require runs a VM_run for the file.
LEMMA RequireRuns ==
  ASSUME RunInv, TypeInv, FinishFile
  PROVE  RunInv'
<1>1. /\ natives \in Seq(Wait) /\ Len(natives) \in Nat /\ ip = NULL
      /\ F!TypeOK /\ RecordInv
  BY DEF FinishFile, Unfinished, RunInv, TypeInv, ValueInv, ControlInv, WaitsOK
<1>2. CASE Crash("bound")
  BY <1>2, CrashRuns DEF Ends
<1>3. CASE /\ \E g \in Frame : F!Fresh(g)
           /\ F!Require(NewFrame)
           /\ EnterFrame(NewFrame, "lobby", << >>, 10, NULL,
                [stack |-> stack, natives |-> [natives EXCEPT ![Len(natives)].index = 1]])
           /\ cont' = Idle
  <2>1. PICK g \in Frame : g = NewFrame
    BY <1>3 DEF NewFrame
  <2>2. /\ F!Fresh(g) /\ frames' = Append(frames, g) /\ live' = live \union {g}
        /\ ret' = [ret EXCEPT ![g] = NULL] /\ UNCHANGED <<end, phase>> /\ cont' = Idle
    BY <1>1, <1>3, <2>1 DEF F!Require, F!PushFrame, EnterFrame
  <2>3. OpenRuns' = OpenRuns + 1
    <3>1. ip' = 0 /\ natives' = [natives EXCEPT ![Len(natives)].index = 1]
      BY <1>3 DEF EnterFrame
    <3>2. Len(natives') = Len(natives) /\ ip' # NULL
      BY <1>1, <3>1, NaturalsAreNotNULL
    <3> QED BY <1>1, <3>2 DEF OpenRuns
  <2> QED BY <1>1, <2>2, <2>3, OneFrameMore DEF ContIsInRun
<1> QED BY <1>2, <1>3 DEF FinishFile
------------------------------------------------------------------------------
(***************************************************************************)
(* Allocations, collections and the end                                    *)
(***************************************************************************)
\* The rest of an instruction goes on where the instruction would have.
LEMMA FinishRuns ==
  ASSUME RunInv, TypeInv,
         \/ ReadAgain \/ FinishClosure \/ FinishValue \/ FinishMap \/ FinishIndex \/ FinishField
         \/ FinishNil \/ FinishPrint \/ OutOfCells
  PROVE  RunInv'
<1>1. cont # Idle /\ ContIsInRun /\ natives \in Seq(Wait) /\ Len(natives) \in Nat
  <2>1. \E kind : Unfinished(kind) \/ Makings(kind) \/ OutOfCells
    BY DEF ReadAgain, FinishClosure, FinishValue, FinishMap, FinishIndex, FinishField, FinishNil,
           FinishPrint
  <2>2. cont # Idle
    BY <2>1 DEF Unfinished, Makings, OutOfCells
  <2> QED BY <2>2 DEF RunInv, ContIsInRun, TypeInv, ValueInv, ControlInv, WaitsOK
<1>2. CASE \E how \in Ends \ {"no"} : Crash(how)
  BY <1>2, CrashRuns
<1>3. CASE \E S : Trouble(S) # "none" /\ Crash(Trouble(S))
  BY <1>3, TroubleRuns
<1>4. ASSUME UNCHANGED <<frames, live, phase, ret, natives, end>>,
             cont.kind \notin {"index", "file"}, ip' = cont.next, cont' = Idle
      PROVE  RunInv'
  <2>1. OpenRuns' = OpenRuns
    BY <1>1, <1>4 DEF OpenRuns, ContIsInRun
  <2> QED BY <1>4, <2>1, SameFrames DEF ContIsInRun, TypeInv
<1>5. CASE FinishIndex
  <2>1. /\ UNCHANGED <<frames, live, phase, ret, end, ip>> /\ cont' = Idle
        /\ natives' = [natives EXCEPT ![Len(natives)].values =
                         @ \o <<cont.values[1], NewObject>>]
    BY <1>5 DEF FinishIndex, frameVars, recordVars
  <2>2. Len(natives') = Len(natives)
    BY <1>1, <2>1
  <2> QED BY <2>1, <2>2, SameFrames DEF ContIsInRun, OpenRuns, TypeInv
<1>6. CASE FinishClosure /\ ~ Crash("no value")
  <2>1. /\ UNCHANGED <<frames, live, phase, ret, natives, end>>
        /\ cont.kind \notin {"index", "file"}
        /\ ip' = cont.next /\ cont' = Idle
    BY <1>6 DEF FinishClosure, Finish, Unfinished, F!Defn, recordVars
  <2> QED BY <1>4, <2>1
<1>7. CASE \E v : Finish(v) /\ UNCHANGED frameVars /\ cont.kind \notin {"index", "file"}
  BY <1>4, <1>7 DEF Finish, frameVars, recordVars
<1>8. CASE FinishValue
  BY <1>7, <1>8 DEF FinishValue, Makings
<1>9. CASE FinishMap
  BY <1>2, <1>3, <1>7, <1>9 DEF FinishMap, Makings, Using, Ends
<1>10. CASE FinishField \/ FinishNil
  BY <1>2, <1>7, <1>10 DEF FinishField, FinishNil, Unfinished, Ends
<1>11. CASE FinishPrint
  BY <1>4, <1>11 DEF FinishPrint, Unfinished, frameVars, recordVars
<1>12. CASE OutOfCells \/ Crash("no value")
  BY <1>2, <1>12 DEF OutOfCells, Ends
<1>13. CASE ReadAgain /\ ~ \E S : Trouble(S) # "none" /\ Crash(Trouble(S))
  <2>1. /\ UNCHANGED <<frames, live, phase, ret, natives, end, ip>>
        /\ cont' = [cont EXCEPT !.values = << >>] /\ ContOK(cont) /\ ContIsInRun
    BY <1>1, <1>13 DEF ReadAgain, Using, frameVars, recordVars, TypeInv, ValueInv, ControlInv
  <2>2. cont'.kind = cont.kind /\ cont'.next = cont.next
    BY <2>1 DEF ContOK
  <2>3. ContIsInRun' /\ OpenRuns' = OpenRuns
    BY <1>1, <2>1, <2>2 DEF ContIsInRun, OpenRuns
  <2> QED BY <2>1, <2>3, SameFrames DEF TypeInv
<1> QED BY <1>3, <1>5, <1>6, <1>8, <1>9, <1>10, <1>11, <1>12, <1>13

\* The collector and State_destroy pop no frame.
LEMMA CollectorRuns ==
  ASSUME RunInv, TypeInv, Collect \/ CollectFreed \/ Destroy \/ CurrentFreed \/ Stranded \/ Exit
  PROVE  RunInv'
<1> USE DEF RunInv, ContIsInRun
<1>1. CASE Stranded \/ Crash("freed value")
  BY <1>1, CrashRuns DEF Stranded, Ends
<1>2. ASSUME UNCHANGED <<frames, ip, natives, cont, end>>, live' \subseteq live,
             \A f \in live' : ret'[f] = ret[f], phase' = "running" => phase = "running"
      PROVE  RunInv'
  BY <1>2, SameFrames DEF OpenRuns, TypeInv
<1>3. CASE Collect
  <2>1. UNCHANGED <<frames, ip, natives, cont, end, live, ret, phase>>
    BY <1>3 DEF Collect, F!Collect, frameVars, recordVars
  <2> QED BY <1>2, <2>1
<1>4. CASE (CollectFreed \/ CurrentFreed) /\ ~ Crash("freed value")
  <2>1. UNCHANGED <<frames, ip, natives, cont, end, live, ret, phase>>
    BY <1>4 DEF CollectFreed, CurrentFreed, F!CollectFreed, F!CurrentFreed, F!Fail, recordVars
  <2> QED BY <1>2, <2>1
<1>5. CASE Destroy
  <2>1. /\ UNCHANGED <<frames, ip, natives, cont, end, phase>> /\ live' \subseteq live
        /\ DropRecords
    BY <1>5 DEF Destroy, F!Sweep, F!Release, F!ReleaseFreed, F!Fail, F!Free
  <2>2. \A f \in live' : ret'[f] = ret[f]
    BY <2>1 DEF DropRecords, Kept, TypeInv, F!TypeOK
  <2> QED BY <1>2, <2>1, <2>2
<1>6. CASE Exit
  <2>1. /\ UNCHANGED <<frames, ip, natives, cont, end, live, ret>> /\ phase' # "running"
    BY <1>6 DEF Exit, F!Exit, F!ExitDone, recordVars
  <2> QED BY <1>2, <2>1
<1> QED BY <1>1, <1>3, <1>4, <1>5, <1>6
------------------------------------------------------------------------------
LEMMA RunInvInit == Init => RunInv
<1> SUFFICES ASSUME Init PROVE RunInv
  OBVIOUS
<1>1. frames = <<Top>> /\ ret[Top] = NULL /\ natives = << >> /\ ip # NULL /\ cont = Idle
  BY InstanceAssumption, NaturalsAreNotNULL DEF Init, F!Init
<1>2. Heads = {1}
  BY <1>1 DEF Heads
<1>3. Cardinality({1}) = 1
  BY FS_Singleton
<1>4. OpenRuns = 1
  BY <1>1 DEF OpenRuns
<1> QED BY <1>1, <1>2, <1>3, <1>4 DEF RunInv

LEMMA RunInvNext == RunInv /\ TypeInv /\ NativesCallClosures /\ [Next]_vars => RunInv'
<1> SUFFICES ASSUME RunInv, TypeInv, NativesCallClosures, [Next]_vars PROVE RunInv'
  OBVIOUS
<1>1. CASE \/ Skip \/ RunOff \/ PushConstant \/ Jump \/ Goto \/ Pop \/ GetSlot
           \/ PushLocal \/ PushLocalDepth \/ SetLocal \/ SetLocalDepth
           \/ Defn \/ MakeVec \/ SetSlot \/ Dump
  BY <1>1, InstructionRuns
<1>2. CASE Send \/ Return
  BY <1>2, SendRuns, ReturnRuns
<1>3. CASE EachElement \/ EachIndex \/ EachIndexed \/ EachDone \/ RequireFile \/ RequireDone
             \/ FinishFile
  BY <1>3, EachRuns, NativeRuns, RequireRuns
<1>4. CASE \/ ReadAgain \/ FinishClosure \/ FinishValue \/ FinishMap \/ FinishIndex \/ FinishField
           \/ FinishNil \/ FinishPrint \/ OutOfCells
  BY <1>4, FinishRuns
<1>5. CASE Collect \/ CollectFreed \/ Destroy \/ CurrentFreed \/ Stranded \/ Exit
  BY <1>5, CollectorRuns
<1>6. CASE Halted \/ UNCHANGED vars
  <2>1. UNCHANGED <<frames, live, phase, ret, natives, end, ip, cont>>
    BY <1>6 DEF Halted, vars, frameVars, recordVars
  <2> QED BY <2>1, SameFrames DEF RunInv, ContIsInRun, OpenRuns, TypeInv
<1> QED BY <1>1, <1>2, <1>3, <1>4, <1>5, <1>6 DEF Next

\* vm.c, function.c, primitives.c: whatever the program does, each VM_run ends with the frame
\* that was pushed for it, and returns to the native that started it, unless a native was
\* given a native to call.
THEOREM RunsAreNested == Spec => RunsMatch
<1>1. RunInv => RunsMatchFrames
  BY DEF RunInv, RunsMatchFrames, Heads, OpenRuns, Going, F!Running
<1> QED BY <1>1, RunInvInit, RunInvNext, RunsAreTyped, PTL DEF Spec, RunsMatch
==============================================================================
