---------------------------------- MODULE VM -----------------------------------
(***************************************************************************)
(* The interpreter of TerrorVM: VM_run with its operand stack, its locals  *)
(* and slots, the natives that call back into it, and the collector as     *)
(* gc.c parameterises it.  Call frames are those of module Frames, whose   *)
(* actions are conjuncts of the actions below.                             *)
(*                                                                         *)
(* A program is its bytecode, cell by cell as in a .tvm file: jumps count  *)
(* cells, and an operand that is jumped to is read as an opcode.  Numbers  *)
(* are integers and a literal string is its text.                          *)
(*                                                                         *)
(* An instruction that allocates takes two steps, because any allocation   *)
(* may collect: its operands have been popped by then, and only `cont',    *)
(* the C locals of the instruction, still holds them.                      *)
(***************************************************************************)
EXTENDS Integers, FiniteSets, TLC, SequencesExt, Opcode

CONSTANTS
    Frame, Closure, Function, Top, NULL,    \* as in Frames
    Object,         \* the memory cells other values are allocated from
    Number,         \* the literal numbers
    IntOf,          \* the value of each
    Name,           \* the literal strings, which name slots and functions
    Program,        \* the programs to run, as a sequence
    Collects,       \* may an allocation start a collection
    Depth           \* bound on the natives that wait for VM_run to return

ASSUME InstanceAssumption ==
    /\ IsFiniteSet(Frame) /\ IsFiniteSet(Closure) /\ IsFiniteSet(Object)
    /\ Top \in Frame
    /\ NULL \notin Frame \union Nat
    /\ Function \subseteq Name
    /\ IntOf \in [Number -> Int]
    /\ Collects \in BOOLEAN
    /\ Depth \in Nat

VARIABLES
    frames, live, refcount, parent, code, scope, made, home, releasing, condemned,
    phase, fault,   \* as in Frames
    prog,       \* the program that was loaded
    ip,         \* the next cell of the current frame's code; NULL: a native has control
    stack,      \* STACK, the operand stack, its top last
    self,       \* frame->self
    locals,     \* frame->locals
    ret,        \* frame->ret, NULL for the frames at which VM_run returns
    base,       \* history: the height of STACK when the frame was pushed
    natives,    \* the natives whose VM_run has not returned, innermost last
    cont,       \* what is left to do of an instruction that is allocating
    obj,        \* the values: type (NULL: no value takes the cell), prototype, data if it has any
    slots,      \* val->table
    fields,     \* val->fields: the names that Value_each visits
    end,        \* how the process ended early: by check(), or undefined behaviour
    result      \* what VM_run returned to VM_start

frameVars == <<frames, live, refcount, parent, code, scope, made, home,
               releasing, condemned, phase, fault>>
recordVars == <<self, locals, ret, base>>
heapVars == <<obj, slots, fields>>
vars == <<frameVars, prog, ip, stack, recordVars, natives, cont, heapVars, end, result>>

F == INSTANCE Frames WITH Collection <- "any", Redefinition <- TRUE, Requires <- TRUE

Current == F!Current
------------------------------------------------------------------------------
(***************************************************************************)
(* Values                                                                  *)
(***************************************************************************)
Blueprint == {"Object", "Number", "String", "Vector", "Map", "Closure"}

\* The natives that compute a number, those that compare two, and all of them.
Arithmetic == {"Primitive_Number_add", "Primitive_Number_sub", "Primitive_Number_mul",
               "Primitive_Number_div"}

Comparison == {"Primitive_Number_gt", "Primitive_Number_lt"}

Native == Arithmetic \union Comparison \union
    {"Primitive_to_s", "Primitive_prototype", "Primitive_or", "Primitive_equals",
     "Primitive_is", "Primitive_clone", "Primitive_print", "Primitive_puts",
     "Primitive_require", "Primitive_String_concat", "Primitive_Vector_at",
     "Primitive_Vector_push", "Primitive_Vector_each", "Primitive_Vector_each_with_index",
     "Primitive_Vector_to_map", "Primitive_Map_get", "Primitive_Map_set"}

\* What Runtime_init, the bootstrap and the loader make: all of it is a root.
Permanent == Blueprint \union Native \union Number \union Name
               \union {"nil", "true", "false", "lobby"}

Value == Permanent \union Closure \union Object

\* No value is two things.
ASSUME ValueAssumption ==
    /\ NULL \notin Value
    /\ Object \intersect (Permanent \union Closure) = {}
    /\ Closure \intersect Permanent = {}
    /\ Name \intersect (Number \union Native \union Blueprint) = {}
    /\ Number \intersect (Native \union Blueprint) = {}
    /\ {"nil", "true", "false", "lobby"} \intersect (Name \union Number) = {}

\* The cells of a program are those the compiler writes, which are not negative, its
\* literals are numbers and strings, and VM_start has found its main function.  The values
\* that a test puts in its locals are made before it runs.
ASSUME ProgramAssumption ==
    \A i \in DOMAIN Program :
        LET p == Program[i] IN
        /\ DOMAIN p = {"code", "literals", "arguments", "result"}
        /\ "main" \in DOMAIN p.code
        /\ DOMAIN p.literals = DOMAIN p.code
        /\ \A f \in DOMAIN p.code : /\ p.code[f] \in Seq(Nat)
                                    /\ p.literals[f] \in Seq(Number \union Name)
        /\ p.arguments \in Seq(Permanent)
        /\ Len(p.arguments) <= 10

TypeOf(v) ==
    CASE v \in Closure \union Native -> "Closure"
      [] v \in Object -> obj[v].type
      [] v \in Number -> "Number"
      [] v \in Name -> "String"
      [] v \in Blueprint \union {"nil", "true", "false"} -> v
      [] OTHER -> "Object"

PrototypeOf(v) ==
    CASE v \in Object -> obj[v].prototype
      [] v \in Blueprint -> IF v = "Object" THEN NULL ELSE "Object"
      [] v \in Closure \union Native \union Number \union Name -> TypeOf(v)
      [] OTHER -> "Object"

\* A cell that no value takes.
Unused == [type |-> NULL, prototype |-> NULL, own |-> FALSE, data |-> NULL]

Allocated(v) ==
    /\ v \in Closure => made[v] # NULL
    /\ v \in Object => obj[v].type # NULL

\* Value_get looks in the value's own table and then in those of its prototypes: where it
\* stops, because the name is found, no prototype is left or the next one was freed.
Owner(v, n) ==
    LET Step[d \in 0..Cardinality(Object) + 2] ==
          IF d = 0 THEN v
          ELSE LET w == Step[d - 1]
               IN  IF ~ Allocated(w) \/ n \in DOMAIN slots[w] \/ PrototypeOf(w) = NULL THEN w
                   ELSE PrototypeOf(w)
    IN  Step[Cardinality(Object) + 2]

Lookup(v, n) == IF n \in DOMAIN slots[Owner(v, n)] THEN slots[Owner(v, n)][n] ELSE NULL

\* VAL2NUM, VAL2STR and VAL2ARY.  A blueprint, and what is cloned, has no data: its number
\* is 0, its string and its array are NULL.
Own(v) == v \notin Blueprint /\ (v \in Object => obj[v].own)

NumberOf(v) == IF v \in Number THEN IntOf[v] ELSE IF Own(v) THEN obj[v].data ELSE 0

TextOf(v) == IF v \in Object THEN obj[v].data ELSE v

\* What an access to the data of v comes to: v, or the NULL pointer.
DataOf(v) == IF v # NULL /\ Own(v) THEN v ELSE NULL

Table(pairs) == [n \in {p[1] : p \in pairs} |-> (CHOOSE p \in pairs : p[1] = n)[2]]

\* The slots that Runtime_init and the alpha prelude install; `require', which the prelude
\* leaves in VM.primitives, is a slot of the strings here.
Natives ==
    [Object |-> Table({<<"to_s", "Primitive_to_s">>, <<"prototype", "Primitive_prototype">>,
                       <<"or", "Primitive_or">>, <<"clone", "Primitive_clone">>,
                       <<"print", "Primitive_print">>, <<"puts", "Primitive_puts">>,
                       <<"==", "Primitive_equals">>, <<"===", "Primitive_is">>,
                       <<"[]", "Primitive_Map_get">>, <<"[]=", "Primitive_Map_set">>}),
     Number |-> Table({<<"+", "Primitive_Number_add">>, <<"-", "Primitive_Number_sub">>,
                       <<"*", "Primitive_Number_mul">>, <<"/", "Primitive_Number_div">>,
                       <<">", "Primitive_Number_gt">>, <<"<", "Primitive_Number_lt">>}),
     String |-> Table({<<"+", "Primitive_String_concat">>, <<"require", "Primitive_require">>}),
     Vector |-> Table({<<"push", "Primitive_Vector_push">>,
                       <<"to_map", "Primitive_Vector_to_map">>,
                       <<"each", "Primitive_Vector_each">>,
                       <<"each_with_index", "Primitive_Vector_each_with_index">>,
                       <<"[]", "Primitive_Vector_at">>})]

Installed == [v \in Value |-> IF v \in DOMAIN Natives THEN Natives[v] ELSE << >>]

\* A DArray of locals made from arguments: `end' elements pushed, room for `max'.
NewLocals(args, max) ==
    [end |-> Len(args), max |-> max,
     at |-> [i \in 0..max - 1 |-> IF i < Len(args) THEN args[i + 1] ELSE NULL]]

NoLocals == [end |-> 0, max |-> 0, at |-> << >>]

Elements(l) == {l.at[i] : i \in DOMAIN l.at} \ {NULL}

\* The elements that a loop up to DArray_count(l) visits.
Counted(l) == {l.at[i] : i \in 0..l.end - 1} \ {NULL}

ValuesIn(s) == {s[i] : i \in DOMAIN s}

\* The elements of a vector; what is cloned from one has none.
Held(o) == IF obj[o].type = "Vector" /\ obj[o].own THEN ValuesIn(obj[o].data) ELSE {}

\* No instruction is allocating.
Idle == [kind |-> "none", values |-> << >>, safe |-> {}, name |-> NULL, next |-> NULL]

\* What the natives that wait and the instruction that is allocating have in hand.
InHand ==
    (UNION {ValuesIn(natives[i].values) : i \in DOMAIN natives})
      \union ValuesIn(cont.values)

\* Every pointer to a value that is left anywhere: such a cell is not used again.
References ==
    ValuesIn(stack) \union {self[f] : f \in live}
      \union (UNION {Elements(locals[f]) : f \in live})
      \union (UNION {ValuesIn(slots[v]) : v \in Value})
      \union (UNION {{obj[o].prototype} \union Held(o) :
                      o \in {p \in Object : obj[p].type # NULL}})
      \union InHand

FreeCells(S) == {v \in S : v \notin References /\ (v \in Closure => made[v] = NULL)
                                               /\ (v \in Object => obj[v].type = NULL)}
------------------------------------------------------------------------------
(***************************************************************************)
(* Init and the parts instructions are made of                             *)
(***************************************************************************)
Init ==
    /\ F!Init
    /\ prog \in DOMAIN Program
    /\ ip = 0
    /\ stack = << >>
    /\ self = [f \in Frame |-> IF f = Top THEN "lobby" ELSE NULL]
    /\ locals = [f \in Frame |->
                   IF f = Top THEN NewLocals(Program[prog].arguments, 10) ELSE NoLocals]
    /\ ret = [f \in Frame |-> NULL]
    /\ base = [f \in Frame |-> 0]
    /\ natives = << >>
    /\ cont = Idle
    /\ obj = [o \in Object |-> Unused]
    /\ slots = Installed
    /\ fields = [v \in Value |-> DOMAIN Installed[v]]
    /\ end = "no"
    /\ result = NULL

\* The functions that the program was loaded with, and what a file that it requires runs.
Loaded == DOMAIN Program[prog].code

\* The function a frame runs, as the key of its code and literals: a file's main
\* function is that of the program for the first frame, of a required file for others.
Running(f) == IF code[f] # NULL THEN code[f] ELSE IF f = frames[1] THEN "main" ELSE "file"

Cells == Program[prog].code[Running(Current)]

Literals == Program[prog].literals[Running(Current)]

Literal(i) == Literals[i + 1]

Going == F!Running /\ end = "no"

Ready == Going /\ cont = Idle /\ ip # NULL /\ Current \in live

Operand(k) == Cells[ip + 1 + k]

\* The cells of an instruction.
Width(opcode) ==
    CASE opcode \in {SEND, PUSHLOCALDEPTH, SETLOCALDEPTH} -> 3
      [] opcode \in {SETLINE, PUSH, JMP, JIF, JIT, GOTO, GETSLOT, SETSLOT, POP, DEFN, MAKEVEC,
                    PUSHLOCAL, SETLOCAL} -> 2
      [] OTHER -> 1

\* The instruction, and the literal and the cell that it names, are inside the arrays, and
\* what is taken for a string is one.
InBounds ==
    /\ ip < Len(Cells)
    /\ ip + Width(Operand(0)) <= Len(Cells)
    /\ Operand(0) \in {PUSH, GETSLOT, SETSLOT, DEFN, SEND} => Operand(1) < Len(Literals)
    /\ Operand(0) \in {DEFN, SEND} => Literal(Operand(1)) \in Name
    /\ Operand(0) = GOTO => Operand(1) >= 2

At(opcode) == Ready /\ InBounds /\ Operand(0) = opcode

Peek(k) == IF Len(stack) >= k THEN stack[Len(stack) - k + 1] ELSE NULL

Without(k) == SubSeq(stack, 1, Len(stack) - k)

\* The process ends here: the check of the code failed, or the behaviour is undefined.
Crash(how) ==
    /\ end' = how
    /\ UNCHANGED <<frameVars, prog, ip, stack, recordVars, natives, cont, heapVars, result>>

Abort == Crash("abort")

\* What the first access through one of the pointers S does to the process.
Trouble(S) ==
    IF NULL \in S THEN "no value"
    ELSE IF \A v \in S : Allocated(v) THEN "none" ELSE "freed value"

Using(S, A) ==
    \/ Trouble(S) = "none" /\ A
    \/ Trouble(S) # "none" /\ Crash(Trouble(S))

Proceed(next, st) ==
    /\ ip' = next
    /\ stack' = st
    /\ UNCHANGED <<frameVars, prog, recordVars, natives, cont, heapVars, end, result>>

Advance(cells, st) == Proceed(ip + cells, st)

\* Where a call or an allocation goes on: the cell, the stack and the waiting natives.
After(cells, st) == [next |-> ip + cells, stack |-> st, natives |-> natives]

GoOn(k, v) ==
    /\ ip' = k.next
    /\ stack' = Append(k.stack, v)
    /\ natives' = k.natives
    /\ UNCHANGED <<frameVars, prog, recordVars, cont, heapVars, end, result>>

\* The instruction allocates: the rest of it is done by the Finish actions, with the
\* values it has in hand, of which those in `safe' are marked by GC_protect.
Allocate(kind, values, safe, name, k) ==
    /\ cont' = [kind |-> kind, values |-> values, safe |-> safe, name |-> name, next |-> k.next]
    /\ stack' = k.stack
    /\ natives' = k.natives
    /\ UNCHANGED <<frameVars, prog, ip, recordVars, obj, fields, end, result>>
------------------------------------------------------------------------------
(***************************************************************************)
(* Instructions that neither call nor allocate                             *)
(***************************************************************************)
\* The switch of VM_run has no default: any other number is passed over.
Skip ==
    \/ At(NOOP) /\ Advance(1, stack)
    \/ At(SETLINE) /\ Advance(2, stack)
    \/ /\ Ready
       /\ InBounds
       /\ Operand(0) \notin Opcodes
       /\ Advance(1, stack)

RunOff ==
    /\ Ready
    /\ ~ InBounds
    /\ Crash("code bounds")

PushConstant ==
    \/ At(PUSH) /\ Advance(2, Append(stack, Literal(Operand(1))))
    \/ At(PUSHTRUE) /\ Advance(1, Append(stack, "true"))
    \/ At(PUSHFALSE) /\ Advance(1, Append(stack, "false"))
    \/ At(PUSHNIL) /\ Advance(1, Append(stack, "nil"))
    \/ At(PUSHLOBBY) /\ Advance(1, Append(stack, "lobby"))
    \/ At(PUSHSELF) /\ Advance(1, Append(stack, self[Current]))

\* Mutants of Jump: one cell too few; JIF leaves its operand on the stack.
JumpShort ==
    \/ At(JMP) /\ Advance(1 + Operand(1), stack)
    \/ /\ At(JIF)
       /\ Advance(IF Peek(1) \in {"false", "nil"} THEN 1 + Operand(1) ELSE 2, Without(1))
    \/ /\ At(JIT)
       /\ Advance(IF Peek(1) \notin {"false", "nil"} THEN 1 + Operand(1) ELSE 2, Without(1))

JumpPeeks ==
    \/ At(JMP) /\ Advance(2 + Operand(1), stack)
    \/ /\ At(JIF)
       /\ Advance(IF Peek(1) \in {"false", "nil"} THEN 2 + Operand(1) ELSE 2, stack)
    \/ /\ At(JIT)
       /\ Advance(IF Peek(1) \notin {"false", "nil"} THEN 2 + Operand(1) ELSE 2, Without(1))

\* The cells after the operand are counted from the cell after it.
Jump ==
    \/ At(JMP) /\ Advance(2 + Operand(1), stack)
    \/ /\ At(JIF)
       /\ Advance(IF Peek(1) \in {"false", "nil"} THEN 2 + Operand(1) ELSE 2, Without(1))
    \/ /\ At(JIT)
       /\ Advance(IF Peek(1) \notin {"false", "nil"} THEN 2 + Operand(1) ELSE 2, Without(1))

\* Mutant of Goto: the operand is taken as it is.
GotoOperand == At(GOTO) /\ Proceed(Operand(1), stack)

\* The operand is one more than the index of the cell: `*ip - 2', and the ip++ of the loop.
\* A jump to the first cell would count down from -1.
Goto == At(GOTO) /\ Proceed(Operand(1) - 1, stack)

Pop ==
    /\ At(POP)
    /\ IF Len(stack) >= Operand(1) THEN Advance(2, Without(Operand(1))) ELSE Abort

GetSlot ==
    /\ At(GETSLOT)
    /\ Using({Peek(1)},
         IF Peek(1) = "nil" \/ Literal(Operand(1)) \notin Name THEN Abort
         ELSE Using({Owner(Peek(1), Literal(Operand(1)))},
                LET v == Lookup(Peek(1), Literal(Operand(1)))
                IN  IF v = NULL THEN Abort ELSE Advance(2, Append(Without(1), v))))

\* The frame that `depth' steps along the parents lead to, NULL past the last one, or
\* the first freed frame on the way.
Outer(depth) ==
    LET Up[d \in 0..depth] ==
          IF d = 0 THEN Current
          ELSE IF Up[d - 1] \in live THEN parent[Up[d - 1]] ELSE Up[d - 1]
    IN  Up[depth]

\* DArray_at and DArray_set of the locals of f.  A read past `max' is undefined; a write
\* there is dropped.
LocalAt(f, i) == IF locals[f].at[i] = NULL THEN "nil" ELSE locals[f].at[i]

PushLocalOf(f, i, cells) ==
    \/ f = NULL /\ Advance(cells, Append(stack, NULL))
    \/ f \notin live \union {NULL} /\ Crash("freed frame")
    \/ f \in live /\ i >= locals[f].max /\ Crash("local bounds")
    \/ f \in live /\ i < locals[f].max /\ Advance(cells, Append(stack, LocalAt(f, i)))

SetLocalOf(f, i, cells) ==
    \/ f = NULL /\ Advance(cells, stack)
    \/ f \notin live \union {NULL} /\ Crash("freed frame")
    \/ /\ f \in live
       /\ locals' = IF i < locals[f].max THEN [locals EXCEPT ![f].at[i] = Peek(1)] ELSE locals
       /\ ip' = ip + cells
       /\ UNCHANGED <<frameVars, prog, stack, self, ret, base, natives, cont, heapVars,
                      end, result>>

PushLocal == At(PUSHLOCAL) /\ PushLocalOf(Current, Operand(1), 2)

PushLocalDepth == At(PUSHLOCALDEPTH) /\ PushLocalOf(Outer(Operand(1)), Operand(2), 3)

SetLocal == At(SETLOCAL) /\ SetLocalOf(Current, Operand(1), 2)

SetLocalDepth == At(SETLOCALDEPTH) /\ SetLocalOf(Outer(Operand(1)), Operand(2), 3)
------------------------------------------------------------------------------
(***************************************************************************)
(* Calls and returns                                                       *)
(***************************************************************************)
\* What was recorded for frames that are freed goes with them.
Kept(m, none) == [f \in Frame |-> IF f \in live' THEN m[f] ELSE none]

DropRecords ==
    /\ self' = Kept(self, NULL)
    /\ locals' = Kept(locals, NoLocals)
    /\ ret' = Kept(ret, NULL)
    /\ base' = Kept(base, 0)

NewFrame == CHOOSE g \in Frame : F!Fresh(g)

\* The frame g is pushed and VM_run goes on with the first cell of its function.
EnterFrame(g, receiver, args, max, r, k) ==
    /\ self' = [self EXCEPT ![g] = receiver]
    /\ locals' = [locals EXCEPT ![g] = NewLocals(args, max)]
    /\ ret' = [ret EXCEPT ![g] = r]
    /\ base' = [base EXCEPT ![g] = Len(k.stack)]
    /\ ip' = 0
    /\ stack' = k.stack
    /\ natives' = k.natives
    /\ UNCHANGED <<prog, heapVars, end, result>>

\* Function_call of a closure that DEFN made.
CallClosure(c, receiver, args, max, r, k) ==
    \/ /\ F!CallFreedScope(c)
       /\ UNCHANGED <<prog, ip, stack, recordVars, natives, cont, heapVars, end, result>>
    \/ /\ scope[made[c]] \in live
       /\ \A g \in Frame : ~ F!Fresh(g)
       /\ Crash("bound")
    \/ /\ \E g \in Frame : F!Fresh(g)
       /\ F!Call(c, NewFrame)
       /\ EnterFrame(NewFrame, receiver, args, max, r, k)
       /\ UNCHANGED cont

\* Mutant of BeginSet: the name is recorded as a field, the slot is not set.
BeginSetForgets(receiver, n, v, k) ==
    Allocate("field", <<receiver, v>>, {v}, n, k) /\ UNCHANGED slots

\* Value_set up to the allocation of the field: the slot is set, the value protected.
BeginSet(receiver, n, v, k) ==
    /\ slots' = [slots EXCEPT ![receiver] = [m \in DOMAIN @ \union {n} |->
                                                IF m = n THEN v ELSE @[m]]]
    /\ Allocate("field", <<receiver, v>>, {v}, n, k)

\* A native that will run VM_run again waits until it returns.
BeginNative(kind, values, count, k) ==
    IF Len(k.natives) = Depth THEN Crash("bound")
    ELSE /\ natives' = Append(k.natives, [kind |-> kind, values |-> values, index |-> 0,
                                          count |-> count, next |-> k.next])
         /\ ip' = NULL
         /\ stack' = k.stack
         /\ UNCHANGED <<frameVars, prog, recordVars, cont, heapVars, end, result>>

Make(kind, values, name, k) == Allocate(kind, values, {}, name, k) /\ UNCHANGED slots

Bool(b) == IF b THEN "true" ELSE "false"

\* Value_to_s: what differs from run to run, or is put together of the parts, is one text.
Described(v) ==
    CASE v \in Blueprint -> v
      [] v \notin Blueprint /\ TypeOf(v) \in {"true", "false", "nil"} -> TypeOf(v)
      [] v \notin Blueprint /\ TypeOf(v) = "Number" -> ToString(NumberOf(v)) \o ".000000"
      [] OTHER -> "#<...>"

\* Its text is allocated: of all values but the strings, which are their own text.
Worded(v) == v \in Blueprint \/ TypeOf(v) # "String"

\* Where it follows a NULL pointer: the array or the Function that a clone has not got, and
\* the value of a field that has no slot.
Hollow(v) ==
    /\ v \in Object
    /\ \/ ~ obj[v].own /\ obj[v].type \in {"Vector", "Closure"}
       \/ obj[v].own /\ obj[v].type = "Map" /\ ~ (obj[v].data \subseteq DOMAIN slots[v])

\* What its text is put together of, and all that is to be read for the texts of S.
Parts(v) ==
    (IF Hollow(v) THEN {NULL} ELSE {})
      \union (IF v \in Object THEN Held(v) ELSE {})
      \union (IF v \in Value \ Blueprint /\ TypeOf(v) \in {"Map", "Object"}
                THEN {slots[v][n] : n \in fields[v]}
                ELSE {})

Within(S) ==
    LET Up[n \in 0..Cardinality(Object) + 1] ==
          IF n = 0 THEN S
          ELSE Up[n - 1] \union
                 (UNION {Parts(v) : v \in {w \in Up[n - 1] \ {NULL} : Allocated(w)}})
    IN  Up[Cardinality(Object) + 1]

\* What it comes to; the text of a value that is a part of itself has no end.
Obstacle(S) ==
    IF Trouble(Within(S)) # "none" THEN Trouble(Within(S))
    ELSE IF \E v \in Within(S) : v \in Within(Parts(v)) THEN "no end" ELSE "none"

Describing(S, A) ==
    \/ Obstacle(S) = "none" /\ A
    \/ Obstacle(S) # "none" /\ Crash(Obstacle(S))

\* The values that it goes back to after it has allocated the text of a part: a vector, if
\* an element comes after that one, and what has fields, whose count is read again.
Reread(v) ==
    {w \in Within({v}) \intersect Object :
        IF obj[w].type = "Vector"
          THEN \E i \in 1..Len(obj[w].data) - 1 : Worded(obj[w].data[i])
          ELSE \E p \in Parts(w) : Worded(p)}

ToText(v, k) ==
    Describing({v}, IF Worded(v) THEN Make("String", SetToSeq(Reread(v)), Described(v), k)
                    ELSE GoOn(k, v))

\* Value_print, after which a native returns nil.
WriteText(v, k) ==
    Describing({v}, IF Worded(v) THEN Make("nil", SetToSeq(Reread(v)), NULL, k)
                    ELSE GoOn(k, "nil"))

\* Primitive_equals.  The elements of two vectors are looked for in the elements of the
\* first, which the iterator passes as the vector: only empty vectors are sure to do.
Equal(v, w, k) ==
    LET Both(t) == v # w /\ TypeOf(v) = t /\ TypeOf(w) = t
    IN
    \/ /\ Both("Number")
       /\ GoOn(k, Bool(NumberOf(v) = NumberOf(w)))
    \/ /\ Both("String")
       /\ Using({DataOf(v), DataOf(w)}, GoOn(k, Bool(TextOf(v) = TextOf(w))))
    \/ /\ Both("Vector")
       /\ Using({DataOf(v)},
            IF obj[v].data = << >> THEN GoOn(k, "true") ELSE Crash("not a vector"))
    \/ /\ ~ Both("Number") /\ ~ Both("String") /\ ~ Both("Vector")
       /\ GoOn(k, Bool(v = w \/ (w \in {"true", "false", "nil"} /\ TypeOf(v) = w)))

\* The primitives of numbers; a quotient is rounded down.
Calculate(native, i, j, k) ==
    \/ native = "Primitive_Number_add" /\ Make("Number", << >>, i + j, k)
    \/ native = "Primitive_Number_sub" /\ Make("Number", << >>, i - j, k)
    \/ native = "Primitive_Number_mul" /\ Make("Number", << >>, i * j, k)
    \/ /\ native = "Primitive_Number_div"
       /\ IF j = 0 THEN Abort
          ELSE Make("Number", << >>, IF j > 0 THEN i \div j ELSE (- i) \div (- j), k)
    \/ native = "Primitive_Number_gt" /\ GoOn(k, Bool(i > j))
    \/ native = "Primitive_Number_lt" /\ GoOn(k, Bool(i < j))

\* An array is made for one element; when it grows, DArray_expand clears 37 slots more.
Room(v) == IF obj[v].data = << >> THEN 1 ELSE 38

ElementAt(v, i, k) ==
    IF i + 1 \in DOMAIN obj[v].data THEN GoOn(k, obj[v].data[i + 1])
    ELSE IF i \in 0..Room(v) - 1 THEN GoOn(k, "nil") ELSE Crash("vector bounds")

PushElement(v, element, k) ==
    /\ obj' = [obj EXCEPT ![v].data = Append(@, element)]
    /\ ip' = k.next
    /\ stack' = Append(k.stack, v)
    /\ natives' = k.natives
    /\ UNCHANGED <<frameVars, prog, recordVars, cont, slots, fields, end, result>>

\* CHECK_TYPE of the two operands, then what is done with them.
Typed(v, t, w, u, A) == Using({v, w}, IF TypeOf(v) = t /\ TypeOf(w) = u THEN A ELSE Abort)

\* Vector_each and Vector_each_with_index: the elements are counted before the first call.
Iterate(kind, v, closure, k) ==
    Typed(v, "Vector", closure, "Closure",
      Using({DataOf(v)}, BeginNative(kind, <<v, closure>>, Len(obj[v].data), k)))

CallNumber(native, receiver, b, k) ==
    /\ native \in Arithmetic \union Comparison
    /\ Typed(receiver, "Number", b, "Number",
         Calculate(native, NumberOf(receiver), NumberOf(b), k))

CallObject(native, receiver, b, k) ==
    \/ /\ native = "Primitive_to_s"
       /\ ToText(receiver, k)
    \/ /\ native = "Primitive_prototype"
       /\ Using({receiver}, GoOn(k, IF PrototypeOf(receiver) = NULL THEN "nil"
                                    ELSE PrototypeOf(receiver)))
    \/ /\ native = "Primitive_or"
       /\ GoOn(k, Bool({receiver, b} \intersect {"nil", "false"} = {}))
    \/ /\ native = "Primitive_equals"
       /\ Using({receiver, b}, Equal(receiver, b, k))
    \/ /\ native = "Primitive_is"
       /\ GoOn(k, Bool(receiver = b))
    \/ /\ native = "Primitive_clone"
       /\ Using({receiver}, Make("clone", <<receiver>>, TypeOf(receiver), k))
    \/ /\ native \in {"Primitive_print", "Primitive_puts"}
       /\ WriteText(b, k)

CallString(native, receiver, b, k) ==
    \/ /\ native = "Primitive_require"
       /\ Using({receiver},
            IF TypeOf(receiver) = "String" /\ DataOf(receiver) # NULL
              THEN BeginNative("require", << >>, 1, k)
              ELSE Abort)
    \/ /\ native = "Primitive_String_concat"
       /\ Typed(receiver, "String", b, "String",
            Using({DataOf(receiver), DataOf(b)},
              Make("String", << >>, TextOf(receiver) \o TextOf(b), k)))

CallVector(native, receiver, b, k) ==
    \/ /\ native = "Primitive_Vector_at"
       /\ Typed(receiver, "Vector", b, "Number",
            Using({DataOf(receiver)}, ElementAt(receiver, NumberOf(b), k)))
    \/ /\ native = "Primitive_Vector_push"
       /\ Using({receiver},
            IF TypeOf(receiver) # "Vector" \/ b = NULL THEN Abort
            ELSE Using({DataOf(receiver)}, PushElement(receiver, b, k)))
    \/ /\ native = "Primitive_Vector_each"
       /\ Iterate("each", receiver, b, k)
    \/ /\ native = "Primitive_Vector_each_with_index"
       /\ Iterate("each_with_index", receiver, b, k)
    \/ /\ native = "Primitive_Vector_to_map"
       /\ Using({receiver},
            IF TypeOf(receiver) # "Vector" THEN Abort
            ELSE Using({DataOf(receiver)}, Make("Map", obj[receiver].data, NULL, k)))

\* A member is looked for in the prototypes too, like any slot.
GetMember(receiver, n, k) ==
    Using({Owner(receiver, n)},
      IF Lookup(receiver, n) = NULL THEN Abort ELSE GoOn(k, Lookup(receiver, n)))

CallMap(native, receiver, b, c, k) ==
    /\ native \in {"Primitive_Map_get", "Primitive_Map_set"}
    /\ Using({b},
         IF TypeOf(b) # "String" \/ (native = "Primitive_Map_set" /\ c = NULL) THEN Abort
         ELSE Using({receiver, DataOf(b)},
                IF native = "Primitive_Map_get" THEN GetMember(receiver, TextOf(b), k)
                ELSE BeginSet(receiver, TextOf(b), c, k)))

\* Function_native_call: the first two arguments are passed on, NULL for a missing one.
CallNative(native, receiver, args, k) ==
    \E b \in {IF Len(args) >= 1 THEN args[1] ELSE NULL},
       c \in {IF Len(args) >= 2 THEN args[2] ELSE NULL} :
        \/ CallNumber(native, receiver, b, k)
        \/ CallObject(native, receiver, b, k)
        \/ CallString(native, receiver, b, k)
        \/ CallVector(native, receiver, b, k)
        \/ CallMap(native, receiver, b, c, k)

\* Function_call.  Nil, and what is cloned from a closure, have no Function.
CallFunction(callee, receiver, args, max, r, k) ==
    \/ callee \in Native /\ CallNative(callee, receiver, args, k)
    \/ callee \in Closure /\ CallClosure(callee, receiver, args, max, r, k)
    \/ callee \notin Native \union Closure /\ Crash("no value")

\* SEND: the arguments are pushed to the new locals in the order they are popped.  The
\* message `apply' to a closure calls it with the caller's self; any other is looked up,
\* and a slot that holds no closure is just read.
Send ==
    /\ At(SEND)
    /\ LET n == Literal(Operand(1))
           argc == Operand(2)
           k == After(3, Without(argc + 1))
       IN
       \E args \in {[i \in 1..argc |-> Peek(i)]}, receiver \in {Peek(argc + 1)} :
         Using({receiver},
           IF TypeOf(receiver) = "Closure" /\ n = "apply"
             THEN CallFunction(receiver, self[Current], args, argc + 1, k.next, k)
           ELSE Using({Owner(receiver, n)},
                  \E callee \in {Lookup(receiver, n)} :
                    IF callee = NULL THEN Abort
                    ELSE Using({callee},
                           IF TypeOf(callee) = "Closure" \/ callee = "nil"
                             THEN CallFunction(callee, receiver, args, argc + 1, k.next, k)
                             ELSE GoOn(k, callee))))

\* RET: the frame is popped and destroyed; where it returns to is NULL if VM_run is to
\* return, to the native that called it or to VM_start.
Return ==
    /\ At(RET)
    /\ F!Ret \/ F!RetCaptured
    /\ DropRecords
    /\ UNCHANGED <<prog, natives, cont, heapVars>>
    /\ IF stack = << >>
         THEN end' = "abort" /\ UNCHANGED <<ip, stack, result>>
         ELSE /\ ip' = ret[Current]
              /\ stack' = IF ret[Current] = NULL THEN Without(1) ELSE stack
              /\ result' = IF ret[Current] = NULL /\ natives = << >> THEN Peek(1) ELSE result
              /\ UNCHANGED end

\* The native on top has control again, and every round of it runs VM_run once.
NativeHasControl == Going /\ cont = Idle /\ ip = NULL /\ natives # << >> /\ Current \in live

Waiting == natives[Len(natives)]

\* Mutant of NativesBelow: a native that is done goes on waiting.
NativesStay == natives

NativesBelow == SubSeq(natives, 1, Len(natives) - 1)

Iterating(kind) ==
    /\ NativeHasControl
    /\ Waiting.kind = kind
    /\ Waiting.index < Waiting.count

NextElement == obj[Waiting.values[1]].data[Waiting.index + 1]

\* Closure_invoke, in the caller's self, by a native of which `values' then are in hand.
Invoke(args) ==
    LET next == [Waiting EXCEPT !.index = @ + 1]
        k == [next |-> 0, stack |-> stack,
              natives |-> [natives EXCEPT ![Len(natives)] =
                             [next EXCEPT !.values = SubSeq(@, 1, 2)]]]
    IN  Using({Waiting.values[2]},
              CallFunction(Waiting.values[2], self[Current], args, 10, NULL, k))

\* Vector_each calls the closure with the next element.
EachElement ==
    /\ Iterating("each")
    /\ Using({Waiting.values[1]}, Invoke(<<NextElement>>))

\* Vector_each_with_index makes a number of the index before it does.
EachIndex ==
    /\ Iterating("each_with_index")
    /\ Len(Waiting.values) = 2
    /\ Using({Waiting.values[1]},
             Make("index", <<NextElement>>, Waiting.index,
                  [next |-> NULL, stack |-> stack, natives |-> natives]))

EachIndexed ==
    /\ Iterating("each_with_index")
    /\ Len(Waiting.values) = 4
    /\ Invoke(SubSeq(Waiting.values, 3, 4))

\* They return the vector, and Function_call pushes it.
EachDone ==
    /\ NativeHasControl
    /\ Waiting.kind \in {"each", "each_with_index"}
    /\ Waiting.index = Waiting.count
    /\ GoOn([next |-> Waiting.next, stack |-> stack, natives |-> NativesBelow],
            Waiting.values[1])

\* Primitive_require reads the file, if there is such a file, which allocates its literals.
RequireFile ==
    /\ NativeHasControl
    /\ Waiting.kind = "require"
    /\ Waiting.index = 0
    /\ IF "file" \notin Loaded THEN Abort
       ELSE Make("file", << >>, NULL, [next |-> NULL, stack |-> stack, natives |-> natives])

\* Then it pops the operand stack once more: VM_run has popped the file's result already.
RequireDone ==
    /\ NativeHasControl
    /\ Waiting.kind = "require"
    /\ Waiting.index = 1
    /\ GoOn([next |-> Waiting.next, stack |-> SubSeq(stack, 1, Len(stack) - 1),
             natives |-> NativesBelow], "nil")
------------------------------------------------------------------------------
(***************************************************************************)
(* Instructions that allocate                                              *)
(***************************************************************************)
Defn ==
    /\ At(DEFN)
    /\ Make("closure", << >>, Literal(Operand(1)), After(2, stack))

MakeVec ==
    /\ At(MAKEVEC)
    /\ LET elements == [i \in 1..Operand(1) |-> Peek(i)]
       IN  IF NULL \in ValuesIn(elements) THEN Abort
           ELSE Using(ValuesIn(elements),
                  Allocate("Vector", elements, ValuesIn(elements), NULL,
                           After(2, Without(Operand(1)))) /\ UNCHANGED slots)

SetSlot ==
    /\ At(SETSLOT)
    /\ Using({Peek(1), Peek(2)},
         IF Peek(2) = "nil" \/ Literal(Operand(1)) \notin Name THEN Abort
         ELSE BeginSet(Peek(2), Literal(Operand(1)), Peek(1), After(2, Without(2))))

\* DUMP prints STACK, the literals and the locals of the frame.  All of them are roots, so
\* that it is of no account when they are read.
Dump ==
    /\ At(DUMP)
    /\ LET shown == ValuesIn(stack) \union ValuesIn(Literals)
                      \union {locals[Current].at[i] : i \in 0..locals[Current].end - 1}
       IN  Describing(shown,
             IF \E v \in shown : Worded(v) THEN Make("print", << >>, NULL, After(1, stack))
             ELSE Advance(1, stack))

Unfinished(kind) == Going /\ cont # Idle /\ cont.kind = kind

\* The new value is pushed, the instruction is over.
Finish(v) ==
    /\ stack' = Append(stack, v)
    /\ ip' = cont.next
    /\ cont' = Idle
    /\ UNCHANGED <<prog, recordVars, natives, end, result>>

\* Closure_new writes the scope of the function, NULL if no function has the name.
FinishClosure ==
    /\ Unfinished("closure")
    /\ FreeCells(Closure) # {}
    /\ IF cont.name \notin Function \intersect Loaded THEN Crash("no value")
       ELSE /\ \E c \in {CHOOSE c \in FreeCells(Closure) : TRUE} :
                  F!Defn(cont.name, c) /\ Finish(c)
            /\ UNCHANGED heapVars

NewObject == CHOOSE o \in FreeCells(Object) : TRUE

\* The kinds of allocations that make a value of their own.
Makes == {"Vector", "Number", "String", "Map", "clone", "index"}

Makings(kinds) == Going /\ cont # Idle /\ cont.kind \in kinds /\ FreeCells(Object) # {}

\* Value_to_s goes on with the values it comes back to; what is left is the last text.
ReadAgain ==
    /\ Unfinished("String") \/ Unfinished("nil")
    /\ cont.values # << >>
    /\ Using(ValuesIn(cont.values),
         /\ cont' = [cont EXCEPT !.values = << >>]
         /\ UNCHANGED <<frameVars, prog, ip, stack, recordVars, natives, heapVars, end, result>>)

\* Vector_new, Number_new, String_new, and Primitive_clone, whose prototype the receiver
\* becomes.
FinishValue ==
    /\ Makings({"Vector", "Number", "String", "clone"})
    /\ cont.kind = "String" => cont.values = << >>
    /\ LET isClone == cont.kind = "clone"
       IN  obj' = [obj EXCEPT ![NewObject] =
                    [type |-> IF isClone THEN cont.name ELSE cont.kind,
                     prototype |-> IF isClone THEN cont.values[1] ELSE cont.kind,
                     own |-> ~ isClone,
                     data |-> IF cont.kind = "Vector" THEN cont.values ELSE cont.name]]
    /\ Finish(NewObject)
    /\ UNCHANGED <<frameVars, slots, fields>>

\* VAL2STR of a key, whatever its type is: a value without data, and the number 0, are read
\* as the NULL pointer, which names nothing; other data is not text.
KeyText(v) == IF TypeOf(v) = "String" /\ Own(v) THEN TextOf(v) ELSE NULL

Misread(v) ==
    /\ Own(v)
    /\ \/ TypeOf(v) \in {"Vector", "Closure"}
       \/ TypeOf(v) = "Number" /\ NumberOf(v) # 0

\* Map_new goes through the keys and values of the array; of two equal keys the first is
\* found.  Every key becomes a field, the last of an odd number too, which has no value:
\* built with -DNDEBUG, as the Makefile does, Map_new asserts nothing.
FinishMap ==
    /\ Makings({"Map"})
    /\ LET key(i) == cont.values[2 * i - 1]
           pairs == 1..Len(cont.values) \div 2
           keys == {cont.values[i] : i \in {j \in DOMAIN cont.values : j % 2 = 1}}
           names == {KeyText(key(i)) : i \in pairs} \ {NULL}
           First(n) == CHOOSE i \in pairs : /\ KeyText(key(i)) = n
                                            /\ \A j \in pairs : KeyText(key(j)) = n => i <= j
       IN  Using(keys,
             IF \E v \in keys : Misread(v) THEN Crash("not a string")
             ELSE /\ obj' = [obj EXCEPT ![NewObject] =
                               [type |-> "Map", prototype |-> "Map", own |-> TRUE,
                                data |-> {KeyText(v) : v \in keys}]]
                  /\ slots' = [slots EXCEPT ![NewObject] =
                                 [n \in names |-> cont.values[2 * First(n)]]]
                  /\ fields' = [fields EXCEPT ![NewObject] = names]
                  /\ Finish(NewObject)
                  /\ UNCHANGED frameVars)

\* The number that Vector_each_with_index makes of the index is the second argument.
FinishIndex ==
    /\ Makings({"index"})
    /\ obj' = [obj EXCEPT ![NewObject] =
                 [type |-> "Number", prototype |-> "Number", own |-> TRUE, data |-> cont.name]]
    /\ natives' = [natives EXCEPT ![Len(natives)].values =
                     @ \o <<cont.values[1], NewObject>>]
    /\ cont' = Idle
    /\ UNCHANGED <<frameVars, prog, ip, stack, recordVars, slots, fields, end, result>>

\* The end of Value_set: the name is pushed to the receiver's fields.
FinishField ==
    /\ Unfinished("field")
    /\ \/ /\ Allocated(cont.values[1])
          /\ fields' = [fields EXCEPT ![cont.values[1]] = @ \union {cont.name}]
          /\ Finish(cont.values[2])
          /\ UNCHANGED <<frameVars, obj, slots>>
       \/ /\ ~ Allocated(cont.values[1])
          /\ Crash("freed value")

FinishNil ==
    /\ Unfinished("nil")
    /\ cont.values = << >>
    /\ Finish("nil")
    /\ UNCHANGED <<frameVars, heapVars>>

FinishPrint ==
    /\ Unfinished("print")
    /\ ip' = cont.next
    /\ cont' = Idle
    /\ UNCHANGED <<frameVars, prog, stack, recordVars, natives, heapVars, end, result>>

\* The literals are roots from then on.  A frame for the main function of the file is pushed.
FinishFile ==
    /\ Unfinished("file")
    /\ IF \A g \in Frame : ~ F!Fresh(g) THEN Crash("bound")
       ELSE /\ F!Require(NewFrame)
            /\ EnterFrame(NewFrame, "lobby", << >>, 10, NULL,
                 [stack |-> stack, natives |-> [natives EXCEPT ![Len(natives)].index = 1]])
            /\ cont' = Idle

\* The memory of this instance is used up; the heap of the program would grow.
OutOfCells ==
    /\ Going
    /\ cont # Idle
    /\ \/ cont.kind = "closure" /\ FreeCells(Closure) = {}
       \/ cont.kind \in Makes /\ FreeCells(Object) = {}
    /\ Crash("bound")
------------------------------------------------------------------------------
(***************************************************************************)
(* Collections                                                             *)
(***************************************************************************)
\* Mutant of Children: the slots of an object are not traced.
ChildrenWithoutSlots(v) ==
    IF v \in Object THEN Held(v) \union ({obj[v].prototype} \ {NULL}) ELSE {}

\* GC_add_children: Value_each finds the values of the names in `fields' only.
Children(v) ==
    LET named == {slots[v][n] : n \in fields[v] \intersect DOMAIN slots[v]}
    IN  named \union (IF v \in Object
                        THEN Held(v) \union ({obj[v].prototype} \ {NULL})
                        ELSE {})

\* GC_add_roots.  Of each frame: its self, and the locals, up to their end, of the frame,
\* of its parent and of the scope of its function.
FrameRoots(f) ==
    LET outer == {parent[f], IF code[f] = NULL THEN NULL ELSE scope[code[f]]} \ {NULL}
    IN  {self[f]} \union Counted(locals[f]) \union (UNION {Counted(locals[p]) : p \in outer})

\* Mutant of Roots: what GC_protect has marked is not kept.
RootsUnprotected ==
    Permanent \union (ValuesIn(stack) \ {NULL}) \union (UNION {FrameRoots(f) : f \in F!Active})

Roots ==
    Permanent \union (ValuesIn(stack) \ {NULL}) \union (UNION {FrameRoots(f) : f \in F!Active})
      \union cont.safe

\* What the collector marks; it goes no further from a pointer to freed memory.
Marked ==
    LET Reach[n \in 0..Cardinality(Closure \union Object)] ==
          IF n = 0 THEN Roots
          ELSE Reach[n - 1] \union
                 (UNION {Children(v) : v \in {w \in Reach[n - 1] : Allocated(w)}})
    IN  Reach[Cardinality(Closure \union Object)]

Cleared(m, S, none) == [v \in Value |-> IF v \in S THEN none ELSE m[v]]

Garbage == {v \in Closure \union Object : Allocated(v) /\ v \notin Marked}

\* An allocation collects.  Only the destruction of a closure does more than give its
\* memory back, and is left to the actions of Frames.
Collect ==
    /\ Collects
    /\ Going
    /\ cont # Idle
    /\ ~ F!RootsFreed
    /\ \A v \in Marked : Allocated(v)
    /\ Garbage # {}
    /\ obj' = [o \in Object |-> IF o \in Garbage THEN Unused ELSE obj[o]]
    /\ slots' = Cleared(slots, Garbage, << >>)
    /\ fields' = Cleared(fields, Garbage, {})
    /\ IF Garbage \intersect Closure = {} THEN UNCHANGED frameVars
       ELSE F!Collect(Garbage \intersect Closure)
    /\ UNCHANGED <<prog, ip, stack, recordVars, natives, cont, end, result>>

\* The mark phase comes upon freed memory.
CollectFreed ==
    /\ Collects
    /\ Going
    /\ cont # Idle
    /\ \/ /\ F!CollectFreed
          /\ UNCHANGED <<prog, ip, stack, recordVars, natives, cont, heapVars, end, result>>
       \/ /\ ~ F!RootsFreed
          /\ \E v \in Marked : ~ Allocated(v)
          /\ Crash("freed value")

\* The frames' own steps: the closures of a collection one by one, and the cascade of
\* releases that each of them, and each RET, starts.
Destroy ==
    /\ end = "no"
    /\ \/ \E c \in Closure : F!Sweep(c)
       \/ F!Release
       \/ F!ReleaseFreed
    /\ DropRecords
    /\ UNCHANGED <<prog, ip, stack, natives, cont, heapVars, end, result>>

\* The next access to CURR_FRAME, where it was freed.
CurrentFreed ==
    /\ end = "no"
    /\ cont # Idle => cont.kind = "closure"
    /\ F!CurrentFreed
    /\ UNCHANGED <<prog, ip, stack, recordVars, natives, cont, heapVars, end, result>>

\* A native to which a native closure was given ran the code of its caller, which has
\* returned: there is no frame left for what it returns to.
Stranded ==
    /\ phase = "running" /\ fault = "none" /\ releasing = NULL /\ end = "no"
    /\ frames = << >>
    /\ natives # << >>
    /\ Crash("no frame")

\* State_destroy.
Exit ==
    /\ end = "no"
    /\ natives = << >>
    /\ \/ F!Exit
       \/ F!ExitDone
    /\ stack' = << >>
    /\ obj' = [o \in Object |-> Unused]
    /\ UNCHANGED <<prog, ip, recordVars, natives, cont, slots, fields, end, result>>

Halted ==
    /\ phase = "done" \/ fault # "none" \/ end # "no"
    /\ UNCHANGED vars

Next ==
    \/ Skip \/ RunOff \/ PushConstant \/ Jump \/ Goto \/ Pop \/ GetSlot
    \/ PushLocal \/ PushLocalDepth \/ SetLocal \/ SetLocalDepth
    \/ Send \/ Return
    \/ EachElement \/ EachIndex \/ EachIndexed \/ EachDone \/ RequireFile \/ RequireDone
    \/ Defn \/ MakeVec \/ SetSlot \/ Dump
    \/ ReadAgain \/ FinishClosure \/ FinishValue \/ FinishMap \/ FinishIndex \/ FinishField
    \/ FinishNil \/ FinishPrint \/ FinishFile \/ OutOfCells
    \/ Collect \/ CollectFreed \/ Destroy \/ CurrentFreed \/ Stranded \/ Exit \/ Halted

\* One thread that never waits for anything.
Spec == Init /\ [][Next]_vars /\ WF_vars(Next)
------------------------------------------------------------------------------
(***************************************************************************)
(* Properties                                                              *)
(***************************************************************************)
TypeOK ==
    /\ prog \in DOMAIN Program
    /\ ip \in Nat \union {NULL}
    /\ stack \in Seq(Value \union {NULL})
    /\ self \in [Frame -> Value \union {NULL}]
    /\ \A f \in Frame :
         /\ locals[f].end \in 0..locals[f].max
         /\ Elements(locals[f]) \subseteq Value
    /\ ret \in [Frame -> Nat \union {NULL}]
    /\ base \in [Frame -> Nat]
    /\ Len(natives) <= Depth
    /\ \A o \in Object : DOMAIN obj[o] = {"type", "prototype", "own", "data"}
    /\ \A v \in Value : /\ ValuesIn(slots[v]) \subseteq Value
                       /\ fields[v] \subseteq DOMAIN slots[v]
    /\ end \in {"no", "abort", "bound", "no value", "no frame", "freed value", "freed frame",
                "local bounds", "code bounds", "vector bounds", "not a vector", "not a string",
                "no end"}

\* The assertions of tests/vm_tests.c: the program's VM_run returns what is asserted of it,
\* a certain value, one of a certain type, or one with a certain number or text.
Results ==
    result # NULL /\ phase = "running" =>
        Program[prog].result \in {result, TypeOf(result)}
          \union (IF result \in Object /\ Own(result)
                    THEN CASE TypeOf(result) = "Number" -> {ToString(obj[result].data)}
                           [] TypeOf(result) = "String" -> {obj[result].data}
                           [] OTHER -> {}
                    ELSE {})

\* Every test gets to the end of State_destroy, whenever the collector runs.
Completes == <>(phase = "done")

\* What the program can come upon next: operands, the values that an instruction or a
\* native has in hand, self and the locals of the running calls and of the scopes
\* around them, and what their slots hold.
InUse ==
    LET Around[n \in 0..Cardinality(Frame)] ==
          IF n = 0 THEN F!Active \intersect live
          ELSE Around[n - 1] \union ({parent[f] : f \in Around[n - 1]} \intersect live)
        calls == Around[Cardinality(Frame)]
        direct == ValuesIn(stack) \union {self[f] : f \in calls}
                    \union (UNION {Elements(locals[f]) : f \in calls})
                    \union InHand
    IN  (direct \union (UNION {ValuesIn(slots[v]) : v \in (direct \union {"lobby"}) \ {NULL}}))
          \ {NULL}

\* gc.c: the collector destroys no value that the program still uses.
NoStaleValue == phase = "running" => \A v \in InUse : Allocated(v)

\* What the program and the instruction or native that it is at still have, where
\* GC_add_roots does not look: the values in hand that nothing protects, the self of an
\* enclosing call that has returned, and locals that the frame's array does not count or
\* that no scope reaches from a running call.
Unseen ==
    LET seen == F!Active \union {parent[f] : f \in F!Active}
                  \union {scope[code[f]] : f \in {g \in F!Active : code[g] # NULL}}
    IN  (InHand \ cont.safe)
          \union {self[f] : f \in live \ F!Active}
          \union (UNION {Elements(locals[f]) \ (IF f \in seen THEN Counted(locals[f]) ELSE {}) :
                          f \in live})

\* When the collector may come, those values are marked all the same: something else that
\* the collector finds refers to them.
AllInSight == Going /\ cont # Idle /\ ~ F!RootsFreed => Unseen \ {NULL} \subseteq Marked

\* gc.c: the values out of its sight are all that the collector can take from a program.
\* A run in which each of them is marked by another way never comes upon a value that was
\* destroyed.
CollectorKeeps == []AllInSight => []NoStaleValue

\* README, SETLOCAL and PUSHLOCAL: what was set to a local variable is there when the
\* local is pushed.
LocalsKept ==
    phase = "running" =>
        \A f \in F!Active \intersect live : \A v \in Elements(locals[f]) : Allocated(v)

\* The frames without a return address are those of the running VM_runs.
RunsMatchFrames ==
    Going /\ F!Active \subseteq live =>
        Cardinality({i \in DOMAIN frames : ret[frames[i]] = NULL})
          = Len(natives) + (IF ip = NULL THEN 0 ELSE 1)

\* No native that loops was given another native to call.
NativesCallClosures ==
    \A i \in DOMAIN natives :
        natives[i].kind # "require" => natives[i].values[2] \notin Native

\* vm.c, function.c: VM_run returns to the native which started it and no other frame
\* ends it, in any program, as long as no native was given a native closure to call, which
\* leaves VM_run no frame to run.
RunsMatch == []NativesCallClosures => []RunsMatchFrames

\* A call leaves one value in the place of its receiver and arguments, and while it runs
\* it does not touch the operands of its caller.
CallBalance ==
    /\ At(RET) => Len(stack) = base[Current] + 1
    /\ Going /\ Current \in live => Len(stack) >= base[Current]

\* The instruction at cell i of cs is inside it.
Whole(cs, i) == i < Len(cs) /\ i + Width(cs[i + 1]) <= Len(cs)

\* The operands that it needs, those that it leaves for them, and where it may go on.  A call
\* leaves one, whatever it calls.
Takes(cs, i) ==
    CASE cs[i + 1] \in {JIF, JIT, GETSLOT, SETLOCAL, SETLOCALDEPTH, RET} -> 1
      [] cs[i + 1] = SETSLOT -> 2
      [] cs[i + 1] \in {POP, MAKEVEC} -> cs[i + 2]
      [] cs[i + 1] = SEND -> cs[i + 3] + 1
      [] OTHER -> 0

Gives(cs, i) ==
    IF cs[i + 1] \in {PUSH, PUSHTRUE, PUSHFALSE, PUSHNIL, PUSHLOBBY, PUSHSELF, PUSHLOCAL,
                      PUSHLOCALDEPTH, SETLOCAL, SETLOCALDEPTH, GETSLOT, SETSLOT, SEND, DEFN,
                      MAKEVEC}
      THEN 1 ELSE 0

Targets(cs, i) ==
    CASE cs[i + 1] = RET -> {}
      [] cs[i + 1] = JMP -> {i + 2 + cs[i + 2]}
      [] cs[i + 1] \in {JIF, JIT} -> {i + 2, i + 2 + cs[i + 2]}
      [] cs[i + 1] = GOTO -> {cs[i + 2] - 1}
      [] OTHER -> {i + Width(cs[i + 1])}

\* The operands at the cells that the code gets to, as the first way there leaves them.
Height(cs) ==
    LET Up[i \in 0..Len(cs)] ==
          IF i = 0 THEN 0 :> 0
          ELSE LET h == Up[i - 1]
                   before == {j \in DOMAIN h : Whole(cs, j) /\ i \in Targets(cs, j)}
               IN  IF before = {} THEN h
                   ELSE LET j == CHOOSE j \in before : TRUE
                        IN  h @@ (i :> h[j] - Takes(cs, j) + Gives(cs, j))
    IN  Up[Len(cs)]

\* The heights h are those of every way through the code: no instruction needs more operands
\* than there are, and RET leaves none behind.
Respects(cs, h) ==
    /\ 0 \in DOMAIN h /\ h[0] = 0
    /\ \A i \in DOMAIN h :
         /\ h[i] \in Nat
         /\ Whole(cs, i) =>
              /\ Takes(cs, i) <= h[i]
              /\ cs[i + 1] = RET => h[i] = 1
              /\ \A j \in Targets(cs, i) :
                   j \in DOMAIN h /\ h[j] = h[i] - Takes(cs, i) + Gives(cs, i)

WellHeighted == \A fn \in Loaded : Respects(Program[prog].code[fn], Height(Program[prog].code[fn]))

\* No file is required: Primitive_require pops an operand that is not its own.
NothingRequired == \A i \in DOMAIN natives : natives[i].kind # "require"

\* vm.c, primitives.c: where the code of each function is balanced, so is every call, whatever
\* it calls, through natives that call back and out of functions called anywhere.
OperandsBalance == WellHeighted /\ [](NativesCallClosures /\ NothingRequired) => []CallBalance

\* What FramesSafe assumes of its environment: each function is defined by one frame, the
\* closures of running frames are kept, and nothing is required.
Careful == INSTANCE Frames WITH Collection <- "returned", Redefinition <- FALSE,
                                Requires <- FALSE

\* README, PUSHLOCALDEPTH "from an enclosing scope".
EnclosingScope == F!LexicalScope
==============================================================================
