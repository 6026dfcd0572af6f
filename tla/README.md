# A verification project for TerrorVM

TerrorVM is a stack-based virtual machine with prototypes, closures and a mark
and sweep collector, written in C, with a compiler for a subset of Ruby. This
directory holds TLA+ modules translated from its source, the TLC configurations
that check them on small instances, and theorems checked by TLAPS. Paths below
are relative to the repository; `src/terror/` is left out for C files and
`compiler/lib/terror/` for Ruby files.

## The system

| Component | State it keeps | Operations | What makes it correct |
|---|---|---|---|
| Call frames (`call_frame.c/.h`) | self, locals, return address, parent, reference count | create, retain, release, destroy, get and set a local at a depth | counts are exact; nothing is freed while it can be reached; everything is freed in the end |
| Functions and closures (`function.c`, `value.c`) | code, literals, native pointer, **one `scope` shared by all closures of the function** | `Function_call`, `Closure_invoke`, `Closure_new` | a call is nested in the frame its closure was made in |
| Interpreter (`vm.c`, `opcode.h`) | `FRAMES`, `STACK`, `state->ret`, the C local `ip` of every running `VM_run` | 24 opcodes | the operand stack is balanced; a frame returns to the `VM_run` that entered it |
| Collector (`gc.c`, libsweeper) | the heap | `GC_add_roots`, `GC_add_children`, `GC_release`, `GC_protect` | it destroys no value that the program can still come upon |
| Values and slots (`value.c`, `hashmap.c`) | type, prototype, table, fields | `Value_new`, `Value_get`, `Value_set`, `Value_each`, `Map_new`, conversion to strings | table and fields agree |
| Primitives (`primitives.c`) | none | called by `Function_native_call`; `each`, `each_with_index`, map `each` and `require` call `VM_run` back | arguments stay alive; the stack is left as it was found |
| Process (`state.c`, `runtime.c`, `bin/tvm.c`) | the `State` | `State_new`, `Runtime_init`, `VM_start`, `State_destroy` | `State_destroy` frees each thing once |
| Bootstrap (`bootstrap.c`, `compiler/kernel`) | the slots of the blueprints | expose the primitives, require the kernel files | |
| Bytecode reader (`input_reader.c`) | a cursor over lines, the functions of each file | `parse_string` | reads back what was written; the literals it allocates survive |
| Containers (`darray.c`, `list.c`, `vector.c`) | arrays, nodes | push, pop, set, remove, traverse | sequence semantics, memory included |
| Debugger (`debugger.c/.h`) | step mode, breakpoints, current line, the lines of a file | set line, stop, prompt | stops where it was told to, once |
| Compiler (`generator.rb`, `visitor.rb`, `scope.rb`, `branching.rb`) | scopes, labels, instructions | one visitor per node | the code does what the source asks for and is balanced |
| File utilities, bstrlib | none | input and output, strings | lines stay within the file |

Everything runs on one thread; there is no persistence. What is hard is
**reentrancy and lifetime**: an allocation anywhere may run the collector in the
middle of an instruction; the destructor of a closure releases a frame, which
releases its parent, and so on; natives call `VM_run` from inside `VM_run`, on
the same stacks; and frames are owned by counts while values are owned by
reachability, the two being joined by `fn->scope`. `PROJECT.json` lists the
hazards line by line.

How the components interact: the compiler writes a file of lines, which
`parse_string` reads and `VM_start` registers. `VM_run` pushes and pops frames
and operands; `SEND` calls `Function_call`, which enters a frame (the
interpreter goes on) or calls a native (the interpreter waits). `DEFN` makes a
closure, which retains the current frame. Every `Value_new` may collect:
libsweeper asks `GC_add_roots` and `GC_add_children` what is reachable and gives
the rest to `GC_release`, which for a closure releases a frame. The children of
a value are found by the names in its `fields`, so `Value_set` must keep `fields`
and `table` in step. Before each instruction `VM_run` asks the debugger, which
may hold the program at its prompt.

## The modules

**`Lifetimes`** is the abstract specification of call frames: a set of
allocated frames, the stack of calls, the closures and who holds what. A frame
may be reclaimed when it is not on the stack, no closure made in it exists and
no frame nested in it exists, and it is reclaimed in the end. It has no
counts and no `fn->scope`.

**`Frames`** is what the code does: `refcount`, `parent`, the shared `scope`,
and an action per step of `Closure_new`, `Function_call`, `RET`,
`CallFrame_release`, `Value_destroy`, `Primitive_require` and `State_destroy`.
A cascade of releases is one `Release` step per frame, with `releasing` the
frame that is next. An access to freed memory is recorded in `fault` and stops
the model, because the behaviour is undefined from there. `home` is a history
variable. Which instructions run and what the collector finds is left open,
within three constants: `Collection` (which closures a collection may destroy:
none, those of calls that have returned, any), `Redefinition` (may `DEFN`
re-target a function that closures of another frame still use) and `Requires`.

**`Opcode`** holds the numbers of the opcodes. **`VM`** is the interpreter,
composed with `Frames`: its actions have the actions of an instance `F` of
`Frames` as conjuncts. It has the operand stack, locals, return addresses,
slots, prototypes, nested `VM_run`s (`natives`) and the collector's roots and
children as `gc.c` computes them. A program is its bytecode, cell by cell, so
jump distances are checked. An instruction that allocates takes two steps: the
first pops its operands into `cont` (the C locals), then a collection may run
any number of times, then a `Finish` action completes it. Natives are operators
on receiver and arguments, with their type checks and with what they come upon
in values that have no data of their own (a blueprint, or a clone: number 0, no
string, no array). Numbers are integers, the text of a value is kept for numbers
and strings only. `Value_to_s`, of which `to_s`, `print` and `puts` are made, is
modelled by what it follows and allocates (`ToText`, `WriteText`): it goes
through a vector, a map or an object part by part and allocates a text for each,
so a collection may come any number of times while the value that was popped,
and those within it, are in its hands only; it then comes back to them
(`ReadAgain`). It crashes at a part without data (`Hollow`) and has no end for a
value that contains itself (`Obstacle`). `DUMP` writes operands, literals and
locals in the same way, which are roots all the while. `Map_new` is the one of
the Makefile's build, whose `CFLAGS` define `NDEBUG`: it reads any key as a
text. `require` reads its file in a step that may collect, since literals are
allocated in it, also for a file without literals. A read through a freed or
missing pointer ends the run with the reason in `end`, and so does a `VM_run`
that leaves the code of its function (`"code bounds"`), which is undefined in
the code. So does the bound on memory cells (`"bound"`), which the code does not
have. Free cells of `obj` and an idle `cont` are records of their own (`Unused`,
`Idle`).

**`Slots`** is the table of values as `hashmap.c` keeps it, buckets of nodes for
any assignment of names to buckets, with the list of `fields` beside it:
`Value_set` in two steps with its allocation between them, `Map_new` pair by
pair, deletion, destruction, and `Value_each` round by round, each with any block.
**`Dictionary`** is what it promises, a partial function from names to values.
`VM` takes the slots as such functions.

**`Deque`** is what `list.h` promises, a sequence that grows and shrinks at both
ends. **`List`** is `list.c` on a heap of nodes: `next`, `prev` and `value` of
each cell, the set of allocated cells, and the four cases of `List_remove` as
four definitions. A freed cell may be allocated again, which is what makes the
pointers that `List_remove` leaves behind dangerous. `List_destroy` is one
action per round of its loop. `items`, a history variable, is the order in
which the nodes should be. `Destroy` requires clean ends unless `Trimmed`:
`State_destroy` empties the two stacks (`state.c:43-47`) before it destroys them.

**`DArray`** is `darray.c`: the allocated slots, `end`, `max`, and `items`, the
elements in the order they were put in. A slot that `realloc` adds is `Garbage`
until it is written or cleared; how many `DArray_expand` clears follows from
the byte count it gives to `memset`. `Use` is what the program calls, `Test`
what only the tests call directly (`DArray_expand`, `DArray_contract`,
`DArray_remove`). `VM` instantiates neither `List` nor `DArray`; it takes the
stacks as sequences and keeps of an array what it needs.

**`Debugger`** is `debugger.c` between the instructions of a program that
reports lines, calls functions of other files and returns: `SETLINE`,
`Debugger_evaluate` as the loop over the breakpoints (`AtBreakpoint`, one action
per round), the prompt with its commands, and the end of its input.
`LinesRead` is what `getlines` reads for the context, line numbers that are not
in the file included. `arrived` and `hit` are history variables: the line that
was reported last, and the breakpoints that have stopped the program since.

**`Compiler`** is a function from a syntax tree to the lines of a `.tvm` file:
an operator per method of `Visitor`, a record for a visitor with its scopes,
literals and code. **`Reader`** has the lines that `Generator.encode` writes of
functions, any functions, and follows `parse_string` through them line by line: the
functions it puts into the files, the literals it allocates and what the
collector sees of them meanwhile, and the registration in `VM_start` and
`Primitive_require`. **`Loader`** composes the two: what is compiled is read, and a call
then takes every path through the code of any function, as far as the code alone
decides what it does. The trace of a call is compared with `Meaning`, what the
syntax tree asks for.

| Module | Models | Instances |
|---|---|---|
| `Lifetimes` | the promise of call frames | `Frames!Abstract` |
| `Frames` | call frames, closures, release cascades | `MCFrames`, and `F` and `Careful` in `VM` |
| `Opcode`, `VM` | opcodes, natives, collector | `MCVM`, which also holds the programs |
| `Dictionary` | the promise of slots | `Slots!Abstract` |
| `Slots` | hash map, fields, `Value_set`, `Value_each` | `MCSlots` |
| `Deque` | the promise of the list | `List!Abstract` |
| `List` | the doubly linked list, the stacks | `MCList` |
| `DArray` | the growing array | `MCDArray` |
| `Debugger` | stepping, breakpoints, the prompt | `MCDebugger` |
| `Reader` | functions to lines to functions | `Loader` extends it |
| `Compiler`, `Loader` | syntax trees to functions, and paths through their code | `MCLoader`, which also holds the trees and the files of another compiler |
| `FramesProofs`, `VMProofs`, `VMKeeps`, `SlotsProofs`, `ListProofs`, `DArrayProofs`, `DebuggerProofs`, `ReaderProofs` | theorems | |

Definitions named in `PROJECT.json` under `mutants` (their comments begin with
"Mutant of") are wrong on purpose and used nowhere: replacing
the definition after them by the mutant makes a run fail, which shows that its
property depends on the code. Properties that `MCVM` adds claim those of `VM` of
the tests or of the examples.

## The runs

| Run | Question | States |
|---|---|---|
| `FramesAny.cfg` | are the counts exact and is every frame freed once, if functions are defined by one frame at a time, with any collection and with require? | 13,518 |
| `FramesReturned.cfg` | if the collector spares the closures of running calls, does a captured frame keep a closure of its own until it returns, and is any freed frame accessed? do the counts implement `Lifetimes`? does `State_destroy` end? | 1,845 |
| `FramesOpen.cfg` | what survives when anything may happen? | about 146,000 |
| `VM.cfg` | with a collection at any allocation: do the programs of `tests/vm_tests.c` return what the tests assert and get to the end of `State_destroy`? do examples that keep their values in slots and arguments return what their source means, have unbalanced code, leave the environment that `FramesSafe` assumes, or take a value out of the collector's sight? do `VM_run`s and frames stay matched, do calls leave one operand in programs of balanced code, and is no value in use collected while all are in sight, also in programs that abort or meet a hazard? | 1,243 |
| `Slots.cfg` | do table and fields name the same slots, does the collector find every value, does a loop visit every slot and return, do the slots implement `Dictionary`, while loops set slots and buckets are shared? | 104,488 |
| `List.cfg` | do the nodes stay linked in both directions, is a freed node ever accessed, is every node freed once? does the list, read through its pointers, implement `Deque`? | 89,367 |
| `DArray.cfg` | do growing, shrinking and a `realloc` that fails keep the elements and stay in bounds? is an array that has not grown clean? does a pop return the last element? | 1,141,671 |
| `Debugger.cfg` | is a breakpoint missed, does one stop the program twice at an arrival, does the prompt show the lines of the loaded file around the current one, where does it crash, does a user who goes on get to the end? | 368,955 |
| `Loader.cfg` | are files that are formed as the README says read as they were written, cut off or not, and is each function found by its name? is a literal collected meanwhile, whatever is read? does each path through the code of a compiled function do what its source asks for? | 31,735 |
| `VMGcstress.cfg`, `VMFactory.cfg`, `LoaderHeader.cfg` | the findings below, in this order; each ends in a counterexample | |

### Bounds

`Frame`, `Closure` and `Function` have four, two or three, and two members. Three
frames besides the first allow a chain of three nested calls, or a frame that
has returned, is captured, and is the parent of another one that has been
captured; two functions and three closures allow two closures of one function
and one of another at the same time. The cells are interchangeable, hence the
symmetry, as in `List`, whose refinement is safety only; a run with liveness or
with fairness in the abstract specification does not use it. In `VM` the
programs are fixed, so all bounds are only large enough for them (`Depth` is the
number of natives that may wait). `Hoard` and `OutOfCells` show what happens at
the bound.

Four nodes give `List_remove` two inner nodes at once, so that the
neighbours of a removed inner node may be inner or ends, and memory is reused
all the time; the values are told apart so that order shows. In `DArray`, `Rate`
is 2 in the place of 300 and `Pointer` 2 in the place of 8: arrays then grow and
shrink within `Most` = 5 elements, the clearing of `Rate` + 1 bytes covers one of
two slots (in the code 37 of 300), and the initial sizes are below, at and above
the rate. `realloc` may fail in every call.

In `Slots` there is one object, whose table is independent of any other, and
three names, two of which share a bucket, so that deletion moves nodes within a
bucket and away from it; `MaxFields` = 4 lets a loop over all the slots set another;
`MaxLoops` = 2 nests a loop in the block of a loop. One of the two literals has a
key twice. In `Debugger` one file has five lines, more than the context shows on a side, one has a
single line and one cannot be read; breakpoints are set at lines 1 and 2, which
are adjacent, and 5, twice on one line too (`MaxBreakpoints` = 2), in a program
of `MaxInstructions` = 4 with calls `MaxDepth` = 2 deep. `Loader` compiles six
pairs of a program and a kernel file, in the style of `compiler/examples` and
`compiler/kernel`, every construct of the visitor among them. Besides, it reads files of
another compiler, as the README (line 165) invites to write one: programs of one or two
functions and perhaps a file that they require. Two functions of one name, in
a file or in two, a file without a main function and a literal of two lines are
among them, so that the reading goes wrong in each way there is. The program's
file may have either header and be cut off at any line; a number that is not
scanned is 0 or an opcode (`Indeterminate`); a path runs a loop `MaxRounds` = 2
times at most. Where there is a theorem, it holds for all values of these constants.

The programs of `MCVM` are those of `tests/vm_tests.c`, one per test; thirteen
examples in the shape of `compiler/examples` (values moved to slots and
arguments, since those must be safe); one program per hazard; seven that print values
without a text, or with one without end; and twenty calls and definitions that fail a check
or are undefined, or come close to it. Between
them they run every native but Map `each`, which is in `Slots`.

### Fairness

The interpreter is one thread, so a step that is possible is taken. `Frames`
assumes that a release, a sweep and an exit that have begun are carried through,
and nothing about the program, which may run forever. `VM` assumes that the
interpreter takes steps. Liveness is claimed only for the end of `State_destroy`
and for programs that have no loop without end. `Slots` assumes that `Map_new`,
the field of `Value_set` and the rounds of `Value_each` are gone on with
(`EachReturns`): nothing forces the blocks to do anything, and what they may set is bounded by
`MaxFields`, so the claim is that a loop over finitely many slots returns.
`Debugger` assumes that the program takes steps and that a user at the prompt
goes on at some time (`SessionEnds`). `List`, `DArray`, `Reader` and `Loader`
claim no liveness and assume no fairness.

## What the checks show

What holds, in short: the list, the array, the slots and the compiler's files do what they
promise. The counting protocol of call frames is right as long as a
function is not defined again while closures of another frame exist, and it is
safe as long as the collector does not destroy the closures of running calls.
Neither condition is ensured by the code.

The runs marked as violations show disagreements with what the repository says:

1. A local variable that is not an argument is no root (`call_frame.c:45`,
   `gc.c:109`). In `gcstress.rb` the running closure itself is
   collected. When a collected closure was the last of its frame, the frame is
   freed although it is on `FRAMES` (program `Dropped` shows that too).
2. `fn->scope` is shared (`value.c:203`). A function that makes a closure,
   called twice, gives both closures the scope of the second call. `Vector.map`
   of the prelude does so.
3. `Generator#encode` writes three counts in the header of a function, of which
   `parse_string` scans the first two as something else (`generator.rb:39`,
   `input_reader.c:45`). `RoundTrip` is checked for the header of the README.

Other behaviour the models reproduce, which a property has to leave room for:

- A frame has room for its arguments and one local variable (`vm.c:246`);
  setting a second one is dropped.
- `SEND` passes the arguments in the order they are popped, the last one first
  (`vm.c:247`).
- `require` pops one operand too many (`primitives.c:156`), and of a file that
  makes no closure destroys a frame twice (`primitives.c:158`, `RequirePlain`):
  `Frames` records the fault at the `RET` of that frame, where it becomes
  unavoidable.
- The receiver of a slot assignment is not protected while the field is
  allocated (`value.c:262`, `SetOnOperand`), nor are the vector and the closure
  of `each` (`EachOfOperand`), the elements that `to_map` has in hand
  (`MapOfOperands`) or the vector that `puts` is writing (`PrintOperand`). The locals
  that a closure has captured are no children of it (`gc.c:22`) and may be collected when
  their call has returned. Of such runs `CollectorKeeps` claims nothing.
- A clone of a vector or of a closure has no data, and its text cannot be made
  (`value.c:112`, `value.c:130`); that of a value in its own slot has no end (`Unprintable`).
- A key of a map that is no string is read as one, and a vector of an odd length gives
  its last key no value (`value.c:237`); builds with assertions (`make dev`) stop there.
- A native closure that is given to a native as its block pushes no frame, and
  the `VM_run` that follows runs the code of the caller once more
  (`NativeBlock`; `function.c:108`). It is the one program in which `VM_run`s
  and frames do not match, and the premise of `RunsMatch` leaves it out.
- `Primitive_or` computes "and" (`primitives.c:33`); the equality of vectors
  takes an element for a vector (`primitives.c:69`).
- `DArray_expand` clears bytes where it should clear slots (`darray.c:70`). After
  a growth has failed the array still holds its elements, but its `max` counts
  slots that it does not have (`darray.c:48`), so `InBounds` claims nothing from there.
- A map literal with a key twice has two nodes of the key (`value.c:243`).
- A while loop jumps back to its `JIF`, not to its condition, and leaves no
  value for the `POP` after it (`visitor.rb:121`); `Meaning` says so.
- A literal with a line break shifts the rest of the file by a line
  (`input_reader.c:64`).
- At the end of the input the prompt repeats the last command (`debugger.c:102`).
- At line 3 the context is a line too long, because `getlines` does not
  adjust a start that is 0 (`file_utils.c:141`), which goes past the end of a file of six
  lines or fewer. At a line four or more past the end of the file it asks for no line or a negative
  number, gets no array (`darray.c:9`), and the debugger follows the NULL pointer
  (`debugger.c:194`). A file has such a line when `VM_run` was entered in one
  file and a call has led to another: the file is loaded at the entry only
  (`debugger.c:39`), although the README (line 149) says that the debugger will
  always show the code one is at. `ContextShown` is about the loaded file.

## What is proved

Each theorem holds for every value of the constants that satisfies the named
`ASSUME`s, which are about types only, and the conditions in its statement.

**Frames** (`FramesProofs`), for any finite sets of frames
and closures:

- `TypeCorrect` and `ScopesAreCounted`: `TypeOK` and `ScopeCounted`, in every
  environment.
- `ReferenceCounts`, `SharedScope`, `FreesUnheld`, `NestedWhereMade`,
  `NothingLeaks`: `Counted`, `ScopeIsHome`, `FreedIsUnheld`, `LexicalScope` and
  `NoLeak`, without redefinition.
- `FramesSafe`: `NoFault`, `NoDangling` and `Anchored`, without redefinition and
  require and with `Collection` other than "any".
- `CountsImplementLifetimes`: under the conditions of `FramesSafe` every step is
  a step of `Lifetimes` or a stutter.

`Counted` is not inductive alone. It says that a count equals the number of
closures made in the frame, plus the frames nested in it, plus one if its release
is pending; but the code retains and releases `fn->scope`, not the frame a
closure was made in, so `ScopeIsHome` is needed, and with it that a function that
is being executed belongs to the parent of its frame. `CountInv` is their
conjunction with `TypeOK`; each action changes at most one of the three terms and
the count by the same amount (`FreeKeepsCounts`, `LastHolder`). `FramesSafe` adds
what a return needs: a captured frame on the stack is held by one of its own
closures (`Anchored`), so neither the return of a nested frame nor a cascade of releases
frees a frame that is still to be returned to. The rest of the invariant, `SafeFrames` of
`FramesProofs`, is bookkeeping: frames are on the stack once, and the function of a
running frame still has the scope it was called in. `NoLeak` adds that frames
which are not on the stack are held by something, that no closures are left when
the process exits, and that the parents have no cycle: there is a rank which
grows along them, so if frames were left nothing would be nested in the one of
least rank, and nothing would hold it.

**Interpreter** (`VMProofs`), for any program and heap:

- `VMRunsFrames`: each step of `VM` is a step of `Frames` or leaves the frames
  alone. The proof goes through the instructions, and for `SEND` through
  everything it may call.
- `CarefulProgramsAreSafe`: a run whose steps on the frames are those of `Careful`
  (no redefinition, no require, collections of returned calls only) accesses no
  freed frame and keeps no pointer to one. It carries `SafeInv` of `FramesProofs`
  over. `VM.cfg` checks that the examples have such runs only (`ExamplesCareful`).
- `ValuesAreTyped`: `TypeOK`, by the inductive `TypeInv` (`RunsAreTyped`). `TypeOK`
  alone is not inductive: what `cont` and the waiting natives hold must be what
  the second half of their instruction takes it for (`ControlInv`, with `ContOK`
  and `WaitsOK`); every frame runs a function of the program (`CodeInv`), with
  locals as long as they say (`RecordInv`); an object has a type, a prototype
  and data that fit (`HeapInv`); and a native that loops goes through a vector that
  has not shrunk since it was counted, while the slot that is to be recorded as a
  field is still there (`LinkInv`).
- `EnclosingFramesAreLive`: in a careful run `PUSHLOCALDEPTH` and `SETLOCALDEPTH`
  meet only frames that exist, at any depth. The recursion over the parents is
  undone at the least step that would lead astray.

`VM` assumes of its constants that numbers, names, cells and opcodes are different
things (`InstanceAssumption`, `ValueAssumption`) and that a program is what
`VM_start` can be handed: functions of cells with literals, a main function, and
arguments that exist before it runs (`ProgramAssumption`). Code need not be
correct: a cell may be any natural number, and a jump may go anywhere.

**Nested runs** (`VMProofs`): `RunsAreNested` is `RunsMatch`: as long as no native
was given a native closure to call, each `VM_run` that has not returned has
exactly one frame on `FRAMES` at which it will return. The frames without a
return address are `Heads`; the `VM_run`s are the waiting natives and the one in
control (`OpenRuns`). The invariant `RunInv` compares their numbers, and says that
the rest of an instruction goes on in the `VM_run` that began it. Every action changes
both by the same amount: a native that calls back pushes a head and waits, a
`RET` from a head gives control back to the last native, and a native that ends
leaves the `ip` at which it was called.

**Operands** (`VMKeeps`): `OperandsAreBalanced` is `OperandsBalance`: in a program of
balanced code a call finds its receiver and its arguments on `STACK`, leaves one
value in their place, and never touches what is below them (`CallBalance`). The
interpreter does not keep a program from popping too much (`Underflow` does), so
the premise is about the code, instruction by instruction: `Height` follows the
jumps of a function and gives each cell it gets to the number of operands that the
first way there leaves, and `WellHeighted` asks that every other way leaves as
many, that no instruction needs more than there are, and that a `RET` finds one.
It is a property of the program text, which no run of it can change, and that calls
are balanced does not follow from it by its shape: the operands of all calls,
in all `VM_run`s, are one array, and natives pop and push there between the
instructions. The invariant `BalanceInv` therefore speaks of every frame: there is an
assignment of the waiting natives to the frames that called them, in order
(`Placed`); each frame below the top has on `STACK`, above the `base` it
was called with, what the height of the cell it will go on at says, less the value it
waits for (`Between`); and the call in control has what the height of its own cell
says, or of the next one, less what the rest of the instruction has yet to push
(`AtTop`). A step changes the top of this only, but a return has to find the
frame below ready for the value, at the cell where it goes on or in the native that
waits there; counting heads, as `RunInv` does, does not tell which of them belongs to which
native, so `Placed` says it of each frame. Two premises are about natives: none that
loops is given a native closure to call, which would run the code of the calling frame
again, and no file is required, since `Primitive_require` pops an operand that
may be another call's. `VM.cfg` checks that the code of every example is balanced
(`ExamplesCareful`); that of some programs of `tests/vm_tests.c` is not, and
of these `OperandsBalance` says nothing.

**Collector** (`VMKeeps`): `CollectorSpares` is `CollectorKeeps`. What `gc.c` does not
look at (`Unseen`) is listed: what natives and C locals hold without protection, the self
and the locals of calls that have returned, and the locals that their array does not
count. A run in which all of it is marked by another way whenever a
collection may come (`AllInSight`) never comes upon a value that was destroyed
(`NoStaleValue`). This says that the list is complete, and that roots, children and
protection do keep all the rest. It does not say that the code keeps what a program uses:
runs of `SETLOCAL`, of captured locals, and of operands that a native goes through break
the premise, and of these the theorem says nothing. `NoStaleValue` is not inductive: it
looks one slot deep, and at calls that run. The invariant `KeepInv` takes the set
`S` of all values that exist and are not about to be destroyed, and says that the
operands, the locals and self of every frame, the waiting natives and `cont`
hold members of `S` only (`Reaches`), that slots, prototypes and elements of
members of `S` are in `S` (`Links`), and that each slot is a field by which the
collector finds it, but for the one that `Value_set` has yet to record
(`Recorded`). An instruction moves members of `S` about, or makes one value
more, in a cell that nothing refers to. A collection leaves the marked ones: the
set `Marked` contains the roots and is closed under `Children`. It is defined by as
many rounds as there are cells; that no round is needed after them is the
lemma `Saturation`, a count of the cells that are added in each round.
`VM.cfg` checks that the runs of the examples meet the premise at every step
(`ExamplesCareful`); `Gcstress`, `SetOnOperand`, `EachOfOperand`, `MapOfOperands` and
`PrintOperand` are programs that do not, and that come upon destroyed values.

**Slots** (`SlotsProofs`): `KeysOnce`, `FieldsAgree`, `Traced`, `VisitsAll` and
the refinement to `Dictionary`, for any assignment of names to buckets and any
bounds. The invariant says where each name may have its nodes (its own bucket,
once, unless the object was made of a literal with the name twice), which field
is still pending, and how far each loop has got.

**List** (`ListProofs`): `Linked`, `NoFault` and `NoLeak` for any set
of nodes, if no list with dangling ends is destroyed (`~Trimmed`). Following the pointers
visits `items` (`Chained`), but that is kept only because the
nodes of `items` are distinct and are exactly the allocated ones: the
pointers of the other cells may then be anything. While `List_destroy` runs,
the invariant says where in `items` the cursor is, that the nodes from
the one before it on are still allocated and the others are not, and that the
ends are clean. `ListImplementsDeque` is the refinement: the values found by
following `next`, a recursive function, are those of `items`, shown at the least
position where they would differ.

**Array** (`DArrayProofs`): `Holds`, `InBounds`, `CleanUntilGrown` and `PopsLast`
for any rate, slot size and initial sizes. The strengthening is `end < max`, the
room for one more element that `DArray_push` relies on, and `Shape`: the slots
before `end` are allocated even when memory was refused, those before `max` when
it was not, and none is uninitialised until the array has grown.

**Debugger** (`DebuggerProofs`): `StopsOnce`, `NoneMissed` and `ContextShown` for
any files and breakpoints. `ContextShown` is exact: at a prompt the lines shown are those of
the loaded file within three of the current one, and one more at line 3 only; and the
debugger crashes there only without a file, at line 3 of a file of up to six lines, or at a
line four or more past the end. The invariant: breakpoints that have stopped the program are
behind the current line, the first of them stopped at the line of arrival, and
the loop has passed no breakpoint for that line unless one has stopped.

**Reader** (`ReaderProofs`), for any files of any functions, of any length. The
theorems are about `ReadSpec`, the reading by itself. `Loader` takes the same steps
(`Load`), and its calls leave alone what has been read; it cannot hold
the theorems, since `Compiler` declares recursive operators.

- `LiteralsSurvive`: `LiteralsKept`. A literal is found by the collector through
  the function that has it, and that by its name, so the invariant is about names: the
  function that is being read is among those of its file before its first literal is
  made, keeps its place and its name, and a function that comes after it is
  never the first of a name that was there. No premise is needed: lines may be cut
  off, shifted or misread, and names may be there twice, in which case
  `LiteralsKept` speaks of the first.
- `FilesAreReadBack`: `RoundTrip`. Its premise `Intact` is about what was written,
  never about the reading: the header that the README describes, no more than the
  last line cut off, a main function in each file, no two functions of one name
  otherwise, and no literal of two lines. `Loader.cfg` explores what comes of
  files without each of them.

`RoundTrip` speaks of the end of the reading; the proof has to know at each line
what has been read and which line comes next. `parse_string` has only counts to
go by, so `FileLayout` says where the lines of a file are: there is a function
`at` of the functions to the lines before them, each function takes two lines
and one for each literal and cell (`LaidOut`), and after the last function at most
one line is left, which does not begin with an underscore. That needs the
concatenation of a sequence of sequences (`FlattenSeq`, a recursive function) to be
characterised without induction: `Flattened` finds the least place where it
would fail. The invariant `ReadInv` then says of the files that are left what
their lines are (`Ahead`), of the file that is being read how many lines have
been passed, for as many functions, literals and cells as have been read
(`Here`, `Progress`, `Partly`), and of the files before it that they are as
written and their functions, and no others, are registered (`Behind`). `NoOverrun`
shows that no line beyond the last is asked for, `FileRegisters` that a name
leads to the function that has it.

`Reader` assumes of its constants that functions consist of texts and numbers, and
that a text that is a number has no line break (`ReaderAssumption`).

Model-checked only: liveness (`ExitEnds`, `TestsComplete`, `EachReturns`,
`SessionEnds`) and the fairness part of `LifetimesSpec`; `ExpectedResults` and
`ExamplesCareful`, which are about particular programs;
and `RunsSource`, which depends on `Compiler`, whose
operators are recursive over syntax trees: what a recursive operator computes
for every tree takes an induction over data, which is out of the prover's reach.

## What is not modelled

- libsweeper: its submodule is empty in this repository. The model lets a
  collection run at any allocation, mark what is reachable from `GC_add_roots`
  through `GC_add_children`, keep what `GC_protect` marked, and release the rest
  in any order. It does not reuse the memory of a frame or a value
  while some pointer to it is left.
- Floating point: numbers are integers, and a quotient is rounded down.
- bstrlib, a third-party library, and `dbg.h`; the programs of `compiler/stdlib`;
  the parser, which is Rubinius'; the resolution of paths in `file_utils.c` and
  the arguments of `bin/tvm.c`, which are input and output.
- The loops over `FRAMES` and `STACK` at the start of `State_destroy`. It is reached when
  the first `VM_run` has returned to `VM_start`, by the `RET` that pops the frame without a
  return address; that there is one such frame for each `VM_run` is `RunsMatch`.
- `List_clear`, which frees the values of a list, `DArray_new`, and `DArray_at`
  of an index that is not before `max`, negative ones included; a `calloc` that
  fails in `List_push` or `List_shift`, which leave the list as it was.
- Builds with `OPTIMIZE_SEND`, and those without `NDEBUG` (`make dev`), where the assertions of
  `Map_new` end the process; a NULL among the children that `GC_add_children` hands to
  libsweeper, for a map with a field and no value; a slot with two nodes, after a literal
  with a key twice, in `VM` (`Slots` has it); the debugger being switched off while
  the kernel files are loaded, and what its commands print of values and frames.
- The bytes that `Hashmap_hash` mixes: any assignment of names to buckets is allowed.

## Plan

Done, in this order: `Frames`; `VM`; `DArray` and `List`; `Slots`; `Debugger`;
`Compiler`, `Reader` and `Loader`; the proofs about frames and containers; types, nested
runs, the balance of operands and the collector in `VM`; the proofs about `Reader`.

What would come next: the programs that `Compiler` makes run on `VM` itself, which
needs the second local variable that `vm.c:246` drops.
