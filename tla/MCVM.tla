-------------------------------- MODULE MCVM ---------------------------------
(***************************************************************************)
(* The programs that VM is checked on.                                     *)
(***************************************************************************)
EXTENDS VM

MCNumber == {"#0", "#1", "#2", "#123"}

MCIntOf == ("#0" :> 0) @@ ("#1" :> 1) @@ ("#2" :> 2) @@ ("#123" :> 123)

MCName == {"foo", "fn", "tainted", "echo", "value", "add", "apply", "mk", "file", "lib",
           "puts", "===", "clone", "require", "[]=", "+", "each", "inner", "-", "*", "/", ">",
           "<", "==", "[]", "to_s", "or", "prototype", "push", "to_map", "each_with_index",
           "print"}

MCFunction == {"foo", "echo", "add", "mk", "inner", "lib"}

\* A program whose functions have the code f, next to the code of main.
Run(main, literals, f, expected) ==
    [code |-> ("main" :> main) @@ f,
     literals |-> [n \in {"main"} \union DOMAIN f |-> literals],
     arguments |-> << >>, result |-> expected]

Plain(main, expected) == Run(main, << >>, << >>, expected)
------------------------------------------------------------------------------
(***************************************************************************)
(* tests/vm_tests.c, one program per test, with the result it asserts.     *)
(***************************************************************************)
Tests == <<
    Plain(<<PUSHSELF, RET>>, "lobby"),
    Plain(<<PUSHLOBBY, RET>>, "lobby"),
    Run(<<PUSH, 0, PUSH, 1, POP, 1, RET>>, <<"#123", "foo">>, << >>, "#123"),
    Plain(<<PUSHTRUE, RET>>, "true"),
    Plain(<<PUSHFALSE, RET>>, "false"),
    Plain(<<PUSHNIL, RET>>, "nil"),
    [Plain(<<PUSHLOCAL, 0, RET>>, "#123") EXCEPT !.arguments = <<"#123">>],
    Run(<<PUSH, 0, SETLOCAL, 0, POP, 1, PUSHSELF, DEFN, 1, SETSLOT, 2, POP, 1,
          PUSHSELF, SEND, 2, 0, RET>>,
        <<"#123", "foo", "fn">>, "foo" :> <<PUSHLOCALDEPTH, 1, 0, RET>>, "#123"),
    Run(<<PUSH, 0, SETLOCAL, 0, PUSHSELF, DEFN, 1, SETSLOT, 2,
          PUSHSELF, SEND, 2, 0, RET>>,
        <<"#123", "foo", "fn">>, "foo" :> <<PUSHNIL, SETLOCALDEPTH, 1, 0, RET>>, "nil"),
    Plain(<<PUSHTRUE, SETLOCAL, 0, RET>>, "true"),
    Plain(<<PUSHTRUE, JMP, 1, PUSHFALSE, RET>>, "true"),
    Plain(<<PUSHNIL, PUSHFALSE, JIF, 1, PUSHTRUE, RET>>, "nil"),
    Plain(<<PUSHNIL, PUSHTRUE, JIT, 1, PUSHFALSE, RET>>, "nil"),
    Plain(<<PUSHFALSE, PUSHTRUE, GOTO, 5, RET>>, "true"),
    Run(<<PUSH, 0, PUSHTRUE, SETSLOT, 1, POP, 1, PUSH, 0, GETSLOT, 1, RET>>,
        <<"foo", "tainted">>, << >>, "true"),
    Run(<<PUSH, 0, PUSHFALSE, SETSLOT, 1, RET>>, <<"foo", "tainted">>, << >>, "false"),
    Plain(<<PUSHNIL, PUSHTRUE, PUSHFALSE, POP, 2, RET>>, "nil"),
    Run(<<PUSHSELF, DEFN, 1, SETSLOT, 1, PUSHSELF, PUSH, 0, SEND, 1, 1, RET>>,
        <<"#1", "echo">>, "echo" :> <<PUSHLOCAL, 0, RET>>, "#1"),
    Run(<<PUSHSELF, PUSH, 0, SETSLOT, 1, POP, 1, PUSHSELF, SEND, 1, 0, RET>>,
        <<"#1", "value">>, << >>, "#1"),
    Run(<<DEFN, 1, PUSH, 0, SEND, 2, 1, RET>>,
        <<"#1", "echo", "apply">>, "echo" :> <<PUSHLOCAL, 0, RET>>, "#1"),
    Run(<<DEFN, 0, RET>>, <<"add">>, "add" :> <<PUSHSELF, PUSHLOCAL, 0, RET>>, "Closure"),
    Plain(<<PUSHFALSE, PUSHTRUE, MAKEVEC, 2, RET>>, "Vector") >>
------------------------------------------------------------------------------
(***************************************************************************)
(* Programs in the style of compiler/examples.  The values of these are    *)
(* kept in slots and arguments, and every function is defined once.        *)
(***************************************************************************)
\* functions.rb: self.fn = -> foo { a + foo }, with a and foo locals of main.
Functions == Run(
    <<PUSH, 0, SETLOCAL, 0, POP, 1, PUSH, 0, SETLOCAL, 1, POP, 1,
      PUSHSELF, DEFN, 2, SETSLOT, 3, POP, 1, PUSHSELF, PUSH, 1, SEND, 3, 1, RET>>,
    <<"#123", "#2", "foo", "fn", "+">>,
    "foo" :> <<PUSHLOCALDEPTH, 1, 0, PUSHLOCAL, 0, SEND, 4, 1, RET>>,
    "125")

\* vectors.rb: each element is passed to a closure, which prints it.
Vectors == Run(
    <<PUSHSELF, PUSHTRUE, PUSHNIL, MAKEVEC, 2, SETSLOT, 0, POP, 1,
      PUSHSELF, DEFN, 1, SETSLOT, 2, POP, 1,
      PUSHSELF, SEND, 0, 0, PUSHSELF, GETSLOT, 2, SEND, 3, 1, RET>>,
    <<"value", "foo", "fn", "each", "puts">>,
    "foo" :> <<SETLINE, 3, PUSHSELF, PUSHLOCAL, 0, SEND, 4, 1, RET>>,
    "Vector")

\* A closure that outlives the call which made it: fn = mk(123), then fn().
Escaped == Run(
    <<PUSHSELF, DEFN, 0, SETSLOT, 0, POP, 1,
      PUSHSELF, PUSHSELF, PUSH, 3, SEND, 0, 1, SETSLOT, 1, POP, 1,
      PUSHSELF, SEND, 1, 0, RET>>,
    <<"mk", "fn", "inner", "#123">>,
    "mk" :> <<DEFN, 2, RET>> @@ "inner" :> <<NOOP, PUSHLOCALDEPTH, 1, 0, RET>>,
    "#123")

\* fn = -> b { if b then self.fn(false) else self }.
Recursive == Run(
    <<PUSHSELF, DEFN, 0, SETSLOT, 1, POP, 1, PUSHSELF, PUSHTRUE, SEND, 1, 1, RET>>,
    <<"foo", "fn">>,
    "foo" :> <<PUSHLOCAL, 0, JIF, 7, PUSHSELF, PUSHFALSE, SEND, 1, 1, JMP, 1, PUSHSELF, RET>>,
    "lobby")

\* objects.rb: a clone of self, its own slot and one of its prototype.
Objects == Run(
    <<PUSHSELF, PUSHSELF, SEND, 0, 0, SETSLOT, 1, POP, 1,
      PUSHSELF, PUSH, 2, SETSLOT, 3, POP, 1,
      PUSHSELF, SEND, 1, 0, PUSHFALSE, SETSLOT, 4, POP, 1,
      PUSHSELF, SEND, 1, 0, SEND, 3, 0, RET>>,
    <<"clone", "value", "#2", "foo", "tainted">>, << >>,
    "#2")

\* a = nil; a while a.is(nil), with a = true in the body; then DUMP.
Loop == Run(
    <<PUSHNIL, SETLOCAL, 0, POP, 1,
      PUSHLOCAL, 0, PUSHNIL, SEND, 0, 1, JIF, 7, PUSHTRUE, SETLOCAL, 0, POP, 1, GOTO, 6,
      PUSHLOCAL, 0, DUMP, RET>>,
    <<"===">>, << >>,
    "true")

\* numbers.rb: (2 - 1) * 123, compared with 2, and 123 / 1 with itself.
Numbers == Run(
    <<PUSHSELF, PUSH, 1, PUSH, 0, SEND, 4, 1, PUSH, 2, SEND, 5, 1, SETSLOT, 3, POP, 1,
      PUSHSELF, SEND, 3, 0, PUSH, 1, SEND, 6, 1, PUSH, 1, PUSHSELF, SEND, 3, 0, SEND, 7, 1,
      SEND, 8, 1, POP, 1,
      PUSH, 2, PUSH, 0, SEND, 9, 1, PUSH, 2, SEND, 10, 1, RET>>,
    <<"#1", "#2", "#123", "value", "-", "*", ">", "<", "or", "/", "==">>, << >>,
    "true")

\* hello_world.rb, with "foo" + "fn" and 123.to_s.
Strings == Run(
    <<PUSHSELF, PUSH, 0, PUSH, 1, SEND, 2, 1, SETSLOT, 3, POP, 1,
      PUSHSELF, PUSHSELF, SEND, 3, 0, SEND, 4, 1, POP, 1,
      PUSHSELF, PUSH, 5, SEND, 6, 0, SETSLOT, 7, POP, 1,
      PUSHSELF, SEND, 3, 0, SEND, 6, 0, PUSHSELF, SEND, 7, 0, SEND, 2, 1, RET>>,
    <<"foo", "fn", "+", "value", "print", "#123", "to_s", "add">>, << >>,
    "foofn123.000000")

\* maps.rb: a = { "foo" => "fn" }; a["foo"].
Maps == Run(
    <<PUSHSELF, PUSH, 1, PUSH, 0, MAKEVEC, 2, SEND, 2, 0, SETSLOT, 3, POP, 1,
      PUSHSELF, SEND, 3, 0, PUSH, 0, PUSHTRUE, SEND, 5, 1, POP, 1, POP, 1,
      PUSHSELF, SEND, 3, 0, PUSH, 0, SEND, 4, 1, RET>>,
    <<"foo", "fn", "to_map", "value", "[]", "===">>, << >>,
    "fn")

\* Each element is passed with its index, which the closure adds to it.
Indexed == Run(
    <<PUSHSELF, PUSH, 0, PUSH, 1, MAKEVEC, 2, SETSLOT, 2, POP, 1,
      PUSHSELF, DEFN, 3, SETSLOT, 4, POP, 1,
      PUSHSELF, SEND, 2, 0, PUSHSELF, GETSLOT, 4, SEND, 5, 1, POP, 1, PUSHSELF, SEND, 6, 0, RET>>,
    <<"#2", "#1", "value", "foo", "fn", "each_with_index", "add", "+">>,
    "foo" :> <<PUSHLOBBY, PUSHLOCAL, 0, PUSHLOCAL, 1, SEND, 7, 1, SETSLOT, 6, RET>>,
    "3")

\* fn = -> a, b { b - a }: the last argument that is pushed is the first local.
Arguments == Run(
    <<PUSHSELF, DEFN, 0, SETSLOT, 1, POP, 1, PUSHSELF, PUSH, 2, PUSH, 3, SEND, 1, 2, RET>>,
    <<"foo", "fn", "#123", "#2", "-">>,
    "foo" :> <<PUSHLOCAL, 1, PUSHLOCAL, 0, SEND, 4, 1, RET>>,
    "121")

\* [].push(true).push(nil), and what is at 0, 1 and 2.
Pushes == Run(
    <<PUSHSELF, MAKEVEC, 0, SETSLOT, 0, POP, 1,
      PUSHSELF, SEND, 0, 0, PUSH, 1, SEND, 5, 1, POP, 1,
      PUSHSELF, SEND, 0, 0, PUSHTRUE, SEND, 4, 1, PUSHFALSE, SEND, 4, 1, POP, 1,
      PUSHSELF, SEND, 0, 0, PUSH, 2, SEND, 5, 1, PUSHSELF, SEND, 0, 0, PUSH, 1, SEND, 5, 1,
      PUSHSELF, SEND, 0, 0, PUSH, 3, SEND, 5, 1, MAKEVEC, 2, POP, 1, RET>>,
    <<"value", "#0", "#1", "#2", "push", "[]">>, << >>,
    "false")

\* value = [2, 1], which is printed; add = { "foo" => value }, of which the text is returned.
Printed == Run(
    <<PUSHSELF, PUSH, 0, PUSH, 1, MAKEVEC, 2, SETSLOT, 2, POP, 1,
      PUSHSELF, PUSHSELF, SEND, 2, 0, SEND, 3, 1, POP, 1,
      PUSHSELF, PUSHSELF, SEND, 2, 0, PUSH, 4, MAKEVEC, 2, SEND, 5, 0, SETSLOT, 6, POP, 1,
      PUSHSELF, SEND, 6, 0, SEND, 7, 0, RET>>,
    <<"#1", "#2", "value", "puts", "foo", "to_map", "add", "to_s">>, << >>,
    "#<...>")

Examples == <<Functions, Vectors, Escaped, Recursive, Objects, Loop, Numbers, Strings, Maps,
              Indexed, Arguments, Pushes, Printed>>
------------------------------------------------------------------------------
(***************************************************************************)
(* Programs that the discipline of the Examples leaves out: they abort, or *)
(* meet one of the hazards of the interpreter.                             *)
(***************************************************************************)
\* Two closures of main in one slot: the first is garbage while the second is called.
Replaced == Run(
    <<PUSHSELF, DEFN, 0, SETSLOT, 2, POP, 1, PUSHSELF, DEFN, 1, SETSLOT, 2, POP, 1,
      PUSHSELF, PUSHTRUE, PUSH, 4, SEND, 3, 2, POP, 1, PUSHSELF, SEND, 2, 0, RET>>,
    <<"foo", "echo", "fn", "[]=", "value">>,
    "foo" :> <<PUSHNIL, RET>> @@ "echo" :> <<PUSHLOBBY, SEND, 4, 0, RET>>,
    "true")

\* The slot that held the only closure of main is set to something else.
Dropped == Run(
    <<PUSHSELF, DEFN, 0, SETSLOT, 1, POP, 1, PUSHSELF, PUSHTRUE, SETSLOT, 1, RET>>,
    <<"foo", "fn">>, "foo" :> <<PUSHNIL, RET>>, "true")

\* gcstress.rb, once round: fn = -> { a = 123; 2 + 2 }; fn.apply(1).
Gcstress == Run(
    <<DEFN, 0, SETLOCAL, 0, POP, 1, PUSHLOCAL, 0, PUSH, 2, SEND, 1, 1, RET>>,
    <<"foo", "apply", "#1", "#123", "#2", "+">>,
    "foo" :> <<PUSH, 3, SETLOCAL, 0, POP, 1, PUSH, 4, PUSH, 4, SEND, 5, 1, RET>>,
    "Number")

\* mk = -> n { -> { n } } is called twice; the first closure is asked for its n.
Factory == Run(
    <<PUSHSELF, DEFN, 0, SETSLOT, 0, POP, 1,
      PUSHSELF, PUSHSELF, PUSH, 3, SEND, 0, 1, SETSLOT, 1, POP, 1,
      PUSHSELF, PUSHSELF, PUSH, 4, SEND, 0, 1, SETSLOT, 5, POP, 1,
      PUSHSELF, SEND, 1, 0, RET>>,
    <<"mk", "fn", "inner", "#1", "#2", "value">>,
    "mk" :> <<DEFN, 2, RET>> @@ "inner" :> <<PUSHLOCALDEPTH, 1, 0, RET>>,
    "#1")

\* An operand is pushed, a file that defines a closure is required, and the operand is
\* returned.
RequireAfterPush == Run(
    <<PUSHTRUE, PUSH, 0, SEND, 1, 0, POP, 1, RET>>,
    <<"lib", "require", "fn">>,
    "file" :> <<PUSHLOBBY, DEFN, 0, SETSLOT, 2, RET>> @@ "lib" :> <<PUSHNIL, RET>>,
    "true")

\* A file without functions is required.
RequirePlain == Run(
    <<PUSH, 0, SEND, 1, 0, RET>>, <<"lib", "require">>, "file" :> <<PUSHNIL, RET>>, "nil")

\* self.clone.value = true, with the clone held by the operand stack only.
SetOnOperand == Run(
    <<PUSHSELF, SEND, 0, 0, PUSHTRUE, SETSLOT, 1, RET>>, <<"clone", "value">>, << >>, "true")

\* [true].each(-> e { puts e }), with the vector and the closure held by each only.
EachOfOperand == Run(
    <<PUSHTRUE, MAKEVEC, 1, DEFN, 0, SEND, 1, 1, RET>>,
    <<"foo", "each", "puts">>,
    "foo" :> <<PUSHLOCAL, 0, PUSHSELF, SEND, 2, 1, RET>>,
    "Vector")

\* { "foo" => [], "fn" => 1 - 1 }, with the elements in hand of to_map only.
MapOfOperands == Run(
    <<PUSH, 0, PUSH, 0, SEND, 1, 1, PUSH, 2, MAKEVEC, 0, PUSH, 3, MAKEVEC, 4, SEND, 4, 0, RET>>,
    <<"#1", "-", "fn", "foo", "to_map">>, << >>,
    "Map")

\* puts [2, 1]: puts has popped the vector, and makes a text of the first element before it
\* reads the second.
PrintOperand == Run(
    <<PUSHSELF, PUSH, 0, PUSH, 1, MAKEVEC, 2, SEND, 2, 1, RET>>,
    <<"#1", "#2", "puts">>, << >>, "nil")

\* Values that have no text, or one without end: clones of a vector and of a closure, a map
\* of one element, self.value = self, and an operand that is the NULL pointer.  The text of
\* a clone of a string is NULL, which is printed.
Unprintable == <<
    Run(<<MAKEVEC, 0, SEND, 0, 0, SEND, 1, 0, RET>>, <<"clone", "to_s">>, << >>, "nil"),
    Run(<<PUSHSELF, DEFN, 0, SEND, 1, 0, SEND, 2, 1, RET>>,
        <<"foo", "clone", "puts">>, "foo" :> <<PUSHNIL, RET>>, "nil"),
    Run(<<PUSH, 0, MAKEVEC, 1, SEND, 1, 0, SEND, 2, 0, RET>>,
        <<"foo", "to_map", "to_s">>, << >>, "nil"),
    Run(<<PUSHSELF, PUSHSELF, SETSLOT, 0, POP, 1, PUSHSELF, SEND, 1, 0, RET>>,
        <<"value", "to_s">>, << >>, "nil"),
    Plain(<<PUSHLOCALDEPTH, 1, 0, DUMP, RET>>, "nil"),
    Plain(<<DUMP, PUSHNIL, RET>>, "nil"),
    Run(<<PUSHSELF, PUSH, 0, SEND, 1, 0, SEND, 2, 1, RET>>,
        <<"fn", "clone", "print">>, << >>, "nil") >>

\* Calls and a definition that fail a check or are undefined, and some that do not.
Fails == <<
    Run(<<PUSH, 0, PUSH, 1, SEND, 2, 1, RET>>, <<"#1", "#0", "/">>, << >>, "nil"),
    Run(<<PUSH, 0, PUSHTRUE, SEND, 1, 1, RET>>, <<"#1", "+">>, << >>, "nil"),
    Run(<<PUSHSELF, PUSH, 0, SEND, 1, 1, RET>>, <<"fn", "[]">>, << >>, "nil"),
    Run(<<PUSHTRUE, MAKEVEC, 1, PUSHTRUE, MAKEVEC, 1, SEND, 0, 1, RET>>, <<"==">>, << >>, "true"),
    Run(<<PUSHTRUE, MAKEVEC, 1, PUSH, 0, SEND, 1, 1, RET>>, <<"#123", "[]">>, << >>, "nil"),
    Run(<<PUSHTRUE, PUSHTRUE, MAKEVEC, 2, SEND, 0, 0, RET>>, <<"to_map">>, << >>, "Map"),
    Run(<<PUSHTRUE, PUSH, 0, MAKEVEC, 2, SEND, 1, 0, RET>>, <<"#1", "to_map">>, << >>, "Map"),
    Run(<<PUSHTRUE, SEND, 0, 0, PUSHTRUE, SEND, 1, 1, RET>>, <<"clone", "==">>, << >>, "true"),
    Run(<<PUSH, 0, SEND, 1, 0, SEND, 2, 0, RET>>, <<"lib", "clone", "require">>, << >>, "nil"),
    Run(<<MAKEVEC, 0, SEND, 0, 0, PUSHTRUE, SEND, 1, 1, RET>>, <<"clone", "push">>, << >>, "nil"),
    Run(<<PUSHSELF, SEND, 0, 0, SEND, 1, 0, RET>>, <<"prototype", "to_s">>, << >>, "Object"),
    Run(<<PUSHSELF, SEND, 0, 0, SEND, 1, 0, RET>>, <<"clone", "to_s">>, << >>, "#<...>"),
    Run(<<DEFN, 0, RET>>, <<"tainted">>, << >>, "nil"),
    Run(<<PUSHSELF, GETSLOT, 0, RET>>, <<"#1">>, << >>, "nil"),
    Run(<<PUSHSELF, PUSHTRUE, SETSLOT, 0, RET>>, <<"#1">>, << >>, "nil"),
    Run(<<PUSHSELF, SEND, 0, 0, RET>>, <<"#1">>, << >>, "nil"),
    Run(<<PUSH, 1, RET>>, <<"#1">>, << >>, "nil"),
    Run(<<PUSH, 0, SEND, 1, 0, RET>>, <<"lib", "require">>, << >>, "nil"),
    Plain(<<PUSHTRUE, GOTO, 1>>, "true"),
    Plain(<<PUSHTRUE, POP>>, "true") >>

\* Vector_each is given a native closure: it calls it, and then VM_run runs foo again, which
\* has set a slot by then, returns, and has main return too.
NativeBlock == Run(
    <<PUSHSELF, PUSHFALSE, SETSLOT, 0, POP, 1, PUSHSELF, DEFN, 1, SETSLOT, 1, POP, 1,
      PUSHSELF, SEND, 1, 0, RET>>,
    <<"tainted", "foo", "===", "each">>,
    "foo" :> <<PUSHSELF, GETSLOT, 0, JIT, 14, PUSHSELF, PUSHTRUE, SETSLOT, 0, POP, 1,
               PUSHTRUE, MAKEVEC, 1, PUSHSELF, GETSLOT, 2, SEND, 3, 1, PUSHNIL, RET>>,
    "nil")

UndefinedSlot == Run(<<PUSHSELF, GETSLOT, 0, RET>>, <<"value">>, << >>, "nil")
Underflow == Plain(<<PUSHNIL, POP, 2, RET>>, "nil")
NoReturn == Plain(<<99, PUSHNIL, POP, 1>>, "nil")
Hoard == Plain(<<MAKEVEC, 0, MAKEVEC, 0, MAKEVEC, 0, MAKEVEC, 0, MAKEVEC, 0, RET>>, "Vector")

Others == <<Replaced, Dropped, Gcstress, Factory, RequireAfterPush, RequirePlain, SetOnOperand,
            EachOfOperand, MapOfOperands, UndefinedSlot, Underflow, NoReturn, Hoard,
            NativeBlock, PrintOperand>> \o Unprintable \o Fails

Programs == Tests \o Examples \o Others

JustGcstress == <<Gcstress>>
JustFactory == <<Factory>>
------------------------------------------------------------------------------
(***************************************************************************)
(* What is claimed of the Tests and of the Examples among the Programs.    *)
(***************************************************************************)
IsTest == prog \in 1..Len(Tests)
IsExample == prog \in Len(Tests) + 1 .. Len(Tests \o Examples)

\* The assertions of tests/vm_tests.c hold, and the Examples return what they should,
\* wherever a collection comes between two steps of an instruction.
ExpectedResults == IsTest \/ IsExample => Results

\* Every test gets to the end of State_destroy, whenever the collector runs.
TestsComplete == IsTest => Completes

\* The Examples drive the frames as FramesSafe assumes: each function is defined by
\* one frame, the closures of running frames are kept, and nothing is required.  They keep
\* in the collector's sight what they use, which is what CollectorSpares assumes, and the
\* code of each function is balanced, as OperandsAreBalanced assumes.
ExamplesCareful ==
    /\ IsExample => Careful!Init
    /\ [][IsExample => Careful!Next]_frameVars
    /\ [](IsExample => AllInSight /\ WellHeighted /\ NativesCallClosures)
==============================================================================
