------------------------------- MODULE MCLoader --------------------------------
(***************************************************************************)
(* What Loader is checked on: syntax trees after compiler/examples and     *)
(* compiler/kernel; and files of another compiler, which have all pairs of *)
(* a few functions, some of which have one name or no main function beside *)
(* them, with or without a file that is required.                          *)
(***************************************************************************)
EXTENDS Loader

Lit(l, x) == [node |-> "literal", line |-> l, value |-> x]
Is(l, what) == [node |-> what, line |-> l]
Local(l, x) == [node |-> "local", line |-> l, name |-> x]
Set(l, x, n) == [node |-> "set_local", line |-> l, name |-> x, value |-> n]
Do(l, ns) == [node |-> "block", line |-> l, array |-> ns]
Call(l, r, x, ns) == [node |-> "send", line |-> l, receiver |-> r, name |-> x, arguments |-> ns]
Fn(l, x, as, n) == [node |-> "lambda", line |-> l, name |-> x, arguments |-> as, body |-> n]
While(l, c, n) == [node |-> "while", line |-> l, condition |-> c, body |-> n]
If(l, c, n, e) == [node |-> "if", line |-> l, condition |-> c, body |-> n, else |-> e]
Put(l, r, x, n) == [node |-> "assign", line |-> l, receiver |-> r, name |-> x, value |-> n]
Const(l, x) == [node |-> "constant", line |-> l, name |-> x]
SetConst(l, x, n) == [node |-> "set_constant", line |-> l, name |-> x, value |-> n]
Vec(l, ns) == [node |-> "array", line |-> l, array |-> ns]
Hash(l, ns) == [node |-> "hash", line |-> l, array |-> ns]
Or(l, a, b) == [node |-> "or", line |-> l, left |-> a, right |-> b]
Self(l) == Is(l, "self")

MCNumeral == [x \in {"#0", "#1", "#2", "#123"} |->
                CASE x = "#0" -> 0 [] x = "#1" -> 1 [] x = "#2" -> 2 [] x = "#123" -> 123]

\* functions.rb
Functions == Do(1, <<
    Set(1, "a", Lit(1, "#123")),
    Set(2, "foo", Lit(2, "#123")),
    Put(3, Self(3), "fn", Fn(3, "3_block", <<"foo">>,
        Call(5, Local(5, "a"), "+", <<Local(5, "foo")>>))),
    Call(7, Self(7), "puts", <<Call(7, Self(7), "fn", <<Lit(7, "#2")>>)>>)>>)

\* objects.rb and maps.rb: slots that the visitor has seen assigned, and one it has not.
Objects == Do(1, <<
    Set(1, "parent", Hash(1, <<Lit(1, "foo"), Lit(1, "hello"), Lit(2, "bar"), Is(2, "true")>>)),
    Put(3, Local(3, "parent"), "age", Lit(3, "#1")),
    Call(4, Local(4, "parent"), "age", << >>),
    Call(4, Call(4, Local(4, "parent"), "clone", << >>), "money", << >>),
    Call(5, Local(5, "parent"), "[]", <<Lit(5, "foo")>>)>>)

\* alpha.rb: a constant, and a function of other.
Alpha == Do(1, <<
    SetConst(1, "Number", Is(1, "nil")),
    Put(2, Const(2, "Number"), "<=", Fn(2, "2_block", <<"other">>,
        Or(3, Call(3, Self(3), "<", <<Local(3, "other")>>),
              Call(3, Self(3), "==", <<Local(3, "other")>>))))>>)

\* beta.rb: closures in closures, and a local that they set.
Beta == Do(1, <<
    Put(1, Const(1, "Vector"), "map", Fn(1, "1_map", <<"fn">>, Do(2, <<
        Set(2, "new", Vec(2, << >>)),
        Call(3, Self(3), "each", <<Fn(3, "3_inner", <<"element">>,
            Do(4, <<Call(4, Local(4, "new"), "push",
                         <<Call(4, Local(4, "fn"), "apply", <<Local(4, "element")>>)>>),
                    Set(5, "new", Set(5, "own", Local(5, "new")))>>))>>),
        Local(6, "new")>>)))>>)

\* Branches that are nested, the second on the line of the first, and a vector after them.
Branches == Do(1, <<
    Set(1, "a", Is(1, "false")),
    If(2, Local(2, "a"),
       Do(3, <<Lit(3, "#1"), If(3, Is(3, "nil"), Lit(4, "#2"), Vec(5, <<Lit(5, "#2"), Self(6)>>))>>),
       Fn(7, "7_block", << >>, If(7, Self(7), Lit(8, "yes"), Local(8, "a")))),
    Vec(9, <<Local(9, "a"), Lit(9, "yes")>>)>>)

\* gcstress.rb, with a branch in the body of the loop.
Gcstress == Do(1, <<
    Set(1, "fn", Fn(1, "1_block", << >>,
        Do(2, <<Set(2, "a", Lit(2, "#123")), Call(3, Lit(3, "#2"), "*", <<Lit(3, "#2")>>)>>))),
    While(6, Is(6, "true"),
          If(6, Local(6, "fn"), Call(6, Local(6, "fn"), "apply", <<Lit(6, "#1")>>), Is(7, "nil")))>>)

\* Loops that are not the last expression, and a loop that is the body of another.
Loops == Do(1, <<
    While(1, Is(1, "true"), Is(2, "nil")),
    Set(3, "fn", Fn(3, "3_block", <<"b">>,
        While(4, Local(4, "b"), While(4, Local(4, "b"), Is(4, "false")))))>>)

\* A string with a line break in it.
Greeting == Do(1, <<
    Call(1, Self(1), "puts", <<Lit(1, "two lines")>>),
    Set(2, "fn", Fn(2, "2_block", << >>, Lit(2, "#0")))>>)

MCSources == {
    <<Functions, Alpha>>, <<Objects, Beta>>, <<Branches, Alpha>>, <<Gcstress, Beta>>,
    <<Loops, Alpha>>, <<Greeting, Alpha>> }

Bytecode(name, literals, code) ==
    [name |-> name, literals |-> literals, code |-> code, locals |-> 1]

Mains == {Bytecode(Main, << >>, <<20, 144>>), Bytecode(Main, <<"#1", "text">>, <<144>>)}

Others == {Bytecode("1_a", << >>, << >>), Bytecode("1_a", <<"text", "#0">>, <<17, 1, 144>>),
           Bytecode("2_b", <<"two lines", "#1">>, <<17, 0>>)}

Programs == {<<a, b>> : a \in Mains \union Others, b \in Mains \union Others}
              \union {<<a>> : a \in Mains}

Prelude == <<Bytecode(Main, << >>, <<144>>), Bytecode("3_c", <<"text">>, <<17, 0, 144>>)>>
Clash == <<Bytecode("1_a", <<"#1">>, <<20>>), Bytecode(Main, << >>, << >>)>>

MCWritten ==
    {Outputs(all) : all \in MCSources}
      \union {<<p>> : p \in Programs} \union {<<p, q>> : p \in Programs, q \in {Prelude, Clash}}
==============================================================================
