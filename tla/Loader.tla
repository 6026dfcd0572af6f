-------------------------------- MODULE Loader ---------------------------------
(***************************************************************************)
(* The files of a program on their way from the compiler to the            *)
(* interpreter: trees are compiled, Reader reads what is written of them,  *)
(* and a call takes any of the paths that VM_run can take through the code *)
(* of a function.  Files may also be those of another compiler, which      *)
(* README invites to write: they are read, but not called here.            *)
(***************************************************************************)
EXTENDS Compiler, Reader, FiniteSets, TLC

CONSTANTS
    Sources,            \* sequences of syntax trees: the program and the prelude
    MaxRounds           \* bound on the rounds of the loops in a call

\* What the compiler writes of a tree.
Output(tree) ==
    LET fns == Compiled(tree)
    IN  [k \in DOMAIN fns |-> [name |-> fns[k].name, literals |-> fns[k].literals,
                              code |-> fns[k].code, locals |-> Len(fns[k].scopes[1])]]

Outputs(all) == [t \in DOMAIN all |-> Output(all[t])]

ASSUME LoaderAssumption ==
    /\ \A all \in Sources : Outputs(all) \in Written
    /\ MaxRounds \in Nat

VARIABLES
    trees,          \* what was compiled; nothing, if it was by another compiler
    running,        \* the name of the function that is called
    pc, depth,      \* the next cell of its code, and the operands it has pushed
    rounds,         \* the times that it has gone back
    trace           \* history: what it has done

call == <<running, pc, depth, rounds, trace>>
vars == <<readerVars, trees, call>>

Init ==
    /\ ReadInit
    /\ \/ trees \in Sources /\ Outputs(trees) = source
       \/ trees = << >> /\ \A all \in Sources : Outputs(all) # source
    /\ running = ""
    /\ pc = 0
    /\ depth = 0
    /\ rounds = 0
    /\ trace = << >>

\* VM_start, and Primitive_require later on.
Load == Read /\ UNCHANGED <<trees, call>>
------------------------------------------------------------------------------
(***************************************************************************)
(* A call of a function, as far as the code decides what it does           *)
(***************************************************************************)
Enter ==
    /\ phase = "ready"
    /\ trees # << >>
    /\ Intact
    /\ running' \in DOMAIN functions
    /\ phase' = "running"
    /\ UNCHANGED <<source, header, whole, reading, trees, pc, depth, rounds, trace>>

Code == functions[running].code

Cell(k) == Code[pc + 1 + k]

LiteralAt(k) == functions[running].literals[Cell(k) + 1]

\* The operands it takes, the operands it pushes, and what it does.
Instruction ==
    LET op == Cell(0) IN
    CASE op = PUSH -> <<0, 1, <<"push", LiteralAt(1)>>>>
      [] op = PUSHTRUE -> <<0, 1, <<"push", "true">>>>
      [] op = PUSHFALSE -> <<0, 1, <<"push", "false">>>>
      [] op = PUSHNIL -> <<0, 1, <<"push", "nil">>>>
      [] op = PUSHSELF -> <<0, 1, <<"push", "self">>>>
      [] op = PUSHLOBBY -> <<0, 1, <<"push", "lobby">>>>
      [] op = PUSHLOCAL -> <<0, 1, <<"local", 0, Cell(1)>>>>
      [] op = PUSHLOCALDEPTH -> <<0, 1, <<"local", Cell(1), Cell(2)>>>>
      [] op = SETLOCAL -> <<1, 1, <<"set", 0, Cell(1)>>>>
      [] op = SETLOCALDEPTH -> <<1, 1, <<"set", Cell(1), Cell(2)>>>>
      [] op = POP -> <<Cell(1), 0, <<"drop", Cell(1)>>>>
      [] op = GETSLOT -> <<1, 1, <<"ask", LiteralAt(1), 0>>>>
      [] op = SETSLOT -> <<2, 1, <<"assign", LiteralAt(1)>>>>
      [] op = SEND -> <<Cell(2) + 1, 1, <<"ask", LiteralAt(1), Cell(2)>>>>
      [] op = DEFN -> <<0, 1, <<"closure", LiteralAt(1)>>>>
      [] op = MAKEVEC -> <<Cell(1), 1, <<"vector", Cell(1)>>>>

\* The cells of an instruction.
Width(op) ==
    CASE op \in {PUSHTRUE, PUSHFALSE, PUSHNIL, PUSHSELF, PUSHLOBBY, RET} -> 1
      [] op \in {PUSHLOCALDEPTH, SETLOCALDEPTH, SEND} -> 3
      [] OTHER -> 2

CallGoesOn(next, d, events) ==
    /\ pc' = next
    /\ depth' = d
    /\ trace' = trace \o events
    /\ UNCHANGED <<source, header, whole, reading, trees, running>>

Executes(op) == phase = "running" /\ pc < Len(Code) /\ Cell(0) = op

Stops(how) ==
    /\ phase' = how
    /\ UNCHANGED <<source, header, whole, reading, trees, call>>

\* An instruction whose operands are not all of this call takes those of its caller.
Step ==
    /\ phase = "running"
    /\ pc < Len(Code)
    /\ Cell(0) \notin {SETLINE, JMP, JIF, GOTO, RET}
    /\ IF depth < Instruction[1] THEN Stops("underflow")
       ELSE /\ CallGoesOn(pc + Width(Cell(0)), depth - Instruction[1] + Instruction[2],
                          <<Instruction[3]>>)
            /\ UNCHANGED <<phase, rounds>>

Setline == Executes(SETLINE) /\ CallGoesOn(pc + 2, depth, << >>) /\ UNCHANGED <<phase, rounds>>

Jmp == Executes(JMP) /\ CallGoesOn(pc + 2 + Cell(1), depth, << >>) /\ UNCHANGED <<phase, rounds>>

Jif ==
    /\ Executes(JIF)
    /\ IF depth = 0 THEN Stops("underflow")
       ELSE /\ \E truthy \in BOOLEAN :
                 CallGoesOn(IF truthy THEN pc + 2 ELSE pc + 2 + Cell(1), depth - 1,
                            <<<<"branch", truthy>>>>)
            /\ UNCHANGED <<phase, rounds>>

Goto ==
    /\ Executes(GOTO)
    /\ rounds < MaxRounds
    /\ CallGoesOn(Cell(1) - 1, depth, << >>)
    /\ rounds' = rounds + 1
    /\ UNCHANGED phase

Ret ==
    /\ Executes(RET)
    /\ Stops("returned")

Halted ==
    /\ \/ phase \in {"overrun", "underflow", "returned", "no main"}
       \/ phase = "ready" /\ (trees = << >> \/ ~ Intact)
       \/ Executes(GOTO) /\ rounds = MaxRounds
    /\ UNCHANGED vars

Next == Load \/ Enter \/ Step \/ Setline \/ Jmp \/ Jif \/ Goto \/ Ret \/ Halted

Spec == Init /\ [][Next]_vars
------------------------------------------------------------------------------
(***************************************************************************)
(* What a syntax tree asks for, as sequences of what a call does           *)
(***************************************************************************)
Then(A, B) == {a \o b : a \in A, b \in B}

Does(what) == {<<what>>}

RECURSIVE Meaning(_)

InOrder(nodes) == FoldLeft(LAMBDA A, n : Then(A, Meaning(n)), {<< >>}, nodes)

Rounds(n) ==
    LET Round == Then(Does(<<"branch", TRUE>>), Meaning(n.body))
        After[k \in 0..MaxRounds] == IF k = 0 THEN {<< >>} ELSE Then(After[k - 1], Round)
    IN  UNION {After[k] : k \in 0..MaxRounds}

\* The condition of a while loop is evaluated once; then the value of the body decides.
Meaning(n) ==
    CASE n.node = "literal" -> Does(<<"push", n.value>>)
      [] n.node \in {"nil", "true", "false", "self"} -> Does(<<"push", n.node>>)
      [] n.node = "local" -> Does(<<"local", n.name>>)
      [] n.node = "set_local" -> Then(Meaning(n.value), Does(<<"set", n.name>>))
      [] n.node = "block" ->
           Then(FoldLeft(LAMBDA A, m : Then(A, Then(Meaning(m), Does(<<"drop", 1>>))), {<< >>},
                         Front(n.array)),
                Meaning(Last(n.array)))
      [] n.node = "send" ->
           Then(InOrder(<<n.receiver>> \o n.arguments),
                Does(<<"ask", n.name, Len(n.arguments)>>))
      [] n.node = "lambda" -> Does(<<"closure", n.name>>)
      [] n.node = "while" ->
           Then(Then(Meaning(n.condition), Rounds(n)), Does(<<"branch", FALSE>>))
      [] n.node = "if" ->
           Then(Meaning(n.condition),
                Then(Does(<<"branch", TRUE>>), Meaning(n.body))
                  \union Then(Does(<<"branch", FALSE>>), Meaning(n.else)))
      [] n.node = "assign" -> Then(InOrder(<<n.receiver, n.value>>), Does(<<"assign", n.name>>))
      [] n.node = "constant" -> {<<<<"push", "lobby">>, <<"ask", n.name, 0>>>>}
      [] n.node = "set_constant" ->
           Then(Then(Does(<<"push", "lobby">>), Meaning(n.value)), Does(<<"assign", n.name>>))
      [] n.node = "array" -> Then(InOrder(n.array), Does(<<"vector", Len(n.array)>>))
      [] n.node = "hash" ->
           Then(InOrder(Reverse(n.array)),
                {<<<<"vector", Len(n.array)>>, <<"ask", "to_map", 0>>>>})
      [] n.node = "or" -> Then(InOrder(<<n.left, n.right>>), Does(<<"ask", "or", 1>>))

RECURSIVE HasLoop(_)

\* Is there a while loop in the function itself?
HasLoop(n) ==
    \/ n.node = "while"
    \/ n.node \in {"block", "array", "hash"} /\ \E i \in DOMAIN n.array : HasLoop(n.array[i])
    \/ n.node = "if" /\ (HasLoop(n.condition) \/ HasLoop(n.body) \/ HasLoop(n.else))
    \/ n.node \in {"set_local", "assign", "set_constant"} /\ HasLoop(n.value)
------------------------------------------------------------------------------
(***************************************************************************)
(* Properties                                                              *)
(***************************************************************************)
\* visitor.rb: what a call does, from one RET to the next, is what the source asks for, and
\* it leaves the one value that it is called for, main another that is ignored.  A call
\* with a while loop, which leaves no value, may take one too many.
RunsSource ==
    LET fn == LET own == {t \in DOMAIN trees :
                            \E k \in DOMAIN source[t] : source[t][k].name = running}
                  fns == Compiled(trees[CHOOSE t \in own : \A u \in own : t <= u])
              IN  fns[SelectInSeq(fns, LAMBDA g : g.name = running)]
        named == [i \in DOMAIN trace |->
                    IF trace[i][1] \in {"local", "set"}
                      THEN <<trace[i][1], fn.scopes[trace[i][2] + 1][trace[i][3] + 1]>>
                      ELSE trace[i]]
        isMain == fn.name = "0_main"
    IN  /\ phase = "returned" =>
             named \in IF isMain THEN Then(Meaning(fn.body), Does(<<"push", "nil">>))
                       ELSE Meaning(fn.body)
        /\ phase \in {"returned", "underflow"} /\ ~ HasLoop(fn.body) =>
             phase = "returned" /\ depth = (IF isMain THEN 2 ELSE 1)
==============================================================================
