------------------------------- MODULE Compiler --------------------------------
(***************************************************************************)
(* The compiler of compiler/lib/terror: what Visitor, Generator, Scope and *)
(* Branching make of a syntax tree, and the file that is written of it.    *)
(*                                                                         *)
(* A node is a record with the line it is on and the name of the method of *)
(* Visitor that is called for it; nodes which are visited alike have one   *)
(* name here.  A visitor is a record too: `scopes' are the locals of its   *)
(* generator's scope and of those around it, `line' is @current_line,      *)
(* `last' the opcode of the last instruction, and the instruction pointer  *)
(* @ip is the length of its code.                                          *)
(***************************************************************************)
EXTENDS Integers, SequencesExt, Opcode

NewVisitor(arguments, scopes, body) ==
    [code |-> << >>, last |-> NOOP, literals |-> << >>, scopes |-> <<arguments>> \o scopes,
     line |-> -1, slots |-> {}, fns |-> << >>, body |-> body]

\* The cells of one instruction, its opcode first.
Emit(v, cells) == [v EXCEPT !.code = @ \o cells, !.last = cells[1]]

setline(v, line) ==
    IF v.line = line THEN v ELSE [Emit(v, <<SETLINE, line>>) EXCEPT !.line = line]

Position(s, x) == SelectInSeq(s, LAMBDA y : y = x)

\* Generator.literal: the value is added if it is a new one.
literal(v, x) == [v EXCEPT !.literals = IF x \in ToSet(@) THEN @ ELSE Append(@, x)]

\* Mutant of EmitLiteral: the operand is the index of the last literal.
EmitLastLiteral(v, opcode, x, rest) ==
    LET w == literal(v, x)
    IN  Emit(w, <<opcode, Len(w.literals) - 1>> \o rest)

\* An instruction whose first operand is a literal.
EmitLiteral(v, opcode, x, rest) ==
    LET w == literal(v, x)
    IN  Emit(w, <<opcode, Position(w.literals, x) - 1>> \o rest)

\* Scope.search_local: how far out the nearest scope is that has the name; a name that none
\* has becomes a local of the first.
search_local(scopes, name) ==
    LET i == SelectInSeq(scopes, LAMBDA s : name \in ToSet(s))
    IN  IF i = 0 THEN 0 ELSE i - 1

EmitLocal(v, near, far, name) ==
    LET depth == search_local(v.scopes, name)
        w == [v EXCEPT !.scopes[depth + 1] = IF name \in ToSet(@) THEN @ ELSE Append(@, name)]
        index == Position(w.scopes[depth + 1], name) - 1
    IN  Emit(w, IF depth > 0 THEN <<far, depth, index>> ELSE <<near, index>>)

\* Generator.encode adds a RET if that is not the last instruction already.
Returning(v) == IF v.last = RET THEN v.code ELSE Append(v.code, RET)
------------------------------------------------------------------------------
(***************************************************************************)
(* Visitor                                                                 *)
(***************************************************************************)
\* The label that follows cell i is set at cell j: an offset counts from the one to the other.
Jumps(code, i, j) == [code EXCEPT ![i] = j - i]

\* The name that @slots knows the receiver by: that of a local, a constant or a message.
SlotKey(n) == IF n.node \in {"local", "constant", "send"} THEN n.name ELSE "self"

RECURSIVE Visit(_, _)

VisitAll(v, nodes) == FoldLeft(Visit, v, nodes)

\* Visitor.block: every value but the last is dropped.
Block(v, nodes) ==
    FoldLeft(LAMBDA w, i : IF i = Len(nodes) THEN Visit(w, nodes[i])
                           ELSE Emit(Visit(w, nodes[i]), <<POP, 1>>),
             v, [i \in 1..Len(nodes) |-> i])

\* A while loop goes back to the JIF before its body: VM_run adds one to `then - 1' and
\* takes two off.
Loop(v, condition, body) ==
    LET jif == Emit(Visit(v, condition), <<JIF, 0>>)
        loop == Visit(jif, body)
        goto == Emit(loop, <<GOTO, Len(jif.code) - 1>>)
    IN  [goto EXCEPT !.code = Jumps(@, Len(jif.code), Len(goto.code))]

Branch(v, condition, body, else) ==
    LET jif == Emit(Visit(v, condition), <<JIF, 0>>)
        jmp == Emit(Visit(jif, body), <<JMP, 0>>)
        done == Visit(jmp, else)
    IN  [done EXCEPT !.code = Jumps(Jumps(@, Len(jif.code), Len(jmp.code)),
                                    Len(jmp.code), Len(done.code))]

\* Visitor.defn: another visitor compiles the block, within the scopes of this one.
Define(v, n) ==
    [EmitLiteral(v, DEFN, n.name, << >>) EXCEPT !.fns =
        Append(@, [name |-> n.name,
                   visitor |-> Visit(NewVisitor(n.arguments, v.scopes, n.body), n.body)])]

Assign(v, n) ==
    EmitLiteral(VisitAll([v EXCEPT !.slots = @ \union {<<SlotKey(n.receiver), n.name>>}],
                         <<n.receiver, n.value>>),
                SETSLOT, n.name, << >>)

Ask(v, n) ==
    IF n.arguments = << >> /\ <<SlotKey(n.receiver), n.name>> \in v.slots
         /\ SlotKey(n.receiver) # "self"
      THEN EmitLiteral(Visit(v, n.receiver), GETSLOT, n.name, << >>)
      ELSE EmitLiteral(VisitAll(Visit(v, n.receiver), n.arguments),
                       SEND, n.name, <<Len(n.arguments)>>)

Leaf(v, n) ==
    CASE n.node = "literal" -> EmitLiteral(v, PUSH, n.value, << >>)
      [] n.node = "nil" -> Emit(v, <<PUSHNIL>>)
      [] n.node = "true" -> Emit(v, <<PUSHTRUE>>)
      [] n.node = "false" -> Emit(v, <<PUSHFALSE>>)
      [] n.node = "self" -> Emit(v, <<PUSHSELF>>)
      [] n.node = "local" -> EmitLocal(v, PUSHLOCAL, PUSHLOCALDEPTH, n.name)

Visit(visitor, n) ==
    LET v == setline(visitor, n.line) IN
    CASE n.node \in {"literal", "nil", "true", "false", "self", "local"} -> Leaf(v, n)
      [] n.node = "set_local" ->
           EmitLocal(Visit(v, n.value), SETLOCAL, SETLOCALDEPTH, n.name)
      [] n.node = "block" -> Block(v, n.array)
      [] n.node = "send" -> Ask(v, n)
      [] n.node = "lambda" -> Define(v, n)
      [] n.node = "while" -> Loop(v, n.condition, n.body)
      [] n.node = "if" -> Branch(v, n.condition, n.body, n.else)
      [] n.node = "assign" -> Assign(v, n)
      [] n.node = "constant" -> EmitLiteral(Emit(v, <<PUSHLOBBY>>), GETSLOT, n.name, << >>)
      [] n.node = "set_constant" ->
           EmitLiteral(Visit(Emit(v, <<PUSHLOBBY>>), n.value), SETSLOT, n.name, << >>)
      [] n.node = "array" -> Emit(VisitAll(v, n.array), <<MAKEVEC, Len(n.array)>>)
      [] n.node = "hash" ->
           EmitLiteral(Emit(VisitAll(v, Reverse(n.array)), <<MAKEVEC, Len(n.array)>>),
                       SEND, "to_map", <<0>>)
      [] n.node = "or" -> EmitLiteral(VisitAll(v, <<n.left, n.right>>), SEND, "or", <<1>>)
------------------------------------------------------------------------------
(***************************************************************************)
(* The functions of a file, main first                                     *)
(***************************************************************************)
RECURSIVE Finalize(_, _)

\* Visitor.finalize: a function is followed by those that are defined in it.
Finalize(name, v) ==
    <<[name |-> name, literals |-> v.literals, code |-> Returning(v),
       scopes |-> v.scopes, body |-> v.body]>>
      \o FlattenSeq([i \in DOMAIN v.fns |-> Finalize(v.fns[i].name, v.fns[i].visitor)])

\* Terror.parse_file: nil is pushed at the end of a script.
Compiled(tree) ==
    Finalize("0_main", Emit(Visit(NewVisitor(<< >>, << >>, tree), tree), <<PUSHNIL>>))
==============================================================================
