-------------------------------- MODULE Reader ---------------------------------
(***************************************************************************)
(* The files of a program: the lines that generator.rb writes, what        *)
(* input_reader.c makes of them, and how VM_start and Primitive_require    *)
(* register the functions.  A file may have been cut off, its header may   *)
(* be the one that README describes or the one that generator.rb writes,   *)
(* and a literal may take two lines.                                       *)
(***************************************************************************)
EXTENDS Integers, SequencesExt

CONSTANTS
    Written,        \* what may be loaded: the functions of the program's file and of those
                    \* that it requires
    Numeral,        \* the literals that are numbers, each with its integer part
    Multiline,      \* the strings that have a line break in them
    Indeterminate   \* what an uninitialised int may hold

WrittenFunction == [name: STRING, literals: Seq(STRING), code: Seq(Nat), locals: Nat]

ASSUME ReaderAssumption ==
    /\ Written \subseteq Seq(Seq(WrittenFunction)) \ {<< >>}
    /\ Numeral \in [DOMAIN Numeral -> Int]
    /\ DOMAIN Numeral \intersect Multiline = {}
    /\ Indeterminate \subseteq Int

VARIABLES
    source, header, whole,  \* what was written, how its counts were, and if the program's
                            \* file has all its lines
    unread,         \* the lines of the files that are left to load
    lines,          \* the lines of the file being read
    cnt,            \* the lines of it that have been passed
    files,          \* state->files: the functions that have been read of each file
    left,           \* what is left to read of the function: num_literals, num_instructions
    heap,           \* the literals that are allocated, by file, function and index
    functions,      \* state->functions, by their names
    phase           \* what is being read or done

reading == <<unread, lines, cnt, files, left, heap, functions>>
readerVars == <<source, header, whole, reading, phase>>
------------------------------------------------------------------------------
(***************************************************************************)
(* The lines of a file                                                     *)
(***************************************************************************)
\* A line: the character that parse_string looks at first, its text and its numbers.
Line(first, text, ints) == [first |-> first, text |-> text, ints |-> ints]

\* A string begins with a quote, and takes two lines if it has a line break in it.
LiteralLines(x) ==
    CASE x \in DOMAIN Numeral -> <<Line("", x, <<Numeral[x]>>)>>
      [] x \in Multiline -> <<Line("\"", "first line", << >>), Line("", "0", << >>)>>
      [] OTHER -> <<Line("\"", x, << >>)>>

\* The counts of a function as README describes them, and as Generator.encode writes them.
Counts(fn, how) ==
    LET documented == <<Len(fn.literals), Len(fn.code)>>
    IN  IF how = "generated" THEN <<fn.locals>> \o documented ELSE documented

Encode(fn, how) ==
    <<Line("_", fn.name, << >>), Line(":", "", Counts(fn, how))>>
      \o FlattenSeq([i \in DOMAIN fn.literals |-> LiteralLines(fn.literals[i])])
      \o [i \in DOMAIN fn.code |-> Line("", "number", <<fn.code[i]>>)]

\* The whole file: the path of the source, the functions, and the newline at the end.
File(fns, how) ==
    <<Line(".", "path", << >>)>>
      \o FlattenSeq([i \in DOMAIN fns |-> Encode(fns[i], how)])
      \o <<Line("", "", << >>)>>
------------------------------------------------------------------------------
ReadInit ==
    /\ source \in Written
    /\ header \in {"documented", "generated"}
    /\ LET all == [f \in DOMAIN source |-> File(source[f], header)]
       IN  \E n \in 1..Len(all[1]) :
             /\ whole = (n >= Len(all[1]) - 1)
             /\ header = "generated" => whole
             /\ unread = [all EXCEPT ![1] = SubSeq(@, 1, n)]
    /\ lines = << >>
    /\ cnt = 0
    /\ files = << >>
    /\ left = <<0, 0>>
    /\ heap = {}
    /\ functions = << >>
    /\ phase = "open"
------------------------------------------------------------------------------
(***************************************************************************)
(* BytecodeFile_new and parse_string                                       *)
(***************************************************************************)
\* The first line is the path of the source; the file is a root from here on.
OpenFile ==
    /\ phase = "open"
    /\ unread # << >>
    /\ lines' = Head(unread)
    /\ unread' = Tail(unread)
    /\ cnt' = 1
    /\ files' = Append(files, << >>)
    /\ phase' = "name"
    /\ UNCHANGED <<source, header, whole, left, heap, functions>>

\* The line is read through a pointer that is not compared with the end of the lines.
Beyond(n) == cnt + n > Len(lines)

ThisLine == lines[cnt + 1]

Overrun ==
    /\ phase \in {"name", "literals", "cells"}
    /\ \/ Beyond(1) /\ (phase = "cells" => left[2] > 0)
       \/ phase = "name" /\ ~ Beyond(1) /\ ThisLine.first = "_" /\ Beyond(2)
    /\ phase' = "overrun"
    /\ UNCHANGED <<source, header, whole, reading>>

\* Mutant of Scanned: the counts are scanned in the other order.
ScannedSwapped(line) == <<line.ints[2], line.ints[1]>>

\* sscanf takes the first two counts of the line.
Scanned(line) == <<line.ints[1], line.ints[2]>>

\* The name of a function, and the counts in the line after it.  The function is put into
\* the file with no literals and its instructions cleared.
ReadFunction ==
    /\ phase = "name"
    /\ ~ Beyond(2)
    /\ ThisLine.first = "_"
    /\ left' = Scanned(lines[cnt + 2])
    /\ files' = [files EXCEPT ![Len(files)] =
                   Append(@, [name |-> ThisLine.text, literals |-> << >>,
                              code |-> [i \in 1..left'[2] |-> 0]])]
    /\ cnt' = cnt + 2
    /\ phase' = IF left'[1] > 0 THEN "literals" ELSE "cells"
    /\ UNCHANGED <<source, header, whole, unread, lines, heap, functions>>

\* A line that does not begin with an underscore ends the file.
NoFunction ==
    /\ phase = "name"
    /\ ~ Beyond(1)
    /\ ThisLine.first # "_"
    /\ phase' = "register"
    /\ UNCHANGED <<source, header, whole, reading>>

\* Hashmap_get of the functions of a file: the first that has the name.
Named(file, name) == SelectInSeq(file, LAMBDA fn : fn.name = name)

\* Mutant of Rooted: a function is put into the file when it has been read.
RootedWhenRead ==
    {l \in heap : l[1] < Len(files) \/ l[2] < Len(files[l[1]])}

\* The literals that GC_add_roots comes to: it looks the functions of a file up by name.
Rooted == {l \in heap : l[2] = Named(files[l[1]], files[l[1]][l[2]].name)}

\* fn, the function that is being read, and what becomes of it.
ThisFunction == Last(Last(files))

Becomes(fn) == files' = [files EXCEPT ![Len(files)] = [@ EXCEPT ![Len(@)] = fn]]

\* String_new or Number_new, whose allocation may collect.
ReadLiteral ==
    /\ phase = "literals"
    /\ ~ Beyond(1)
    /\ LET literals == Append(ThisFunction.literals, ThisLine.text)
       IN  /\ Becomes([ThisFunction EXCEPT !.literals = literals])
           /\ \E kept \in {heap, Rooted} :
                heap' = kept \union {<<Len(files), Len(Last(files)), Len(literals)>>}
    /\ left' = <<left[1] - 1, left[2]>>
    /\ phase' = IF left[1] = 1 THEN "cells" ELSE "literals"
    /\ cnt' = cnt + 1
    /\ UNCHANGED <<source, header, whole, unread, lines, functions>>

\* sscanf leaves the number as it is when the line has none.
ReadCell ==
    /\ phase = "cells"
    /\ left[2] > 0
    /\ ~ Beyond(1)
    /\ LET i == Len(ThisFunction.code) - left[2] + 1
       IN  \E num \in IF ThisLine.ints # << >> THEN {ThisLine.ints[1]} ELSE Indeterminate :
             Becomes([ThisFunction EXCEPT !.code = [@ EXCEPT ![i] = num]])
    /\ left' = <<left[1], left[2] - 1>>
    /\ cnt' = cnt + 1
    /\ UNCHANGED <<source, header, whole, unread, lines, heap, functions, phase>>

FunctionRead ==
    /\ phase = "cells"
    /\ left[2] = 0
    /\ phase' = IF cnt >= Len(lines) THEN "register" ELSE "name"
    /\ UNCHANGED <<source, header, whole, reading>>

Main == "0_main"

\* VM_start registers the functions of the program, and Primitive_require those of another
\* file but for its main function, under names that have no function yet: Hashmap_set appends,
\* and Hashmap_get finds the first.  Without a main function the first frame has none.
Register ==
    /\ phase = "register"
    /\ LET file == Last(files)
           names == {file[k].name : k \in DOMAIN file}
           new == IF Len(files) = 1 THEN names ELSE names \ {Main}
       IN  /\ functions' = [x \in DOMAIN functions \union new |->
                              IF x \in DOMAIN functions THEN functions[x]
                              ELSE file[Named(file, x)]]
           /\ phase' = IF Main \notin names THEN "no main"
                       ELSE IF unread = << >> THEN "ready" ELSE "open"
    /\ UNCHANGED <<source, header, whole, unread, lines, cnt, files, left, heap>>

\* The reading has come to its end.
Loaded ==
    /\ phase \in {"overrun", "no main", "ready"}
    /\ UNCHANGED readerVars

Read ==
    \/ OpenFile \/ Overrun \/ ReadFunction \/ NoFunction \/ ReadLiteral \/ ReadCell
    \/ FunctionRead \/ Register

ReadSpec == ReadInit /\ [][Read \/ Loaded]_readerVars
------------------------------------------------------------------------------
(***************************************************************************)
(* Properties                                                              *)
(***************************************************************************)
\* No two functions have one name, but for the main functions of the files: the compiler
\* makes a name of the line and a random number (visitor.rb:19).
NamesDiffer ==
    \A f, g \in DOMAIN source : \A k \in DOMAIN source[f] : \A l \in DOMAIN source[g] :
        source[f][k].name = source[g][l].name =>
            \/ f = g /\ k = l
            \/ f # g /\ source[f][k].name = Main

\* Files that were written and cut like this are read as they are meant to be: README, a
\* file must contain a main block.
Intact ==
    /\ header = "documented"
    /\ whole
    /\ NamesDiffer
    /\ \A f \in DOMAIN source :
         /\ \E k \in DOMAIN source[f] : source[f][k].name = Main
         /\ \A k \in DOMAIN source[f] : Multiline \intersect ToSet(source[f][k].literals) = {}

\* A function as it should be read.
AsWritten(fn) == [name |-> fn.name, literals |-> fn.literals, code |-> fn.code]

\* The functions that have been written are those that are read, each with the literals and
\* the code it was given, and each is found by its name.
ReadAsWritten ==
    /\ DOMAIN files = DOMAIN source
    /\ \A f \in DOMAIN source :
         /\ DOMAIN files[f] = DOMAIN source[f]
         /\ \A k \in DOMAIN source[f] :
              LET fn == AsWritten(source[f][k])
              IN  /\ files[f][k] = fn
                  /\ f = 1 \/ fn.name # Main =>
                       fn.name \in DOMAIN functions /\ functions[fn.name] = fn

\* input_reader.c, vm.c:61 and primitives.c:136: files that are formed as README describes
\* are never read past their ends, and every function of them is loaded as it was written.
RoundTrip ==
    Intact => /\ phase \notin {"overrun", "no main"}
              /\ phase = "ready" => ReadAsWritten

\* README, "Bytecode format": so is a file that the compiler writes.
GeneratedLoads == phase = "ready" /\ header = "generated" => ReadAsWritten

\* input_reader.c:50: no literal of a function that can be found is collected while files are
\* read, be they cut off or misread, be it the function that is being read.
LiteralsKept ==
    \A f \in DOMAIN files : \A k \in DOMAIN files[f] :
        k = Named(files[f], files[f][k].name) =>
            \A i \in DOMAIN files[f][k].literals : <<f, k, i>> \in heap
==============================================================================
