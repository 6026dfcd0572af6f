------------------------------- MODULE Debugger --------------------------------
(***************************************************************************)
(* The debugger of debugger.c and debugger.h: the lines that SETLINE       *)
(* reports, stepping, breakpoints, and the prompt with the source lines    *)
(* that it prints.  Every instruction but SETLINE and NOOP evaluates the   *)
(* debugger before it is executed; of what instructions do, only calls,    *)
(* returns and the entry to VM_run matter to it.                           *)
(***************************************************************************)
EXTENDS Integers, Sequences, FiniteSets

CONSTANTS
    File,               \* the source files of the functions
    Length,             \* the number of lines of each file; 0: it cannot be read
    CodeLine,           \* the lines of each file that SETLINE reports
    BreakLine,          \* the lines that the user sets breakpoints at
    NULL,
    MaxInstructions,    \* bound on what the program does before it only returns
    MaxDepth,           \* bound on nested calls
    MaxBreakpoints      \* bound on the breakpoints the user sets

ASSUME DebuggerAssumption ==
    /\ Length \in [File -> Nat]
    /\ CodeLine \in [File -> SUBSET (Nat \ {0})]
    /\ \A f \in File : Length[f] > 0 => CodeLine[f] \subseteq 1..Length[f]
    /\ BreakLine \subseteq Nat
    /\ NULL \notin File
    /\ {MaxInstructions, MaxDepth, MaxBreakpoints} \subseteq Nat

VARIABLES
    calls,          \* the files of the functions on FRAMES, the current one last
    left,           \* the instructions that the program may still begin
    current_line, line_changed, step, breakpoints,  \* of struct debugger_s
    current_file,   \* the file whose lines are loaded, NULL for none
    phase,          \* what runs: the program, the prompt or the loop over breakpoints
    index,          \* the breakpoint that the loop is at, 0 while stepping stops it
    cmd,            \* the command that the buffer of this prompt holds, NULL at first
    eof,            \* the input has ended
    arrived,        \* history: the line of the last SETLINE
    hit             \* history: the breakpoints that stopped the program since then

program == <<calls, left, current_file>>
lines == <<current_line, line_changed, arrived, hit>>
vars == <<program, lines, step, breakpoints, phase, index, cmd, eof>>

Breakpoint == [filename : File, line : Nat]

Current == calls[Len(calls)]

Load(f) == IF Length[f] = 0 THEN NULL ELSE f

Init ==
    /\ \E main \in File : calls = <<main>> /\ current_file = Load(main)
    /\ left = MaxInstructions
    /\ current_line = -1
    /\ line_changed = FALSE
    /\ step = "line"
    /\ breakpoints = << >>
    /\ phase = "program"
    /\ index = 0
    /\ cmd = NULL
    /\ eof = FALSE
    /\ arrived = -1
    /\ hit = {}
------------------------------------------------------------------------------
(***************************************************************************)
(* Debugger_print_context and getlines                                     *)
(***************************************************************************)
\* Mutant of Window: the end is not compared with the length of the file.
WindowUnclipped(length, line) ==
    [first |-> IF line - 3 <= 0 THEN 1 ELSE line - 3,
     count |-> line + 3 - (IF line - 3 < 0 THEN 1 ELSE line - 3) + 1]

\* The lines that getlines reads: the first, and how many.  A start of 0 is not made 1
\* before they are counted.
Window(length, line) ==
    LET start == IF line - 3 < 0 THEN 1 ELSE line - 3
        end == IF line + 3 > length THEN length ELSE line + 3
    IN  [first |-> IF start = 0 THEN 1 ELSE start, count |-> end - start + 1]

LinesRead == LET w == Window(Length[current_file], current_line)
             IN  w.first .. w.first + w.count - 1

\* What becomes of the process when the context is printed.  No file is a NULL pointer, and
\* for no lines, or less, DArray_create makes no array: its count is read through NULL.  A
\* line past the end may or may not be memory.
Printed ==
    IF current_file = NULL THEN {"crashed"}
    ELSE IF Window(Length[current_file], current_line).count <= 0 THEN {"crashed"}
    ELSE IF LinesRead \subseteq 1..Length[current_file] THEN {"prompt"}
    ELSE {"prompt", "crashed"}
------------------------------------------------------------------------------
(***************************************************************************)
(* The program                                                             *)
(***************************************************************************)
\* Debugger_setline.
SETLINE(l) ==
    /\ phase = "program"
    /\ left > 0
    /\ l \in CodeLine[Current]
    /\ left' = left - 1
    /\ current_line' = l
    /\ line_changed' = TRUE
    /\ arrived' = l
    /\ hit' = {}
    /\ UNCHANGED <<calls, current_file, step, breakpoints, phase, index, cmd, eof>>

\* Debugger_evaluate up to its call of Debugger_breakpoint.
Debugger_evaluate ==
    /\ phase = "program"
    /\ IF step = "instruction" \/ (step = "line" /\ line_changed)
         THEN phase' \in Printed /\ index' = 0
         ELSE phase' = "breakpoints" /\ index' = 1
    /\ cmd' = NULL
    /\ UNCHANGED <<program, lines, step, breakpoints, eof>>

Matches(i) ==
    breakpoints[i].line = current_line /\ breakpoints[i].filename = Current

\* Mutant of AtBreakpoint: the last breakpoint is left out of the loop.
AtBreakpointButLast ==
    /\ phase = "breakpoints"
    /\ index <= Len(breakpoints)
    /\ IF Matches(index) /\ index < Len(breakpoints)
         THEN phase' \in Printed /\ hit' = hit \union {index} /\ UNCHANGED index
         ELSE index' = index + 1 /\ UNCHANGED <<phase, hit>>
    /\ cmd' = NULL
    /\ UNCHANGED <<program, current_line, line_changed, arrived, step, breakpoints, eof>>

\* One round of the loop in Debugger_breakpoint.
AtBreakpoint ==
    /\ phase = "breakpoints"
    /\ index <= Len(breakpoints)
    /\ IF Matches(index)
         THEN phase' \in Printed /\ hit' = hit \union {index} /\ UNCHANGED index
         ELSE index' = index + 1 /\ UNCHANGED <<phase, hit>>
    /\ cmd' = NULL
    /\ UNCHANGED <<program, current_line, line_changed, arrived, step, breakpoints, eof>>

\* The instruction that has been evaluated: it enters a function, by SEND or by VM_run from
\* a native, which loads its file, or it returns, or it does something else.
Effect ==
    \/ /\ left > 0
       /\ Len(calls) < MaxDepth
       /\ \E f \in File : calls' = Append(calls, f) /\ current_file' \in {current_file, Load(f)}
       /\ phase' = "program"
    \/ /\ calls' = SubSeq(calls, 1, Len(calls) - 1)
       /\ phase' = IF Len(calls) = 1 THEN "ended" ELSE "program"
       /\ UNCHANGED current_file
    \/ /\ left > 0
       /\ phase' = "program"
       /\ UNCHANGED <<calls, current_file>>

\* The end of Debugger_evaluate, and the instruction.
Execute ==
    /\ phase = "breakpoints"
    /\ index > Len(breakpoints)
    /\ line_changed' = FALSE
    /\ left' = IF left > 0 THEN left - 1 ELSE 0
    /\ index' = 0
    /\ Effect
    /\ UNCHANGED <<current_line, arrived, hit, step, breakpoints, cmd, eof>>
------------------------------------------------------------------------------
(***************************************************************************)
(* Debugger_prompt                                                         *)
(***************************************************************************)
\* scanf reads a command.  When the input has ended it leaves the buffer as it is: with the
\* command that was read before, or with whatever was there when the prompt began.
Reads(c) ==
    /\ phase = "prompt"
    /\ eof /\ cmd # NULL => c = cmd
    /\ cmd' = c
    /\ UNCHANGED eof

\* Mutants of Resume: the breakpoint is stepped over without the line; neither is advanced.
ResumeOnLine ==
    /\ phase' = "breakpoints"
    /\ index' = index + 1
    /\ UNCHANGED <<program, lines, breakpoints>>

ResumeAgain ==
    /\ phase' = "breakpoints"
    /\ index' = IF index = 0 THEN 1 ELSE index
    /\ UNCHANGED <<program, lines, breakpoints>>

\* The prompt returns, and the loop over the breakpoints begins or goes on.
Resume ==
    /\ phase' = "breakpoints"
    /\ index' = index + 1
    /\ current_line' = IF index = 0 THEN current_line ELSE current_line + 1
    /\ UNCHANGED <<program, line_changed, arrived, hit, breakpoints>>

StepInstruction == Reads("s") /\ step' = "instruction" /\ Resume

StepLine == Reads("n") /\ step' = "line" /\ Resume

Continue == Reads("c") /\ step' = "none" /\ Resume

PrintStack == Reads("d") /\ Resume /\ UNCHANGED step

\* Debugger_set_breakpoint.  The argument is what the buffer holds, like the command; at
\* the bound no breakpoint is added.
SetBreakpoint ==
    /\ Reads("b")
    /\ IF Len(breakpoints) < MaxBreakpoints
         THEN \E l \in BreakLine :
                breakpoints' = Append(breakpoints, [filename |-> Current, line |-> l])
         ELSE UNCHANGED breakpoints
    /\ phase' \in Printed
    /\ UNCHANGED <<program, lines, step, index>>

\* The other commands, and what the prompt does not understand.
Inspect ==
    /\ Reads("h")
    /\ phase' \in Printed
    /\ UNCHANGED <<program, lines, step, breakpoints, index>>

EndOfInput ==
    /\ phase = "prompt"
    /\ ~ eof
    /\ eof' = TRUE
    /\ UNCHANGED <<program, lines, step, breakpoints, phase, index, cmd>>

Halted == phase \in {"ended", "crashed"} /\ UNCHANGED vars

Run == (\E f \in File : \E l \in CodeLine[f] : SETLINE(l)) \/ Debugger_evaluate \/ AtBreakpoint
         \/ Execute

Go == StepInstruction \/ StepLine \/ Continue \/ PrintStack

Next == Run \/ Go \/ SetBreakpoint \/ Inspect \/ EndOfInput \/ Halted

\* The program runs on, and a user goes on at some time.
Spec == Init /\ [][Next]_vars /\ WF_vars(Run) /\ WF_vars(Go)
------------------------------------------------------------------------------
(***************************************************************************)
(* Properties                                                              *)
(***************************************************************************)
TypeOK ==
    /\ calls \in Seq(File)
    /\ left \in Nat
    /\ current_line \in Int
    /\ line_changed \in BOOLEAN
    /\ step \in {"line", "instruction", "none"}
    /\ breakpoints \in Seq(Breakpoint)
    /\ current_file \in File \union {NULL}
    /\ phase \in {"program", "breakpoints", "prompt", "ended", "crashed"}
    /\ index \in Nat
    /\ eof \in BOOLEAN
    /\ arrived \in Int
    /\ hit \subseteq DOMAIN breakpoints

\* debugger.c:223: after the program has arrived at a line a breakpoint stops it once, and
\* only if it is for that line, or for the line after that of a breakpoint which has stopped
\* it: the line is advanced so as not to stop there again.
StopsOnce ==
    [][AtBreakpoint /\ Matches(index) =>
         /\ index \notin hit
         /\ \/ breakpoints[index].line = arrived
            \/ \E i \in hit : breakpoints[i].line = breakpoints[index].line - 1]_vars

\* debugger.c, Debugger_breakpoint: no instruction that is the first of its line is executed
\* before a breakpoint for that line has stopped the program, if there is one.
NoneMissed ==
    [][Execute /\ line_changed =>
         \A i \in DOMAIN breakpoints :
           breakpoints[i] = [filename |-> Current, line |-> arrived] =>
             \E j \in hit : breakpoints[j].line = arrived]_vars

\* The lines of the loaded file within three of the current one.
Context == {l \in 1..Length[current_file] : l \in current_line - 3 .. current_line + 3}

\* getlines finds them and no others, but at line 3 the one after them too.
Shown ==
    /\ current_file # NULL
    /\ Context \subseteq LinesRead
    /\ \A l \in LinesRead \ Context : current_line = 3 /\ l - 1 \in Context

\* There is no file, a line too many to read, or none to read.
Unprintable ==
    \/ current_file = NULL
    \/ current_line = 3 /\ Length[current_file] <= 6
    \/ current_line > Length[current_file] + 3

\* README, "always show you the high-level code", and file_utils.c: the prompt shows the lines
\* around the current one, of the file that is loaded.  All that the debugger crashes at are
\* a file that could not be read, line 3 of a file of up to six lines, and a line four or more
\* past the end of the file, to which calls and breakpoints may lead.
ContextShown ==
    /\ phase = "prompt" => Shown
    /\ phase = "crashed" => Unprintable

\* debugger.c, Debugger_prompt: a user who goes on at some time gets to the end of the
\* program, but when the input has ended a prompt may repeat a command for ever.
SessionEnds == <>(phase \in {"ended", "crashed"} \/ (eof /\ cmd \in {"b", "h"}))
==============================================================================
