---------------------------- MODULE DebuggerProofs -----------------------------
(***************************************************************************)
(* Proofs about the debugger: breakpoints stop the program once and are    *)
(* not passed over, and the prompt shows the lines around the current one. *)
(***************************************************************************)
EXTENDS Debugger, SequenceTheorems, TLAPS

LineOf(i) == breakpoints[i].line

\* The prompt was entered from breakpoint `index' and not from a step.
AtStop == phase = "prompt" /\ index # 0

\* A function is running, and the loop is at a breakpoint or past the last one.
Running ==
    /\ phase \in {"program", "breakpoints", "prompt"} => calls # << >>
    /\ phase = "breakpoints" => index \in 1..Len(breakpoints) + 1
    /\ phase = "prompt" => index \in 0..Len(breakpoints)

\* The current line is where the program arrived, or it is past the line of a breakpoint
\* that has stopped the program; the first that did so was for the line of arrival.
Lines ==
    /\ current_line >= -1
    /\ hit = {} => current_line = arrived
    /\ hit # {} => \E j \in hit : LineOf(j) = arrived
    /\ current_line = arrived \/ \E j \in hit : LineOf(j) = current_line - 1

\* Breakpoints that have stopped the program are behind the current line, but for the one
\* that it is stopped at.
Behind ==
    /\ phase \in {"program", "breakpoints"} => \A j \in hit : LineOf(j) < current_line
    /\ phase = "prompt" /\ index = 0 => \A j \in hit : LineOf(j) < current_line
    /\ AtStop => index \in hit /\ LineOf(index) = current_line
                   /\ \A j \in hit : LineOf(j) <= current_line

\* The loop has not passed a breakpoint for the line of arrival, unless one has stopped it.
Passed ==
    phase = "breakpoints" /\ hit = {} =>
      \A i \in 1..index - 1 : breakpoints[i] # [filename |-> Current, line |-> arrived]

IInv == TypeOK /\ Running /\ Lines /\ Behind /\ Passed
------------------------------------------------------------------------------
LEMMA ElementsOf ==
  ASSUME NEW S, NEW s \in Seq(S), NEW i \in 1..Len(s)
  PROVE  i \in DOMAIN s /\ s[i] \in S
OBVIOUS

LEMMA AppendKeeps ==
  ASSUME NEW S, NEW s \in Seq(S), NEW e \in S
  PROVE  /\ Append(s, e) \in Seq(S)
         /\ Len(Append(s, e)) = Len(s) + 1
         /\ \A i \in DOMAIN s : Append(s, e)[i] = s[i]
OBVIOUS

LEMMA PopKeeps ==
  ASSUME NEW S, NEW s \in Seq(S), s # << >>
  PROVE  /\ SubSeq(s, 1, Len(s) - 1) \in Seq(S)
         /\ Len(s) # 1 => SubSeq(s, 1, Len(s) - 1) # << >>
<1> DEFINE n == Len(s) - 1
<1>1. Len(s) \in Nat /\ Len(s) # 0
  OBVIOUS
<1>2. n \in Nat
  BY <1>1
<1>3. \A i \in 1..n : s[i] \in S
  BY <1>1, <1>2, ElementsOf
<1> HIDE DEF n
<1>4. SubSeq(s, 1, n) \in Seq(S) /\ Len(SubSeq(s, 1, n)) = IF 1 <= n THEN n - 1 + 1 ELSE 0
  BY <1>2, <1>3, SubSeqProperties
<1>5. n # 0 => SubSeq(s, 1, n) # << >>
  BY <1>2, <1>4, EmptySeq
<1>6. Len(s) # 1 => n # 0
  BY <1>1 DEF n
<1> QED BY <1>4, <1>5, <1>6 DEF n

LEMMA EmptySequence ==
  ASSUME NEW S
  PROVE  << >> \in Seq(S) /\ DOMAIN << >> = {}
OBVIOUS

\* The files and lines of breakpoints, and the running function.
LEMMA Types ==
  ASSUME TypeOK
  PROVE  /\ \A i \in DOMAIN breakpoints : breakpoints[i] \in Breakpoint /\ LineOf(i) \in Nat
         /\ DOMAIN breakpoints = 1..Len(breakpoints)
         /\ calls # << >> => Current \in File
<1>1. DOMAIN breakpoints = 1..Len(breakpoints)
  BY DEF TypeOK
<1>2. ASSUME NEW i \in DOMAIN breakpoints
      PROVE  breakpoints[i] \in Breakpoint /\ LineOf(i) \in Nat
  <2>1. breakpoints[i] \in Breakpoint
    BY <1>1, <1>2, ElementsOf DEF TypeOK
  <2> QED BY <2>1 DEF Breakpoint, LineOf
<1>3. calls # << >> => Current \in File
  BY DEF TypeOK, Current
<1> QED BY <1>1, <1>2, <1>3

LEMMA PrintedPhases == Printed \subseteq {"prompt", "crashed"}
BY DEF Printed

\* Debugger_new, and VM_run when the program is started.
LEMMA InitInv == Init => IInv
<1> SUFFICES ASSUME Init PROVE IInv
  OBVIOUS
<1>1. PICK main \in File : calls = <<main>> /\ current_file = Load(main)
  BY DEF Init
<1>2. MaxInstructions \in Nat
  BY DebuggerAssumption
<1>3. calls \in Seq(File) /\ current_file \in File \union {NULL}
  BY <1>1 DEF Load
<1>4. breakpoints \in Seq(Breakpoint) /\ hit \subseteq DOMAIN breakpoints
  BY EmptySequence DEF Init
<1>5. current_line \in Int /\ arrived \in Int /\ index \in Nat /\ left \in Nat
  BY <1>2 DEF Init
<1>6. TypeOK
  BY <1>3, <1>4, <1>5 DEF TypeOK, Init
<1>7. Running /\ Lines /\ Behind /\ Passed
  BY <1>1 DEF Init, Running, Lines, Behind, Passed, AtStop
<1> QED BY <1>6, <1>7 DEF IInv

LEMMA SetlineStep ==
  ASSUME IInv, NEW l \in CodeLine[Current], SETLINE(l)
  PROVE  IInv'
<1> USE DEF IInv
<1>1. l \in Nat /\ Current \in File
  BY DebuggerAssumption DEF SETLINE, TypeOK, Running, Current
<1>2. TypeOK'
  BY <1>1 DEF SETLINE, TypeOK
<1>3. Running' /\ Lines' /\ Behind' /\ Passed'
  BY <1>1 DEF SETLINE, TypeOK, Running, Lines, Behind, Passed, AtStop
<1> QED BY <1>2, <1>3

LEMMA EvaluateStep ==
  ASSUME IInv, Debugger_evaluate
  PROVE  IInv'
<1> USE DEF IInv
<1>1. \/ phase' \in {"prompt", "crashed"} /\ index' = 0
      \/ phase' = "breakpoints" /\ index' = 1
  BY PrintedPhases DEF Debugger_evaluate
<1>2. TypeOK'
  BY <1>1 DEF Debugger_evaluate, TypeOK, program, lines
<1>3. Running' /\ Lines' /\ Behind' /\ Passed'
  BY <1>1 DEF Debugger_evaluate, program, lines, TypeOK, Running, Lines, Behind, Passed,
              AtStop, LineOf, Current
<1> QED BY <1>2, <1>3

\* A breakpoint that does not match is passed: if none has stopped the program the current
\* line is the line of arrival.
LEMMA BreakpointStep ==
  ASSUME IInv, AtBreakpoint
  PROVE  IInv'
<1> USE DEF IInv
<1>0. index \in 1..Len(breakpoints)
  BY DEF AtBreakpoint, TypeOK, Running
<1>1. /\ index \in DOMAIN breakpoints /\ breakpoints[index] \in Breakpoint
      /\ \A j \in DOMAIN breakpoints : LineOf(j) \in Nat
  BY <1>0, Types
<1>2. CASE Matches(index)
  <2>1. phase' \in {"prompt", "crashed"} /\ hit' = hit \union {index} /\ index' = index
    BY <1>2, PrintedPhases DEF AtBreakpoint
  <2>2. TypeOK'
    BY <1>1, <2>1 DEF AtBreakpoint, TypeOK, program
  <2>3. Running' /\ Passed'
    BY <1>1, <2>1 DEF AtBreakpoint, program, TypeOK, Running, Passed
  <2>4. LineOf(index) = current_line
    BY <1>2 DEF Matches, LineOf
  <2>5. Lines'
    BY <1>1, <2>1, <2>4 DEF AtBreakpoint, program, TypeOK, Lines, LineOf
  <2>6. \A j \in hit' : LineOf(j)' <= current_line'
    <3>1. breakpoints' = breakpoints /\ current_line' = current_line /\ phase = "breakpoints"
      BY DEF AtBreakpoint
    <3>2. \A j \in hit : LineOf(j) < current_line /\ LineOf(j) \in Int /\ current_line \in Int
      BY <1>1, <3>1 DEF Behind, TypeOK
    <3>3. \A j \in hit' : LineOf(j) <= current_line
      BY <2>1, <2>4, <3>2 DEF TypeOK
    <3> QED BY <3>1, <3>3 DEF LineOf
  <2>7. Behind'
    BY <1>1, <2>1, <2>4, <2>6 DEF AtBreakpoint, program, TypeOK, Running, Behind, AtStop, LineOf
  <2> QED BY <2>2, <2>3, <2>5, <2>7
<1>3. CASE ~ Matches(index)
  <2>1. index' = index + 1 /\ UNCHANGED <<phase, hit>>
    BY <1>3 DEF AtBreakpoint
  <2>2. TypeOK' /\ Running'
    BY <1>1, <2>1 DEF AtBreakpoint, TypeOK, Running, program
  <2>3. Lines' /\ Behind'
    BY <2>1 DEF AtBreakpoint, program, Lines, Behind, AtStop, LineOf
  <2>4. ASSUME hit = {}
        PROVE  breakpoints[index] # [filename |-> Current, line |-> arrived]
    BY <1>3, <2>4 DEF Lines, Matches
  <2>5. Passed'
    BY <1>1, <2>1, <2>4 DEF AtBreakpoint, program, TypeOK, Passed, Current
  <2> QED BY <2>2, <2>3, <2>5
<1> QED BY <1>2, <1>3

LEMMA ExecuteStep ==
  ASSUME IInv, Execute
  PROVE  IInv'
<1> USE DEF IInv
<1>1. /\ calls' \in Seq(File)
      /\ current_file' \in File \union {NULL}
      /\ phase' \in {"program", "ended"}
      /\ phase' = "program" => calls' # << >>
  <2>1. phase = "breakpoints" /\ calls # << >> /\ calls \in Seq(File)
    BY DEF Execute, Running, TypeOK
  <2>2. \A f \in File : Append(calls, f) \in Seq(File) /\ Append(calls, f) # << >>
    BY <2>1
  <2>3. /\ SubSeq(calls, 1, Len(calls) - 1) \in Seq(File)
        /\ Len(calls) # 1 => SubSeq(calls, 1, Len(calls) - 1) # << >>
    BY <2>1, PopKeeps
  <2>4. current_file \in File \union {NULL} /\ \A f \in File : Load(f) \in File \union {NULL}
    BY DEF TypeOK, Load
  <2> QED BY <2>1, <2>2, <2>3, <2>4 DEF Execute, Effect
<1>2. left' \in Nat /\ index' \in Nat /\ line_changed' \in BOOLEAN
  <2>1. left \in Nat
    BY DEF TypeOK
  <2>2. left' = (IF left > 0 THEN left - 1 ELSE 0) /\ index' = 0 /\ line_changed' = FALSE
    BY DEF Execute
  <2>3. left' \in Nat
    BY <2>1, <2>2
  <2> QED BY <2>2, <2>3
<1>3. TypeOK'
  BY <1>1, <1>2 DEF Execute, TypeOK
<1>4. Running' /\ Lines' /\ Behind' /\ Passed'
  BY <1>1 DEF Execute, TypeOK, Running, Lines, Behind, Passed, AtStop, LineOf
<1> QED BY <1>3, <1>4

\* The commands with which the prompt returns.
LEMMA GoStep ==
  ASSUME IInv, Go
  PROVE  IInv'
<1> USE DEF IInv
<1>1. /\ phase = "prompt" /\ UNCHANGED eof /\ Resume
      /\ step' \in {"line", "instruction", "none"}
  BY DEF Go, StepInstruction, StepLine, Continue, PrintStack, Reads, TypeOK
<1>2. index \in 0..Len(breakpoints)
  BY <1>1 DEF Running
<1>3. TypeOK'
  BY <1>1, <1>2 DEF TypeOK, Resume, program
<1>4. Running'
  BY <1>1, <1>2 DEF TypeOK, Running, Resume, program
<1>5. CASE index = 0
  BY <1>1, <1>3, <1>4, <1>5
    DEF TypeOK, Resume, program, Lines, Behind, Passed, AtStop, LineOf
<1>6. CASE index # 0
  <2>1. index \in hit /\ LineOf(index) = current_line /\ \A j \in hit : LineOf(j) <= current_line
    BY <1>1, <1>6 DEF Behind, AtStop
  <2>2. \A j \in hit : LineOf(j) \in Int
    BY Types DEF TypeOK
  <2>3. current_line' = current_line + 1
    BY <1>1, <1>6 DEF Resume
  <2>4. Lines' /\ Behind' /\ Passed'
    BY <1>1, <2>1, <2>2, <2>3 DEF TypeOK, Resume, program, Lines, Behind, Passed, AtStop, LineOf
  <2> QED BY <1>3, <1>4, <2>4
<1> QED BY <1>5, <1>6

\* The commands after which the prompt asks again: one adds a breakpoint behind the one that
\* the loop is at.
LEMMA AskStep ==
  ASSUME IInv, SetBreakpoint \/ Inspect
  PROVE  IInv'
<1> USE DEF IInv
<1>1. /\ phase = "prompt" /\ phase' \in {"prompt", "crashed"}
      /\ UNCHANGED <<program, lines, step, index, eof>>
  BY PrintedPhases DEF SetBreakpoint, Inspect, Reads
<1>2. Current \in File /\ index \in 0..Len(breakpoints)
  BY <1>1 DEF TypeOK, Running, Current
<1>3. /\ breakpoints' \in Seq(Breakpoint)
      /\ Len(breakpoints') >= Len(breakpoints)
      /\ \A i \in DOMAIN breakpoints : breakpoints'[i] = breakpoints[i]
  <2>1. breakpoints \in Seq(Breakpoint)
    BY DEF TypeOK
  <2>2. \A l \in BreakLine : [filename |-> Current, line |-> l] \in Breakpoint
    BY <1>2, DebuggerAssumption DEF Breakpoint
  <2>3. \/ breakpoints' = breakpoints
        \/ \E b \in Breakpoint : breakpoints' = Append(breakpoints, b)
    BY <2>2 DEF SetBreakpoint, Inspect
  <2> QED BY <2>1, <2>3, AppendKeeps
<1>4. hit \subseteq DOMAIN breakpoints /\ DOMAIN breakpoints \subseteq DOMAIN breakpoints'
  BY <1>3 DEF TypeOK
<1>5. TypeOK' /\ Running'
  BY <1>1, <1>2, <1>3, <1>4 DEF TypeOK, Running, program, lines
<1>6. \A j \in hit : LineOf(j)' = LineOf(j)
  BY <1>3, <1>4 DEF LineOf
<1>7. Lines'
  BY <1>1, <1>6 DEF Lines, lines
<1>8. Behind' /\ Passed'
  BY <1>1, <1>6 DEF Behind, Passed, AtStop, lines
<1> QED BY <1>5, <1>7, <1>8
------------------------------------------------------------------------------
LEMMA StepInv == IInv /\ [Next]_vars => IInv'
<1> SUFFICES ASSUME IInv, [Next]_vars PROVE IInv'
  OBVIOUS
<1>1. CASE Run
  <2>1. phase \in {"program", "breakpoints"}
    BY <1>1 DEF Run, SETLINE, Debugger_evaluate, AtBreakpoint, Execute
  <2>2. ASSUME NEW f \in File, NEW l \in CodeLine[f], SETLINE(l) PROVE IInv'
    <3>1. l \in CodeLine[Current]
      BY <2>2 DEF SETLINE
    <3> QED BY <2>2, <3>1, SetlineStep
  <2> QED BY <1>1, <2>2, EvaluateStep, BreakpointStep, ExecuteStep DEF Run
<1>2. CASE Go
  BY <1>2, GoStep
<1>3. CASE SetBreakpoint \/ Inspect
  BY <1>3, AskStep
<1>4. CASE EndOfInput
  BY <1>4 DEF EndOfInput, program, lines, IInv, TypeOK, Running, Lines, Behind, Passed,
              AtStop, LineOf, Current
<1>5. CASE UNCHANGED vars
  BY <1>5 DEF vars, program, lines, IInv, TypeOK, Running, Lines, Behind, Passed,
              AtStop, LineOf, Current
<1> QED BY <1>1, <1>2, <1>3, <1>4, <1>5 DEF Next, Halted

LEMMA InvHolds == Spec => []IInv
BY InitInv, StepInv, PTL DEF Spec

\* The debugger's state has its types: the loop never leaves the breakpoints, and there is
\* a current function as long as the program runs.
THEOREM TypeCorrect == Spec => []TypeOK
<1>1. IInv => TypeOK
  BY DEF IInv
<1> QED BY <1>1, InvHolds, PTL

\* Debugger_breakpoint, for any files and breakpoints: after the program has arrived at a
\* line a breakpoint stops it once, and only there or at the lines it was advanced to.
THEOREM EachStopsOnce == Spec => StopsOnce
<1>1. ASSUME IInv, AtBreakpoint, Matches(index)
      PROVE  /\ index \notin hit
             /\ \/ breakpoints[index].line = arrived
                \/ \E i \in hit : breakpoints[i].line = breakpoints[index].line - 1
  <2>1. phase = "breakpoints" /\ LineOf(index) = current_line
    BY <1>1 DEF AtBreakpoint, Matches, LineOf
  <2>2. index \notin hit
    <3> SUFFICES ASSUME index \in hit PROVE FALSE
      OBVIOUS
    <3>1. LineOf(index) < current_line /\ current_line \in Int
      BY <1>1, <2>1 DEF IInv, Behind, TypeOK
    <3> QED BY <2>1, <3>1
  <2> QED BY <1>1, <2>1, <2>2 DEF IInv, Lines, LineOf
<1>2. IInv /\ [Next]_vars =>
        [AtBreakpoint /\ Matches(index) =>
           /\ index \notin hit
           /\ \/ breakpoints[index].line = arrived
              \/ \E i \in hit : breakpoints[i].line = breakpoints[index].line - 1]_vars
  BY <1>1
<1> QED BY <1>2, InvHolds, PTL DEF Spec, StopsOnce

\* Debugger_breakpoint: no first instruction of a line is executed before a breakpoint for
\* the line has stopped the program, wherever its breakpoints are in the array.
THEOREM NoneIsMissed == Spec => NoneMissed
<1>1. ASSUME IInv, Execute, NEW i \in DOMAIN breakpoints,
             breakpoints[i] = [filename |-> Current, line |-> arrived]
      PROVE  \E j \in hit : breakpoints[j].line = arrived
  <2>1. phase = "breakpoints" /\ index > Len(breakpoints) /\ index \in Nat
    BY <1>1 DEF Execute, IInv, TypeOK
  <2>2. i \in 1..index - 1
    BY <1>1, <2>1, Types DEF IInv
  <2>3. hit # {}
    BY <1>1, <2>1, <2>2 DEF IInv, Passed
  <2> QED BY <1>1, <2>3 DEF IInv, Lines, LineOf
<1>2. IInv /\ [Next]_vars =>
        [Execute /\ line_changed =>
           \A i \in DOMAIN breakpoints :
             breakpoints[i] = [filename |-> Current, line |-> arrived] =>
               \E j \in hit : breakpoints[j].line = arrived]_vars
  BY <1>1
<1> QED BY <1>2, InvHolds, PTL DEF Spec, NoneMissed

\* A file whose lines are loaded has some.
Loaded == current_file # NULL => current_file \in File /\ Length[current_file] # 0

\* getlines, for a file of any length and any line.
LEMMA LinesAround ==
  ASSUME NEW length \in Nat, NEW line \in Int, line >= -1, length # 0
  PROVE  LET start == IF line - 3 < 0 THEN 1 ELSE line - 3
             end == IF line + 3 > length THEN length ELSE line + 3
             first == IF start = 0 THEN 1 ELSE start
             count == end - start + 1
         IN  /\ start \in Int /\ end \in Int /\ first \in Int /\ count \in Int
             /\ \A l \in 1..length : l >= line - 3 /\ l <= line + 3 => l >= first /\ l <= first + count - 1
             /\ \A l \in Int : l >= first /\ l <= first + count - 1 =>
                  \/ l \in 1..length /\ l >= line - 3 /\ l <= line + 3
                  \/ line = 3 /\ l - 1 \in 1..length /\ l - 1 >= line - 3 /\ l - 1 <= line + 3
             /\ count <= 0 => line > length + 3
             /\ \A l \in Int : l >= first /\ l <= first + count - 1 /\ l \notin 1..length =>
                  line = 3 /\ length <= 6
OBVIOUS

\* The outcomes of printing the context.
LEMMA PrintedShows ==
  ASSUME current_line \in Int, current_line >= -1, Loaded
  PROVE  /\ "prompt" \in Printed => Shown
         /\ "crashed" \in Printed => Unprintable
<1>1. CASE current_file = NULL
  BY <1>1 DEF Printed, Unprintable
<1>2. CASE current_file # NULL
  <2> DEFINE line == current_line
             length == Length[current_file]
             start == IF line - 3 < 0 THEN 1 ELSE line - 3
             end == IF line + 3 > length THEN length ELSE line + 3
             first == IF start = 0 THEN 1 ELSE start
             count == end - start + 1
  <2>1. length \in Nat /\ length # 0 /\ line \in Int /\ line >= -1
    BY <1>2, DebuggerAssumption DEF Loaded
  <2>2. Window(length, line) = [first |-> first, count |-> count]
    BY DEF Window
  <2>3. LinesRead = first .. first + count - 1
    BY <2>2 DEF LinesRead
  <2>4. Window(length, line).count = count
    BY <2>2
  <2>5. /\ first \in Int /\ count \in Int
        /\ \A l \in 1..length : l >= line - 3 /\ l <= line + 3 => l >= first /\ l <= first + count - 1
        /\ \A l \in Int : l >= first /\ l <= first + count - 1 =>
             \/ l \in 1..length /\ l >= line - 3 /\ l <= line + 3
             \/ line = 3 /\ l - 1 \in 1..length /\ l - 1 >= line - 3 /\ l - 1 <= line + 3
        /\ count <= 0 => line > length + 3
        /\ \A l \in Int : l >= first /\ l <= first + count - 1 /\ l \notin 1..length =>
             line = 3 /\ length <= 6
    BY <2>1, LinesAround
  <2> HIDE DEF length, line, first, count
  <2>6. Context = {l \in 1..length : l \in line - 3 .. line + 3}
    BY DEF Context, length, line
  <2>7. \A l : l \in Context <=> l \in 1..length /\ l >= line - 3 /\ l <= line + 3
    BY <2>1, <2>6
  <2>8. \A l : l \in LinesRead <=> l \in Int /\ l >= first /\ l <= first + count - 1
    BY <2>3, <2>5
  <2>9. Context \subseteq LinesRead
    BY <2>1, <2>5, <2>7, <2>8
  <2>10. \A l \in LinesRead \ Context : line = 3 /\ l - 1 \in Context
    BY <2>5, <2>7, <2>8
  <2>11. Shown
    BY <1>2, <2>9, <2>10 DEF Shown, line
  <2>12. ASSUME "crashed" \in Printed PROVE Unprintable
    <3>1. count <= 0 \/ ~ (LinesRead \subseteq 1..length)
      BY <1>2, <2>4, <2>12 DEF Printed, length, line
    <3>2. count <= 0 => line > length + 3
      BY <2>5
    <3>3. ~ (LinesRead \subseteq 1..length) => line = 3 /\ length <= 6
      BY <2>5, <2>8
    <3> QED BY <3>1, <3>2, <3>3 DEF Unprintable, line, length
  <2> QED BY <2>11, <2>12
<1> QED BY <1>1, <1>2

\* Debugger_print_context and getlines, for files of any length, whatever the program calls
\* and wherever its breakpoints are: the prompt shows the lines around the current one of
\* the file that is loaded, with one more at line 3, and the debugger crashes nowhere but
\* without a file, at line 3 of a file of up to six lines and far past the end of the file.
THEOREM ShowsContext == Spec => []ContextShown
<1> DEFINE Shows == Loaded /\ ContextShown
<1>1. Init => Shows
  BY DebuggerAssumption DEF Init, Load, Loaded, ContextShown
<1>2. ASSUME IInv, Shows, [Next]_vars PROVE Shows'
  <2>1. current_line \in Int /\ current_line >= -1
    BY <1>2 DEF IInv, TypeOK, Lines
  <2>2. ASSUME phase' \in Printed, UNCHANGED <<current_file, current_line>> PROVE Shows'
    <3>1. phase' = "prompt" \/ phase' = "crashed"
      BY <2>2, PrintedPhases
    <3>2. (phase' = "prompt" => Shown) /\ (phase' = "crashed" => Unprintable)
      BY <1>2, <2>1, <2>2, PrintedShows
    <3>3. (Shown => Shown') /\ (Unprintable => Unprintable')
      BY <2>2 DEF Shown, Unprintable, Context, LinesRead
    <3> QED BY <1>2, <2>2, <3>2, <3>3 DEF Loaded, ContextShown
  <2>3. ASSUME phase' \notin {"prompt", "crashed"}, Loaded' PROVE Shows'
    BY <2>3 DEF ContextShown
  <2>4. ASSUME UNCHANGED <<phase, current_file, current_line>> PROVE Shows'
    BY <1>2, <2>4 DEF Loaded, ContextShown, Shown, Unprintable, Context, LinesRead
  <2>5. ASSUME NEW f \in File, NEW l \in CodeLine[f], SETLINE(l) PROVE Shows'
    BY <1>2, <2>3, <2>5 DEF SETLINE, Loaded
  <2>6. CASE Debugger_evaluate
    BY <1>2, <2>2, <2>3, <2>6 DEF Debugger_evaluate, Loaded, program, lines
  <2>7. CASE AtBreakpoint
    BY <1>2, <2>2, <2>3, <2>7 DEF AtBreakpoint, Loaded, program
  <2>8. CASE Execute
    <3>1. Loaded'
      BY <1>2, <2>8, DebuggerAssumption DEF Execute, Effect, Load, Loaded
    <3> QED BY <2>3, <2>8, <3>1 DEF Execute, Effect
  <2>9. CASE Go
    BY <1>2, <2>3, <2>9
       DEF Go, StepInstruction, StepLine, Continue, PrintStack, Resume, Loaded, program
  <2>10. CASE SetBreakpoint
    BY <2>2, <2>10 DEF SetBreakpoint, program, lines
  <2>11. CASE Inspect
    BY <2>2, <2>11 DEF Inspect, program, lines
  <2>12. CASE EndOfInput \/ Halted \/ UNCHANGED vars
    BY <2>4, <2>12 DEF EndOfInput, Halted, vars, program, lines
  <2> QED BY <1>2, <2>5, <2>6, <2>7, <2>8, <2>9, <2>10, <2>11, <2>12 DEF Next, Run
<1>3. Spec => []Shows
  <2>1. IInv /\ Shows /\ [Next]_vars => Shows'
    BY <1>2
  <2> HIDE DEF Shows
  <2> QED BY <1>1, <2>1, InvHolds, PTL DEF Spec
<1>4. Shows => ContextShown
  OBVIOUS
<1> QED BY <1>3, <1>4, PTL
==============================================================================
