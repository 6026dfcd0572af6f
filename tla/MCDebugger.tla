------------------------------ MODULE MCDebugger -------------------------------
(***************************************************************************)
(* A file that is longer than the context, a short one, and one whose      *)
(* source cannot be read.                                                  *)
(***************************************************************************)
EXTENDS Debugger

CONSTANTS long, short, missing

MCLength == [f \in File |-> CASE f = long -> 5 [] f = short -> 1 [] f = missing -> 0]

MCCodeLine == [f \in File |-> CASE f = long -> {1, 3, 5} [] f = short -> {1} [] f = missing -> {2}]
==============================================================================
