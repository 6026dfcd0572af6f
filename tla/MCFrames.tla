------------------------------ MODULE MCFrames -------------------------------
EXTENDS Frames, TLC

\* Interchangeable cells; Top is told apart by Init.
Symmetry ==
    Permutations(Frame \ {Top}) \union Permutations(Closure) \union Permutations(Function)
==============================================================================
