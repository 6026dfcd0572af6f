------------------------------- MODULE MCDArray -------------------------------
EXTENDS DArray, TLC

\* The array does not look at what it holds.
Symmetry == Permutations(Value)
===============================================================================
