-------------------------------- MODULE MCList --------------------------------
EXTENDS List, TLC

\* The nodes are interchangeable: a run allocates and frees them.
Symmetry == Permutations(Node)
===============================================================================
