------------------------ MODULE MCServiceCircuitCost ------------------------
EXTENDS ServiceCircuitCost, TLC

\* Callers differ in nothing but their names.
Symmetry == Permutations(Callers)
=============================================================================
