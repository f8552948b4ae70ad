-------------------------- MODULE MCInvestigation ---------------------------
EXTENDS Investigation
Symmetry == Permutations(Nodes)
=============================================================================
