-------------------------- MODULE MCSearchPipeline --------------------------
EXTENDS SearchPipeline, TLC
Symmetry == Permutations(Worker)
=============================================================================
