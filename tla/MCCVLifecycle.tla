--------------------------- MODULE MCCVLifecycle ---------------------------
EXTENDS CVLifecycle, TLC

\* CVs and goroutines are interchangeable.
Symmetry == Permutations(CVs) \cup Permutations(Procs)
=============================================================================
