------------------------- MODULE MCSearchPipeline -------------------------
EXTENDS SearchPipeline, TLC

\* Workers are interchangeable.
Symmetry == Permutations(Workers)
=============================================================================
