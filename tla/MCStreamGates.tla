--------------------------- MODULE MCStreamGates ---------------------------
EXTENDS StreamGates, TLC

\* No action tells one block or choice from another.
Symmetry == Permutations(Groups)
=============================================================================
