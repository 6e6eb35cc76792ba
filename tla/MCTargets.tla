------------------------------ MODULE MCTargets -----------------------------
\* Model-checking instances of NameiExtTargets.
EXTENDS NameiExtTargets, TLC

Symmetry == Permutations(Writers) \cup Permutations(Records)
=============================================================================
