---------------------------- MODULE MCScopesImpl ----------------------------
\* Model-checking instance of NameiExtScopesImpl.
EXTENDS NameiExtScopesImpl, TLC

\* All sets but the tags are interchangeable.
Symmetry ==
    Permutations(Cgroups) \cup Permutations(Paths) \cup Permutations(Readers)
        \cup Permutations(Writers) \cup Permutations(ScopeIds)
=============================================================================
