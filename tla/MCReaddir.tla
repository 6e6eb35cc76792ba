------------------------------ MODULE MCReaddir -----------------------------
\* Model-checking instance of NameiExtReaddir: three entries, and policies that
\* between them take every decision.
EXTENDS NameiExtReaddir, TLC

MCPolicies == {<<"hide", "pass", "hide">>, <<"redirect", "hide", "select">>,
               <<"invalid", "pass", "hide">>}

Symmetry == Permutations(Tasks) \cup Permutations(Cgroups)
=============================================================================
