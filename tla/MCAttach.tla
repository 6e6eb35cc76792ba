------------------------------ MODULE MCAttach ------------------------------
\* Model-checking instances of NameiExtAttach: a root, a child, a grandchild.
EXTENDS NameiExtAttach

CONSTANTS root, child, leaf, x, y, l

MCChain == (root :> <<root>>) @@ (child :> <<child, root>>) @@ (leaf :> <<leaf, child, root>>)
MCChainShort == (root :> <<root>>) @@ (child :> <<child, root>>)

MCAttachable == Progs \cup (Links \X Progs)

Symmetry == Permutations(Progs)
=============================================================================
