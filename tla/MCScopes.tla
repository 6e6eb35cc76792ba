------------------------------ MODULE MCScopes ------------------------------
\* Model-checking instance of NameiExtScopes, for liveness.
EXTENDS NameiExtScopes
=============================================================================
