------------------------------ MODULE MCControl -----------------------------
\* Model-checking instance of NameiExtControl: two paths that change, one
\* that is retired and one that is added, as in initialize_entries.
EXTENDS NameiExtControl

CONSTANTS app, cert, retired, added

MCEntries == <<app, cert, retired, added>>
MCPresent ==
    (0 :> (app :> TRUE @@ cert :> TRUE @@ retired :> TRUE @@ added :> FALSE))
        @@ (1 :> (app :> TRUE @@ cert :> TRUE @@ retired :> FALSE @@ added :> TRUE))
=============================================================================
