------------------------- MODULE NameiExtScopesImpl -------------------------
(***************************************************************************)
(* NameiExtScopes implements PolicyScopes: index, counters, seqcount and   *)
(* RCU together answer a walk's prefilter query as if scopes changed       *)
(* atomically and the query looked at them at one moment.                  *)
(*                                                                         *)
(* Two history variables are added beside the steps; they never influence  *)
(* one: mayMiss (was the queried directory unmanaged at some moment of the *)
(* query so far) and answer (what the last finished query returned).       *)
(***************************************************************************)
EXTENDS NameiExtScopes

VARIABLES mayMiss, answer

implVars == <<vars, mayMiss, answer>>

CONSTANTS Global, NoQuery

ASSUME ImplConstants ==
    /\ NoQuery \notin Paths
    /\ \A S \in SUBSET Paths : Global # S

AbstractScope == [c \in Cgroups |-> IF scopes[c] = Null THEN Global ELSE EntriesOf(scopes[c])]

\* A walk is inside namei_ext_parent_maybe_managed.
Querying(r) == rpc[r] \notin {"idle", "maybe", "deref"}

AbstractQuery == [r \in Readers |-> IF Querying(r) THEN rpath[r] ELSE NoQuery]

Abstract == INSTANCE PolicyScopes
                WITH scope <- AbstractScope, query <- AbstractQuery

History ==
    /\ Abstract!Observe
    /\ answer' = [r \in Readers |->
            IF Querying(r) # Querying(r)' THEN rpc'[r] = "maybe" ELSE answer[r]]

ImplInit ==
    /\ Init
    /\ mayMiss = [r \in Readers |-> FALSE]
    /\ answer = [r \in Readers |-> FALSE]

ImplSpec == ImplInit /\ [][Next /\ History]_implVars

\* namei_ext_parent_maybe_managed never gives a false negative: whatever scope
\* commands, attaches, detaches and cgroup removals run between its reads, it
\* answers "not managed" only for a directory that was unmanaged at some moment
\* of the call.
PrefilterSound == Abstract!Spec
=============================================================================
