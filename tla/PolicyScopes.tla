---------------------------- MODULE PolicyScopes ----------------------------
(***************************************************************************)
(* What the policy-parent scopes of fs/namei_ext.c promise to a path walk, *)
(* without the hash index, the counters, the seqcount or RCU.              *)
(*                                                                         *)
(* A cgroup's scope is Global (a NULL pointer: every directory is managed  *)
(* while a policy is attached there) or a set of directories.  A walk asks *)
(* "may this directory be managed?" before it does anything else.  The     *)
(* answer may be a false positive; a negative answer is allowed only if    *)
(* the directory really was unmanaged at some moment of the query.         *)
(***************************************************************************)
CONSTANTS Cgroups, Paths, Readers, Global, NoQuery

VARIABLES
    scope,      \* [Cgroups -> {Global} \cup SUBSET Paths]
    active,     \* [Cgroups -> BOOLEAN]: a policy is attached to the cgroup itself
    query,      \* [Readers -> Paths \cup {NoQuery}]: the directory asked about
    mayMiss,    \* [Readers -> BOOLEAN]: unmanaged at some moment of the query
    answer      \* [Readers -> BOOLEAN]: the last answer, FALSE until there is one

vars == <<scope, active, query, mayMiss, answer>>

\* The directory p is in some cgroup's scope, given all scopes sc and flags ac.
\* An exact scope counts even while its cgroup has no policy.
Managed(sc, ac, p) ==
    \E c \in Cgroups : IF sc[c] = Global THEN ac[c] ELSE p \in sc[c]

Init ==
    /\ scope = [c \in Cgroups |-> Global]
    /\ active = [c \in Cgroups |-> FALSE]
    /\ query = [r \in Readers |-> NoQuery]
    /\ mayMiss = [r \in Readers |-> FALSE]
    /\ answer = [r \in Readers |-> FALSE]

\* Every query in progress remembers whether its directory was unmanaged.
Observe ==
    mayMiss' = [r \in Readers |->
        /\ query'[r] # NoQuery
        /\ mayMiss[r] \/ ~Managed(scope', active', query'[r])]

\* A change of one cgroup's scope, atomic for every query.
SetScope(c, new) ==
    /\ scope' = [scope EXCEPT ![c] = new]
    /\ UNCHANGED <<active, query, answer>>
    /\ Observe

\* Attach or detach of a policy at c.
SetActive(c, b) ==
    /\ active' = [active EXCEPT ![c] = b]
    /\ UNCHANGED <<scope, query, answer>>
    /\ Observe

Ask(r, p) ==
    /\ query[r] = NoQuery
    /\ query' = [query EXCEPT ![r] = p]
    /\ answer' = [answer EXCEPT ![r] = FALSE]
    /\ UNCHANGED <<scope, active>>
    /\ Observe

\* The query ends: "no" only if the directory was once unmanaged meanwhile.
Reply(r, a) ==
    /\ query[r] # NoQuery
    /\ a \/ mayMiss[r]
    /\ query' = [query EXCEPT ![r] = NoQuery]
    /\ answer' = [answer EXCEPT ![r] = a]
    /\ UNCHANGED <<scope, active>>
    /\ Observe

Next ==
    \/ \E c \in Cgroups : \E new \in {Global} \cup SUBSET Paths : SetScope(c, new)
    \/ \E c \in Cgroups : \E b \in BOOLEAN : SetActive(c, b)
    \/ \E r \in Readers : \E p \in Paths : Ask(r, p)
    \/ \E r \in Readers : \E a \in BOOLEAN : Reply(r, a)

Spec == Init /\ [][Next]_vars
=============================================================================
