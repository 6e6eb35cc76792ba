---------------------------- MODULE MCAttachRace ----------------------------
\* NameiExtAttach with one history variable: the cgroups whose scope contained
\* the directory of a task's walk at some moment of its dispatch.
EXTENDS MCAttach

VARIABLE wasIn

RaceInit == Init /\ wasIn = [t \in Tasks |-> {}]

RaceNext ==
    /\ Next
    /\ wasIn' = [t \in Tasks |->
            IF walk'[t].pc \in {"owner", "match", "run", "ran"}
            THEN wasIn[t] \cup {c \in Cgroups : InScope(c, walk[t].path) \/ InScope(c, walk[t].path)'}
            ELSE {}]

RaceSpec == RaceInit /\ [][RaceNext]_<<vars, wasIn>>

\* "the existing effective-owner and per-cgroup scope checks remain
\* authoritative" (docs/implementation.md): a program that decides a walk is
\* attached to a cgroup whose scope contained the directory at some moment of
\* the dispatch.  The code loads the owner before the array, and an attach
\* publishes the array before the owner.
DecidesInScope ==
    \A t \in Tasks : walk[t].pc = "ran" /\ walk[t].by \in Instances =>
        walk[t].by[1] \in wasIn[t]
=============================================================================
