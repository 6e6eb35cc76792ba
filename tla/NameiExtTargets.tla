--------------------------- MODULE NameiExtTargets --------------------------
(***************************************************************************)
(* Registered targets: the registry of fs/namei_ext.c (register, replace,  *)
(* clear, cgroup release, each with an RCU grace period) and the walks of  *)
(* fs/namei.c that select from it, borrowing a target's path in RCU-walk   *)
(* and referencing it in ref-walk.                                         *)
(*                                                                         *)
(* An object is what a struct path names; refs counts the references that  *)
(* the registry and the walks hold on it, and pinned says that the world   *)
(* outside (the name in its directory, open files) keeps it.  Mount and    *)
(* dentry reference are one.  Records are taken from a pool so that reuse  *)
(* is visible.  The sequence counts of dentries and mounts may move at any *)
(* time: a conversion to ref-walk may always fail.                         *)
(***************************************************************************)
EXTENDS Naturals, FiniteSets

CONSTANTS
    Cgroups, Writers, Tasks,
    TargetIds,          \* the valid, non-zero target ids
    Objects, Dirs,      \* objects, and those that d_can_lookup
    Base,               \* the directory every walk starts from
    Records,            \* pool of namei_ext_target objects
    MaxComponents,      \* components of a walked name
    Null

ASSUME TargetConstants ==
    /\ IsFiniteSet(Records) /\ IsFiniteSet(Tasks)
    /\ Dirs \subseteq Objects /\ Base \in Dirs
    /\ MaxComponents \in Nat \ {0}
    /\ Writers \cap Cgroups = {}
    /\ Null \notin Records \cup Writers \cup Cgroups

VARIABLES
    life,           \* [Cgroups -> {"live","dead","released"}]
    linked,         \* the records in the hash table namei_ext_targets
    rec,            \* [Records -> [cgrp, id, obj]]
    allocated,      \* the records that are not free memory
    lock,           \* who holds namei_ext_targets_lock across steps, or Null
    act,            \* what each writer or release worker is doing
    grace,          \* the walks an actor's synchronize_rcu still waits for
    refs, pinned,   \* per object
    pc, mode,       \* per walk: position; "rcu", "ref" or "none"
    attempt,        \* 1: LOOKUP_RCU, 2: ref-walk, 3: LOOKUP_REVAL
    left,           \* components still to walk
    cur, src,       \* nd->path, and the record it is borrowed from, or Null
    key, wrec, tgt, \* target_cgroup_id and target_id; record found; its path
    err             \* result of a walk that failed

registryVars == <<life, linked, rec, allocated, lock, act, pinned>>
walkVars == <<pc, mode, attempt, left, cur, src, key, wrec, tgt, err>>
vars == <<registryVars, grace, refs, walkVars>>

Actors == Writers \cup Cgroups      \* a cgroup acts as its release worker
Keys == Cgroups \X TargetIds
Idle == [op |-> "idle"]

Alive(o) == pinned[o] \/ refs[o] > 0

PathGet(o) == [refs EXCEPT ![o] = @ + 1]
PathPut(o) == [refs EXCEPT ![o] = @ - 1]

\* Walks inside an RCU read-side section: all of an RCU-walk, and the inside of
\* namei_ext_get_target.
InRcu == {t \in Tasks : mode[t] = "rcu" \/ pc[t] = "get"}

\* namei_ext_find_target_rcu
Found(k) == {r \in linked : rec[r].cgrp = k[1] /\ rec[r].id = k[2]}

Init ==
    /\ life = [c \in Cgroups |-> "live"]
    /\ linked = {}
    /\ rec \in [Records -> [cgrp : {Null}, id : {Null}, obj : {Null}]]
    /\ allocated = {}
    /\ lock = Null
    /\ act = [a \in Actors |-> Idle]
    /\ grace = [a \in Actors |-> {}]
    /\ refs = [o \in Objects |-> 0]
    /\ pinned = [o \in Objects |-> TRUE]
    /\ pc = [t \in Tasks |-> "idle"]
    /\ mode = [t \in Tasks |-> "none"]
    /\ attempt = [t \in Tasks |-> 1]
    /\ left = [t \in Tasks |-> 0]
    /\ cur = [t \in Tasks |-> Base]
    /\ src = [t \in Tasks |-> Null]
    /\ key = [t \in Tasks |-> Null]
    /\ wrec = [t \in Tasks |-> Null]
    /\ tgt = [t \in Tasks |-> Base]
    /\ err = [t \in Tasks |-> "none"]

-----------------------------------------------------------------------------
(* The registry.                                                           *)

NoRecord == [cgrp |-> Null, id |-> Null, obj |-> Null]

\* A record is given back: its path reference is put, its memory freed.
FreeRecords(rs) ==
    /\ refs' = [o \in Objects |-> refs[o] - Cardinality({r \in rs : rec[r].obj = o})]
    /\ rec' = [r \in Records |-> IF r \in rs THEN NoRecord ELSE rec[r]]
    /\ allocated' = allocated \ rs

\* namei_ext_register_target_write: references on a live cgroup and on the path
\* of an open descriptor, then a record for it.
RegisterBegin(w, c, id, o) ==
    /\ act[w] = Idle
    /\ life[c] = "live" /\ pinned[o]
    /\ \E r \in Records \ allocated :
          /\ allocated' = allocated \cup {r}
          /\ rec' = [rec EXCEPT ![r] = [cgrp |-> c, id |-> id, obj |-> o]]
          /\ act' = [act EXCEPT ![w] = [op |-> "register", cgrp |-> c, new |-> r]]
    /\ refs' = PathGet(o)
    /\ UNCHANGED <<life, linked, lock, pinned, grace, walkVars>>

\* Mutant: the callee puts the path as well as the caller.
RegisterDeadTwice(w) ==
    /\ act[w].op = "register" /\ lock = Null
    /\ life[act[w].cgrp] # "live"
    /\ refs' = [refs EXCEPT ![rec[act[w].new].obj] = @ - 2]
    /\ rec' = [rec EXCEPT ![act[w].new] = NoRecord]
    /\ allocated' = allocated \ {act[w].new}
    /\ act' = [act EXCEPT ![w] = Idle]
    /\ UNCHANGED <<life, linked, lock, pinned, grace, walkVars>>

\* namei_ext_register_target on a cgroup that died meanwhile: -ENODEV.
RegisterDead(w) ==
    /\ act[w].op = "register" /\ lock = Null
    /\ life[act[w].cgrp] # "live"
    /\ FreeRecords({act[w].new})
    /\ act' = [act EXCEPT ![w] = Idle]
    /\ UNCHANGED <<life, linked, lock, pinned, grace, walkVars>>

\* Mutants: no wait for readers, or a wait for idle tasks too.
GraceReadersNone == {}
GraceReadersAll == Tasks

\* What synchronize_rcu waits for.
GraceReaders == InRcu

\* The records taken out of the table are freed after a grace period; without
\* one there is nothing to do.
Retire(a, rs) ==
    IF rs = {}
    THEN act' = [act EXCEPT ![a] = Idle] /\ UNCHANGED grace
    ELSE /\ act' = [act EXCEPT ![a] = [op |-> "retire", cgrp |-> act[a].cgrp, recs |-> rs]]
         /\ grace' = [grace EXCEPT ![a] = GraceReaders]

\* Mutant: the replaced record is forgotten.
RegisterInstallForgets(w) ==
    /\ act[w].op = "register" /\ lock = Null
    /\ life[act[w].cgrp] = "live"
    /\ LET new == act[w].new
           same == Found(<<rec[new].cgrp, rec[new].id>>)
       IN  /\ linked' = (linked \ same) \cup {new}
           /\ Retire(w, {})
    /\ UNCHANGED <<life, rec, allocated, lock, pinned, refs, walkVars>>

\* ... otherwise the record is linked, in place of the one with its key.
RegisterInstall(w) ==
    /\ act[w].op = "register" /\ lock = Null
    /\ life[act[w].cgrp] = "live"
    /\ LET new == act[w].new
           same == Found(<<rec[new].cgrp, rec[new].id>>)
       IN  /\ linked' = (linked \ same) \cup {new}
           /\ Retire(w, same)
    /\ UNCHANGED <<life, rec, allocated, lock, pinned, refs, walkVars>>

\* namei_ext_clear_targets, called by a "clear" write ...
ClearBegin(w, c) ==
    /\ act[w] = Idle /\ lock = Null
    /\ life[c] = "live"
    /\ act' = [act EXCEPT ![w] = [op |-> "clear", cgrp |-> c, recs |-> {}]]
    /\ lock' = w
    /\ UNCHANGED <<life, linked, rec, allocated, pinned, grace, refs, walkVars>>

\* ... takes its records out one by one, visibly to walks ...
ClearOne(a) ==
    /\ lock = a
    /\ \E r \in linked :
          /\ rec[r].cgrp = act[a].cgrp
          /\ linked' = linked \ {r}
          /\ act' = [act EXCEPT ![a].recs = @ \cup {r}]
    /\ UNCHANGED <<life, rec, allocated, lock, pinned, grace, refs, walkVars>>

\* Mutant: the loop ends at the first record it has taken out.
ClearEndEarly(a) ==
    /\ lock = a
    /\ act[a].recs # {} \/ \A r \in linked : rec[r].cgrp # act[a].cgrp
    /\ lock' = Null
    /\ Retire(a, act[a].recs)
    /\ UNCHANGED <<life, linked, rec, allocated, pinned, refs, walkVars>>

\* ... and drops the lock before it waits.
ClearEnd(a) ==
    /\ lock = a
    /\ \A r \in linked : rec[r].cgrp # act[a].cgrp
    /\ lock' = Null
    /\ Retire(a, act[a].recs)
    /\ UNCHANGED <<life, linked, rec, allocated, pinned, refs, walkVars>>

\* The grace period is over: path_put and kfree.
Retired(a) ==
    /\ act[a].op = "retire" /\ grace[a] = {}
    /\ FreeRecords(act[a].recs)
    /\ act' = [act EXCEPT ![a] = Idle]
    /\ UNCHANGED <<life, linked, lock, pinned, grace, walkVars>>

Rmdir(c) ==
    /\ life[c] = "live"
    /\ life' = [life EXCEPT ![c] = "dead"]
    /\ UNCHANGED <<linked, rec, allocated, lock, act, pinned, grace, refs, walkVars>>

\* A writer holds bpf.refcnt of c from namei_ext_current_cgroup until it is done.
Referenced(c) == \E w \in Writers : act[w] # Idle /\ act[w].cgrp = c

\* namei_ext_cgroup_release, once bpf.refcnt is zero: its last call.
ReleaseBegin(c) ==
    /\ life[c] = "dead" /\ ~Referenced(c) /\ lock = Null
    /\ life' = [life EXCEPT ![c] = "released"]
    /\ act' = [act EXCEPT ![c] = [op |-> "clear", cgrp |-> c, recs |-> {}]]
    /\ lock' = c
    /\ UNCHANGED <<linked, rec, allocated, pinned, grace, refs, walkVars>>

\* The last outside reference to an object goes: unlinked and closed.
Unpin(o) ==
    /\ o # Base /\ pinned[o]
    /\ pinned' = [pinned EXCEPT ![o] = FALSE]
    /\ UNCHANGED <<life, linked, rec, allocated, lock, act, grace, refs, walkVars>>

-----------------------------------------------------------------------------
(* A walk (filename_lookup, path_lookupat, walk_component_namei_ext).      *)

\* Leaving RCU ends the walk's part of every grace period.
WalkStep ==
    /\ grace' = [a \in Actors |-> grace[a] \cap InRcu']
    /\ UNCHANGED registryVars

Become(t, f, v) == f' = [f EXCEPT ![t] = v]

\* path_init: nd->path is only referenced in ref-walk.
StartAttempt(t, n) ==
    /\ Become(t, pc, "component")
    /\ Become(t, attempt, n)
    /\ Become(t, mode, IF n = 1 THEN "rcu" ELSE "ref")
    /\ refs' = IF n = 1 THEN refs ELSE PathGet(Base)
    /\ Become(t, left, MaxComponents)
    /\ Become(t, cur, Base)
    /\ Become(t, src, Null)
    /\ Become(t, err, "none")
    /\ UNCHANGED <<key, wrec, tgt>>
    /\ WalkStep

WalkStart(t) == pc[t] = "idle" /\ StartAttempt(t, 1)

\* The end of a component: on to the next one, or to complete_walk.
NextComponent(t) ==
    /\ Become(t, left, left[t] - 1)
    /\ Become(t, pc, IF left[t] = 1 THEN "complete" ELSE "component")

\* try_to_unlazy: reference nd->path and leave RCU ...
Unlazied(t) ==
    /\ mode[t] = "rcu" /\ Alive(cur[t])
    /\ refs' = PathGet(cur[t])
    /\ Become(t, mode, "ref")
    /\ Become(t, src, Null)

\* ... or fail, leave RCU and restart the walk.
UnlazyFails(t) ==
    /\ mode[t] = "rcu"
    /\ Become(t, mode, "none")
    /\ Become(t, src, Null)
    /\ Become(t, pc, "failed")
    /\ Become(t, err, "echild")
    /\ Become(t, key, Null)
    /\ UNCHANGED <<refs, attempt, left, cur, wrec, tgt>>
    /\ WalkStep

\* PASS: the component is looked up as usual; RCU-walk goes on.  Where that
\* leads is not modelled: nd->path stays.
WalkPass(t) ==
    /\ pc[t] = "component"
    /\ NextComponent(t)
    /\ UNCHANGED <<refs, mode, attempt, cur, src, key, wrec, tgt, err>>
    /\ WalkStep

\* REDIRECT leaves RCU-walk before the component is replaced; so does a PASS
\* whose lookup misses the dentry cache.
WalkRedirect(t) ==
    /\ pc[t] = "component"
    /\ \/ /\ mode[t] = "rcu" /\ Unlazied(t)
          /\ NextComponent(t)
          /\ UNCHANGED <<attempt, cur, key, wrec, tgt, err>>
          /\ WalkStep
       \/ UnlazyFails(t)
       \/ /\ mode[t] = "ref"
          /\ NextComponent(t)
          /\ UNCHANGED <<refs, mode, attempt, cur, src, key, wrec, tgt, err>>
          /\ WalkStep

\* An error of the policy or of the resolution is returned from ref-walk only.
ErrorFrom(t) ==
    \/ /\ Unlazied(t)
       /\ Become(t, pc, "failed")
       /\ Become(t, err, "error")
       /\ Become(t, key, Null)
       /\ UNCHANGED <<attempt, left, cur, wrec, tgt>>
       /\ WalkStep
    \/ UnlazyFails(t)
    \/ /\ mode[t] = "ref"
       /\ Become(t, pc, "failed")
       /\ Become(t, err, "error")
       /\ Become(t, key, Null)
       /\ UNCHANGED <<refs, mode, attempt, left, cur, src, wrec, tgt>>
       /\ WalkStep

\* HIDE, an invalid decision, or target id 0.
WalkError(t) == pc[t] = "component" /\ ErrorFrom(t)

\* SELECT_TARGET: the decision is saved with the id of the task's cgroup.
WalkSelect(t, k) ==
    /\ pc[t] = "component"
    /\ life[k[1]] # "released"
    /\ Become(t, key, k)
    /\ Become(t, pc, "resolve")
    /\ UNCHANGED <<refs, mode, attempt, left, cur, src, wrec, tgt, err>>
    /\ WalkStep

\* namei_ext_resolve_target: -ENOENT ...
ResolveNone(t) ==
    /\ pc[t] = "resolve" /\ Found(key[t]) = {}
    /\ ErrorFrom(t)

\* ... or a record, whose path is then read under RCU.
ResolveFind(t) ==
    /\ pc[t] = "resolve"
    /\ \E r \in Found(key[t]) : Become(t, wrec, r)
    /\ Become(t, pc, IF mode[t] = "rcu" THEN "borrow" ELSE "get")
    /\ Become(t, key, Null)
    /\ UNCHANGED <<refs, mode, attempt, left, cur, src, tgt, err>>
    /\ WalkStep

\* RCU-walk borrows the path.
ResolveBorrow(t) ==
    /\ pc[t] = "borrow"
    /\ Become(t, tgt, rec[wrec[t]].obj)
    /\ Become(t, pc, "apply")
    /\ UNCHANGED <<refs, mode, attempt, left, cur, src, key, wrec, err>>
    /\ WalkStep

\* namei_ext_get_target: ref-walk takes a reference before rcu_read_unlock.
ResolveGet(t) ==
    /\ pc[t] = "get"
    /\ Become(t, tgt, rec[wrec[t]].obj)
    /\ refs' = PathGet(rec[wrec[t]].obj)
    /\ Become(t, pc, "apply")
    /\ Become(t, wrec, Null)
    /\ UNCHANGED <<mode, attempt, left, cur, src, key, err>>
    /\ WalkStep

\* Mutant: the error path puts the target whoever owns it.
ApplyErrorPuts(t) ==
    /\ pc[t] = "apply"
    /\ refs' = PathPut(tgt[t])
    /\ Become(t, wrec, Null)
    /\ Become(t, tgt, Base)
    /\ Become(t, pc, "failed")
    /\ Become(t, err, "error")
    /\ UNCHANGED <<mode, attempt, left, cur, src, key>>
    /\ WalkStep

\* namei_ext_apply_target: -EXDEV for scoped walks and other mounts, -ENOTDIR;
\* only an owned target is put.
ApplyError(t) ==
    /\ pc[t] = "apply"
    /\ refs' = IF mode[t] = "ref" THEN PathPut(tgt[t]) ELSE refs
    /\ Become(t, wrec, Null)
    /\ Become(t, tgt, Base)
    /\ Become(t, pc, "failed")
    /\ Become(t, err, "error")
    /\ UNCHANGED <<mode, attempt, left, cur, src, key>>
    /\ WalkStep

\* Mutant: the old nd->path is overwritten without path_put.
ApplyKeeps(t) ==
    /\ pc[t] = "apply" /\ tgt[t] \in Dirs
    /\ Become(t, cur, tgt[t])
    /\ Become(t, src, wrec[t])
    /\ Become(t, wrec, Null)
    /\ Become(t, tgt, Base)
    /\ NextComponent(t)
    /\ UNCHANGED <<refs, mode, attempt, key, err>>
    /\ WalkStep

\* Otherwise the target becomes nd->path; ref-walk puts the old one.
Apply(t) ==
    /\ pc[t] = "apply" /\ tgt[t] \in Dirs
    /\ refs' = IF mode[t] = "ref" THEN PathPut(cur[t]) ELSE refs
    /\ Become(t, cur, tgt[t])
    /\ Become(t, src, wrec[t])
    /\ Become(t, wrec, Null)
    /\ Become(t, tgt, Base)
    /\ NextComponent(t)
    /\ UNCHANGED <<mode, attempt, key, err>>
    /\ WalkStep

\* complete_walk of an RCU-walk: legitimize, or restart.
CompleteUnlazy(t) ==
    /\ pc[t] = "complete"
    /\ \/ /\ Unlazied(t)
          /\ UNCHANGED <<pc, attempt, left, cur, key, wrec, tgt, err>>
          /\ WalkStep
       \/ UnlazyFails(t)

\* ... of a ref-walk: the caller gets nd->path and its reference.
CompleteOk(t) ==
    /\ pc[t] = "complete" /\ mode[t] = "ref"
    /\ Become(t, pc, "done")
    /\ UNCHANGED <<refs, mode, attempt, left, cur, src, key, wrec, tgt, err>>
    /\ WalkStep

\* ... unless d_weak_revalidate says -ESTALE after the jump, the walk left its
\* scope, or a directory was asked for.
CompleteFails(t) ==
    /\ pc[t] = "complete" /\ mode[t] = "ref"
    /\ Become(t, pc, "failed")
    /\ \E e \in {"estale", "error"} : Become(t, err, e)
    /\ UNCHANGED <<refs, mode, attempt, left, cur, src, key, wrec, tgt>>
    /\ WalkStep

\* terminate_walk and the result of path_lookupat ...
Terminate(t) ==
    /\ pc[t] = "failed"
    /\ refs' = IF mode[t] = "ref" THEN PathPut(cur[t]) ELSE refs
    /\ Become(t, mode, "none")
    /\ Become(t, src, Null)
    /\ Become(t, cur, Base)
    /\ Become(t, left, 0)
    /\ Become(t, pc, "returned")
    /\ UNCHANGED <<attempt, key, wrec, tgt, err>>
    /\ WalkStep

\* Mutant: the last attempt is repeated while it fails.
RetryAlways(t) ==
    /\ pc[t] = "returned"
    /\ \/ attempt[t] = 1 /\ err[t] = "echild" /\ StartAttempt(t, 2)
       \/ err[t] = "estale" /\ StartAttempt(t, 3)

\* ... on which filename_lookup walks once more, by reference.
Retry(t) ==
    /\ pc[t] = "returned"
    /\ \/ attempt[t] = 1 /\ err[t] = "echild" /\ StartAttempt(t, 2)
       \/ attempt[t] < 3 /\ err[t] = "estale" /\ StartAttempt(t, 3)

GiveUp(t) ==
    /\ pc[t] = "returned"
    /\ err[t] = "error" \/ (err[t] = "estale" /\ attempt[t] = 3)
    /\ Become(t, pc, "idle")
    /\ Become(t, attempt, 1)
    /\ Become(t, err, "none")
    /\ UNCHANGED <<refs, mode, left, cur, src, key, wrec, tgt>>
    /\ WalkStep

\* The caller is done with the path.
PutResult(t) ==
    /\ pc[t] = "done"
    /\ refs' = PathPut(cur[t])
    /\ Become(t, mode, "none")
    /\ Become(t, cur, Base)
    /\ Become(t, attempt, 1)
    /\ Become(t, pc, "idle")
    /\ UNCHANGED <<left, src, key, wrec, tgt, err>>
    /\ WalkStep

Walking(t) ==
    \/ WalkPass(t) \/ WalkRedirect(t) \/ WalkError(t)
    \/ \E k \in Keys : WalkSelect(t, k)
    \/ ResolveNone(t) \/ ResolveFind(t) \/ ResolveBorrow(t) \/ ResolveGet(t)
    \/ ApplyError(t) \/ Apply(t)
    \/ CompleteUnlazy(t) \/ CompleteOk(t) \/ CompleteFails(t)
    \/ Terminate(t) \/ Retry(t) \/ GiveUp(t)

Updating(a) ==
    \/ a \in Writers /\ (RegisterDead(a) \/ RegisterInstall(a))
    \/ ClearOne(a) \/ ClearEnd(a) \/ Retired(a)

Next ==
    \/ \E w \in Writers, c \in Cgroups, id \in TargetIds, o \in Objects : RegisterBegin(w, c, id, o)
    \/ \E w \in Writers, c \in Cgroups : ClearBegin(w, c)
    \/ \E a \in Actors : Updating(a)
    \/ \E c \in Cgroups : Rmdir(c) \/ ReleaseBegin(c)
    \/ \E o \in Objects : Unpin(o)
    \/ \E t \in Tasks : WalkStart(t) \/ Walking(t) \/ PutResult(t)

Spec == Init /\ [][Next]_vars

-----------------------------------------------------------------------------
(* Properties.                                                             *)

TypeOK ==
    /\ life \in [Cgroups -> {"live", "dead", "released"}]
    /\ linked \subseteq allocated /\ allocated \subseteq Records
    /\ rec \in [Records -> [cgrp : Cgroups, id : TargetIds, obj : Objects] \cup {NoRecord}]
    /\ lock \in Actors \cup {Null}
    /\ act \in [Actors -> {Idle} \cup [op : {"register"}, cgrp : Cgroups, new : Records]
                    \cup [op : {"clear", "retire"}, cgrp : Cgroups, recs : SUBSET Records]]
    /\ grace \in [Actors -> SUBSET Tasks]
    /\ refs \in [Objects -> Nat]
    /\ pinned \in [Objects -> BOOLEAN]
    /\ pc \in [Tasks -> {"idle", "component", "resolve", "borrow", "get", "apply",
                          "complete", "failed", "returned", "done"}]
    /\ mode \in [Tasks -> {"rcu", "ref", "none"}]
    /\ attempt \in [Tasks -> 1..3]
    /\ left \in [Tasks -> 0..MaxComponents]
    /\ cur \in [Tasks -> Objects]
    /\ src \in [Tasks -> Records \cup {Null}]
    /\ key \in [Tasks -> Keys \cup {Null}]
    /\ wrec \in [Tasks -> Records \cup {Null}]
    /\ tgt \in [Tasks -> Objects]
    /\ err \in [Tasks -> {"none", "error", "echild", "estale"}]

\* A walk reads a record, or stands on a path it borrowed from one, only while
\* the record is not freed: also when another task has replaced or cleared the
\* target, or the cgroup has been removed, since the walk found it.
NoUseAfterFree ==
    \A t \in Tasks : /\ wrec[t] # Null => wrec[t] \in allocated
                     /\ src[t] # Null => src[t] \in allocated

\* The object a walk has found, selected or stands on is alive: path_get in
\* namei_ext_get_target never revives a dead dentry, and a borrowed target is
\* never lost to a replacement or a clear, so that only moved sequence counts
\* make a walk restart.
SelectedAlive ==
    \A t \in Tasks :
        /\ pc[t] \in {"borrow", "get"} => Alive(rec[wrec[t]].obj)
        /\ pc[t] = "apply" => Alive(tgt[t])
        /\ mode[t] # "none" => Alive(cur[t])

\* The path references add up on every path through the code, the error paths
\* included: one per record, one for nd->path of a ref-walk, one for a target
\* that a ref-walk resolved and has not applied.
RefsBalanced ==
    \A o \in Objects :
        refs[o] = Cardinality({r \in allocated : rec[r].obj = o})
                  + Cardinality({t \in Tasks : mode[t] = "ref" /\ cur[t] = o})
                  + Cardinality({t \in Tasks : mode[t] = "ref" /\ pc[t] = "apply" /\ tgt[t] = o})

\* The records an actor will free or link.
HeldBy(a) ==
    IF act[a].op = "register" THEN {act[a].new}
    ELSE IF act[a].op \in {"clear", "retire"} THEN act[a].recs
    ELSE {}

\* Every record is in the table or belongs to exactly one actor, whichever
\* registrations, clears and removals race, and no key is in the table twice.
NoLeak ==
    /\ allocated = linked \cup UNION {HeldBy(a) : a \in Actors}
    /\ \A a, b \in Actors : a # b => HeldBy(a) \cap HeldBy(b) = {}
    /\ \A a \in Actors : HeldBy(a) \cap linked = {}
    /\ \A r, s \in linked : rec[r].cgrp = rec[s].cgrp /\ rec[r].id = rec[s].id => r = s

\* Once the release worker of a cgroup is done there is no record of it, not
\* even one that was being registered when the cgroup was removed.
ReleasedLeavesNothing ==
    \A c \in Cgroups : life[c] = "released" /\ act[c] = Idle =>
        \A r \in allocated : rec[r].cgrp # c

-----------------------------------------------------------------------------
(* Liveness: every thread that is not blocked runs.                        *)

Fairness ==
    /\ \A t \in Tasks : WF_vars(Walking(t))
    /\ \A a \in Actors : WF_vars(Updating(a))
    /\ \A c \in Cgroups : WF_vars(ReleaseBegin(c))

FairSpec == Spec /\ Fairness

\* A walk comes to a result after at most three attempts, whatever happens to
\* the targets it meets.
WalkTerminates == \A t \in Tasks : pc[t] \notin {"idle", "done"} ~> pc[t] \in {"idle", "done"}

\* An update of the registry returns: its grace period does not wait for walks
\* that wait for it.
UpdateTerminates == \A a \in Actors : act[a] # Idle ~> act[a] = Idle
=============================================================================
