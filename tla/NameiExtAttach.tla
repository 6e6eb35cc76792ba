--------------------------- MODULE NameiExtAttach ---------------------------
(***************************************************************************)
(* Attachment of namei_ext policies to the cgroup tree (kernel/bpf/        *)
(* cgroup.c): program lists, effective arrays, the effective owner, the    *)
(* scope of the owner, cgroup creation and removal, and the authoritative  *)
(* dispatch of a path walk, which takes no lock.                           *)
(*                                                                         *)
(* Scopes are as PolicyScopes gives them: a value per cgroup, replaced     *)
(* atomically, with a sound prefilter.  All writers here hold cgroup_mutex;*)
(* op is what its holder is doing.  Every store a walk can observe between *)
(* two others is a step of its own.                                        *)
(*                                                                         *)
(* What is attached is a program, or a link with the program it has at     *)
(* the moment.  An entry of an effective array is written                  *)
(* <<cgroup, attachment>>: what runs, and where it is attached.            *)
(* BPF_F_PREORDER, cgroup storage, LSM trampolines and revisions are left  *)
(* out.                                                                    *)
(***************************************************************************)
EXTENDS Naturals, FiniteSets, SequencesExt

CONSTANTS
    Cgroups, Progs, Paths, Tasks,
    Links,          \* struct bpf_cgroup_link
    Attachable,     \* the programs, and the links with their programs, users attach
    Chain,          \* Chain[c]: c, its parent, ..., the root
    MaxProgs,       \* BPF_CGROUP_MAX_PROGS
    AttachFlags,    \* the flags users attach with
    OutOfMemory,    \* whether allocating effective arrays may fail
    MaxPurged,      \* bound: a detach runs out of memory only with fewer purged cgroups
    Global, Nobody, Dummy

ASSUME AttachConstants ==
    /\ Chain \in [Cgroups -> Seq(Cgroups)]
    /\ \A c \in Cgroups : Len(Chain[c]) >= 1 /\ Chain[c][1] = c
    /\ \A c \in Cgroups : \A i \in DOMAIN Chain[c] :
            Chain[Chain[c][i]] = SubSeq(Chain[c], i, Len(Chain[c]))
    /\ MaxProgs \in Nat \ {0}
    /\ AttachFlags \subseteq {"none", "override", "multi"}
    /\ OutOfMemory \in BOOLEAN /\ MaxPurged \in Nat
    /\ Nobody \notin Cgroups
    /\ Attachable \subseteq Progs \cup (Links \X Progs) /\ Progs \cap (Links \X Progs) = {}

VARIABLES
    life,       \* absent, live, dead (rmdir), zero (bpf.refcnt), dropped, released
    progs,      \* cgrp->bpf.progs[CGROUP_NAMEI_EXT]
    flags,      \* cgrp->bpf.flags[CGROUP_NAMEI_EXT]
    effective,  \* cgrp->bpf.effective[CGROUP_NAMEI_EXT]
    owner,      \* cgrp->bpf.namei_ext_owner
    active,     \* cgrp->bpf.namei_ext_scope_active
    scope,      \* the directories of cgrp->bpf.namei_ext_scopes, or Global
    enabled,    \* count of the static key cgroup_bpf_enabled_key
    op,         \* what the holder of cgroup_mutex is doing
    purged,     \* cgroups whose last update was only a purge (history)
    task,       \* [Tasks -> Cgroups]: the cgroup of each task
    walk        \* [Tasks -> walk records]: the dispatch of each task's walk

treeVars == <<life, progs, flags, effective, owner, active, scope, enabled, op, purged>>
vars == <<treeVars, task, walk>>

LinkAttachments == Links \X Progs
Attachments == Progs \cup LinkAttachments

Ancestors(c) == ToSet(Tail(Chain[c]))       \* proper ancestors
Subtree(c) == {d \in Cgroups : c \in ToSet(Chain[d])}

Idle == [kind |-> "idle"]

\* The instances attached to c, in list order.
AttachedAt(c) == [i \in 1..Len(progs[c]) |-> <<c, progs[c][i]>>]

\* compute_effective_progs: the nearest non-empty level, and every level above
\* it that allows several programs.
Effective(c) ==
    LET up == Chain[c]
        Taken(i) == \/ flags[up[i]] = "multi"
                    \/ \A j \in 1..(i - 1) : progs[up[j]] = <<>>
    IN  FlattenSeq([i \in 1..Len(up) |-> IF Taken(i) THEN AttachedAt(up[i]) ELSE <<>>])

\* The owner activate_effective_progs computes: nearest level with a program.
Nearest(c) ==
    LET with == {i \in DOMAIN Chain[c] : progs[Chain[c][i]] # <<>>}
    IN  IF with = {} THEN Nobody ELSE Chain[c][Min(with)]

\* hierarchy_allows_attach: the nearest ancestor level that says something
\* decides.
HierarchyAllows(c) ==
    LET deciding == {i \in 2..Len(Chain[c]) :
                        flags[Chain[c][i]] = "multi" \/ progs[Chain[c][i]] # <<>>}
    IN  deciding # {} => flags[Chain[c][Min(deciding)]] \in {"multi", "override"}

Present(c) == life[c] \in {"live", "dead"}

\* The subtree update_effective_progs visits.
ToUpdate(c) == {d \in Subtree(c) : life[d] # "absent"}

Init ==
    /\ life = [c \in Cgroups |-> IF Len(Chain[c]) = 1 THEN "live" ELSE "absent"]
    /\ progs = [c \in Cgroups |-> <<>>]
    /\ flags = [c \in Cgroups |-> "none"]
    /\ effective = [c \in Cgroups |-> <<>>]
    /\ owner = [c \in Cgroups |-> Nobody]
    /\ active = [c \in Cgroups |-> FALSE]
    /\ scope = [c \in Cgroups |-> Global]
    /\ enabled = 0
    /\ op = Idle
    /\ purged = {}
    /\ task \in [Tasks -> {c \in Cgroups : Len(Chain[c]) = 1}]
    /\ walk = [t \in Tasks |-> [pc |-> "idle"]]

-----------------------------------------------------------------------------
(* Attach and detach.                                                      *)

\* Mutant: the single-attach case does not look for the entry that is there.
ListsWithAppend(c, x, fl) == {Append(progs[c], x)}

\* find_attach_entry and insert_pl_to_hlist: without BPF_F_ALLOW_MULTI an attach
\* replaces the program that is there; with it nothing is attached twice, and the
\* user may choose the place (BPF_F_BEFORE, BPF_F_AFTER) or, for a program, the
\* program to replace (BPF_F_REPLACE), itself included.
ListsWith(c, x, fl) ==
    IF fl = "multi"
    THEN {InsertAt(progs[c], i, x) : i \in {j \in 1..(Len(progs[c]) + 1) : x \notin ToSet(progs[c])}}
            \cup {ReplaceAt(progs[c], i, x) :
                    i \in {j \in DOMAIN progs[c] : /\ {x, progs[c][j]} \subseteq Progs
                                                   /\ x \in ToSet(progs[c]) => progs[c][j] = x}}
    ELSE {<<x>>}

\* Where a link is attached: link->cgroup, NULL once the cgroup or the user has
\* released it.
LinkedAt(l) == {c \in Cgroups : \E i \in DOMAIN progs[c] : progs[c][i] \in {l} \X Progs}

\* Mutant: a link may be attached with any flags.
LinkAllowsAny(l, fl) == LinkedAt(l) = {}

\* cgroup_bpf_link_attach: a link is new, and always BPF_F_ALLOW_MULTI.
LinkAllows(l, fl) == LinkedAt(l) = {} /\ fl = "multi"

\* The early returns of __cgroup_bpf_attach.  Nothing checks that c is live: its
\* caller looked up a live cgroup before it waited for cgroup_mutex.
AttachAllowed(c, x, fl) ==
    /\ life[c] # "absent"
    /\ x \in LinkAttachments => LinkAllows(x[1], fl)
    /\ HierarchyAllows(c)
    /\ progs[c] # <<>> => flags[c] = fl
    /\ Len(progs[c]) < MaxProgs
    /\ ListsWith(c, x, fl) # {}

\* __cgroup_bpf_attach up to update_effective_progs' second loop.
AttachBegin(c, x, fl) ==
    /\ op = Idle
    /\ AttachAllowed(c, x, fl)
    /\ \E list \in ListsWith(c, x, fl) :
          /\ progs' = [progs EXCEPT ![c] = list]
          /\ op' = [kind |-> "attach", cgrp |-> c, key |-> Len(list) - Len(progs[c]),
                    todo |-> ToUpdate(c), cur |-> Nobody, step |-> 0]
    /\ flags' = [flags EXCEPT ![c] = fl]
    /\ UNCHANGED <<life, effective, owner, active, scope, enabled, purged, task, walk>>

\* Mutant: the error path leaves the new entry in the list.
AttachFailsKeeps(c, x, fl) ==
    /\ OutOfMemory
    /\ op = Idle
    /\ AttachAllowed(c, x, fl)
    /\ progs' = [progs EXCEPT ![c] = Append(@, x)]
    /\ flags' = [flags EXCEPT ![c] = fl]
    /\ UNCHANGED <<life, effective, owner, active, scope, enabled, op, purged, task, walk>>

\* ... and when an array cannot be allocated: the entry is taken back, the
\* flags are not.
AttachFails(c, x, fl) ==
    /\ OutOfMemory
    /\ op = Idle
    /\ AttachAllowed(c, x, fl)
    /\ flags' = [flags EXCEPT ![c] = fl]
    /\ UNCHANGED <<life, progs, effective, owner, active, scope, enabled, op, purged,
                   task, walk>>

\* find_detach_entry, which does not check that c is live either; a link that is
\* released (bpf_cgroup_link_release) takes the same way.
Detachable(c, x) == x \in ToSet(progs[c])

\* __cgroup_bpf_detach: the entry no longer counts for the recomputation.
DetachBegin(c, x) ==
    /\ op = Idle
    /\ Detachable(c, x)
    /\ progs' = [progs EXCEPT ![c] = RemoveFirst(@, x)]
    /\ op' = [kind |-> "detach", cgrp |-> c, todo |-> ToUpdate(c), cur |-> Nobody,
              step |-> 0]
    /\ UNCHANGED <<life, flags, effective, owner, active, scope, enabled, purged, task, walk>>

\* ... when update_effective_progs failed the entry stays in the list until
\* purge_effective_progs has walked the arrays in place.
DetachPurges(c, x) ==
    /\ OutOfMemory /\ Cardinality(purged) < MaxPurged
    /\ op = Idle
    /\ Detachable(c, x)
    /\ op' = [kind |-> "purge", cgrp |-> c, todo |-> ToUpdate(c), prog |-> x,
              cur |-> Nobody, step |-> 0]
    /\ UNCHANGED <<life, progs, flags, effective, owner, active, scope, enabled, purged,
                   task, walk>>

Updating == op.kind \in {"attach", "detach"}

\* css_for_each_descendant_pre: a parent before its children.
NextInPreorder(d) ==
    /\ op.kind # "idle" /\ op.cur = Nobody
    /\ d \in op.todo /\ Ancestors(d) \cap op.todo = {}

\* percpu_ref_is_zero(&d->bpf.refcnt): d is skipped.
SkipZero(d) ==
    /\ NextInPreorder(d) /\ ~Present(d)
    /\ op' = [op EXCEPT !.todo = @ \ {d}]
    /\ UNCHANGED <<life, progs, flags, effective, owner, active, scope, enabled, purged,
                   task, walk>>

\* activate_effective_progs(d): publish the array ...
PublishEffective(d) ==
    /\ Updating
    /\ NextInPreorder(d) /\ Present(d)
    /\ effective' = [effective EXCEPT ![d] = Effective(d)]
    /\ op' = [op EXCEPT !.cur = d, !.step = 1]
    /\ UNCHANGED <<life, progs, flags, owner, active, scope, enabled, purged, task, walk>>

\* Mutant: the owner is published before its scope counts.
PublishOwnerEarly ==
    /\ Updating /\ op.cur # Nobody /\ op.step = 1
    /\ owner' = [owner EXCEPT ![op.cur] = Nearest(op.cur)]
    /\ op' = [op EXCEPT !.step = 2]
    /\ UNCHANGED <<life, progs, flags, effective, active, scope, enabled, purged, task, walk>>

\* ... if d is the owner make its scope count first, otherwise publish the
\* owner ...
ActivateOrPublish ==
    /\ Updating /\ op.cur # Nobody /\ op.step = 1
    /\ IF Nearest(op.cur) = op.cur
       THEN active' = [active EXCEPT ![op.cur] = TRUE] /\ UNCHANGED owner
       ELSE owner' = [owner EXCEPT ![op.cur] = Nearest(op.cur)] /\ UNCHANGED active
    /\ op' = [op EXCEPT !.step = 2]
    /\ UNCHANGED <<life, progs, flags, effective, scope, enabled, purged, task, walk>>

\* Mutant: the scope of a cgroup that lost its policy still counts.
PublishKeepsActive ==
    /\ Updating /\ op.cur # Nobody /\ op.step = 2
    /\ owner' = [owner EXCEPT ![op.cur] = Nearest(op.cur)]
    /\ op' = [op EXCEPT !.cur = Nobody, !.step = 0, !.todo = @ \ {op.cur}]
    /\ purged' = purged \ {op.cur}
    /\ UNCHANGED <<life, progs, flags, effective, active, scope, enabled, task, walk>>

\* ... and then publish the owner, or stop counting d's own scope.
PublishOrDeactivate ==
    /\ Updating /\ op.cur # Nobody /\ op.step = 2
    /\ owner' = [owner EXCEPT ![op.cur] = Nearest(op.cur)]
    /\ active' = [active EXCEPT ![op.cur] = Nearest(op.cur) = op.cur]
    /\ op' = [op EXCEPT !.cur = Nobody, !.step = 0, !.todo = @ \ {op.cur}]
    /\ purged' = purged \ {op.cur}
    /\ UNCHANGED <<life, progs, flags, effective, scope, enabled, task, walk>>

\* bpf_prog_array_delete_safe_at: the n-th entry that is not a dummy becomes one.
DeleteSafeAt(array, n) ==
    LET left == {i \in DOMAIN array :
                    array[i] # Dummy /\ Cardinality({j \in 1..i : array[j] # Dummy}) = n}
    IN  [i \in DOMAIN array |-> IF i \in left THEN Dummy ELSE array[i]]

\* One array of purge_effective_progs: the position of the first entry with this
\* program, counted in the lists; owner and scope_active are not touched.
PurgeOne(d) ==
    /\ op.kind = "purge"
    /\ NextInPreorder(d) /\ Present(d)
    /\ LET hits == {i \in DOMAIN Effective(d) : Effective(d)[i][2] = op.prog}
       IN  IF hits = {} THEN UNCHANGED <<effective, purged>>
           ELSE /\ effective' = [effective EXCEPT ![d] = DeleteSafeAt(@, Min(hits))]
                /\ purged' = purged \cup {d}
    /\ op' = [op EXCEPT !.todo = @ \ {d}]
    /\ UNCHANGED <<life, progs, flags, owner, active, scope, enabled, task, walk>>

\* Mutant: the branches for a replaced and for a new entry are swapped.
AttachEndSwapped ==
    /\ op.kind = "attach" /\ op.todo = {}
    /\ enabled' = enabled + 1 - op.key
    /\ op' = Idle
    /\ UNCHANGED <<life, progs, flags, effective, owner, active, scope, purged, task, walk>>

\* The rest of __cgroup_bpf_attach: the static key goes up for a new entry.
AttachEnd ==
    /\ op.kind = "attach" /\ op.todo = {}
    /\ enabled' = enabled + op.key
    /\ op' = Idle
    /\ UNCHANGED <<life, progs, flags, effective, owner, active, scope, purged, task, walk>>

\* Mutant: the programs of nearer levels are not counted.
ReplacePosOwn(d, l) == {i \in DOMAIN progs[op.cgrp] : progs[op.cgrp][i] \in {l} \X Progs}

\* replace_effective_prog: the position of a link, counted in the lists as
\* compute_effective_progs counts.
ReplacePos(d, l) == {i \in DOMAIN Effective(d) : Effective(d)[i][2] \in {l} \X Progs}

\* cgroup_bpf_replace, __cgroup_bpf_replace: a link that is attached gets another
\* program.
ReplaceBegin(l, x) ==
    /\ op = Idle
    /\ \E c \in LinkedAt(l) :
          /\ progs' = [progs EXCEPT ![c] =
                           [i \in DOMAIN @ |-> IF @[i] \in {l} \X Progs THEN <<l, x>> ELSE @[i]]]
          /\ op' = [kind |-> "replace", cgrp |-> c, todo |-> ToUpdate(c), prog |-> <<l, x>>,
                    cur |-> Nobody, step |-> 0]
    /\ UNCHANGED <<life, flags, effective, owner, active, scope, enabled, purged, task, walk>>

\* One array of replace_effective_prog, in place.
ReplaceOne(d) ==
    /\ op.kind = "replace"
    /\ NextInPreorder(d) /\ Present(d)
    /\ \E pos \in ReplacePos(d, op.prog[1]) :
          effective' = [effective EXCEPT ![d] = [@ EXCEPT ![pos] = <<op.cgrp, op.prog>>]]
    /\ op' = [op EXCEPT !.todo = @ \ {d}]
    /\ UNCHANGED <<life, progs, flags, owner, active, scope, enabled, purged, task, walk>>

\* The old program is put and cgroup_mutex released.
ReplaceEnd ==
    /\ op.kind = "replace" /\ op.todo = {}
    /\ op' = Idle
    /\ UNCHANGED <<life, progs, flags, effective, owner, active, scope, enabled, purged, task, walk>>

\* The list without the detached entry.
ListAfterDetach ==
    IF op.kind = "purge" THEN RemoveFirst(progs[op.cgrp], op.prog) ELSE progs[op.cgrp]

\* The rest of __cgroup_bpf_detach.
DetachEnd ==
    /\ op.kind \in {"detach", "purge"} /\ op.todo = {}
    /\ progs' = [progs EXCEPT ![op.cgrp] = ListAfterDetach]
    /\ flags' = IF ListAfterDetach = <<>> THEN [flags EXCEPT ![op.cgrp] = "none"] ELSE flags
    /\ enabled' = enabled - 1
    /\ op' = Idle
    /\ UNCHANGED <<life, effective, owner, active, scope, purged, task, walk>>

-----------------------------------------------------------------------------
(* Scope commands, creation and removal of cgroups.                        *)

\* A successful write to policy_parent: only the owner itself may.
SetScope(c, new) ==
    /\ op = Idle
    /\ life[c] = "live" /\ owner[c] = c
    /\ scope' = [scope EXCEPT ![c] = new]
    /\ UNCHANGED <<life, progs, flags, effective, owner, active, enabled, op, purged, task, walk>>

\* mkdir: cgroup_bpf_inherit, before any task can enter.
Mkdir(c) ==
    /\ op = Idle
    /\ life[c] = "absent" /\ life[Chain[c][2]] = "live"
    /\ life' = [life EXCEPT ![c] = "live"]
    /\ effective' = [effective EXCEPT ![c] = Effective(c)]
    /\ owner' = [owner EXCEPT ![c] = Nearest(c)]
    /\ UNCHANGED <<progs, flags, active, scope, enabled, op, purged, task, walk>>

\* rmdir: no task and no live child is left; cgroup_bpf_offline.
Rmdir(c) ==
    /\ op = Idle
    /\ life[c] = "live" /\ Len(Chain[c]) > 1
    /\ \A t \in Tasks : task[t] # c
    /\ \A d \in Subtree(c) \ {c} : life[d] # "live"
    /\ life' = [life EXCEPT ![c] = "dead"]
    /\ UNCHANGED <<progs, flags, effective, owner, active, scope, enabled, op, purged, task, walk>>

\* Mutant: the kill does not wait for a grace period.
NoDispatchInIgnored(c) == TRUE

\* A dispatch that loaded its cgroup or its owner and is still under RCU.
NoDispatchIn(c) ==
    \A t \in Tasks : walk[t].pc \in {"match", "run"} => walk[t].cgrp # c

\* bpf.refcnt reaches zero: the kill in cgroup_bpf_offline takes an RCU grace
\* period, and every descendant holds a reference until it is released.
DropRefcnt(c) ==
    /\ life[c] = "dead" /\ NoDispatchIn(c)
    /\ \A d \in Subtree(c) \ {c} : life[d] \in {"absent", "released"}
    /\ life' = [life EXCEPT ![c] = "zero"]
    /\ UNCHANGED <<progs, flags, effective, owner, active, scope, enabled, op, purged, task, walk>>

\* Mutant: the entries are not unlinked, so they can be detached once more.
ReleaseProgsLinked(c) ==
    /\ op = Idle
    /\ life[c] = "zero"
    /\ enabled' = enabled - Len(progs[c])
    /\ effective' = [effective EXCEPT ![c] = <<>>]
    /\ life' = [life EXCEPT ![c] = "dropped"]
    /\ UNCHANGED <<progs, flags, owner, active, scope, op, purged, task, walk>>

\* cgroup_bpf_release, under cgroup_mutex: the programs are dropped.
ReleaseProgs(c) ==
    /\ op = Idle
    /\ life[c] = "zero"
    /\ enabled' = enabled - Len(progs[c])
    /\ progs' = [progs EXCEPT ![c] = <<>>]
    /\ effective' = [effective EXCEPT ![c] = <<>>]
    /\ life' = [life EXCEPT ![c] = "dropped"]
    /\ UNCHANGED <<flags, owner, active, scope, op, purged, task, walk>>

\* ... then, without the mutex, namei_ext_cgroup_release; the references on the
\* ancestors are put last.
ReleaseScope(c) ==
    /\ life[c] = "dropped"
    /\ scope' = [scope EXCEPT ![c] = {}]
    /\ active' = [active EXCEPT ![c] = FALSE]
    /\ life' = [life EXCEPT ![c] = "released"]
    /\ UNCHANGED <<progs, flags, effective, owner, enabled, op, purged, task, walk>>

\* A task moves to another live cgroup.
Migrate(t, c) ==
    /\ life[c] = "live"
    /\ task' = [task EXCEPT ![t] = c]
    /\ UNCHANGED <<treeVars, walk>>

-----------------------------------------------------------------------------
(* The dispatch of a path walk in directory p: static key, prefilter, then *)
(* owner, scope and array one load after the other under RCU.              *)

InScope(c, p) == scope[c] = Global \/ p \in scope[c]

\* What the prefilter answers from (PolicyScopes!Managed).
Managed(p) == \E c \in Cgroups : IF scope[c] = Global THEN active[c] ELSE p \in scope[c]

WalkStep(t, to) == walk' = [walk EXCEPT ![t] = to] /\ UNCHANGED <<treeVars, task>>

WalkGate(t, p) ==
    /\ walk[t].pc = "idle" /\ enabled > 0
    /\ WalkStep(t, [pc |-> "prefilter", path |-> p])

WalkPrefilter(t) ==
    /\ walk[t].pc = "prefilter"
    /\ WalkStep(t, IF Managed(walk[t].path) THEN [pc |-> "owner", path |-> walk[t].path]
                   ELSE [pc |-> "idle"])

\* __cgroup_bpf_run_namei_ext
WalkOwner(t) ==
    /\ walk[t].pc = "owner"
    /\ LET own == owner[task[t]]
       IN  WalkStep(t, IF own = Nobody THEN [pc |-> "idle"]
                       ELSE [pc |-> "match", path |-> walk[t].path, cgrp |-> task[t],
                             owner |-> own])

WalkMatch(t) ==
    /\ walk[t].pc = "match"
    /\ WalkStep(t, IF InScope(walk[t].owner, walk[t].path) THEN [walk[t] EXCEPT !.pc = "run"]
                   ELSE [pc |-> "idle"])

\* Who may decide: programs run in order until one does not PASS.  The dummy
\* program always returns 1, which is BPF_NAMEI_EXT_REDIRECT.
Deciders(array) ==
    {array[i] : i \in {j \in DOMAIN array : \A k \in 1..(j - 1) : array[k] # Dummy}}
        \cup (IF Contains(array, Dummy) THEN {} ELSE {Nobody})

\* cgroup_bpf_run_namei_ext_locked: the array is loaded once and run.
WalkRun(t) ==
    /\ walk[t].pc = "run"
    /\ \E by \in Deciders(effective[walk[t].cgrp]) :
          WalkStep(t, [pc |-> "ran", path |-> walk[t].path, by |-> by])

WalkEnd(t) ==
    /\ walk[t].pc = "ran"
    /\ WalkStep(t, [pc |-> "idle"])

Next ==
    \/ \E c \in Cgroups, x \in Attachable, fl \in AttachFlags : AttachBegin(c, x, fl) \/ AttachFails(c, x, fl)
    \/ \E c \in Cgroups, x \in Attachments : DetachBegin(c, x) \/ DetachPurges(c, x)
    \/ \E l \in Links, x \in Progs : ReplaceBegin(l, x)
    \/ \E d \in Cgroups : SkipZero(d) \/ PublishEffective(d) \/ PurgeOne(d) \/ ReplaceOne(d)
    \/ ActivateOrPublish \/ PublishOrDeactivate \/ AttachEnd \/ DetachEnd \/ ReplaceEnd
    \/ \E c \in Cgroups, new \in {Global} \cup SUBSET Paths : SetScope(c, new)
    \/ \E c \in Cgroups : Mkdir(c) \/ Rmdir(c) \/ DropRefcnt(c) \/ ReleaseProgs(c) \/ ReleaseScope(c)
    \/ \E t \in Tasks, c \in Cgroups : Migrate(t, c)
    \/ \E t \in Tasks, p \in Paths : WalkGate(t, p)
    \/ \E t \in Tasks : \/ WalkPrefilter(t) \/ WalkOwner(t) \/ WalkMatch(t)
                        \/ WalkRun(t) \/ WalkEnd(t)

Spec == Init /\ [][Next]_vars

-----------------------------------------------------------------------------
(* Properties.                                                             *)

Instances == Cgroups \X Attachments

TypeOK ==
    /\ life \in [Cgroups -> {"absent", "live", "dead", "zero", "dropped", "released"}]
    /\ progs \in [Cgroups -> Seq(Attachments)]
    /\ flags \in [Cgroups -> {"none", "override", "multi"}]
    /\ effective \in [Cgroups -> Seq(Instances \cup {Dummy})]
    /\ owner \in [Cgroups -> Cgroups \cup {Nobody}]
    /\ active \in [Cgroups -> BOOLEAN]
    /\ scope \in [Cgroups -> {Global} \cup SUBSET Paths]
    /\ enabled \in Nat
    /\ op.kind \in {"idle", "attach", "detach", "purge", "replace"}
    /\ purged \subseteq Cgroups
    /\ task \in [Tasks -> Cgroups]
    /\ \A t \in Tasks : walk[t].pc \in {"idle", "prefilter", "owner", "match", "run", "ran"}

\* The owner's own program and no other, where no attachment allows several:
\* the case the harness uses and the comment in bpf-cgroup-defs.h describes.
OnlyOwnersProgram(c) ==
    (\A d \in Cgroups : flags[d] # "multi") /\ life[c] = "live" =>
        \A i \in DOMAIN effective[c] : i = 1 /\ effective[c][i][1] = owner[c]

\* When no update is running, what a walk in c would find is what the program
\* lists call for: the owner is the nearest attachment, the array is the one
\* compute_effective_progs defines, with one program unless several are allowed,
\* and exactly the owners' scopes count; only a detach that ran out of memory
\* leaves an array and an owner that differ (__cgroup_bpf_attach,
\* __cgroup_bpf_detach, update_effective_progs).  A link's old program is then in
\* no array, and while it is replaced the link is found once for every cgroup
\* (BUG_ON in replace_effective_prog).
SettledTree ==
    /\ op.kind = "replace" => \A d \in op.todo : Present(d) => Cardinality(ReplacePos(d, op.prog[1])) = 1
    /\ op = Idle => \A c \in Cgroups : Present(c) =>
          /\ active[c] <=> owner[c] = c
          /\ c \notin purged => /\ effective[c] = Effective(c) /\ owner[c] = Nearest(c)
                                /\ OnlyOwnersProgram(c)

\* The static key is up whenever a program could run, so a walk never skips a
\* policy whose attach has completed or whose detach has not.
KeyCovers ==
    op.kind # "attach" =>
        \A c \in Cgroups : Present(c) /\ c \notin purged /\ ToSet(effective[c]) # {}
                                => enabled > 0

\* At every moment, also half-way through an attach or detach: if the owner a
\* walk would load still has its policy attached, the prefilter admits every
\* directory of the owner's scope.
AttachedOwnerIsCovered ==
    \A c \in Cgroups : Present(c) /\ owner[c] # Nobody =>
        (progs[owner[c]] # <<>> => \A p \in Paths : InScope(owner[c], p) => Managed(p))

\* A dispatch never uses a cgroup, as its own or as the policy's owner, whose
\* release has begun to free what the dispatch reads.
DispatchAlive ==
    \A t \in Tasks : walk[t].pc \in {"match", "run"} =>
        Present(walk[t].cgrp) /\ Present(walk[t].owner)

-----------------------------------------------------------------------------
(* What documents and comments say, and the code does not guarantee.       *)

\* "a false negative is forbidden" (docs/design.md): whenever a dispatch in c
\* would find an owner, a scope that matches and a program to run, the prefilter
\* lets the walk through.  A detach breaks it for the descendants it has not
\* reached yet: the scope of their owner has already stopped to count.
PrefilterNeverMisses ==
    \A c \in Cgroups, p \in Paths :
        Present(c) /\ owner[c] # Nobody /\ InScope(owner[c], p) /\ effective[c] # <<>>
            => Managed(p)
=============================================================================
