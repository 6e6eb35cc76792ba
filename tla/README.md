# Verification of namei_ext

`namei_ext` lets BPF programs attached to cgroups decide how the Linux VFS
resolves a name: PASS, REDIRECT to another name of the same directory, HIDE, or
SELECT_TARGET (continue at a registered `struct path`). This directory holds TLA+ models
of the kernel side and of the controller that drives it, TLC runs, and TLAPS proofs.

The repository's `kernel/` submodule is not part of the tree. The models are
translated from the kernel snapshot kept with a published result,
`src/results/experiments/agent-workspace-rq3-formal/20260728-rq3-formal-v3/artifacts/source/kernel/`,
whose files are called by their kernel names below (`fs/namei_ext.c`, `kernel/bpf/cgroup.c`, ...).
The snapshot is older than the newest text of `docs/design.md`: final-component
selection of regular files is described there and not in this snapshot.

## The system

| Part | State | Operations | Interacts with |
| --- | --- | --- | --- |
| Scope registry (`fs/namei_ext.c`) | per-cgroup scope set pointer and active flag, global hash index of managed parents, `global_scope_users`, `exact_scope_users`, a seqcount | the `policy_parent` commands exact, add, clear, global; `set_scope_active`; `cgroup_release`; the prefilter `namei_ext_parent_maybe_managed`; the check `namei_ext_policy_parent_matches` | called by attach/detach and cgroup release; read without locks by every path walk |
| Target registry (`fs/namei_ext.c`) | hash table (cgroup, id) -> record with a `struct path` | `register_target`, `clear_targets`, release; `find_target_rcu`, `get_target` | written through debugfs by a task of the cgroup; read by walks |
| Attachment (`kernel/bpf/cgroup.c`) | program lists, flags, effective arrays, effective owner, static key | attach, detach, link attach/replace, inherit, release, purge | under `cgroup_mutex`; activates scopes; dispatch reads it under RCU only |
| Path walk (`fs/namei.c`) | `nameidata`: path, mode (RCU or ref), sequence numbers, link stack | `walk_component`, `try_to_unlazy`, `complete_walk`, restart on -ECHILD and -ESTALE | prefilter, dispatch, target registry |
| Open path (`fs/namei.c`) | the same, and `open_flag` | `open_last_lookups`, `do_open`, create | the same |
| Enumeration (`fs/readdir.c`, `fs/namei_ext.c`) | `f_pos`, two nested directory contexts, a referenced cgroup | `getdents64`, `iterate_dir`, `namei_ext_filldir` | dispatch with a fixed cgroup |
| Controller harness (`runner/`) | control children, loaded policies | enter cgroup, write debugfs files with a timeout, register a batch, clear, load, attach, destroy | everything above, from user space |
| ConfigMap publication (`experiments/kubernetes_configmap_quantitative/`, with its consumer and its policy) | what the controller has to undo, a consumer at the other end of two pipes, BPF maps for views and generation | one lifecycle: set up, publish a generation, have it checked, replay, clean up | harness, policy |
| Policies (`bpf/policies/`) | BPF maps | one decision function each | dispatch |
| Experiments, benchmarks, analysis, Make rules, tests, baselines | result files | set-up, measurement, validation | use the mechanism |

What is hard: walks read every structure above without taking a lock, while
`policy_parent` writers (two mutexes and a seqcount), attach and detach (under
`cgroup_mutex`, publishing one pointer after another), cgroup removal (rmdir,
a killed reference counter, a release worker) and target updates run beside
them. Memory is reclaimed after RCU grace periods, and one of them is waited for with
`cgroup_mutex` held. A walk may restart at any point and run its policy again.
`PROJECT.json` lists each hazard at its line with the property that would catch it.

What makes the parts correct:
- scopes: no false negative of the prefilter; index and counters agree with the scope sets; no set leaks or is used after it is freed; a removed cgroup leaves nothing;
- targets: no record is used after its free, path references balance over every error and restart, nothing is left for a removed cgroup;
- attachment: after an update the whole subtree agrees with the program lists; during one the prefilter still admits what an attached owner manages;
- dispatch: never in a cgroup whose release has begun; scope and program belong together;
- enumeration: every entry exactly once, errors never look like the end, hidden entries stay hidden;
- walk and open: the result is the one resolution by substitution defines, in every mode and over every restart; references and link bodies balance; nothing is created under a name the policy redirected, hid or selected; a scoped walk stays in its scope; the call ends;
- publication: a consumer sees one complete generation or none; a clean end that is reported is true; an undisturbed lifecycle succeeds, and a lifecycle ends unless its register child never does.

## Modules

| Module | Models |
| --- | --- |
| `PolicyScopes` | abstract: scopes change atomically; a query answers "no" only if the directory was unmanaged at some moment of the query |
| `NameiExtScopes` | the scope registry step by step |
| `NameiExtScopesImpl` | `NameiExtScopes` with history variables, and the refinement of `PolicyScopes` |
| `NameiExtAttach` | attachment in a tree of cgroups, removal, and the dispatch of a walk; scopes are values as `PolicyScopes` allows |
| `NameiExtTargets` | target registry, and walks over intermediate components in RCU-walk and ref-walk |
| `NameiExtReaddir` | `getdents64` by tasks that share an open directory |
| `NameiExtOpen` | one lookup or open: components, links and their stack, `..`, both walk modes, restarts, policy decisions, creation |
| `NameiExtOpenRef` | reference: what that call returns when nobody interferes, by substitution |
| `NameiExtControl` | the publication's controller, control children, consumer, maps and policy |
| `Scopes_proofs`, `ScopeRefinement_proofs` | proofs about the scope registry |
| `Open_proofs`, `OpenResolve_proofs` | proofs about a lookup or open: its invariants; that it ends, and what it returns |
| `AttachTree_proofs`, `TargetMemory_proofs`, `Readdir_proofs`, `Control_proofs` | proofs about the other modules |
| `MCScopes`, `MCScopesImpl`, `MCAttach`, `MCAttachRace`, `MCTargets`, `MCReaddir`, `MCOpen`, `MCControl` | instances for TLC |

The composition is by interface: `NameiExtScopesImpl` shows that the detailed
registry implements `PolicyScopes`, and `NameiExtAttach` and `NameiExtReaddir`
use scopes as that module describes them. `NameiExtOpen` takes the result of
dispatch and target lookup as a decision; what happens to records and their
references meanwhile is `NameiExtTargets`. `NameiExtControl` sees of the kernel only what
user space sees.

### NameiExtScopes

`life`, `scopes`, `active` are fields of `struct cgroup_bpf`; `index`,
`globalUsers`, `exactUsers` and the seqcount are file-level variables. A scope set is an
element of the pool `ScopeIds`, and `allocated` says which are not free memory,
so a pointer to a reused set is visible. A replacement has the three steps of
`namei_ext_scope_replace_locked` a reader can tell apart: new entries and
counters (`ReplaceGain`), the pointer (`ReplacePublish`), old entries and
counters (`ReplaceLose`); `CommandFinish` is the end of the grace period and the
free. `grace[a]` is the set of readers that actor a waits for: those inside an
RCU section when the wait begins. The prefilter has one action per read. The
seqcount is modelled by what it decides: a writer marks every reader that has sampled
it as `stale`. A 32-bit wrap-around within one query is not modelled. The sticky
counters keep their width as `UintMax`, which is small in the runs so that saturation
happens.

The commands exact and clear build their set before they take `namei_ext_scopes_lock` and ask
whether the cgroup is still there: `CommandAlloc` leaves the set in `fresh[w]`, then
`CommandInstall` opens the replacement or `CommandAbandon` frees the set (-ENODEV). The commands
add and global decide under the lock, so that `CommandStart` covers them up to the first change a
reader can see. Returns with no set in hand, a failed allocation among them, are
`CommandRejected`; the parsing of the command and of its descriptor, which touches nothing, is
left out. "The cgroup owns its policy", which the code asks of
`namei_ext_owner`, is `active[c]`; that the two agree under `cgroup_mutex` is part of
`SettledTree` in `NameiExtAttach`.

### NameiExtAttach

`op` is what the holder of `cgroup_mutex` is doing. `AttachBegin` and
`DetachBegin` change the list and compute what to publish; then each cgroup of
the subtree is published in preorder with one step per store: array
(`PublishEffective`), activation or owner, owner or deactivation
(`ActivateOrPublish`, `PublishOrDeactivate`). `AttachFails` is an allocation
failure, which by the code's two loops happens before anything is published;
`DetachPurges` is the detach that goes on without memory, `PurgeOne` one cgroup
of it. What is attached is a program or a link with its current program; a link
changes it in three steps (`ReplaceBegin`, `ReplaceOne` for each array in
place, `ReplaceEnd`), and its release is a detach. `life` follows a cgroup from mkdir over rmdir, reference count zero, and
the two halves of the release worker. A dispatch (`Walk...`) reads static key,
prefilter, owner, scope and array in separate steps and holds no reference.

Left out: BPF_F_PREORDER, cgroup storage, LSM trampolines and revisions.

### NameiExtTargets

An object is what a `struct path` names (mount and dentry reference are counted
as one); `refs` counts the references of registry and walks. `RegisterInstall`,
`ClearOne`, `ClearEnd`, `Retired` follow the code's locking: clear holds the table's
lock over its loop, and the free comes after the grace period. A walk has
attempts 1 (RCU), 2 (ref) and 3 (REVAL), as in `filename_lookup`. In RCU-walk it
holds `cur` without a reference, `src` being the record it was borrowed from; the
conversion to ref-walk may fail at any time, which stands for every sequence
counter that may have moved.

### NameiExtReaddir

`call[t]` holds the frames from `getdents64` to the actor: remaining space,
the iterator's position, the chosen cgroup, the records written, and the three
error variables. `EnterPlain` is the prefilter's negative answer, allowed only
when the directory is not managed (theorem `RegistryImplementsScopes`);
`EnterManaged` its positive answer, always allowed. The underlying filesystem's
`iterate_shared` is external: it hands entries over in order, stops when the actor says so,
and may fail.

### NameiExtOpen

`nd` is `struct nameidata` with the frames of its callers: what is left of the
pathname, the stack of links (`stack`), which bodies are still pinned (`bodies`),
path and root, the walk mode, `LOOKUP_*` flags, and as a ghost the references the call
holds (`refs`). An action is one component, one link, one conversion to ref-walk or one
exit: `link_path_walk` and `walk_component` with and without a policy,
`pick_link`, `step_into`, `handle_dots`, `try_to_unlazy` and
`try_to_unlazy_next` with a failure at each link, path or root,
`complete_walk`, `terminate_walk`, `open_last_lookups` with the policy's
variant, `lookup_open`, `do_open`, and the attempts of `filename_lookup` and
`do_file_open` (RCU, ref, REVAL). A sequence counter that moved is the free choice of
a failure at every point where the code tests one. Other tasks change an
entry or the policy between any two steps.

`ResolvesAsNamed` compares the result with `NameiExtOpenRef` for calls nobody interfered
with. That module has neither stack nor modes: `Onward` takes one step from a position (a
directory, the components left, the flags carried along) and gives the answer or the next
position, substituting link bodies, redirected names and targets; `Resolution` follows the steps
to the answer. It assumes what `build_open_flags` makes of the caller's flags (`CallFlags`) and that
O_CREAT's file is new (`FreshIsNew`). Where the open path loses a trailing slash behind a
redirect or a selection the answer is marked `odd` and `RedirectKeepsSlash`
states what it should be.

Left out: mounts and automounts, permissions, protected links, renames of
directories, `O_TMPFILE`, `O_PATH`, delegations, truncation, a
filesystem's `atomic_open`; of `handle_dots` the -EAGAIN of a scoped walk while mounts or directories
move, which only refuses more; of `pick_link` the failing allocation of a larger stack, the errors of a
filesystem's `get_link` and the unlazy these two may need, which end a walk in states the failures above reach too.

### NameiExtControl

`ctl` is `run_sample`: where it is, its error, and the set of things it must
undo (the flags its cleanup tests). Each control child is a process with
its own steps: move into the cgroup, enter a write, leave it. Its parent waits with a
timeout, kills it, and goes on (`WaitTimesOut`), and a write the child is inside of
takes effect later. The consumer ends after "quit", which it gets after the fourth state, or at the end of its
input (`ConsumerQuits`); for the latter every copy of the write end has to be closed, that of the register
child included. `StartConsumerFails` is an `fdopen` that fails after the fork: the consumer runs and
the cleanup does not know of it. Left out of a check (`check_state`) are `check_directory` and `check_old_fd`, which
compare the listing and a descriptor opened earlier. The consumer reads states from a pipe, checks every path of the volume and
answers. Any operation may fail, at most `MaxFaults` in a lifecycle. The policy is
`kubernetes_configmap_publication.bpf.c`: the caller's generation picks a view, the view
a target, target 0 hides. This experiment selects regular files as last components,
which needs a newer kernel than the snapshot; the kernel is external in this module.

## Runs

| Run | Question | Distinct states |
| --- | --- | --- |
| `scopes_safety` | Do index, counters and memory stay consistent with commands, attach, detach, removal and one walk in every interleaving, does a refused command free what it built, and does the registry implement `PolicyScopes` (no false negatives)? | 0.70 M |
| `scopes_liveness` | Does a walk leave the retry loop, does a command give `cgroup_mutex` back? | 12 k |
| `attach_tree` | Do arrays, owners, activation and key agree with single, override and multi attachments, links that change their program, and failing allocations? | 5.6 M |
| `attach_dispatch` | Is a dispatch without references safe from release, do three levels agree, and does the prefilter cover attached owners during updates? | 3.8 M |
| `attach_prefilter_gap` | Is a false negative possible inside a detach? (violation) | |
| `attach_scope_race` | Does a program only decide in its own scope? (violation) | |
| `targets_safety` | Are records and references safe, balanced, and gone with the cgroup? | 2.0 M |
| `targets_liveness` | Do walks and updates end? | 18 k |
| `readdir` | Is an enumeration complete, honest and filtered by a live cgroup? | 1.4 M |
| `open_walk` | Does every lookup and open return what its pathname means, give back what it took, create only what it may, stay in its scope, and end? | 1.87 M |
| `open_slash` | Is a slash behind a redirected name respected by open? (violation) | |
| `control_lifecycle` | Does a consumer see complete generations only, is a clean report true, and does every lifecycle with a register child that ends come to its report? | 28 k |

### Bounds

Two cgroups, two directories, one writer and one reader are enough for each
pair of actors the code lets run together: a command holds `cgroup_mutex` to its end, so a
second writer only waits, with a reference on a cgroup that the first may have as well, while
attach, removal and the release worker of either cgroup are actors of their own; readers
never write. `scopes_liveness` has two writers, and the proofs any number. `UintMax = 3` saturates both counters; `MaxParents = 2` reaches the
limit of policy parents. Three scope sets are one more than can be installed,
so a replaced set, its successor and another cgroup's set coexist. The cgroup
tree has three levels where inheritance matters and two where interleaving
matters; there two programs and one link give every list of two, and a detach runs out of
memory only while no cgroup is left purged by another (`MaxPurged = 1`). Targets: three objects (start directory, a directory, a file), two
ids, three records: one installed, one replaced, one new. Readdir: three
entries and buffers for one and for three ordinary records, so that a
redirected name does not fit where an ordinary one does; between them the
policies take every decision. Open: five directories, three layouts of the managed one, nine policies, two links of which one ends in a
name the policy may select and one is absolute and goes on behind such a name, one managed
directory, nine pathnames, each with thirteen combinations of kind and flags; `MaxSymlinks = 3` is
reached by the nested links, and one change by another task (`MaxChanges`) may
come at any step. Control: the four kinds of path the experiment
has (two that change, one retired, one added) and three faults, so that the
clean-up of a failure can fail too. Symmetry is used over sets whose elements only the names tell
apart and never in liveness runs.

Every module may run forever or rest in any state, so nothing there needs
`CHECK_DEADLOCK FALSE`.

### Fairness

Only weak fairness, of steps of threads that are not blocked: a walk in
progress, a writer that holds its mutex, the release worker. The kernel's
scheduler gives that much. Nothing is assumed about users: no command, attach
or removal need ever happen. The end of a grace period is fair once the readers
it waits for have left, as RCU guarantees. `WalkTerminates` of the scope
registry assumes that attaches, detaches and "global" commands without effect
do not recur forever, because these open seqcount sections without ever waiting
for a reader; the property states that condition itself. In `NameiExtControl` controller
and consumer are scheduled; a control child need never move, and where `LifecycleEnds` needs the register child to end
it says so (the clear child may hang for ever); neither a fault nor the kernel's
release of the cgroup is assumed to happen. That a lookup or open takes finitely many
steps is shown without fairness, by a measure every step of the call lowers (`CallAdvances`).

### Findings

- `attach_prefilter_gap`: `docs/design.md` forbids false negatives of the
  prefilter. A detach deactivates the scope of its cgroup before the descendants lose the
  program, so for a moment they dispatch to a program the prefilter no longer covers. Outside
  updates, and for an owner whose policy stays attached, there is none
  (`SettledTree`, `AttachedOwnerIsCovered`).
- `attach_scope_race`: the scope that is checked and the program that runs are read by two
  loads; an update between them lets a parent's program decide in a
  directory that only the child's scope contains.
- `open_slash`: `trailing_slashes` reads the byte behind `nd->last`, which after a redirect
  is in the redirect buffer. That byte is taken to be zero. The source does not make it so: the buffer is
  an uninitialised stack variable of which `namei_ext_fill_redirect` writes `len` bytes, and for a
  name of the maximum length the byte lies behind the array, in the member that follows it. It is
  zero because the kernels are built with `CONFIG_INIT_STACK_ALL_ZERO` (in every `kernel.config` under
  `src/results/`); in another build it could be anything, a slash included, but never the
  caller's. `ResolvesAsNamed` rests on the same assumption. `open("alias/")` therefore opens a regular file and, under
  `O_NOFOLLOW`, does not follow a link, while `stat("alias/")` and an open
  of the other name do.

Observations that no run states:
- In inherited BPF code two detaches that both run out of memory can leave a
  detached program in an array: the second purge counts to the entry in lists that
  no longer describe the array, and the update of a link miscounts in the same way. `SettledTree` and `KeyCovers` exclude cgroups whose
  last update was only a purge.
- An attach that fails leaves the flags it wrote. An attach that reaches a cgroup after its
  release leaves one count of the static key.
- With ALLOW_MULTI an effective array can hold programs of several cgroups, while the comment
  in `bpf-cgroup-defs.h` speaks of a single effective attachment and only the nearest
  owner's scope is checked; `SettledTree` states the comment for the other flags.
- `readdir` needs the exception for a call that chose a cgroup and then found it dead
  (`bare`): its task had migrated, the old cgroup was removed, and the enumeration goes
  on with no policy at all, neither the old cgroup's nor the new one's.
- An open with a slash behind a selected name and without `O_DIRECTORY` fails with
  EOPNOTSUPP, again because the slash is looked for in the wrong place.
- `total_link_count` is not reset between attempts, so that an attempt that is
  restarted late may fail with ELOOP where a fresh one would not. `ResolvesAsNamed`
  therefore allows ELOOP in a later attempt.
- A selection returns without `put_link`; the link stays on the stack until
  `terminate_walk`, which `LinkBodiesAlive` and `RefsMatchPointers` show to be harmless.
- The last component of mkdir, unlink and rename is looked up without the policy.
- The publication's controller does not ignore SIGPIPE. If the consumer dies before the next state is
  sent (`BrokenPipe`) the controller ends without its cleanup and leaves policy, cgroup and
  targets, although `docs/tmp/2026-08-08-kubernetes-configmap-setup-batching-plan.md` asks for
  clearing the target set on every later exit.
- `stop_consumer` waits for the consumer without a deadline. When a lifecycle fails before its fourth
  state no "quit" is sent and the consumer ends with its input; but the register child, forked
  without an exec while the controller has the pipe, keeps a copy of the write end. If that child
  hangs in its debugfs write and SIGKILL cannot end it, the timeout of `namei_ext_wait_control_child`
  frees the controller only until `stop_consumer`, where it waits for ever. `LifecycleEnds` excludes
  exactly this case, and without the premise TLC finds it.

## Proofs

All proofs hold for every value of the constants that satisfy the modules'
`ASSUME`s (finite sets where the model counts, distinct tags).

`Scopes_proofs`: the type invariant (`TypeCorrect`) is inductive as it
stands, one step per action; the interesting part is that sticky counters never
leave `0..UintMax`. `NoUseAfterFree`, `NoLeak`, `IndexMatchesScopes` and
`ReleasedLeavesNothing` follow from one inductive invariant, `MemoryInv`. None of
them is inductive alone: that a free is safe depends on who else may point to
the set. `MemoryInv` adds
- `WriterInv`: a writer's references keep its cgroup from release;
- `SectionInv`: what the holder of the scopes lock has read is still true;
- `OldInv`: a replaced set waits with a writer that still has `cgroup_mutex`, or with the release worker;
- `FreshInv`: a set that is built and not yet published is in the hands of the writer that has `cgroup_mutex` and has not opened its section;
- `SectionOwns`: the sets of an open section belong to nobody else;
- `ReaderInv`: a reader's set is installed, or just replaced, or its owner's grace period waits for this reader. This is the RCU argument.

In the same module: `CountersMatch` and `SaturationJustified`. Outside sections a
counter is exact or stuck; inside one it is ahead of what it counts by what the
section has announced and not yet published (`Ahead`). `CounterInv` says so for both
counters, for every `UintMax`; the cardinalities change by one cgroup or one set
of entries at a time, which `FiniteSetTheorems` covers. It follows that a put never
finds zero: the underflow branches of the code are not taken.

`ScopeRefinement_proofs`: `RegistryImplementsScopes`, the refinement of `PolicyScopes`. `ReplacePublish`
is the step at which a command changes the abstract scope; every other step of a writer
stutters. The history variable `mayMiss` of a reader holds what was unmanaged at some
moment of its query. `ImplInv` joins `MemoryInv` and `CounterInv` with `SeqInv` (while a reader is not
stale no section is open and what it has read is still true) and `HistInv` (`mayMiss` is exactly
the memory of the queries in progress). So a reader that passes its retry check has seen one consistent state, and
its "no" is justified by that moment.

`AttachTree_proofs`, for every tree of cgroups. `DispatchAlive` follows from `AliveInv`: `TreeTypes`;
`OwnersAbove` (an owner is an ancestor); `TreeClosed` (a parent outlives its
children, so that an owner outlives the cgroups it owns); `TasksLive`; `WalksAlive`
(what a dispatch has loaded is kept by the dispatch, which the release
waits for). `AttachedOwnerIsCovered` follows from `CoverInv`: `VisitOrder` (what an update still has to
visit is closed under descendants), `OwnersCount` (an owner a walk can load is active, unless it
has lost its policy and the update has yet to visit the cgroup) and `AttachedCount` (a cgroup with
programs is active unless the attach has yet to visit it). That a next cgroup in preorder exists uses the
minimal elements of `WellFoundedInduction`.

`SettledTree`, `KeyCovers` and the types follow from `TreeInv`, in three layers:
- `ListsInv`: a list has several programs, or a link, only under ALLOW_MULTI
  (`ManyOnlyMulti`); a link is in one list, once (`LinksOnce`); what a purge or a
  replacement is about is still in its list (`StillListed`). Why `find_attach_entry`
  and `insert_pl_to_hlist` keep this is read off `InsertAt`, `ReplaceAt` and `RemoveFirst`.
- `KeyInv`: the static key is the number of entries of all lists, give or take the one an
  attach or detach has yet to count. Lists are compared as sets of (cgroup, position), so
  that the sum is a cardinality.
- `SettledInv`: a cgroup the update has visited, or that it does not concern, has the array and
  owner the lists call for; one whose array a replacement has yet to touch differs from that
  in entries of the link only; and while a purge runs, a cgroup it has passed without a
  hit does not have the program in its array. The last part is why the list may lose
  the entry afterwards without any array changing.

Arrays are `FlattenSeq` of the levels' lists. Its induction is done once, by taking the least
prefix for which a claim would be wrong (`FlattenPrefixes`, `Upto`); above that
four lemmas say what is in a concatenation (`FlattenHas`), what occurs once in it
(`FlattenOnce`), when two are related entry by entry (`FlattenRelated`) and when it is one of its
parts (`FlattenAlone`). `SameArray` then gives the changes of lists and flags an array
does not see: flags of an empty list, and levels that yield to nearer ones.

`TargetMemory_proofs`: `NoUseAfterFree`, `NoLeak` and `ReleasedLeavesNothing`
follow from `TargetInv`:
- `LockInv`: exactly the clearing actor holds the table's lock across steps;
- `CgroupInv`: records of a cgroup whose release has begun are linked only while its worker takes them out;
- `WalkInv`: a walk holds a record only inside an RCU section;
- `ReadInv`: such a record is linked, just unlinked, or waiting for this walk.

`RefsBalanced`, `SelectedAlive` and the types of that module follow from `PathInv`, which stands on
`TargetInv`: the balance itself, and `Borrows`: where a walk is decides whether it holds
references, and what it uses in RCU-walk without one is the path of a record it
still holds, or the directory it started from. The counts are cardinalities that change by one
record or one walk at a time.

`Open_proofs`: `RefsMatchPointers`, `LinkBodiesAlive`, `CreatesOnlyWhatPassed`, `StaysBeneath` and
the types, for every tree in which a directory has one parent (`OneParent`), every
pathname, policy and limit of links, from `OpenInv`. It is a conjunction of predicates on the `nameidata`:
- `RefOK`: a ref-walk has one reference for each pointer, an RCU-walk none;
- `StackOK`: links are on the stack in the order in which they were met, and their bodies are pinned until the walk is torn down;
- `NestOK`: the texts around the current one belong to links met before it, fewer than are on the stack. So the link that `put_link` releases at the end of a component is never one whose body is still read, although a selection leaves the stack deeper than `link_path_walk` counts;
- `DecideOK`: the decision a component acts on is the policy's, and for O_CREAT it is PASS from the last component on;
- `PlaceOK`: where the walk stands, and that a scoped one has its starting directory as root;
- `TreeOK`: what other tasks may do to entries and policy.

`StaysBeneath` is not inductive without the root: `..` is safe because it stops there. "Below the
starting directory" is the least set that has it and the children of its members, which is
what a proof without recursion can use.

`OpenResolve_proofs` shows that a lookup or open ends, and that it returns what the reference says, for
every tree, pathname, policy, set of flags and limit of links. It has three parts.

1. The call is finite. `StepsLeft` is a tuple of five numbers: attempts, links, texts around the current
   one, components of that text, steps of one component. `CallIsFinite` is that their
   lexicographic order is well founded, and `OpenCallAdvances` that every step of the call
   goes down in it. The second needs more than `OpenInv`: an unlazy must not come back, and a link
   beyond the limit must end the attempt. `TidyInv` (`OpenTidy`) has this: RCU-walk is for the first attempt
   only, the count of links passes the limit only with ELOOP, and nothing is created and then walked again.
2. The reference is defined. `Resolution` is a recursive function on an infinite set of positions, so that its
   equation is a theorem and not a definition (`ResolutionDefined`). The library's
   recursion theorems take operators the provers cannot instantiate; the proof goes through sets instead:
   the answers are the least relation closed under the steps (`Least`), which is a function because
   a position at which it were not, minimal in the well-founded order of links
   and components left (`Downwards`, `WFMin`), contradicts minimality (`Iteration`).
3. The walk follows the reference. `ResolvesAsNamed` speaks of the end of a call only; the inductive invariant
   `FollowsReference` says at every step of an undisturbed call where the walk is in the reference: there is
   a position from which the reference gives the answer expected of the whole call, in the walk's
   directory, with what the walk still has to read (`Behind`: the current text followed by the texts around
   it, `names` flattened), the slash at the bottom of the stack, no more links than the walk has counted, and the
   `LOOKUP_DIRECTORY` and `LOOKUP_FOLLOW` flags that belong to it (`Stands`, `AtWalk`, `AtLast`, `AtDecide`,
   `AtLookup`). Behind the last component it says which answer is due (`AtComplete`, `AtFail`, `AtEnd`). There is
   one lemma for each action (`...Simulates`): a step of the walk inside a component keeps the position, the
   end of a component takes it one `Onward` further, an attempt that gives up forgets it, and `PathInit` starts again from the
   outset. References, modes and the stack itself do not occur in it, which is the claim: they make no
   difference. The exceptions of `ResolvesAsNamed` are where they come from: `p.n <= links` is an equality in the
   first attempt only (ELOOP after a restart), and a position at which the slash of a redirected or selected
   name matters makes the answer `odd` from there to the end (`OddStays`).

The order of the tests in `do_open` matters to the proof: an exclusive create that meets a directory fails both of the first
two, and the code's order decides that the error is EEXIST (`DoOpenError`, `LastErrors`).

`Readdir_proofs`: all five properties of the enumeration follow from `ReaddirInv`. Exactly the call
that holds the directory's lock is in progress, and that call accounts for the entries
between its start and its position (`Accounted`), stops only for a reason it
reports now or next time (`StopsForReason`), keeps its cgroup (`Protected`) and
returns nothing every policy hides (`Filtered`).

`Control_proofs`: `CleanReportIsClean`, for every volume and every number of faults, from
`ControlInv`: `UndoInv` (what was not set up is not there), `InsideInv` (who is in
the cgroup: a control child only while it runs) and `CleanupInv` (how far a cleanup
without an error has got). It does not follow from the order of the cleanup alone: the register child may
have been given up and still be writing when the targets are cleared (the consumer was killed), and what the proof uses is its place in the cgroup, which keeps rmdir from succeeding.

`PublishedIsComplete` follows from `PublishInv`: `RegisterInv` (the register child has written
the batch up to its index, and a child that clears exists only after the policy is destroyed),
`VolumeInv` (targets, views and attachment are there once the steps that make them are behind),
`ConsumerInv` (the consumer is in the cgroup only from its move until it is reaped, and all that time
the volume is complete) and `WhereInv`. The argument is the order of `run_sample` and of its cleanup:
nothing takes the volume apart before the consumer is gone, whatever failed. The two loops
over generations and entries are numbered by slots (`SlotGeneration`, `SlotEntry`), so that
"every present target is in the batch" needs no induction.

`FailsOnlyIfDisturbed` follows from `QuietInv`: as long as nothing was disturbed there is no error,
no child that was given up, and the consumer waits or looks at the generation it was asked
about. A failing check would need an incomplete volume, which `PublishInv` excludes, and a busy
cgroup a process that has not left.

Only model-checked are the liveness properties (`WalkTerminates` and `CommandTerminates` of the scope registry,
`WalkTerminates` and `UpdateTerminates` of the targets, `LifecycleEnds`): fairness and `ENABLED` are out of the prover's
reach. Every invariant and every action property of the passing runs is a theorem.

## Not modelled

- BPF_F_PREORDER, revisions and query of attachments.
- Mounts, automounts, permissions and the other parts of `fs/namei.c` listed above.
- The BPF verifier's check of program types, context layout and constants: no state.
- The other policies: a program may decide anything in the kernel's models, which covers each of them.
- `getdents` and the compat calls: they differ from `getdents64` in record layout.
- The other experiments, benchmarks, analysis, Make rules, result validation: programs that set up,
  measure and compare files around the mechanism. Most of the repository's lines are
  here, in kernel files the project did not change (the verifier, FUSE), and in
  vendored baselines.
- FUSE and other baselines: not this system's code.
- Data (names, hashes, inode numbers, permissions) except where a decision depends on it.

## What could come next

1. BPF_F_PREORDER in `NameiExtAttach`: `compute_effective_progs` puts such programs first, while
   purge and link update count positions as if the flag did not exist.
2. Mount points in `NameiExtOpen`: a target on another mount, and a scoped walk with `LOOKUP_NO_XDEV`.
3. The target-lifetime experiment as a second client of the harness.
