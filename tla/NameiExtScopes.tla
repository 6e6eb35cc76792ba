--------------------------- MODULE NameiExtScopes ---------------------------
(***************************************************************************)
(* Policy-parent scopes of fs/namei_ext.c: the per-cgroup scope sets, the  *)
(* global hash index over their entries, the two user counters, the        *)
(* seqcount that covers them and the RCU-deferred release of old sets.     *)
(*                                                                         *)
(* Actors: Writers are tasks inside a write to the policy_parent debugfs   *)
(* file; the attacher is whoever attaches or detaches a program (it calls  *)
(* namei_ext_cgroup_set_scope_active with cgroup_mutex held); a removed    *)
(* cgroup is cleaned up by its release worker; Readers are path walks.     *)
(*                                                                         *)
(* A scope set is an object of the pool ScopeIds, so that reuse of freed   *)
(* memory is visible.  The seqcount is modelled by its effect: seqOdd is   *)
(* the "write in progress" bit and stale[r] says that a write section      *)
(* began after reader r sampled the count (no 2^32 wrap-around).           *)
(***************************************************************************)
EXTENDS Naturals, FiniteSets

CONSTANTS
    Cgroups, Paths, Readers, Writers,
    ScopeIds,       \* pool of namei_ext_scope_set objects
    MaxParents,     \* NAMEI_EXT_MAX_POLICY_PARENTS
    UintMax,        \* UINT_MAX, the sticky value of both counters
    Null,           \* the NULL scope pointer: global dispatch; also "none"
    Tombstone,      \* namei_ext_scope_tombstone
    Attacher, Releaser

ASSUME ScopeConstants ==
    /\ IsFiniteSet(Cgroups) /\ IsFiniteSet(Paths) /\ IsFiniteSet(ScopeIds)
    /\ MaxParents \in Nat \ {0}
    /\ UintMax \in Nat \ {0}
    /\ {Null, Tombstone} \cap ScopeIds = {} /\ Null # Tombstone
    /\ {Null, Attacher, Releaser} \cap (Writers \cup Cgroups) = {}
    /\ Writers \cap Cgroups = {}
    /\ Null # Attacher /\ Null # Releaser /\ Attacher # Releaser

VARIABLES
    life,           \* [Cgroups -> {"live","dead","releasing","released"}]
    scopes,         \* cgrp->bpf.namei_ext_scopes
    active,         \* cgrp->bpf.namei_ext_scope_active
    entries,        \* the immutable directory set of each allocated scope set
    allocated,      \* the scope sets that are not free memory
    index,          \* namei_ext_scope_index: nodes <<scope set, directory>>
    globalUsers,    \* namei_ext_global_scope_users
    exactUsers,     \* namei_ext_exact_scope_users
    seqOdd,         \* a write section of namei_ext_scope_seq is open
    sec,            \* who holds namei_ext_scopes_lock, and where it is
    mutex,          \* holder of cgroup_mutex
    wcgrp,          \* the cgroup a writer took its references on, or Null
    fresh,          \* new_scopes, which a command has not published, or Null
    old,            \* the set an actor has replaced and must free, or Null
    grace,          \* the readers an actor's synchronize_rcu still waits for
    rpc, rpath,     \* reader: program counter and parent directory
    stale,          \* reader: read_seqcount_retry would say "retry"
    found, rptr     \* reader: prefilter result, and scope set dereferenced

writerVars == <<life, scopes, active, entries, allocated, index, globalUsers,
                exactUsers, seqOdd, sec, mutex, wcgrp, fresh, old>>
readerVars == <<rpc, rpath, found, rptr>>
vars == <<writerVars, grace, stale, readerVars>>

Actors == Writers \cup Cgroups      \* a cgroup acts as its release worker
ScopePtrs == ScopeIds \cup {Null, Tombstone}
NoSec == [op |-> "none"]
ReplaceSecs == [op : {"replace"}, by : Writers \cup {Releaser}, cgrp : Cgroups,
                new : ScopePtrs, prev : ScopePtrs, step : {"gained", "published"}]
ActiveSecs == [op : {"active"}, cgrp : Cgroups, val : BOOLEAN]

Commands == [op : {"exact", "add"}, path : Paths] \cup [op : {"clear", "global"}]

\* The directories of a scope pointer that is not NULL.
EntriesOf(s) == IF s \in ScopeIds THEN entries[s] ELSE {}

\* Readers inside an RCU read-side critical section.
InRcu == {r \in Readers : rpc[r] \in {"loop", "loopG", "loopI", "loopR", "deref"}}

Init ==
    /\ life = [c \in Cgroups |-> "live"]
    /\ scopes = [c \in Cgroups |-> Null]
    /\ active = [c \in Cgroups |-> FALSE]
    /\ entries = [s \in ScopeIds |-> {}]
    /\ allocated = {}
    /\ index = {}
    /\ globalUsers = 0
    /\ exactUsers = 0
    /\ seqOdd = FALSE
    /\ sec = NoSec
    /\ mutex = Null
    /\ wcgrp = [w \in Writers |-> Null]
    /\ fresh = [w \in Writers |-> Null]
    /\ old = [a \in Actors |-> Null]
    /\ grace = [a \in Actors |-> {}]
    /\ rpc = [r \in Readers |-> "idle"]
    /\ rpath \in [Readers -> Paths]
    /\ stale = [r \in Readers |-> FALSE]
    /\ found = [r \in Readers |-> FALSE]
    /\ rptr = [r \in Readers |-> Null]

-----------------------------------------------------------------------------
(* The counters and the index.                                             *)

\* Mutant: the increment does not stick at UINT_MAX.
GlobalGetUnbounded == globalUsers + 1

GlobalGet == IF globalUsers = UintMax THEN UintMax ELSE globalUsers + 1

GlobalPut == IF globalUsers \in {0, UintMax} THEN UintMax ELSE globalUsers - 1

ExactAdd(nr) == IF exactUsers + nr > UintMax THEN UintMax ELSE exactUsers + nr

ExactDel(nr) ==
    IF exactUsers = UintMax \/ exactUsers < nr THEN UintMax ELSE exactUsers - nr

\* namei_ext_scope_index_add_locked and _del_locked: the nodes of one set.
IndexAdd(s, ents) == index \cup ({s} \X ents)

\* Mutant: the loop stops one entry early.
IndexDelShort(s) ==
    LET nodes == {s} \X EntriesOf(s)
    IN  IF nodes = {} THEN index ELSE index \ (nodes \ {CHOOSE n \in nodes : TRUE})

IndexDel(s) == index \ ({s} \X EntriesOf(s))

\* A NULL scope counts as a global user only while its cgroup has a policy.
GlobalGained(c) == IF active[c] THEN GlobalGet ELSE globalUsers

\* Mutants: the count is dropped without a policy, or never dropped.
GlobalLostAlways(c) == GlobalPut
GlobalLostNever(c) == globalUsers

GlobalLost(c) == IF active[c] THEN GlobalPut ELSE globalUsers

\* Mutants: no synchronize_rcu at all, or one that waits for idle walks too.
GraceReadersNone(prev) == {}
GraceReadersAll(prev) == Readers

\* The readers synchronize_rcu waits for; there is none after a NULL scope.
GraceReaders(prev) == IF prev = Null THEN {} ELSE InRcu

\* write_seqcount_begin: every reader that sampled the count earlier retries.
OpenSection ==
    /\ seqOdd' = TRUE
    /\ stale' = [r \in Readers |-> TRUE]

\* namei_ext_scope_replace_locked, first part: the new scope becomes visible
\* to the prefilter before anything else happens.  ents are new's directories.
ReplaceGain(by, c, new, ents) ==
    /\ sec = NoSec
    /\ sec' = [op |-> "replace", by |-> by, cgrp |-> c, new |-> new,
               prev |-> scopes[c], step |-> "gained"]
    /\ OpenSection
    /\ IF new = Null
       THEN /\ globalUsers' = GlobalGained(c)
            /\ UNCHANGED <<index, exactUsers>>
       ELSE /\ index' = IndexAdd(new, ents)
            /\ exactUsers' = ExactAdd(Cardinality(ents))
            /\ UNCHANGED globalUsers

\* ... second part: rcu_assign_pointer.
ReplacePublish ==
    /\ sec.op = "replace" /\ sec.step = "gained"
    /\ scopes' = [scopes EXCEPT ![sec.cgrp] = sec.new]
    /\ sec' = [sec EXCEPT !.step = "published"]
    /\ UNCHANGED <<life, active, entries, allocated, index, globalUsers, exactUsers,
                   seqOdd, mutex, wcgrp, fresh, old, grace, stale, readerVars>>

\* ... last part: the old scope leaves the index, the section and the lock are
\* released, and its owner starts waiting for the readers of the moment.  The
\* release worker also clears scope_active here, still under the lock.
ReplaceLose ==
    /\ sec.op = "replace" /\ sec.step = "published"
    /\ IF sec.prev = Null
       THEN /\ globalUsers' = GlobalLost(sec.cgrp)
            /\ UNCHANGED <<index, exactUsers>>
       ELSE /\ index' = IndexDel(sec.prev)
            /\ exactUsers' = ExactDel(Cardinality(EntriesOf(sec.prev)))
            /\ UNCHANGED globalUsers
    /\ LET a == IF sec.by = Releaser THEN sec.cgrp ELSE sec.by
       IN  /\ old' = [old EXCEPT ![a] = IF sec.prev \in ScopeIds THEN sec.prev ELSE Null]
           /\ grace' = [grace EXCEPT ![a] = GraceReaders(sec.prev)]
    /\ active' = IF sec.by = Releaser THEN [active EXCEPT ![sec.cgrp] = FALSE] ELSE active
    /\ life' = IF sec.by = Releaser THEN [life EXCEPT ![sec.cgrp] = "releasing"] ELSE life
    /\ seqOdd' = FALSE
    /\ sec' = NoSec
    /\ UNCHANGED <<scopes, entries, allocated, mutex, wcgrp, fresh, stale, readerVars>>

-----------------------------------------------------------------------------
(* Writes to policy_parent.                                                *)

\* namei_ext_current_cgroup: references only on a live cgroup.
TakeCgroup(w, c) ==
    /\ wcgrp[w] = Null
    /\ life[c] = "live"
    /\ wcgrp' = [wcgrp EXCEPT ![w] = c]
    /\ UNCHANGED <<life, scopes, active, entries, allocated, index, globalUsers,
                   exactUsers, seqOdd, sec, mutex, fresh, old, grace, stale, readerVars>>

\* What namei_ext_scope_add and namei_ext_scope_global find out under
\* namei_ext_scopes_lock, before add allocates.
Rejected(c, cmd) ==
    \/ life[c] # "live"                 \* -ENODEV: removed meanwhile
    \/ /\ cmd.op = "add"
       /\ \/ scopes[c] = Null           \* -EINVAL: still global
          \/ cmd.path \in EntriesOf(scopes[c])      \* already there: 0
          \/ Cardinality(EntriesOf(scopes[c])) = MaxParents     \* -E2BIG

NewEntries(c, cmd) ==
    IF cmd.op = "exact" THEN {cmd.path}
    ELSE IF cmd.op = "add" THEN EntriesOf(scopes[c]) \cup {cmd.path}
    ELSE {}

\* namei_ext_policy_parent_write after cgroup_lock(): a return with no set in
\* hand.  Under cgroup_mutex the owner of a cgroup's policy is the cgroup itself
\* exactly when scope_active is set.
CommandRejected(w, cmd) ==
    /\ wcgrp[w] # Null /\ mutex = Null
    /\ \/ ~active[wcgrp[w]]             \* -ENOENT: no policy of its own
       \/ cmd.op # "global"             \* -ENOMEM
       \/ cmd.op \in {"add", "global"} /\ Rejected(wcgrp[w], cmd)
    /\ wcgrp' = [wcgrp EXCEPT ![w] = Null]
    /\ UNCHANGED <<life, scopes, active, entries, allocated, index, globalUsers,
                   exactUsers, seqOdd, sec, mutex, fresh, old, grace, stale, readerVars>>

\* namei_ext_alloc_scopes: s has the directories ents and a reference on each.
AllocScopes(s, ents) ==
    /\ s \notin allocated
    /\ allocated' = allocated \cup {s}
    /\ entries' = [entries EXCEPT ![s] = ents]

\* namei_ext_scope_add installs a set built under the lock, namei_ext_scope_global
\* NULL.
CommandStart(w, cmd) ==
    /\ wcgrp[w] # Null /\ mutex = Null
    /\ active[wcgrp[w]] /\ ~Rejected(wcgrp[w], cmd)
    /\ mutex' = w
    /\ \/ /\ cmd.op = "global"
          /\ UNCHANGED <<allocated, entries>>
          /\ ReplaceGain(w, wcgrp[w], Null, {})
       \/ /\ cmd.op = "add"
          /\ \E s \in ScopeIds :
                /\ AllocScopes(s, NewEntries(wcgrp[w], cmd))
                /\ ReplaceGain(w, wcgrp[w], s, NewEntries(wcgrp[w], cmd))
    /\ UNCHANGED <<life, scopes, active, wcgrp, fresh, old, grace, readerVars>>

\* namei_ext_scope_exact and namei_ext_scope_empty have their set, and its path
\* reference, before they take namei_ext_scopes_lock ...
CommandAlloc(w, cmd) ==
    /\ wcgrp[w] # Null /\ mutex = Null
    /\ active[wcgrp[w]]
    /\ cmd.op \in {"exact", "clear"}
    /\ mutex' = w
    /\ \E s \in ScopeIds : /\ AllocScopes(s, NewEntries(wcgrp[w], cmd))
                           /\ fresh' = [fresh EXCEPT ![w] = s]
    /\ UNCHANGED <<life, scopes, active, index, globalUsers, exactUsers, seqOdd, sec,
                   wcgrp, old, grace, stale, readerVars>>

\* ... and install it in a cgroup that is still there ...
CommandInstall(w) ==
    /\ mutex = w /\ wcgrp[w] # Null /\ fresh[w] # Null
    /\ life[wcgrp[w]] = "live"
    /\ ReplaceGain(w, wcgrp[w], fresh[w], entries[fresh[w]])
    /\ fresh' = [fresh EXCEPT ![w] = Null]
    /\ UNCHANGED <<life, scopes, active, entries, allocated, mutex, wcgrp, old, grace,
                   readerVars>>

\* namei_ext_free_scopes; nothing is freed for Null.
FreeScopes(s) ==
    /\ allocated' = allocated \ {s}
    /\ entries' = [t \in ScopeIds |-> IF t = s THEN {} ELSE entries[t]]

\* Mutant: the set of a refused command is forgotten.
CommandAbandonKeeps(w) ==
    /\ mutex = w /\ wcgrp[w] # Null /\ fresh[w] # Null
    /\ life[wcgrp[w]] # "live" /\ sec = NoSec
    /\ fresh' = [fresh EXCEPT ![w] = Null]
    /\ mutex' = Null
    /\ wcgrp' = [wcgrp EXCEPT ![w] = Null]
    /\ UNCHANGED <<life, scopes, active, entries, allocated, index, globalUsers,
                   exactUsers, seqOdd, sec, old, grace, stale, readerVars>>

\* ... or, with -ENODEV, free it again.
CommandAbandon(w) ==
    /\ mutex = w /\ wcgrp[w] # Null /\ fresh[w] # Null
    /\ life[wcgrp[w]] # "live" /\ sec = NoSec
    /\ FreeScopes(fresh[w])
    /\ fresh' = [fresh EXCEPT ![w] = Null]
    /\ mutex' = Null
    /\ wcgrp' = [wcgrp EXCEPT ![w] = Null]
    /\ UNCHANGED <<life, scopes, active, index, globalUsers, exactUsers, seqOdd, sec,
                   old, grace, stale, readerVars>>

\* namei_ext_finish_scope_replace once the grace period is over; cgroup_unlock
\* and namei_ext_put_cgroup.
CommandFinish(w) ==
    /\ mutex = w /\ fresh[w] = Null
    /\ sec.op = "replace" => sec.by # w
    /\ grace[w] = {}
    /\ FreeScopes(old[w])
    /\ old' = [old EXCEPT ![w] = Null]
    /\ mutex' = Null
    /\ wcgrp' = [wcgrp EXCEPT ![w] = Null]
    /\ UNCHANGED <<life, scopes, active, index, globalUsers, exactUsers,
                   seqOdd, sec, fresh, grace, stale, readerVars>>

-----------------------------------------------------------------------------
(* Attach, detach and removal of cgroups.                                  *)

\* bpf.refcnt of c is not zero: the cgroup itself or a writer holds it.
Referenced(c) == life[c] = "live" \/ \E w \in Writers : wcgrp[w] = c

\* Mutant: attach and detach also update cgroups whose release is under way.
UpdatableAlways(c) == TRUE

\* update_effective_progs skips a cgroup whose bpf.refcnt is zero.
Updatable(c) == Referenced(c)

\* namei_ext_cgroup_set_scope_active(c, val), called with cgroup_mutex held.
SetActiveBegin(c, val) ==
    /\ mutex = Null /\ sec = NoSec
    /\ Updatable(c)
    /\ active[c] # val
    /\ mutex' = Attacher
    /\ sec' = [op |-> "active", cgrp |-> c, val |-> val]
    /\ OpenSection
    /\ globalUsers' = IF scopes[c] # Null THEN globalUsers
                      ELSE IF val THEN GlobalGet ELSE GlobalPut
    /\ UNCHANGED <<life, scopes, active, entries, allocated, index, exactUsers,
                   wcgrp, fresh, old, grace, readerVars>>

SetActiveEnd ==
    /\ sec.op = "active"
    /\ active' = [active EXCEPT ![sec.cgrp] = sec.val]
    /\ seqOdd' = FALSE
    /\ sec' = NoSec
    /\ mutex' = Null
    /\ UNCHANGED <<life, scopes, entries, allocated, index, globalUsers, exactUsers,
                   wcgrp, fresh, old, grace, stale, readerVars>>

\* rmdir of the cgroup: cgroup_bpf_offline kills bpf.refcnt.
Rmdir(c) ==
    /\ mutex = Null
    /\ life[c] = "live"
    /\ life' = [life EXCEPT ![c] = "dead"]
    /\ UNCHANGED <<scopes, active, entries, allocated, index, globalUsers, exactUsers,
                   seqOdd, sec, mutex, wcgrp, fresh, old, grace, stale, readerVars>>

\* namei_ext_cgroup_release: runs from a work item once bpf.refcnt is zero,
\* without cgroup_mutex.
ReleaseStart(c) ==
    /\ life[c] = "dead" /\ ~Referenced(c)
    /\ ReplaceGain(Releaser, c, Tombstone, {})
    /\ UNCHANGED <<life, scopes, active, entries, allocated, mutex, wcgrp, fresh,
                   old, grace, readerVars>>

ReleaseFinish(c) ==
    /\ life[c] = "releasing"
    /\ grace[c] = {}
    /\ FreeScopes(old[c])
    /\ old' = [old EXCEPT ![c] = Null]
    /\ life' = [life EXCEPT ![c] = "released"]
    /\ UNCHANGED <<scopes, active, index, globalUsers, exactUsers,
                   seqOdd, sec, mutex, wcgrp, fresh, grace, stale, readerVars>>

-----------------------------------------------------------------------------
(* A path walk: the prefilter, then the authoritative scope check.         *)

\* Only the reader's own variables change; leaving RCU ends its part of every
\* grace period.
ReaderStep(r, to) ==
    /\ rpc' = [rpc EXCEPT ![r] = to]
    /\ grace' = [a \in Actors |-> IF r \in InRcu' THEN grace[a] ELSE grace[a] \ {r}]
    /\ UNCHANGED writerVars

\* namei_ext_parent_maybe_managed: read_seqcount_begin spins while a section
\* is open.
FastBegin(r, p) ==
    /\ rpc[r] = "idle" /\ ~seqOdd
    /\ rpath' = [rpath EXCEPT ![r] = p]
    /\ stale' = [stale EXCEPT ![r] = FALSE]
    /\ ReaderStep(r, "fastG")
    /\ UNCHANGED <<found, rptr>>

FastGlobal(r) ==
    /\ rpc[r] = "fastG"
    /\ ReaderStep(r, IF globalUsers # 0 THEN "loop" ELSE "fastE")
    /\ UNCHANGED <<rpath, stale, found, rptr>>

FastExact(r) ==
    /\ rpc[r] = "fastE"
    /\ ReaderStep(r, IF exactUsers # 0 THEN "loop" ELSE "fastR")
    /\ UNCHANGED <<rpath, stale, found, rptr>>

\* Mutant: the fast path trusts its two zeroes without looking at the count.
FastRetryNoCheck(r) ==
    /\ rpc[r] = "fastR"
    /\ ReaderStep(r, "idle")
    /\ found' = [found EXCEPT ![r] = FALSE]
    /\ UNCHANGED <<rpath, stale, rptr>>

\* The whole index is known to be empty only if the count did not move.
FastRetry(r) ==
    /\ rpc[r] = "fastR"
    /\ ReaderStep(r, IF stale[r] THEN "loop" ELSE "idle")
    /\ found' = [found EXCEPT ![r] = FALSE]
    /\ UNCHANGED <<rpath, stale, rptr>>

LoopBegin(r) ==
    /\ rpc[r] = "loop" /\ ~seqOdd
    /\ stale' = [stale EXCEPT ![r] = FALSE]
    /\ ReaderStep(r, "loopG")
    /\ UNCHANGED <<rpath, found, rptr>>

LoopGlobal(r) ==
    /\ rpc[r] = "loopG"
    /\ found' = [found EXCEPT ![r] = globalUsers # 0]
    /\ ReaderStep(r, IF globalUsers # 0 THEN "loopR" ELSE "loopI")
    /\ UNCHANGED <<rpath, stale, rptr>>

LoopIndex(r) ==
    /\ rpc[r] = "loopI"
    /\ found' = [found EXCEPT ![r] = \E s \in ScopeIds : <<s, rpath[r]>> \in index]
    /\ ReaderStep(r, "loopR")
    /\ UNCHANGED <<rpath, stale, rptr>>

LoopRetry(r) ==
    /\ rpc[r] = "loopR"
    /\ ReaderStep(r, IF stale[r] THEN "loop" ELSE IF found[r] THEN "maybe" ELSE "idle")
    /\ UNCHANGED <<rpath, stale, found, rptr>>

\* __cgroup_bpf_run_namei_ext / namei_ext_policy_parent_matches: under a new
\* RCU read lock, load the scope pointer of the policy's owner ...
MatchLoad(r, c) ==
    /\ rpc[r] = "maybe"
    /\ rptr' = [rptr EXCEPT ![r] = scopes[c]]
    /\ ReaderStep(r, "deref")
    /\ UNCHANGED <<rpath, stale, found>>

\* ... and search the set.  found is then the authoritative answer.
MatchDeref(r) ==
    /\ rpc[r] = "deref"
    /\ found' = [found EXCEPT ![r] = rptr[r] = Null \/ rpath[r] \in EntriesOf(rptr[r])]
    /\ rptr' = [rptr EXCEPT ![r] = Null]
    /\ ReaderStep(r, "idle")
    /\ UNCHANGED <<rpath, stale>>

Writing(w) ==
    \/ \E c \in Cgroups : TakeCgroup(w, c)
    \/ \E cmd \in Commands : CommandRejected(w, cmd) \/ CommandStart(w, cmd) \/ CommandAlloc(w, cmd)
    \/ CommandInstall(w) \/ CommandAbandon(w) \/ CommandFinish(w)

Walking(r) ==
    \/ FastGlobal(r) \/ FastExact(r) \/ FastRetry(r)
    \/ LoopBegin(r) \/ LoopGlobal(r) \/ LoopIndex(r) \/ LoopRetry(r)
    \/ \E c \in Cgroups : MatchLoad(r, c)
    \/ MatchDeref(r)

Next ==
    \/ \E w \in Writers : Writing(w)
    \/ ReplacePublish \/ ReplaceLose
    \/ \E c \in Cgroups : \E val \in BOOLEAN : SetActiveBegin(c, val)
    \/ SetActiveEnd
    \/ \E c \in Cgroups : Rmdir(c) \/ ReleaseStart(c) \/ ReleaseFinish(c)
    \/ \E r \in Readers : \E p \in Paths : FastBegin(r, p)
    \/ \E r \in Readers : Walking(r)

Spec == Init /\ [][Next]_vars

-----------------------------------------------------------------------------
(* Properties.                                                             *)

TypeOK ==
    /\ life \in [Cgroups -> {"live", "dead", "releasing", "released"}]
    /\ scopes \in [Cgroups -> ScopePtrs]
    /\ active \in [Cgroups -> BOOLEAN]
    /\ entries \in [ScopeIds -> SUBSET Paths]
    /\ allocated \subseteq ScopeIds
    /\ index \subseteq ScopeIds \X Paths
    /\ globalUsers \in 0..UintMax
    /\ exactUsers \in 0..UintMax
    /\ seqOdd \in BOOLEAN
    /\ sec \in {NoSec} \cup ReplaceSecs \cup ActiveSecs
    /\ mutex \in Writers \cup {Attacher, Null}
    /\ wcgrp \in [Writers -> Cgroups \cup {Null}]
    /\ fresh \in [Writers -> ScopeIds \cup {Null}]
    /\ old \in [Actors -> ScopeIds \cup {Null}]
    /\ grace \in [Actors -> SUBSET Readers]
    /\ rpc \in [Readers -> {"idle", "fastG", "fastE", "fastR", "loop", "loopG",
                             "loopI", "loopR", "maybe", "deref"}]
    /\ rpath \in [Readers -> Paths]
    /\ stale \in [Readers -> BOOLEAN]
    /\ found \in [Readers -> BOOLEAN]
    /\ rptr \in [Readers -> ScopePtrs]

\* The cgroups that count in namei_ext_global_scope_users.
GlobalScopes == {c \in Cgroups : active[c] /\ scopes[c] = Null}

\* The scope sets some cgroup points to, and their index nodes.
Installed == {s \in ScopeIds : \E c \in Cgroups : scopes[c] = s}
NodesOf(sets) == {n \in ScopeIds \X Paths : n[1] \in sets /\ n[2] \in entries[n[1]]}

\* A scope set an open section has put into the index or not yet taken out.
InSection ==
    IF sec.op # "replace" THEN {}
    ELSE {IF sec.step = "gained" THEN sec.new ELSE sec.prev} \cap ScopeIds

\* The sets that wait for their free, and the ones a command has in hand.
Olds == {s \in ScopeIds : \E a \in Actors : old[a] = s}
News == {s \in ScopeIds : \E w \in Writers : fresh[w] = s}

\* The hash index holds the entries of the installed scope sets and of the set
\* an open write section adds or removes, and nothing else: no entry is lost
\* (a lookup would miss a policy) and none outlives its set.
IndexMatchesScopes == index = NodesOf(Installed \cup InSection)

\* Outside write sections both counters say exactly how many global scopes and
\* index nodes there are, unless they have stuck at UINT_MAX; so a zero read by
\* the prefilter's fast path means that there is none.
CountersMatch ==
    sec = NoSec =>
        /\ globalUsers \in {Cardinality(GlobalScopes), UintMax}
        /\ exactUsers \in {Cardinality(index), UintMax}

\* A counter sticks at UINT_MAX only when it really counted that far: the
\* underflow checks of the put and del paths (WARN_ON_ONCE) never fire.
SaturationJustified ==
    [][ /\ globalUsers # UintMax /\ globalUsers' = UintMax => globalUsers = UintMax - 1
        /\ exactUsers # UintMax /\ exactUsers' = UintMax => exactUsers + MaxParents >= UintMax
      ]_vars

\* A walk that searches a scope set under the RCU read lock never searches freed
\* memory, and the index never links a freed set, although a writer frees the
\* set it replaced.
NoUseAfterFree ==
    /\ \A r \in Readers : rptr[r] \in ScopeIds => rptr[r] \in allocated
    /\ \A n \in index : n[1] \in allocated

\* Every allocated scope set (and the directory references it holds) is still
\* installed, about to be, or about to be freed by exactly one actor: no command
\* order or removal leaks one or frees it twice, and a command that finds its
\* cgroup removed when it has its new set in hand (-ENODEV of namei_ext_scope_exact
\* and namei_ext_scope_empty) frees that set and no other.
NoLeak ==
    /\ allocated = Installed \cup InSection \cup Olds \cup News
    /\ \A a, b \in Actors : old[a] = old[b] /\ old[a] # Null => a = b
    /\ \A v, w \in Writers : fresh[v] = fresh[w] /\ fresh[v] # Null => v = w
    /\ News \cap (Installed \cup InSection \cup Olds) = {}
    /\ \A a \in Actors : old[a] \notin Installed
    /\ \A c, d \in Cgroups : scopes[c] = scopes[d] /\ scopes[c] \in ScopeIds => c = d

\* Once its release worker is done a cgroup contributes nothing, whatever
\* writers were in flight when it was removed.
ReleasedLeavesNothing ==
    \A c \in Cgroups : life[c] \in {"releasing", "released"} =>
        scopes[c] = Tombstone /\ ~active[c]

-----------------------------------------------------------------------------
(* Liveness.                                                               *)

\* The scheduler runs every kernel thread that is not blocked: a walk in
\* progress, a writer that has the mutex and the release worker go on.
Fairness ==
    /\ \A r \in Readers : WF_vars(Walking(r))
    /\ \A w \in Writers : WF_vars(CommandFinish(w))
    /\ \A w \in Writers : WF_vars(\E cmd \in Commands :
                            CommandRejected(w, cmd) \/ CommandStart(w, cmd) \/ CommandAlloc(w, cmd))
    /\ \A w \in Writers : WF_vars(CommandInstall(w) \/ CommandAbandon(w))
    /\ WF_vars(ReplacePublish) /\ WF_vars(ReplaceLose) /\ WF_vars(SetActiveEnd)
    /\ \A c \in Cgroups : WF_vars(ReleaseStart(c)) /\ WF_vars(ReleaseFinish(c))

FairSpec == Spec /\ Fairness

\* Steps that open a write section no grace period need ever follow: attach and
\* detach, and a "global" command to a cgroup that is global already.
Unpaced ==
    \/ \E c \in Cgroups : \E val \in BOOLEAN : SetActiveBegin(c, val)
    \/ \E w \in Writers : CommandStart(w, [op |-> "global"]) /\ scopes[wcgrp[w]] = Null

\* However many other policy_parent commands are issued, a walk leaves the
\* prefilter's retry loop: every second command replaces a scope set, and its
\* synchronize_rcu waits for the walk before the next command can start.
WalkTerminates ==
    (<>[][~Unpaced]_vars) => \A r \in Readers : rpc[r] # "idle" ~> rpc[r] = "idle"

\* A synchronize_rcu under cgroup_mutex ends: a command that took the mutex
\* gives it back.
CommandTerminates == \A w \in Writers : mutex = w ~> mutex # w
=============================================================================
