--------------------------- MODULE NameiExtReaddir --------------------------
(***************************************************************************)
(* Directory enumeration under a policy: getdents64 and iterate_dir of     *)
(* fs/readdir.c with namei_ext_iterate_dir and namei_ext_filldir of        *)
(* fs/namei_ext.c, called by tasks that share one open directory while     *)
(* policies change, tasks migrate and cgroups are removed.                 *)
(*                                                                         *)
(* The directory has entries 1..NumEntries, which do not change; a         *)
(* position is the number of entries passed.  A policy maps every entry to *)
(* a decision; Off stands for an empty effective array.  Records have a    *)
(* size and user memory is accessible: filldir64 and put_user do not fault.*)
(***************************************************************************)
EXTENDS Naturals, FiniteSets, Sequences

CONSTANTS
    Cgroups, Tasks,
    NumEntries,
    Policies,           \* functions from entries to decisions
    BufferSizes,        \* what users pass to getdents64
    NameSize, RedirectSize,     \* record sizes of real and redirected names
    Off, Nobody

Entries == 1..NumEntries
Decisions == {"pass", "redirect", "hide", "select", "invalid"}

ASSUME ReaddirConstants ==
    /\ NumEntries \in Nat
    /\ Policies \subseteq [Entries -> Decisions] /\ Off \notin Policies
    /\ BufferSizes \subseteq Nat
    /\ NameSize \in Nat \ {0} /\ RedirectSize \in Nat \ {0}
    /\ IsFiniteSet(Tasks) /\ Cgroups # {}
    /\ Nobody \notin Cgroups \cup Tasks

VARIABLES
    life,       \* [Cgroups -> {"live", "dead", "released"}]
    policy,     \* [Cgroups -> Policies \cup {Off}]: the effective array
    inScope,    \* [Cgroups -> BOOLEAN]: the directory is in the owner's scope
    task,       \* [Tasks -> Cgroups]
    pos,        \* file->f_pos
    lock,       \* holder of file->f_pos_lock, or Nobody
    call,       \* [Tasks -> the frames of getdents64 down to the actor]
    result,     \* [Tasks -> what the last getdents64 returned]
    delivered, skipped,     \* history: how often an entry was returned, hidden
    hidden      \* history: entries hidden by every cgroup since the call began

vars == <<life, policy, inScope, task, pos, lock, call, result, delivered, skipped, hidden>>

NoCall == [pc |-> "idle"]

\* A program decides; without one every entry passes.
DecisionIn(c, e) == IF c = Nobody \/ policy[c] = Off THEN "pass" ELSE policy[c][e]

\* What lookup and enumeration check before they run a program in c.
Managed(c) == inScope[c] /\ policy[c] # Off

SizeOf(d) == IF d = "redirect" THEN RedirectSize ELSE NameSize

HiddenNow ==
    {e \in Entries : \A c \in Cgroups :
        life[c] = "released" \/ (Managed(c) /\ DecisionIn(c, e) = "hide")}

Init ==
    /\ life = [c \in Cgroups |-> "live"]
    /\ policy = [c \in Cgroups |-> Off]
    /\ inScope \in [Cgroups -> BOOLEAN]
    /\ task \in [Tasks -> Cgroups]
    /\ pos = 0
    /\ lock = Nobody
    /\ call = [t \in Tasks |-> NoCall]
    /\ result = [t \in Tasks |-> "none"]
    /\ delivered = [e \in Entries |-> 0]
    /\ skipped = [e \in Entries |-> 0]
    /\ hidden = [t \in Tasks |-> {}]

\* What steps of a call leave alone, and what they remember.
CallStep(t, to) ==
    /\ call' = [call EXCEPT ![t] = to]
    /\ UNCHANGED <<life, policy, inScope, task>>

Continue(t, to) ==
    /\ CallStep(t, to)
    /\ UNCHANGED <<pos, lock, result, delivered, skipped, hidden>>

-----------------------------------------------------------------------------
(* A call.                                                                 *)

\* getdents64: fd_pos locks the position; the buffer is empty.
Getdents(t, size) ==
    /\ call[t] = NoCall /\ lock = Nobody
    /\ CallStep(t, [pc |-> "enter", left |-> size, cpos |-> pos, cgrp |-> Nobody,
                    pinned |-> FALSE, bare |-> FALSE, got |-> <<>>,
                    error |-> "ok", ret |-> "ok", bufError |-> "ok"])
    /\ lock' = t
    /\ hidden' = [hidden EXCEPT ![t] = HiddenNow]
    /\ UNCHANGED <<pos, result, delivered, skipped>>

\* iterate_dir fails early: permission, a fatal signal, a removed directory.
EnterFails(t) ==
    /\ call[t].pc = "enter"
    /\ Continue(t, [call[t] EXCEPT !.pc = "return", !.ret = "error"])

\* Mutant: a prefilter with false negatives.
EnterPlainAlways(t) ==
    /\ call[t].pc = "enter"
    /\ Continue(t, [call[t] EXCEPT !.pc = "iter"])

\* The static key or the prefilter says "not managed".
EnterPlain(t) ==
    /\ call[t].pc = "enter" /\ ~Managed(task[t])
    /\ Continue(t, [call[t] EXCEPT !.pc = "iter"])

\* It says "maybe": namei_ext_iterate_dir.
EnterManaged(t) ==
    /\ call[t].pc = "enter"
    /\ Continue(t, [call[t] EXCEPT !.pc = "choose"])

\* cgroup_bpf_get_namei_ext_cgroup: owner, scope and array of the task's cgroup
\* under the RCU read lock ...
ChooseCgroup(t) ==
    /\ call[t].pc = "choose"
    /\ Continue(t, IF ~Managed(task[t]) THEN [call[t] EXCEPT !.pc = "iter"]
                   ELSE [call[t] EXCEPT !.pc = "tryget", !.cgrp = task[t]])

\* Mutant: no reference is taken.
TryGetNone(t) ==
    /\ call[t].pc = "tryget"
    /\ Continue(t, [call[t] EXCEPT !.pc = "iter"])

\* ... then references on it; without them (bare) the iteration is not wrapped.
TryGet(t) ==
    /\ call[t].pc = "tryget"
    /\ Continue(t, IF life[call[t].cgrp] = "live"
                   THEN [call[t] EXCEPT !.pc = "iter", !.pinned = TRUE]
                   ELSE [call[t] EXCEPT !.pc = "iter", !.cgrp = Nobody, !.bare = TRUE])

\* The entry the filesystem's iterator hands to the actor, and the decision.
At(t) == call[t].cpos + 1
Iterating(t) == call[t].pc = "iter" /\ call[t].cpos < NumEntries
Decision(t) == DecisionIn(call[t].cgrp, At(t))
Shown(t) == Iterating(t) /\ Decision(t) \in {"pass", "redirect"}

\* Mutant: off by one in the space check.
EmitOverruns(t) ==
    /\ Shown(t) /\ SizeOf(Decision(t)) <= call[t].left + 1
    /\ Continue(t, [call[t] EXCEPT !.left = @ - SizeOf(Decision(t)),
                                   !.got = Append(@, At(t)),
                                   !.cpos = @ + 1, !.bufError = "einval"])

\* filldir64: a record is written; position and space are handed back to the
\* wrapping context.
Emit(t) ==
    /\ Shown(t) /\ SizeOf(Decision(t)) <= call[t].left
    /\ Continue(t, [call[t] EXCEPT !.left = @ - SizeOf(Decision(t)),
                                   !.got = Append(@, At(t)),
                                   !.cpos = @ + 1, !.bufError = "einval"])

\* ... or not: no space, or a signal is pending and there is a record already.
EmitStops(t) ==
    /\ Shown(t)
    /\ SizeOf(Decision(t)) > call[t].left \/ call[t].got # <<>>
    /\ Continue(t, [call[t] EXCEPT !.pc = "return", !.bufError = "einval"])

Hide(t) ==
    /\ Iterating(t) /\ Decision(t) = "hide"
    /\ CallStep(t, [call[t] EXCEPT !.cpos = @ + 1])
    /\ skipped' = [skipped EXCEPT ![At(t)] = @ + 1]
    /\ UNCHANGED <<pos, lock, result, delivered, hidden>>

\* SELECT_TARGET, an invalid redirect or an unknown action: namei_ctx->error.
Reject(t) ==
    /\ Iterating(t) /\ Decision(t) \in {"select", "invalid"}
    /\ Continue(t, [call[t] EXCEPT !.pc = "return", !.error = "error"])

\* The iterator is at the end, or fails.
IterEnd(t) ==
    /\ call[t].pc = "iter" /\ call[t].cpos = NumEntries
    /\ Continue(t, [call[t] EXCEPT !.pc = "return"])

IterFails(t) ==
    /\ call[t].pc = "iter"
    /\ Continue(t, [call[t] EXCEPT !.pc = "return", !.ret = "error"])

\* Mutant: a policy error is not handed on.
IterateResultDrops(t) == call[t].ret

\* The end of namei_ext_iterate_dir: an error of the policy counts if the
\* iterator reports none.
IterateResult(t) == IF call[t].ret # "ok" THEN call[t].ret ELSE call[t].error

\* The end of getdents64: records before errors.
GetdentsResult(t) ==
    IF call[t].got # <<>> THEN "records"
    ELSE IF IterateResult(t) # "ok" \/ call[t].bufError # "ok" THEN "error"
    ELSE "end"

\* Mutant: the position goes back only when records were written.
NewPosOfRecords(t) == IF call[t].got # <<>> THEN call[t].cpos ELSE pos

\* ctx->pos and file->f_pos take over the iterator's position.
NewPos(t) == call[t].cpos

\* The references are put, the position is stored and unlocked.
Return(t) ==
    /\ call[t].pc = "return"
    /\ CallStep(t, NoCall)
    /\ pos' = NewPos(t)
    /\ lock' = Nobody
    /\ result' = [result EXCEPT ![t] = GetdentsResult(t)]
    /\ delivered' = [e \in Entries |-> delivered[e] + Cardinality({i \in DOMAIN call[t].got : call[t].got[i] = e})]
    /\ hidden' = [hidden EXCEPT ![t] = {}]
    /\ UNCHANGED skipped

-----------------------------------------------------------------------------
(* Meanwhile.                                                              *)

Elsewhere ==
    /\ hidden' = [t \in Tasks |-> hidden[t] \cap HiddenNow']
    /\ UNCHANGED <<pos, lock, call, result, delivered, skipped>>

\* Attach, detach or an update of the policy's maps.
SetPolicy(c, p) ==
    /\ life[c] # "released"
    /\ policy' = [policy EXCEPT ![c] = p]
    /\ UNCHANGED <<life, inScope, task>>
    /\ Elsewhere

\* A scope command, or another owner.  A call that is under way does not look at
\* the scope again.
SetScope(c, b) ==
    /\ life[c] # "released"
    /\ inScope' = [inScope EXCEPT ![c] = b]
    /\ UNCHANGED <<life, policy, task>>
    /\ Elsewhere

Migrate(t, c) ==
    /\ life[c] = "live"
    /\ task' = [task EXCEPT ![t] = c]
    /\ UNCHANGED <<life, policy, inScope>>
    /\ Elsewhere

\* rmdir: no task is left; the reference counter is killed.
Rmdir(c) ==
    /\ life[c] = "live" /\ \A t \in Tasks : task[t] # c
    /\ life' = [life EXCEPT ![c] = "dead"]
    /\ UNCHANGED <<policy, inScope, task>>
    /\ Elsewhere

\* A call is inside the RCU section that looks at c, or holds references on it.
Holding(t, c) == call[t].pc # "idle" /\ call[t].cgrp = c /\ (call[t].pc = "tryget" \/ call[t].pinned)

\* cgroup_bpf_release, when the last reference is gone.
Release(c) ==
    /\ life[c] = "dead" /\ \A t \in Tasks : ~Holding(t, c)
    /\ life' = [life EXCEPT ![c] = "released"]
    /\ policy' = [policy EXCEPT ![c] = Off]
    /\ UNCHANGED <<inScope, task>>
    /\ Elsewhere

Iterate(t) == Emit(t) \/ EmitStops(t) \/ Hide(t) \/ Reject(t) \/ IterEnd(t) \/ IterFails(t)

Next ==
    \/ \E t \in Tasks, size \in BufferSizes : Getdents(t, size)
    \/ \E t \in Tasks : \/ EnterFails(t) \/ EnterPlain(t) \/ EnterManaged(t)
                        \/ ChooseCgroup(t) \/ TryGet(t) \/ Iterate(t) \/ Return(t)
    \/ \E c \in Cgroups, p \in Policies \cup {Off} : SetPolicy(c, p)
    \/ \E c \in Cgroups, b \in BOOLEAN : SetScope(c, b)
    \/ \E t \in Tasks, c \in Cgroups : Migrate(t, c)
    \/ \E c \in Cgroups : Rmdir(c) \/ Release(c)

Spec == Init /\ [][Next]_vars

-----------------------------------------------------------------------------
(* Properties.                                                             *)

Calls == [pc : {"enter", "choose", "tryget", "iter", "return"}, left : Nat,
          cpos : 0..NumEntries, cgrp : Cgroups \cup {Nobody}, pinned : BOOLEAN,
          bare : BOOLEAN, got : Seq(Entries), error : {"ok", "error"},
          ret : {"ok", "error"}, bufError : {"ok", "einval"}]

TypeOK ==
    /\ life \in [Cgroups -> {"live", "dead", "released"}]
    /\ policy \in [Cgroups -> Policies \cup {Off}]
    /\ inScope \in [Cgroups -> BOOLEAN]
    /\ task \in [Tasks -> Cgroups]
    /\ pos \in 0..NumEntries
    /\ lock \in Tasks \cup {Nobody}
    /\ \A t \in Tasks : call[t] = NoCall \/ call[t] \in Calls
    /\ result \in [Tasks -> {"none", "records", "error", "end"}]
    /\ delivered \in [Entries -> Nat] /\ skipped \in [Entries -> Nat]
    /\ hidden \in [Tasks -> SUBSET Entries]

\* Between calls every entry before the position was returned to exactly one
\* caller or hidden exactly once, and no other entry was: no buffer size,
\* redirected name, signal, policy error, policy change or second caller makes
\* the enumeration lose or repeat an entry.
EachEntryOnce ==
    lock = Nobody => \A e \in Entries :
        delivered[e] + skipped[e] = IF e <= pos THEN 1 ELSE 0

\* "Malformed or unsupported decisions fail visibly" (docs/design.md): getdents64
\* says "end of directory" only at the end; a decision it cannot carry out or a
\* name that does not fit never looks like the end.
EndIsEnd == \A t \in Tasks : result[t] = "end" => pos = NumEntries

\* The programs of the cgroup a call has chosen are not freed while it iterates,
\* although the task may leave the cgroup and the cgroup may be removed.
CgroupAlive ==
    \A t \in Tasks : call[t].pc = "iter" /\ call[t].cgrp # Nobody =>
        life[call[t].cgrp] # "released"

\* "HIDE suppresses the entry during directory enumeration" (docs/design.md): an
\* entry that every cgroup's policy hides throughout the call is not returned;
\* the exception is a call that found its cgroup being removed (bare), which
\* then enumerates without any policy.
HiddenStaysHidden ==
    \A t \in Tasks : call[t].pc # "idle" /\ ~call[t].bare =>
        \A i \in DOMAIN call[t].got : call[t].got[i] \notin hidden[t]
=============================================================================
