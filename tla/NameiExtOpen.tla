---------------------------- MODULE NameiExtOpen ----------------------------
(***************************************************************************)
(* One path lookup (path_lookupat) or open (path_openat) of fs/namei.c     *)
(* from its first attempt to its result: components, "..", symbolic links  *)
(* and their stack, RCU-walk and ref-walk, restarts, and the policy's      *)
(* decision for every component, while other tasks change directory        *)
(* entries and the policy.                                                 *)
(*                                                                         *)
(* A pathname or link body is [abs, comps, slash]: an absolute path or not,*)
(* its components, and whether a slash ends it.  Every directory may be    *)
(* searched and written, nothing is mounted inside the tree, and           *)
(* directories do not move.  Target records are those of NameiExtTargets:  *)
(* here a policy names the selected object, or Nil for an id without one.  *)
(***************************************************************************)
EXTENDS Integers, FiniteSets, Sequences

CONSTANTS
    Dirs, Files, Links,     \* objects
    Names,                  \* ordinary components
    Root, Cwd,
    ParentOf,               \* [Dirs -> Dirs]
    Body,                   \* [Links -> pathnames]
    Managed,                \* directories in the policy's scope
    Fresh,                  \* the file that O_CREAT creates
    Layouts,                \* initial directory contents
    Policies,               \* [Names -> decisions]
    Calls,                  \* what the process may ask for
    MaxSymlinks,            \* MAXSYMLINKS
    MaxChanges,             \* bound on changes by other tasks
    Nil

Objects == Dirs \cup Files \cup Links
Layout == [Dirs -> [Names -> Objects \cup {Nil}]]
Decision == [act : {"pass", "hide", "invalid"}, to : {Nil}]
                \cup [act : {"redirect"}, to : Names] \cup [act : {"select"}, to : Objects \cup {Nil}]
Pathname == [abs : BOOLEAN, comps : Seq(Names \cup {".."}), slash : BOOLEAN]
Call == [kind : {"lookup", "open"}, path : Pathname, creat : BOOLEAN, excl : BOOLEAN,
         directory : BOOLEAN, follow : BOOLEAN, beneath : BOOLEAN]

ASSUME OpenConstants ==
    /\ Dirs \cap Files = {} /\ Dirs \cap Links = {} /\ Files \cap Links = {}
    /\ {Root, Cwd} \cup Managed \subseteq Dirs /\ Fresh \in Files
    /\ ParentOf \in [Dirs -> Dirs]
    /\ \A l \in Links : Body[l] \in Pathname
    /\ Layouts \subseteq Layout /\ Policies \subseteq [Names -> Decision] /\ Calls \subseteq Call
    /\ MaxSymlinks \in Nat /\ MaxChanges \in Nat
    /\ Nil \notin Objects \cup Names \cup {".."} /\ ".." \notin Names

\* A directory is entered in one directory, its "..".
ASSUME OneParent ==
    \A l \in Layouts, d \in Dirs, n \in Names :
        l[d][n] \in Dirs => l[d][n] # Root /\ ParentOf[l[d][n]] = d

VARIABLES
    fs,         \* directory entries
    policy,
    changes,    \* how often another task has changed fs or policy
    nd,         \* struct nameidata, its caller's frames and the call itself
    result      \* what the call returned

vars == <<fs, policy, changes, nd, result>>

\* A position in a pathname: what is left of it, and whose text it is (0: the
\* caller's; n: the body of the n-th link).
Text(p, src) == [comps |-> p.comps, slash |-> p.slash, src |-> src]

NoRefs == [o \in Objects |-> 0]
NoLast == [name |-> Nil, src |-> 0, slash |-> FALSE]

Idle == [pc |-> "idle"]

\* set_nameidata: total_link_count starts here and lives through all attempts.
SetNameidata(c) ==
    [pc |-> "init", call |-> c, attempt |-> 1, rcu |-> TRUE, path |-> Nil, root |-> Nil,
     grabbed |-> FALSE, text |-> Text(c.path, 0), names |-> <<>>, stack |-> <<>>,
     bodies |-> {}, links |-> 0, last |-> NoLast, trailing |-> FALSE, more |-> FALSE,
     directory |-> c.directory, follow |-> c.follow, intent |-> FALSE, jumped |-> TRUE,
     decision |-> Nil, created |-> FALSE, refs |-> NoRefs, err |-> "ok", quiet |-> TRUE]

Init ==
    /\ fs \in Layouts
    /\ policy \in Policies
    /\ changes = 0
    /\ nd = Idle
    /\ result = Nil

Walk(to) == nd' = to /\ UNCHANGED <<fs, policy, changes, result>>

\* The walk is at what open_last_lookups handles.
LastOfOpen == nd.trailing /\ nd.call.kind = "open"

Fail(w, e) == [w EXCEPT !.pc = "end", !.err = e]

\* References taken and given back; a NULL path is skipped by path_put.
Count(o, s) == Cardinality({i \in DOMAIN s : s[i] = o})
Take(w, s) == [w EXCEPT !.refs = [o \in Objects |-> @[o] + Count(o, s)]]
Put(w, s) == [w EXCEPT !.refs = [o \in Objects |-> @[o] - Count(o, s)]]

\* The same, but only in ref-walk.
RefTake(w, s) == IF w.rcu THEN w ELSE Take(w, s)
RefPut(w, s) == IF w.rcu THEN w ELSE Put(w, s)

LinksOf(stack) == [i \in DOMAIN stack |-> stack[i].link]

-----------------------------------------------------------------------------
(* The stack of links.                                                     *)

PutLink(w) ==
    LET top == w.stack[Len(w.stack)]
    IN  RefPut([w EXCEPT !.stack = SubSeq(@, 1, Len(@) - 1), !.bodies = @ \ {top.id}],
               <<top.link>>)

\* Before a component is stepped into: the link whose last component it is.
PutFinishedLink(w) == IF w.stack # <<>> /\ ~w.more THEN PutLink(w) ELSE w

SetRoot(w) ==
    IF w.root # Nil THEN w
    ELSE RefTake([w EXCEPT !.root = Root, !.grabbed = ~w.rcu], <<Root>>)

JumpRoot(w) ==
    IF w.call.beneath THEN Fail(w, "EXDEV")
    ELSE LET r == SetRoot(w)
         IN  RefTake(RefPut([r EXCEPT !.path = r.root, !.jumped = TRUE], <<r.path>>),
                     <<r.root>>)

-----------------------------------------------------------------------------
(* From RCU-walk to ref-walk.                                              *)

\* What try_to_unlazy works on: complete_walk forgets the root first.
ToUnlazy(w) == IF w.pc = "complete" /\ ~w.call.beneath THEN [w EXCEPT !.root = Nil] ELSE w

Unlazied(w) ==
    LET got == LinksOf(w.stack) \o <<w.path, w.root>>
    IN  Take([w EXCEPT !.rcu = FALSE, !.grabbed = w.root # Nil], got)

\* Mutant: the links that were not reached stay on the stack.
LinksFailKeeps(w) ==
    {Take([w EXCEPT !.rcu = FALSE, !.path = Nil, !.bodies = {}],
          SubSeq(LinksOf(w.stack), 1, i)) : i \in DOMAIN w.stack}

\* legitimize_links fails at link i: with a reference that is too late, or
\* with none, and then the pointer is cleared.
LinksFail(w) ==
    LET failsAt(i, l) ==
            Take([w EXCEPT !.rcu = FALSE, !.path = Nil, !.bodies = {},
                           !.stack = Append(SubSeq(@, 1, i - 1), [@[i] EXCEPT !.link = l])],
                 Append(SubSeq(LinksOf(w.stack), 1, i - 1), l))
    IN  UNION {{failsAt(i, w.stack[i].link), failsAt(i, Nil)} : i \in DOMAIN w.stack}

\* The current path, or then the root, fails in the same two ways.
PathFails(w) ==
    {Take([w EXCEPT !.rcu = FALSE, !.path = p], Append(LinksOf(w.stack), p)) :
        p \in {w.path, Nil}}

RootFails(w) ==
    IF w.root = Nil THEN {}
    ELSE {Take([w EXCEPT !.rcu = FALSE, !.grabbed = TRUE, !.root = r],
               LinksOf(w.stack) \o <<w.path, r>>) : r \in {w.root, Nil}}

Unlazy ==
    LET w == ToUnlazy(nd)
    IN  \/ Walk(Unlazied(w))
        \/ \E f \in LinksFail(w) \cup PathFails(w) \cup RootFails(w) : Walk(Fail(f, "ECHILD"))

\* A walk leaves RCU-walk before it permits what may sleep ("walk": may_lookup;
\* "slow": lookup_slow, lookup_open), applies a redirect, returns an error of the
\* policy or ENOTDIR ("fail"), or completes.
TryToUnlazy ==
    /\ nd.pc \in {"walk", "slow", "redirect", "fail", "complete"} /\ nd.rcu
    /\ Unlazy

\* The lookup may begin with lookup_fast.
LookupFast == nd.pc = "lookup" /\ ~(LastOfOpen /\ nd.call.creat /\ (nd.call.excl \/ nd.last.slash))

\* A dentry found in RCU-walk has to be revalidated: try_to_unlazy_next takes the
\* links, the path, the dentry and the root, and fails with the same remains, as
\* the dentry is its own to put.
TryToUnlazyNext ==
    /\ LookupFast /\ nd.rcu
    /\ Unlazy

\* A sequence counter has moved, or a filesystem cannot answer without sleeping.
RcuFails ==
    /\ LookupFast \/ (nd.pc = "decide" /\ nd.last.name = "..")
    /\ nd.rcu
    /\ Walk(Fail(nd, "ECHILD"))

-----------------------------------------------------------------------------
(* Attempts and components.                                                *)

Start(c) ==
    /\ nd = Idle
    /\ Walk(SetNameidata(c))

\* path_init for attempt 1 (RCU), 2 (ref) or 3 (REVAL).
PathInit ==
    /\ nd.pc = "init"
    /\ LET c == nd.call
           w == [SetNameidata(c) EXCEPT !.pc = "walk", !.attempt = nd.attempt, !.links = nd.links,
                                        !.rcu = nd.attempt = 1, !.quiet = nd.quiet]
       IN  Walk(IF c.path.abs THEN JumpRoot(w)
                ELSE IF c.beneath
                THEN RefTake([w EXCEPT !.path = Cwd, !.root = Cwd, !.grabbed = ~w.rcu], <<Cwd, Cwd>>)
                ELSE RefTake([w EXCEPT !.path = Cwd], <<Cwd>>))

\* link_path_walk takes the next component.  The last one of a nested link is
\* walked here, with the text around the link restored; the last one of the
\* pathname or of a trailing link is left to the caller.
NextComponent ==
    /\ nd.pc = "walk"
    /\ LET t == nd.text
           rest == Tail(t.comps)
           w == [nd EXCEPT !.last = [name |-> Head(t.comps), src |-> t.src,
                                     slash |-> rest # <<>> \/ t.slash],
                           !.jumped = Head(t.comps) = ".."]
       IN  Walk(CASE t.comps = <<>> -> [nd EXCEPT !.last = NoLast, !.pc = "last"]
                  [] t.comps # <<>> /\ rest # <<>> ->
                        [w EXCEPT !.text.comps = rest, !.pc = "decide", !.more = TRUE, !.trailing = FALSE]
                  [] t.comps # <<>> /\ rest = <<>> /\ nd.names # <<>> ->
                        [w EXCEPT !.text = nd.names[Len(nd.names)],
                                  !.names = SubSeq(@, 1, Len(@) - 1),
                                  !.pc = "decide", !.more = FALSE, !.trailing = FALSE]
                  [] t.comps # <<>> /\ rest = <<>> /\ nd.names = <<>> ->
                        [w EXCEPT !.text.comps = <<>>, !.pc = "last"])

\* lookup_last honours a slash at once; open_last_lookups adds the intent.
LastComponent ==
    /\ nd.pc = "last"
    /\ LET slash == nd.call.kind = "lookup" /\ nd.last.slash /\ nd.last.name # ".."
       IN  Walk([nd EXCEPT !.pc = "decide", !.trailing = TRUE, !.more = FALSE,
                           !.directory = @ \/ slash, !.follow = @ \/ slash,
                           !.intent = nd.call.kind = "open"])

\* Where a component that was not a link to follow leads.
Stepped(w) ==
    CASE w.trailing -> [w EXCEPT !.pc = "complete"]
      [] ~w.trailing /\ w.path \in Dirs -> [w EXCEPT !.pc = "walk"]
      [] OTHER -> [w EXCEPT !.pc = "fail", !.err = "ENOTDIR"]

\* handle_dots; the path "/" has no last component.
Dots ==
    /\ nd.pc = "decide" /\ nd.last.name \in {"..", Nil}
    /\ LET put == PutFinishedLink(nd)
           w == SetRoot(put)
       IN  Walk(CASE nd.last.name = Nil -> Stepped(put)
                  [] nd.last.name = ".." /\ w.path = w.root ->
                        IF ~w.call.beneath THEN Stepped(w)
                        ELSE Fail(w, IF w.rcu THEN "ECHILD" ELSE "EXDEV")
                  [] OTHER -> Stepped(RefTake(RefPut([w EXCEPT !.path = ParentOf[w.path]], <<w.path>>),
                                              <<ParentOf[w.path]>>)))

-----------------------------------------------------------------------------
(* The policy.                                                             *)

DecisionFor(w) ==
    IF w.path \in Managed THEN policy[w.last.name] ELSE [act |-> "pass", to |-> Nil]

\* Mutant: an exclusive create is not taken for one.
CreatingShared(w) == w.intent /\ w.call.creat /\ ~w.call.excl

\* LOOKUP_CREATE; LOOKUP_OPEN without LOOKUP_DIRECTORY.
Creating(w) == w.intent /\ w.call.creat
Opening(w) == w.intent /\ ~w.directory

\* namei_ext_lookup and namei_ext_resolve_target.
PolicyError(w, d) ==
    CASE d.act = "hide" -> "ENOENT"
      [] d.act = "invalid" -> "EINVAL"
      [] d.act = "redirect" /\ Creating(w) -> "EOPNOTSUPP"
      [] d.act = "select" /\ (Creating(w) \/ Opening(w)) -> "EOPNOTSUPP"
      [] d.act = "select" /\ ~Creating(w) /\ ~Opening(w) /\ d.to = Nil -> "ENOENT"
      [] OTHER -> "ok"

Deciding == nd.pc = "decide" /\ nd.last.name \in Names

Decide ==
    /\ Deciding
    /\ LET d == DecisionFor(nd)
       IN  /\ d.act # "select" /\ PolicyError(nd, d) = "ok"
           /\ Walk([nd EXCEPT !.decision = d,
                              !.pc = IF d.act = "redirect" THEN "redirect" ELSE "lookup"])

PolicyFails ==
    /\ Deciding
    /\ LET d == DecisionFor(nd)
       IN  /\ PolicyError(nd, d) # "ok"
           /\ Walk([nd EXCEPT !.decision = d, !.pc = "fail", !.err = PolicyError(nd, d)])

FailRef ==
    /\ nd.pc = "fail" /\ ~nd.rcu
    /\ Walk([nd EXCEPT !.pc = "end"])

\* namei_ext_apply_redirect.  What follows the new name is the byte behind it in
\* struct namei_ext_redirect, a stack variable namei_ext_fill_redirect writes only
\* len bytes of: never the caller's slash.  That it is no slash at all is an
\* assumption on the build (CONFIG_INIT_STACK_ALL_ZERO, set in every kernel.config
\* the results keep); behind a name of the maximum length it is the first byte of
\* the member after the array.
ApplyRedirect ==
    /\ nd.pc = "redirect" /\ ~nd.rcu
    /\ Walk([nd EXCEPT !.pc = "lookup", !.last = [name |-> nd.decision.to, src |-> 0, slash |-> FALSE]])

\* Mutant: a scoped lookup follows the selection.
ApplyTargetErrorUnscoped(w, o) == IF o \in Dirs THEN "ok" ELSE "ENOTDIR"

ApplyTargetError(w, o) ==
    CASE w.call.beneath -> "EXDEV"
      [] ~w.call.beneath /\ o \notin Dirs -> "ENOTDIR"
      [] OTHER -> "ok"

\* Mutant: every selection puts a link.
SelectedPutsAlways(w) == IF w.stack # <<>> THEN PutLink(w) ELSE w

\* Only the open path puts the link that a selection ends.
Selected(w) == IF w.trailing /\ w.call.kind = "open" /\ w.stack # <<>> THEN PutLink(w) ELSE w

\* namei_ext_apply_target: borrowed in RCU-walk, with a reference in ref-walk.
ApplyTarget ==
    /\ Deciding
    /\ LET d == DecisionFor(nd)
           w == RefTake([nd EXCEPT !.decision = d], <<d.to>>)
           e == ApplyTargetError(nd, d.to)
       IN  /\ d.act = "select" /\ PolicyError(nd, d) = "ok"
           /\ Walk(IF e # "ok" THEN RefPut(Fail(w, e), <<d.to>>)
                   ELSE Stepped(Selected(RefPut([w EXCEPT !.path = d.to, !.jumped = TRUE],
                                                <<w.path>>))))

-----------------------------------------------------------------------------
(* The lookup of a component.                                              *)

\* Mutant: one link too many.
LinkLimitLate(w) == w.links > MaxSymlinks

\* reserve_stack
LinkLimit(w) == w.links >= MaxSymlinks

\* pick_link
PickLink(w, l) ==
    LET id == w.links + 1
        b == Body[l]
        pushed == RefTake([w EXCEPT !.links = id, !.bodies = @ \cup {id},
                                    !.stack = Append(@, [link |-> l, id |-> id])], <<l>>)
        jumped == IF b.abs THEN JumpRoot(pushed) ELSE pushed
    IN  CASE LinkLimit(w) -> Fail([w EXCEPT !.links = id], "ELOOP")
          [] ~LinkLimit(w) /\ jumped.pc = "end" -> jumped
          [] ~LinkLimit(w) /\ jumped.pc # "end" /\ b.comps = <<>> -> Stepped(PutLink(jumped))
          [] OTHER -> [jumped EXCEPT !.pc = "walk", !.text = Text(b, id),
                            !.names = IF w.trailing THEN <<>> ELSE Append(@, w.text)]

\* step_into; o is the object found, or Nil for a negative dentry.
StepInto(w, o) ==
    CASE o = Nil -> Fail(w, "ENOENT")
      [] o \in Links /\ (~w.trailing \/ w.follow) -> PickLink(w, o)
      [] OTHER -> Stepped(RefTake(RefPut([w EXCEPT !.path = o], <<w.path>>), <<o>>))

LookingUp == nd.pc = "lookup" \/ (nd.pc = "slow" /\ ~nd.rcu)
Found == fs[nd.path][nd.last.name]

\* Mutant: the slash is forgotten where it counts.
OpenFlagsNone(w) == w

\* lookup_fast_for_open and its trailing_slashes.
OpenFlags(w) ==
    [w EXCEPT !.directory = @ \/ w.last.slash, !.follow = @ \/ w.last.slash]

\* walk_component_common
Component ==
    /\ LookingUp /\ ~LastOfOpen
    /\ Walk(StepInto(PutFinishedLink(nd), Found))

\* lookup_fast finds nothing in the cache.
CacheMiss ==
    /\ nd.pc = "lookup" /\ ~(LastOfOpen /\ nd.call.creat /\ nd.last.slash)
    /\ Walk([(IF LastOfOpen THEN OpenFlags(nd) ELSE nd) EXCEPT !.pc = "slow"])

OpenSlash ==
    /\ nd.pc = "lookup" /\ LastOfOpen /\ nd.call.creat /\ nd.last.slash
    /\ Walk(Fail(nd, "EISDIR"))

\* finish_lookup of open_last_lookups_common.
FinishLookup(w, o) ==
    LET s == StepInto(PutFinishedLink(w), o)
    IN  [s EXCEPT !.intent = s.pc # "walk"]

\* From the cache, or, under the directory's lock, by lookup_open.
OpenFound ==
    /\ LookingUp /\ LastOfOpen
    /\ nd.pc = "lookup" => ~nd.call.excl /\ ~(nd.call.creat /\ (nd.last.slash \/ Found = Nil))
    /\ nd.pc = "slow" => Found # Nil \/ ~nd.call.creat
    /\ Walk(FinishLookup(OpenFlags(nd), Found))

\* lookup_open creates; the link stays on the stack until the walk ends.
OpenCreates ==
    /\ nd.pc = "slow" /\ ~nd.rcu /\ LastOfOpen
    /\ nd.call.creat /\ Found = Nil
    /\ fs' = [fs EXCEPT ![nd.path][nd.last.name] = Fresh]
    /\ nd' = RefTake(RefPut([nd EXCEPT !.created = TRUE, !.path = Fresh, !.pc = "complete"],
                            <<nd.path>>), <<Fresh>>)
    /\ UNCHANGED <<policy, changes, result>>

-----------------------------------------------------------------------------
(* The end of an attempt.                                                  *)

\* path_is_under the starting point: from there by ".." one comes to it, so the directory
\* is in every set that has the starting point and the children of its members.
UnderCwd ==
    {d \in Dirs : \A S \in SUBSET Dirs :
        Cwd \in S /\ (\A e \in Dirs \ {Root} : ParentOf[e] \in S => e \in S) => d \in S}

\* complete_walk's last check of a scoped lookup; a file was found in such a directory.
CompleteWalkError(w) ==
    IF w.call.beneath /\ ~w.created /\ w.path \in Dirs \ UnderCwd THEN "EXDEV" ELSE "ok"

Completing == nd.pc = "complete" /\ ~nd.rcu

\* do_open, with O_NOFOLLOW's error from may_open.
DoOpenError(w) ==
    IF w.call.creat /\ w.call.excl /\ ~w.created THEN "EEXIST"
    ELSE IF w.call.creat /\ w.path \in Dirs THEN "EISDIR"
    ELSE IF w.directory /\ w.path \notin Dirs THEN "ENOTDIR"
    ELSE IF w.path \in Links THEN "ELOOP"
    ELSE "ok"

\* path_lookupat behind complete_walk.
LookupError(w) == IF w.directory /\ w.path \notin Dirs THEN "ENOTDIR" ELSE "ok"

Complete ==
    /\ Completing
    /\ LET e == CASE CompleteWalkError(nd) # "ok" -> CompleteWalkError(nd)
                  [] CompleteWalkError(nd) = "ok" /\ nd.call.kind = "open" -> DoOpenError(nd)
                  [] OTHER -> LookupError(nd)
       IN  /\ nd' = [nd EXCEPT !.pc = "end", !.err = e]
           /\ result' = [err |-> e, obj |-> IF e = "ok" THEN nd.path ELSE Nil]
    /\ UNCHANGED <<fs, policy, changes>>

\* d_weak_revalidate after a jump, and EOPENSTALE of vfs_open, which is ECHILD in
\* an attempt that began in RCU-walk.
Stale ==
    /\ Completing /\ ~nd.created
    /\ \/ nd.jumped /\ Walk(Fail(nd, "ESTALE"))
       \/ nd.call.kind = "open" /\ DoOpenError(nd) = "ok"
            /\ Walk(Fail(nd, IF nd.attempt = 1 THEN "ECHILD" ELSE "ESTALE"))

\* terminate_walk: links, path, root; a lookup that succeeded hands its
\* reference to the caller, an opened file has taken its own.
Terminated(w) ==
    LET all == LinksOf(w.stack) \o <<w.path>> \o (IF w.grabbed THEN <<w.root>> ELSE <<>>)
    IN  [RefPut(w, all) EXCEPT !.stack = <<>>, !.bodies = {}, !.path = Nil, !.grabbed = FALSE,
                               !.root = Nil, !.rcu = FALSE]

\* Mutant: the second attempt is taken as often as it fails.
NextAttemptAgain(w) ==
    IF w.err \in {"ECHILD", "ESTALE"} THEN 2 ELSE 0

\* filename_lookup, do_file_open: which attempt follows, 0 for none.
NextAttempt(w) ==
    CASE w.err = "ECHILD" /\ w.attempt = 1 -> 2
      [] w.err = "ESTALE" /\ w.attempt < 3 -> 3
      [] OTHER -> 0

Terminate ==
    /\ nd.pc = "end"
    /\ LET w == Terminated(nd)
           n == NextAttempt(nd)
       IN  /\ nd' = IF n # 0 THEN [w EXCEPT !.pc = "init", !.attempt = n]
                    ELSE [w EXCEPT !.pc = "done"]
           /\ result' = IF nd.err = "ok" THEN result ELSE [err |-> nd.err, obj |-> Nil]
    /\ UNCHANGED <<fs, policy, changes>>

\* The call has returned.
Returned == nd.pc = "done" /\ UNCHANGED vars

-----------------------------------------------------------------------------
(* Other tasks.  What they do before the call makes another initial state.  *)

Disturb ==
    /\ nd.pc \notin {"idle", "done"} /\ changes < MaxChanges
    /\ changes' = changes + 1
    /\ nd' = [nd EXCEPT !.quiet = FALSE]

\* Create, unlink or replace an entry.
SetEntry(d, n, o) ==
    /\ Disturb
    /\ o # fs[d][n]
    /\ fs' = [fs EXCEPT ![d][n] = o]
    /\ UNCHANGED <<policy, result>>

SetPolicy(p) ==
    /\ Disturb
    /\ p # policy
    /\ policy' = p
    /\ UNCHANGED <<fs, result>>

WalkStep ==
    \/ TryToUnlazy \/ TryToUnlazyNext \/ RcuFails
    \/ PathInit \/ NextComponent \/ LastComponent \/ Dots
    \/ Decide \/ PolicyFails \/ FailRef \/ ApplyRedirect \/ ApplyTarget
    \/ Component \/ CacheMiss \/ OpenSlash \/ OpenFound \/ OpenCreates
    \/ Complete \/ Stale \/ Terminate

Next ==
    \/ \E c \in Calls : Start(c)
    \/ WalkStep
    \/ Returned
    \/ \E d \in Managed, n \in Names, o \in (Files \ {Fresh}) \cup Links \cup {Nil} : SetEntry(d, n, o)
    \/ \E p \in Policies : SetPolicy(p)

Spec == Init /\ [][Next]_vars

-----------------------------------------------------------------------------
(* Properties.                                                             *)

PathType == Objects \cup {Nil}

\* State is well typed: no reference is put that was not taken, and no more
\* links are followed than the limit allows.
TypeOK ==
    /\ fs \in Layout /\ policy \in Policies /\ changes \in 0..MaxChanges
    /\ nd # Idle =>
        /\ nd.attempt \in 1..3 /\ nd.rcu \in BOOLEAN
        /\ nd.path \in PathType /\ nd.root \in PathType
        /\ \A o \in Objects : nd.refs[o] \in Nat
        /\ nd.bodies \subseteq 1..MaxSymlinks

Pointers(w) == LinksOf(w.stack) \o <<w.path>> \o (IF w.grabbed THEN <<w.root>> ELSE <<>>)

\* In ref-walk a walk has exactly one reference for every pointer it holds (links,
\* path, root), in RCU-walk none, and none at all between attempts, however
\* far try_to_unlazy got before it failed (legitimize_links, terminate_walk).
RefsMatchPointers ==
    nd # Idle =>
        \A o \in Objects : nd.refs[o] = IF nd.rcu THEN 0 ELSE Count(o, Pointers(nd))

\* Texts the walk will still read: what is left of the current one, of the ones
\* around it, and the component that is being looked up.
TextsInUse ==
    {t.src : t \in {u \in {nd.text} \cup {nd.names[i] : i \in DOMAIN nd.names} : u.comps # <<>>}}
        \cup (IF nd.pc \in {"last", "decide", "redirect", "lookup", "slow"} THEN {nd.last.src} ELSE {})

\* The body of a link is not released while the walk reads from it, although a
\* selection in walk_component_namei_ext returns without put_link and leaves the
\* stack deeper than link_path_walk's own count ("depth <= nd->depth").
LinkBodiesAlive ==
    nd # Idle /\ nd.pc \notin {"init", "fail", "complete", "end", "done"} =>
        TextsInUse \subseteq nd.bodies \cup {0} /\ Len(nd.names) <= Len(nd.stack)

\* O_CREAT never creates what the policy redirected, hid or selected, whichever
\* links led to the name and however often the walk restarted
\* (namei_ext_lookup's LOOKUP_CREATE checks, the intent set again behind a link).
CreatesOnlyWhatPassed ==
    nd # Idle /\ nd.created => nd.decision.act = "pass" /\ nd.err # "EOPNOTSUPP"

\* A walk with RESOLVE_BENEATH never stands outside its starting directory, not
\* even for a step: not by "..", an absolute link or a selected target.
StaysBeneath ==
    nd # Idle /\ nd.call.beneath /\ nd.path \in Dirs => nd.path \in UnderCwd

\* What is left of the call, most significant first: attempts, links, texts around the
\* current one, components of that, and steps of one component.
StepsLeft(w) ==
    LET rank == [init |-> 0, walk |-> IF w.text.comps = <<>> THEN 18 ELSE 5, last |-> 17, decide |-> 16,
                 redirect |-> 15, lookup |-> 14, slow |-> 13, fail |-> 4, complete |-> 3, end |-> 2, done |-> 1]
    IN  <<2 * (3 - w.attempt) + (IF w.pc = "init" THEN 1 ELSE 0), MaxSymlinks + 1 - w.links,
          Len(w.names), Len(w.text.comps), 2 * rank[w.pc] + (IF w.rcu THEN 1 ELSE 0)>>

\* s comes before t in the lexicographic order of Measures, which has no endless descent.
Measures == [1..5 -> Nat]
Fewer(s, t) == \E j \in 1..5 : (\A i \in 1..(j - 1) : s[i] = t[i]) /\ s[j] < t[j]

\* Every step of a call leaves it less to do, through links, unlazying, failures and
\* restarts: it returns, after at most three attempts, whatever other tasks do
\* (filename_lookup, do_file_open, reserve_stack).
CallAdvances ==
    [][nd # Idle /\ nd' # nd /\ changes' = changes =>
        StepsLeft(nd') \in Measures /\ Fewer(StepsLeft(nd'), StepsLeft(nd))]_vars
=============================================================================
