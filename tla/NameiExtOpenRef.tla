--------------------------- MODULE NameiExtOpenRef --------------------------
(***************************************************************************)
(* What a lookup or an open of NameiExtOpen should return when nobody      *)
(* interferes: resolution by substitution.  A link is replaced by its body,*)
(* a redirected name by the other name, a selected one by the target; there*)
(* is no stack, no walk mode and no restart.                               *)
(***************************************************************************)
EXTENDS NameiExtOpen

\* build_open_flags (fs/open.c): O_EXCL counts only with O_CREAT and does not follow, O_CREAT and
\* O_DIRECTORY exclude each other, and a lookup creates nothing.
ASSUME CallFlags ==
    \A c \in Calls : /\ c.excl => c.creat /\ ~c.follow
                     /\ c.creat => c.kind = "open" /\ ~c.directory

\* What O_CREAT creates was nowhere before.
ASSUME FreshIsNew == \A l \in Layouts, d \in Dirs, x \in Names : l[d][x] # Fresh

\* The answer, and whether a slash behind a redirected or selected last name
\* had a part in it.
Answer(e, o, odd) == [err |-> e, obj |-> o, odd |-> odd]

\* The last component leads to o: an object, or Nil.
LastObject(c, o, mustDir, odd) ==
    CASE o = Nil /\ c.creat -> Answer("ok", Fresh, odd)
      [] o = Nil /\ ~c.creat -> Answer("ENOENT", Nil, odd)
      [] o # Nil /\ c.excl -> Answer("EEXIST", Nil, odd)
      [] o \in Dirs /\ c.creat /\ ~c.excl -> Answer("EISDIR", Nil, odd)
      [] o \in Files \cup Links /\ ~c.creat /\ mustDir -> Answer("ENOTDIR", Nil, odd)
      [] o \in Links /\ c.kind = "open" /\ ~c.excl /\ ~(mustDir /\ ~c.creat) -> Answer("ELOOP", Nil, odd)
      [] OTHER -> Answer("ok", o, odd)

\* Components to resolve from a directory.  slash: one ends the path; slashed: one ended
\* a path that led here; n: links followed.
Position == [dir : Dirs, comps : Seq(Names \cup {".."}), slash : BOOLEAN, slashed : BOOLEAN,
             n : 0..MaxSymlinks, odd : BOOLEAN]

Final(p) == Tail(p.comps) = <<>>
Opens(c, p) == Final(p) /\ c.kind = "open"
Slashed(p) == p.slashed \/ (Final(p) /\ p.slash)

\* A step of the resolution gives the answer, or leads to another position.
Ends(a) == [ends |-> TRUE, ans |-> a]
Goes(p) == [ends |-> FALSE, to |-> p]
Error(e, odd) == Ends(Answer(e, Nil, odd))

\* The first component leads to o.
Arrive(c, p, o, odd) ==
    CASE Final(p) -> Ends(LastObject(c, o, c.directory \/ Slashed(p), odd))
      [] ~Final(p) /\ o \in Dirs -> Goes([p EXCEPT !.dir = o, !.comps = Tail(p.comps)])
      [] ~Final(p) /\ o = Nil -> Error("ENOENT", odd)
      [] OTHER -> Error("ENOTDIR", odd)

\* The first component is a link with body b.
Substitute(c, p, b, odd) ==
    CASE p.n >= MaxSymlinks -> Error("ELOOP", odd)
      [] p.n < MaxSymlinks /\ b.abs /\ c.beneath -> Error("EXDEV", odd)
      [] OTHER -> Goes([dir |-> IF b.abs THEN Root ELSE p.dir, comps |-> b.comps \o Tail(p.comps),
                        slash |-> IF Final(p) THEN b.slash ELSE p.slash, slashed |-> Slashed(p),
                        n |-> p.n + 1, odd |-> odd])

\* The entry of the first component's name, or of the name it is redirected to, is o.
Enter(c, p, o, odd) ==
    CASE Opens(c, p) /\ c.creat /\ p.slash -> Error("EISDIR", odd)
      [] ~(Opens(c, p) /\ c.creat /\ p.slash) /\ o \in Links /\ (~Final(p) \/ c.follow \/ Slashed(p)) ->
            Substitute(c, p, Body[o], odd)
      [] OTHER -> Arrive(c, p, o, odd)

\* The policy selects o for the first component.
Select(c, p, o, odd) ==
    CASE Opens(c, p) /\ ~(c.directory \/ p.slashed) -> Error("EOPNOTSUPP", odd)
      [] ~(Opens(c, p) /\ ~(c.directory \/ p.slashed)) /\ o = Nil -> Error("ENOENT", odd)
      [] ~(Opens(c, p) /\ ~(c.directory \/ p.slashed)) /\ o # Nil /\ c.beneath -> Error("EXDEV", odd)
      [] ~(Opens(c, p) /\ ~(c.directory \/ p.slashed)) /\ o # Nil /\ ~c.beneath /\ o \notin Dirs ->
            Error("ENOTDIR", odd)
      [] OTHER -> Arrive(c, p, o, odd)

DecisionAt(pol, d, name) ==
    IF d \in Managed THEN pol[name] ELSE [act |-> "pass", to |-> Nil]

\* The first component is an ordinary name, for which the policy says dec.
Named(ents, c, p, dec) ==
    LET odd == p.odd \/ (Opens(c, p) /\ p.slash /\ dec.act \in {"redirect", "select"})
        creating == Opens(c, p) /\ c.creat
    IN  CASE dec.act = "hide" -> Error("ENOENT", odd)
          [] dec.act = "invalid" -> Error("EINVAL", odd)
          [] dec.act \in {"redirect", "select"} /\ creating -> Error("EOPNOTSUPP", odd)
          [] dec.act = "select" /\ ~creating -> Select(c, p, dec.to, odd)
          [] dec.act = "redirect" /\ ~creating -> Enter(c, p, ents[p.dir][dec.to], odd)
          [] dec.act = "pass" -> Enter(c, p, ents[p.dir][Head(p.comps)], odd)

\* The first component is "..".
Upwards(c, p) ==
    CASE c.beneath /\ p.dir = Cwd -> Error("EXDEV", p.odd)
      [] ~c.beneath /\ p.dir = Root -> Arrive(c, p, Root, p.odd)
      [] OTHER -> Arrive(c, p, ParentOf[p.dir], p.odd)

\* A step from p, with the entries and the policy.
Onward(ents, pol, c, p) ==
    CASE p.comps = <<>> -> Ends(LastObject(c, p.dir, FALSE, p.odd))
      [] p.comps # <<>> /\ Head(p.comps) = ".." -> Upwards(c, p)
      [] OTHER -> Named(ents, c, p, DecisionAt(pol, p.dir, Head(p.comps)))

\* The answers at all positions.
Resolution(ents, pol, c) ==
    LET R[p \in Position] == IF Onward(ents, pol, c, p).ends THEN Onward(ents, pol, c, p).ans
                             ELSE R[Onward(ents, pol, c, p).to]
    IN  R

\* Entries as they were before this call created anything.
Before == [d \in Dirs |-> [x \in Names |-> IF fs[d][x] = Fresh THEN Nil ELSE fs[d][x]]]

\* Where a call begins.
Outset(c) == [dir |-> IF c.path.abs THEN Root ELSE Cwd, comps |-> c.path.comps, slash |-> c.path.slash,
              slashed |-> FALSE, n |-> 0, odd |-> FALSE]

Expected ==
    IF nd.call.path.abs /\ nd.call.beneath THEN Answer("EXDEV", Nil, FALSE)
    ELSE Resolution(Before, policy, nd.call)[Outset(nd.call)]

\* total_link_count is not reset between attempts, so a second attempt may run
\* into the limit; a filesystem may find its objects stale in the last attempt.
LimitsOfRestart ==
    \/ result.err = "ELOOP" /\ nd.attempt > 1
    \/ result.err = "ESTALE" /\ nd.attempt = 3

Matches == result.err = Expected.err /\ result.obj = Expected.obj

\* A call that nobody disturbs returns what resolution by substitution returns:
\* the stack of links and texts, the missing put_link of a selection, the walk's
\* modes, the flags carried from link to link and the restarts make no difference
\* (link_path_walk, walk_component_namei_ext, open_last_lookups_namei_ext, do_open).
\* The byte behind a redirected name in its stack buffer is taken to be no slash,
\* as in the kernels that clear stack variables (ApplyRedirect).
ResolvesAsNamed ==
    nd.pc = "done" /\ nd.quiet => Matches \/ LimitsOfRestart \/ Expected.odd

\* "lookup the redirected component in the same parent directory instead of the
\* original requested component": an open through a redirect treats a slash behind
\* the name as an open of the other name would (lookup_fast_for_open).  It does
\* not where the byte behind the redirected name is cleared (ApplyRedirect).
RedirectKeepsSlash ==
    nd.pc = "done" /\ nd.quiet /\ nd.call.kind = "open" /\ nd.decision # Nil
        /\ nd.decision.act = "redirect"
        => Matches \/ LimitsOfRestart
=============================================================================
