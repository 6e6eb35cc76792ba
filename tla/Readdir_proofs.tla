--------------------------- MODULE Readdir_proofs ---------------------------
(***************************************************************************)
(* The enumeration of NameiExtReaddir for every directory, every set of    *)
(* policies, buffer sizes, tasks and cgroups: no entry is lost or          *)
(* repeated, an error never looks like the end, the chosen cgroup stays,   *)
(* and what every policy hides is not returned.                            *)
(***************************************************************************)
EXTENDS NameiExtReaddir, FiniteSetTheorems, TLAPS

\* The records of a call are the entries it has passed and not hidden, each once;
\* what lies before the call is accounted for, what lies behind it is untouched.
Accounted(r) ==
    /\ \A i \in DOMAIN r.got : pos < r.got[i] /\ r.got[i] <= r.cpos
    /\ \A i, j \in DOMAIN r.got : r.got[i] = r.got[j] => i = j
    /\ \A e \in Entries :
          /\ e <= pos => delivered[e] + skipped[e] = 1
          /\ pos < e /\ e <= r.cpos =>
                /\ delivered[e] = 0 /\ skipped[e] \in {0, 1}
                /\ skipped[e] = 0 <=> \E i \in DOMAIN r.got : r.got[i] = e
          /\ r.cpos < e => delivered[e] = 0 /\ skipped[e] = 0

\* A call stops with an error, a record that was refused, or at the end.
StopsForReason(r) ==
    r.pc = "return" /\ r.ret = "ok" /\ r.error = "ok" /\ r.bufError = "ok"
        => r.cpos = NumEntries

\* A chosen cgroup is protected by the RCU section or by the call's references.
Protected(r) ==
    /\ r.pc \in {"enter", "choose", "tryget"} => r.got = <<>> /\ ~r.pinned /\ ~r.bare
    /\ r.pc \in {"enter", "choose"} => r.cgrp = Nobody
    /\ r.pc = "tryget" => r.cgrp # Nobody
    /\ r.pc = "iter" /\ r.cgrp # Nobody => r.pinned
    /\ r.pc = "tryget" \/ r.pinned => r.cgrp \in Cgroups /\ life[r.cgrp] # "released"

\* What was hidden throughout is hidden now, was not returned, and is nothing when
\* the call goes without a policy.
Filtered(t, r) ==
    /\ hidden[t] \subseteq HiddenNow
    /\ r.pc = "iter" /\ r.cgrp = Nobody /\ ~r.bare => hidden[t] = {}
    /\ ~r.bare => \A i \in DOMAIN r.got : r.got[i] \notin hidden[t]

CallOK(t, r) ==
    r \in Calls /\ pos <= r.cpos /\ Accounted(r) /\ StopsForReason(r) /\ Protected(r)
        /\ Filtered(t, r)

\* The inductive invariant: one call at a time, and it is in order.
ReaddirInv ==
    /\ TypeOK /\ call = [t \in Tasks |-> call[t]]
    /\ \A t \in Tasks : life[task[t]] = "live"
    /\ \A t \in Tasks : IF lock = t THEN CallOK(t, call[t]) ELSE call[t] = NoCall
    /\ EachEntryOnce /\ EndIsEnd

-----------------------------------------------------------------------------

\* The running call holds the position's lock.
LEMMA CallerHoldsLock ==
    ASSUME ReaddirInv, NEW t \in Tasks, call[t].pc # "idle"
    PROVE  lock = t /\ CallOK(t, call[t])
BY DEF ReaddirInv, NoCall

\* Nothing has been read at the start.
LEMMA ReaddirInit == Init => ReaddirInv
BY ReaddirConstants DEF Init, ReaddirInv, TypeOK, EachEntryOnce, EndIsEnd, Entries

\* A step inside the call keeps the invariant if the call stays in order.
LEMMA ContinueStep ==
    ASSUME ReaddirInv, NEW t \in Tasks, lock = t, NEW r, CallOK(t, r), Continue(t, r)
    PROVE  ReaddirInv'
<1>1. /\ call' = [call EXCEPT ![t] = r]
      /\ UNCHANGED <<life, policy, inScope, task, pos, lock, result, delivered, skipped, hidden>>
  BY DEF Continue, CallStep
<1>2. call' = [u \in Tasks |-> call'[u]] /\ call'[t] = r /\ \A u \in Tasks : u # t => call'[u] = call[u]
  BY <1>1 DEF ReaddirInv
<1>3. TypeOK'
  BY <1>1, <1>2 DEF ReaddirInv, TypeOK, CallOK
<1>4. CallOK(t, r)'
  BY <1>1 DEF CallOK, Accounted, StopsForReason, Protected, Filtered, HiddenNow, Managed, DecisionIn
<1>5. \A u \in Tasks : IF lock' = u THEN CallOK(u, call[u])' ELSE call'[u] = NoCall
  BY <1>1, <1>2, <1>4 DEF ReaddirInv, CallOK, Accounted, StopsForReason, Protected, Filtered,
     HiddenNow, Managed, DecisionIn
<1> QED
  BY <1>1, <1>2, <1>3, <1>5 DEF ReaddirInv, EachEntryOnce, EndIsEnd

\* getdents64 starts at the stored position with an empty buffer.
LEMMA GetdentsStep ==
    ASSUME ReaddirInv, NEW t \in Tasks, NEW size \in BufferSizes, Getdents(t, size)
    PROVE  ReaddirInv'
<1> DEFINE r == [pc |-> "enter", left |-> size, cpos |-> pos, cgrp |-> Nobody,
                 pinned |-> FALSE, bare |-> FALSE, got |-> <<>>,
                 error |-> "ok", ret |-> "ok", bufError |-> "ok"]
<1>1. /\ call' = [call EXCEPT ![t] = r] /\ lock = Nobody /\ lock' = t
      /\ hidden' = [hidden EXCEPT ![t] = HiddenNow]
      /\ UNCHANGED <<life, policy, inScope, task, pos, result, delivered, skipped>>
  BY DEF Getdents, CallStep
<1>2. /\ call' = [u \in Tasks |-> call'[u]] /\ call'[t] = r
      /\ \A u \in Tasks : u # t => call'[u] = NoCall
  BY <1>1, ReaddirConstants DEF ReaddirInv
<1>3. HiddenNow \subseteq Entries /\ HiddenNow' = HiddenNow
  BY <1>1 DEF HiddenNow, Managed, DecisionIn
<1>4. r \in Calls
  BY ReaddirConstants DEF Calls, ReaddirInv, TypeOK
<1>5. TypeOK'
  BY <1>1, <1>2, <1>3, <1>4 DEF ReaddirInv, TypeOK
<1>6. Accounted(r)'
  <2>1. pos \in Nat /\ Entries \subseteq Nat /\ \A e \in Entries : delivered[e] \in Nat /\ skipped[e] \in Nat
    BY ReaddirConstants DEF ReaddirInv, TypeOK, Entries
  <2>2. \A e \in Entries : delivered[e] + skipped[e] = IF e <= pos THEN 1 ELSE 0
    BY <1>1 DEF ReaddirInv, EachEntryOnce
  <2> QED  BY <1>1, <2>1, <2>2 DEF Accounted
<1>7. CallOK(t, r)'
  BY <1>1, <1>3, <1>4, <1>6, ReaddirConstants
  DEF CallOK, StopsForReason, Protected, Filtered, ReaddirInv, TypeOK
<1>8. \A u \in Tasks : IF lock' = u THEN CallOK(u, call[u])' ELSE call'[u] = NoCall
  BY <1>1, <1>2, <1>7
<1> QED
  BY <1>1, <1>2, <1>5, <1>8, ReaddirConstants DEF ReaddirInv, EachEntryOnce, EndIsEnd

\* Entry, choice of the cgroup and its references.
LEMMA EnterStep ==
    ASSUME ReaddirInv, NEW t \in Tasks,
           EnterFails(t) \/ EnterPlain(t) \/ EnterManaged(t) \/ ChooseCgroup(t) \/ TryGet(t)
    PROVE  ReaddirInv'
<1>1. lock = t /\ CallOK(t, call[t]) /\ call[t].pc \in {"enter", "choose", "tryget"}
  BY CallerHoldsLock DEF EnterFails, EnterPlain, EnterManaged, ChooseCgroup, TryGet
<1>2. call[t] \in Calls /\ call[t].got = <<>> /\ Accounted(call[t]) /\ hidden[t] \subseteq HiddenNow
  BY <1>1 DEF CallOK, Protected, Filtered
<1>3. task[t] \in Cgroups /\ life[task[t]] = "live"
  BY DEF ReaddirInv, TypeOK
<1>4. ~Managed(task[t]) => hidden[t] = {}
  BY <1>2, <1>3 DEF HiddenNow
<1>5. ASSUME NEW r, r \in Calls, r.got = <<>>, r.cpos = call[t].cpos
      PROVE  Accounted(r)
  BY <1>2, <1>5 DEF Accounted
<1>6. CASE EnterFails(t)
  <2> DEFINE r == [call[t] EXCEPT !.pc = "return", !.ret = "error"]
  <2>1. Continue(t, r) /\ call[t].pc = "enter"
    BY <1>6 DEF EnterFails
  <2>2. r \in Calls /\ r.got = <<>> /\ r.cpos = call[t].cpos
    BY <1>2 DEF Calls
  <2>3. CallOK(t, r)
    BY <1>1, <1>2, <1>5, <2>1, <2>2 DEF CallOK, Calls, StopsForReason, Protected, Filtered
  <2> QED  BY <1>1, <2>1, <2>3, ContinueStep
<1>7. CASE EnterPlain(t) \/ (ChooseCgroup(t) /\ ~Managed(task[t]))
  <2> DEFINE r == [call[t] EXCEPT !.pc = "iter"]
  <2>1. Continue(t, r) /\ call[t].pc \in {"enter", "choose"} /\ ~Managed(task[t])
    BY <1>7 DEF EnterPlain, ChooseCgroup
  <2>2. r \in Calls /\ r.got = <<>> /\ r.cpos = call[t].cpos
    BY <1>2 DEF Calls
  <2>3. CallOK(t, r)
    BY <1>1, <1>2, <1>4, <1>5, <2>1, <2>2 DEF CallOK, Calls, StopsForReason, Protected, Filtered
  <2> QED  BY <1>1, <2>1, <2>3, ContinueStep
<1>8. CASE EnterManaged(t)
  <2> DEFINE r == [call[t] EXCEPT !.pc = "choose"]
  <2>1. Continue(t, r) /\ call[t].pc = "enter"
    BY <1>8 DEF EnterManaged
  <2>2. r \in Calls /\ r.got = <<>> /\ r.cpos = call[t].cpos
    BY <1>2 DEF Calls
  <2>3. CallOK(t, r)
    BY <1>1, <1>2, <1>5, <2>1, <2>2 DEF CallOK, Calls, StopsForReason, Protected, Filtered
  <2> QED  BY <1>1, <2>1, <2>3, ContinueStep
<1>9. CASE ChooseCgroup(t) /\ Managed(task[t])
  <2> DEFINE r == [call[t] EXCEPT !.pc = "tryget", !.cgrp = task[t]]
  <2>1. Continue(t, r) /\ call[t].pc = "choose"
    BY <1>9 DEF ChooseCgroup
  <2>2. r \in Calls /\ r.got = <<>> /\ r.cpos = call[t].cpos
    BY <1>2, <1>3 DEF Calls
  <2>3. CallOK(t, r)
    BY <1>1, <1>2, <1>3, <1>5, <2>1, <2>2, ReaddirConstants
    DEF CallOK, Calls, StopsForReason, Protected, Filtered
  <2> QED  BY <1>1, <2>1, <2>3, ContinueStep
<1>10. CASE TryGet(t)
  <2>1. call[t].pc = "tryget" /\ call[t].cgrp \in Cgroups
    BY <1>1, <1>10 DEF TryGet, CallOK, Protected
  <2>2. CASE life[call[t].cgrp] = "live"
    <3> DEFINE r == [call[t] EXCEPT !.pc = "iter", !.pinned = TRUE]
    <3>1. Continue(t, r)
      BY <1>10, <2>2 DEF TryGet
    <3>2. r \in Calls /\ r.got = <<>> /\ r.cpos = call[t].cpos
      BY <1>2 DEF Calls
    <3>3. CallOK(t, r)
      BY <1>1, <1>2, <1>5, <2>1, <2>2, <3>2, ReaddirConstants
      DEF CallOK, Calls, StopsForReason, Protected, Filtered
    <3> QED  BY <1>1, <3>1, <3>3, ContinueStep
  <2>3. CASE life[call[t].cgrp] # "live"
    <3> DEFINE r == [call[t] EXCEPT !.pc = "iter", !.cgrp = Nobody, !.bare = TRUE]
    <3>1. Continue(t, r)
      BY <1>10, <2>3 DEF TryGet
    <3>2. r \in Calls /\ r.got = <<>> /\ r.cpos = call[t].cpos
      BY <1>2 DEF Calls
    <3>3. CallOK(t, r)
      BY <1>1, <1>2, <1>5, <2>1, <3>2
      DEF CallOK, Calls, StopsForReason, Protected, Filtered
    <3> QED  BY <1>1, <3>1, <3>3, ContinueStep
  <2> QED  BY <2>2, <2>3
<1> QED
  BY <1>6, <1>7, <1>8, <1>9, <1>10

\* An entry that goes to the user is not hidden by every cgroup.
LEMMA ShownIsNotHidden ==
    ASSUME ReaddirInv, NEW t \in Tasks, Shown(t), ~call[t].bare
    PROVE  At(t) \notin hidden[t]
<1>1. lock = t /\ CallOK(t, call[t]) /\ call[t].pc = "iter"
  BY CallerHoldsLock DEF Shown, Iterating
<1>2. CASE call[t].cgrp = Nobody
  BY <1>1, <1>2 DEF CallOK, Filtered
<1>3. CASE call[t].cgrp # Nobody
  <2>1. call[t].cgrp \in Cgroups /\ life[call[t].cgrp] # "released"
    BY <1>1, <1>3 DEF CallOK, Protected
  <2>2. DecisionIn(call[t].cgrp, At(t)) # "hide"
    BY DEF Shown, Decision
  <2>3. At(t) \notin HiddenNow
    BY <2>1, <2>2 DEF HiddenNow
  <2> QED  BY <1>1, <2>3 DEF CallOK, Filtered
<1> QED  BY <1>2, <1>3

\* Appending an entry beyond all others.
LEMMA AppendFacts ==
    ASSUME NEW s \in Seq(Entries), NEW e \in Nat, \A i \in DOMAIN s : s[i] < e,
           \A i, j \in DOMAIN s : s[i] = s[j] => i = j
    PROVE  /\ \A i \in DOMAIN Append(s, e) : Append(s, e)[i] = e \/ \E j \in DOMAIN s : Append(s, e)[i] = s[j]
           /\ \A i, j \in DOMAIN Append(s, e) : Append(s, e)[i] = Append(s, e)[j] => i = j
           /\ \A x : (\E i \in DOMAIN Append(s, e) : Append(s, e)[i] = x)
                        <=> x = e \/ (\E i \in DOMAIN s : s[i] = x)
<1> DEFINE n == Len(s)
           u == Append(s, e)
<1>1. /\ n \in Nat /\ DOMAIN s = 1..n /\ DOMAIN u = 1..(n + 1)
      /\ u[n + 1] = e /\ \A i \in 1..n : u[i] = s[i] /\ s[i] \in Entries
  OBVIOUS
<1> HIDE DEF n, u
<1>2. \A i \in DOMAIN u : i = n + 1 \/ i \in DOMAIN s
  BY <1>1
<1>3. \A i \in DOMAIN s : i \in DOMAIN u /\ u[i] = s[i] /\ u[i] # e
  BY <1>1, ReaddirConstants DEF Entries
<1>4. n + 1 \in DOMAIN u
  BY <1>1
<1>5. \A i \in DOMAIN u : u[i] = e \/ \E j \in DOMAIN s : u[i] = s[j]
  BY <1>1, <1>2, <1>3
<1>6. \A i, j \in DOMAIN u : u[i] = u[j] => i = j
  BY <1>1, <1>2, <1>3
<1>7. \A x : (\E i \in DOMAIN u : u[i] = x) <=> x = e \/ (\E i \in DOMAIN s : s[i] = x)
  BY <1>1, <1>2, <1>3, <1>4, Zenon
<1> QED  BY <1>5, <1>6, <1>7 DEF u

\* filldir64 writes the next entry.
LEMMA EmitStep ==
    ASSUME ReaddirInv, NEW t \in Tasks, Emit(t)
    PROVE  ReaddirInv'
<1> DEFINE e == At(t)
           r == [call[t] EXCEPT !.left = @ - SizeOf(Decision(t)), !.got = Append(@, At(t)),
                                !.cpos = @ + 1, !.bufError = "einval"]
<1>1. lock = t /\ CallOK(t, call[t]) /\ call[t].pc = "iter" /\ Continue(t, r)
  BY CallerHoldsLock DEF Emit, Shown, Iterating
<1>2. call[t] \in Calls /\ call[t].cpos \in Nat /\ call[t].cpos < NumEntries /\ NumEntries \in Nat /\ pos \in Nat
  BY <1>1, ReaddirConstants DEF CallOK, Calls, Emit, Shown, Iterating, ReaddirInv, TypeOK
<1>3. e \in Entries /\ e = call[t].cpos + 1 /\ e \in Nat /\ Entries \subseteq Nat
  BY <1>2 DEF At, Entries
<1>4. call[t].left \in Nat /\ SizeOf(Decision(t)) \in Nat /\ SizeOf(Decision(t)) <= call[t].left
  BY <1>1, ReaddirConstants DEF CallOK, Calls, Emit, SizeOf
<1>5. call[t].got \in Seq(Entries)
  BY <1>2 DEF Calls
<1>6. /\ r.got = Append(call[t].got, e) /\ r.cpos = e /\ r.pc = "iter" /\ r.cgrp = call[t].cgrp
      /\ r.pinned = call[t].pinned /\ r.bare = call[t].bare
  BY <1>1, <1>2, <1>3 DEF Calls
<1>7. r \in Calls
  <2>1. call[t].left - SizeOf(Decision(t)) \in Nat /\ call[t].cpos + 1 \in 0..NumEntries
    BY <1>2, <1>4
  <2>2. Append(call[t].got, At(t)) \in Seq(Entries)
    BY <1>3, <1>5
  <2> HIDE DEF e
  <2> QED  BY <1>2, <2>1, <2>2 DEF Calls
<1>8. /\ DOMAIN r.got = 1..(Len(call[t].got) + 1) /\ DOMAIN call[t].got = 1..Len(call[t].got)
      /\ Len(call[t].got) \in Nat
      /\ r.got[Len(call[t].got) + 1] = e
      /\ \A i \in 1..Len(call[t].got) : r.got[i] = call[t].got[i]
  <2> HIDE DEF e, r
  <2> QED  BY <1>3, <1>5, <1>6
<1>9. Accounted(r)
  <2> HIDE DEF e, r
  <2>1. Accounted(call[t]) /\ pos <= call[t].cpos
    BY <1>1 DEF CallOK
  <2> DEFINE g == call[t].got
  <2>2. \A i \in DOMAIN g : pos < g[i] /\ g[i] < e /\ g[i] \in Nat
    <3>0. \A i \in DOMAIN g : pos < g[i] /\ g[i] <= call[t].cpos
      BY <2>1 DEF Accounted
    <3>1. \A i \in DOMAIN g : g[i] \in Entries /\ pos < g[i] /\ g[i] <= call[t].cpos
      <4> HIDE DEF g
      <4>1. g \in Seq(Entries)
        BY <1>5 DEF g
      <4> QED  BY <3>0, <4>1
    <3>2. \A x \in Nat : x <= call[t].cpos => x < e
      BY <1>2, <1>3
    <3> QED  BY <1>3, <3>1, <3>2
  <2>3. \A i, j \in DOMAIN g : g[i] = g[j] => i = j
    BY <2>1 DEF Accounted
  <2>4. /\ \A i \in DOMAIN r.got : r.got[i] = e \/ \E j \in DOMAIN g : r.got[i] = g[j]
        /\ \A i, j \in DOMAIN r.got : r.got[i] = r.got[j] => i = j
        /\ \A x : (\E i \in DOMAIN r.got : r.got[i] = x) <=> x = e \/ (\E i \in DOMAIN g : g[i] = x)
    <3> HIDE DEF g
    <3>1. r.got = Append(g, e)
      BY <1>6 DEF g
    <3>2. g \in Seq(Entries)
      BY <1>5 DEF g
    <3>3. e \in Nat /\ \A i \in DOMAIN g : g[i] < e
      BY <1>3, <2>2
    <3> HIDE DEF e
    <3>4. /\ \A i \in DOMAIN Append(g, e) : Append(g, e)[i] = e \/ \E j \in DOMAIN g : Append(g, e)[i] = g[j]
          /\ \A i, j \in DOMAIN Append(g, e) : Append(g, e)[i] = Append(g, e)[j] => i = j
          /\ \A x : (\E i \in DOMAIN Append(g, e) : Append(g, e)[i] = x)
                       <=> x = e \/ (\E i \in DOMAIN g : g[i] = x)
      BY <2>3, <3>2, <3>3, AppendFacts
    <3> QED  BY <3>1, <3>4, Zenon
  <2>5. \A i \in DOMAIN r.got : pos < r.got[i] /\ r.got[i] <= r.cpos
    <3> HIDE DEF g
    <3>1. pos < e /\ e <= r.cpos
      BY <1>2, <1>3, <1>6, <2>1
    <3>2. \A x \in Nat : x < e => x <= r.cpos
      BY <1>3, <1>6
    <3> QED  BY <2>2, <2>4, <3>1, <3>2
  <2>6. \A x \in Entries : x # e =>
            ((\E i \in DOMAIN r.got : r.got[i] = x) <=> (\E i \in DOMAIN call[t].got : call[t].got[i] = x))
    BY <2>4, Zenon
  <2>7. delivered[e] = 0 /\ skipped[e] = 0
    BY <1>2, <1>3, <2>1 DEF Accounted
  <2>8. ASSUME NEW x \in Entries
        PROVE  /\ x <= pos => delivered[x] + skipped[x] = 1
               /\ pos < x /\ x <= r.cpos =>
                     /\ delivered[x] = 0 /\ skipped[x] \in {0, 1}
                     /\ skipped[x] = 0 <=> \E i \in DOMAIN r.got : r.got[i] = x
               /\ r.cpos < x => delivered[x] = 0 /\ skipped[x] = 0
    <3>1. x \in Nat
      BY <1>3
    <3>2. CASE x = e
      <4>1. \E i \in DOMAIN r.got : r.got[i] = e
        BY <2>4, Zenon
      <4> QED  BY <1>2, <1>3, <1>6, <2>1, <2>7, <3>1, <3>2, <4>1
    <3>3. CASE x # e
      BY <1>2, <1>3, <1>6, <2>1, <2>6, <3>1, <3>3 DEF Accounted
    <3> QED  BY <3>2, <3>3
  <2> QED  BY <2>4, <2>5, <2>8 DEF Accounted
<1>10. Filtered(t, r)
  <2>1. ~call[t].bare => e \notin hidden[t]
    BY ShownIsNotHidden DEF Emit
  <2> HIDE DEF e, r
  <2>2. Filtered(t, call[t])
    BY <1>1 DEF CallOK
  <2> QED  BY <1>1, <1>6, <1>8, <2>1, <2>2 DEF Filtered
<1>11. CallOK(t, r)
  <2>1. pos <= r.cpos /\ StopsForReason(r) /\ Protected(r)
    <3> HIDE DEF e, r
    <3> QED  BY <1>1, <1>2, <1>3, <1>6 DEF CallOK, StopsForReason, Protected
  <2> QED  BY <1>7, <1>9, <1>10, <2>1 DEF CallOK
<1> QED  BY <1>1, <1>11, ContinueStep

\* The call stops: the record is refused, the policy's decision cannot be carried
\* out, the iterator fails or is at the end.
LEMMA StopStep ==
    ASSUME ReaddirInv, NEW t \in Tasks,
           EmitStops(t) \/ Reject(t) \/ IterEnd(t) \/ IterFails(t)
    PROVE  ReaddirInv'
<1>1. lock = t /\ CallOK(t, call[t]) /\ call[t].pc = "iter"
  BY CallerHoldsLock DEF EmitStops, Shown, Iterating, Reject, IterEnd, IterFails
<1>2. ASSUME NEW r, r \in Calls, r.pc = "return", r.cpos = call[t].cpos, r.got = call[t].got,
             r.pinned = call[t].pinned, r.bare = call[t].bare, r.cgrp = call[t].cgrp,
             StopsForReason(r), Continue(t, r)
      PROVE  ReaddirInv'
  <2>1. CallOK(t, r)
    BY <1>1, <1>2 DEF CallOK, Accounted, Protected, Filtered
  <2> QED  BY <1>1, <1>2, <2>1, ContinueStep
<1>3. call[t] \in Calls
  BY <1>1 DEF CallOK
<1>4. CASE EmitStops(t)
  BY <1>2, <1>3, <1>4 DEF EmitStops, Calls, StopsForReason
<1>5. CASE Reject(t)
  BY <1>2, <1>3, <1>5 DEF Reject, Calls, StopsForReason
<1>6. CASE IterEnd(t)
  BY <1>2, <1>3, <1>6 DEF IterEnd, Calls, StopsForReason
<1>7. CASE IterFails(t)
  BY <1>2, <1>3, <1>7 DEF IterFails, Calls, StopsForReason
<1> QED  BY <1>4, <1>5, <1>6, <1>7

\* A hidden entry is passed and counted.
LEMMA HideStep ==
    ASSUME ReaddirInv, NEW t \in Tasks, Hide(t)
    PROVE  ReaddirInv'
<1> DEFINE e == At(t)
<1>0. PICK r : r = [call[t] EXCEPT !.cpos = @ + 1]
  OBVIOUS
<1>1. /\ lock = t /\ CallOK(t, call[t]) /\ call[t].pc = "iter"
      /\ call' = [call EXCEPT ![t] = r] /\ skipped' = [skipped EXCEPT ![e] = @ + 1]
      /\ UNCHANGED <<life, policy, inScope, task, pos, lock, result, delivered, hidden>>
  BY <1>0, CallerHoldsLock DEF Hide, Iterating, CallStep
<1>2. call[t] \in Calls /\ call[t].cpos \in Nat /\ call[t].cpos < NumEntries /\ NumEntries \in Nat /\ pos \in Nat
  BY <1>1, ReaddirConstants DEF CallOK, Calls, Hide, Iterating, ReaddirInv, TypeOK
<1>3. e \in Entries /\ e = call[t].cpos + 1 /\ e \in Nat /\ Entries \subseteq Nat
  BY <1>2 DEF At, Entries
<1>4. r \in Calls /\ r.cpos = e /\ r.got = call[t].got /\ r.pc = "iter" /\ r.cgrp = call[t].cgrp
      /\ r.pinned = call[t].pinned /\ r.bare = call[t].bare
  <2>1. call[t].cpos + 1 \in 0..NumEntries
    BY <1>2
  <2> QED  BY <1>0, <1>1, <1>2, <1>3, <2>1 DEF Calls
<1> HIDE DEF e
<1>5. call' = [u \in Tasks |-> call'[u]] /\ call'[t] = r /\ \A u \in Tasks : u # t => call'[u] = call[u]
  BY <1>1 DEF ReaddirInv
<1>6. /\ skipped' \in [Entries -> Nat] /\ skipped'[e] = skipped[e] + 1
      /\ \A x \in Entries : x # e => skipped'[x] = skipped[x]
  BY <1>1, <1>3 DEF ReaddirInv, TypeOK
<1>7. TypeOK'
  BY <1>1, <1>4, <1>5, <1>6 DEF ReaddirInv, TypeOK
<1>8. Accounted(call[t]) /\ pos <= call[t].cpos
  BY <1>1 DEF CallOK
<1>9. \A i \in DOMAIN r.got : pos < r.got[i] /\ r.got[i] <= call[t].cpos /\ r.got[i] \in Nat
  <2> DEFINE g == call[t].got
  <2>1. g \in Seq(Entries) /\ \A i \in DOMAIN g : pos < g[i] /\ g[i] <= call[t].cpos
    BY <1>2, <1>8 DEF Calls, Accounted
  <2> HIDE DEF g
  <2>2. \A i \in DOMAIN g : g[i] \in Nat
    BY <1>3, <2>1
  <2> QED  BY <1>4, <2>1, <2>2 DEF g
<1>10. Accounted(r)'
  <2>1. \A i \in DOMAIN r.got : pos < r.got[i] /\ r.got[i] <= r.cpos /\ r.got[i] # e
    BY <1>2, <1>3, <1>4, <1>9
  <2>2. \A i, j \in DOMAIN r.got : r.got[i] = r.got[j] => i = j
    BY <1>4, <1>8 DEF Accounted
  <2>3. delivered[e] = 0 /\ skipped[e] = 0
    BY <1>2, <1>3, <1>8 DEF Accounted
  <2>4. ASSUME NEW x \in Entries
        PROVE  /\ x <= pos => delivered[x] + skipped'[x] = 1
               /\ pos < x /\ x <= r.cpos =>
                     /\ delivered[x] = 0 /\ skipped'[x] \in {0, 1}
                     /\ skipped'[x] = 0 <=> \E i \in DOMAIN r.got : r.got[i] = x
               /\ r.cpos < x => delivered[x] = 0 /\ skipped'[x] = 0
    <3>1. x \in Nat
      BY <1>3
    <3>2. CASE x = e
      BY <1>2, <1>3, <1>4, <1>6, <1>8, <2>1, <2>3, <3>1, <3>2
    <3>3. CASE x # e
      BY <1>2, <1>3, <1>4, <1>6, <1>8, <3>1, <3>3 DEF Accounted
    <3> QED  BY <3>2, <3>3
  <2> QED  BY <1>1, <2>1, <2>2, <2>4 DEF Accounted
<1>11. CallOK(t, r)'
  <2>1. pos <= r.cpos /\ StopsForReason(r)' /\ Protected(r)'
    BY <1>1, <1>2, <1>3, <1>4, <1>8 DEF CallOK, StopsForReason, Protected
  <2>2. Filtered(t, r)'
    BY <1>1, <1>4 DEF CallOK, Filtered, HiddenNow, Managed, DecisionIn
  <2> QED  BY <1>1, <1>4, <1>10, <2>1, <2>2 DEF CallOK
<1>12. \A u \in Tasks : IF lock' = u THEN CallOK(u, call[u])' ELSE call'[u] = NoCall
  <2>1. CallOK(t, call[t])'
    BY <1>5, <1>11 DEF CallOK, Accounted, StopsForReason, Protected, Filtered
  <2> QED  BY <1>1, <1>5, <2>1 DEF ReaddirInv
<1> QED
  BY <1>1, <1>5, <1>7, <1>12, ReaddirConstants DEF ReaddirInv, EachEntryOnce, EndIsEnd

\* Return: what the call has passed becomes history.
LEMMA ReturnStep ==
    ASSUME ReaddirInv, NEW t \in Tasks, Return(t)
    PROVE  ReaddirInv'
<1> DEFINE r == call[t]
           at(e) == {i \in DOMAIN r.got : r.got[i] = e}
<1>1. /\ lock = t /\ CallOK(t, r) /\ r.pc = "return"
      /\ call' = [call EXCEPT ![t] = NoCall] /\ pos' = r.cpos /\ lock' = Nobody
      /\ result' = [result EXCEPT ![t] = GetdentsResult(t)]
      /\ delivered' = [e \in Entries |-> delivered[e] + Cardinality(at(e))]
      /\ hidden' = [hidden EXCEPT ![t] = {}]
      /\ UNCHANGED <<life, policy, inScope, task, skipped>>
  BY CallerHoldsLock DEF Return, CallStep, NewPos
<1>2. r \in Calls /\ Accounted(r) /\ pos <= r.cpos /\ r.cpos \in 0..NumEntries /\ StopsForReason(r)
  BY <1>1 DEF CallOK, Calls
<1>3. NumEntries \in Nat /\ pos \in 0..NumEntries /\ Entries \subseteq Nat
  BY ReaddirConstants DEF ReaddirInv, TypeOK, Entries
<1>4. ASSUME NEW e \in Entries
      PROVE  /\ (\E i \in DOMAIN r.got : r.got[i] = e) => Cardinality(at(e)) = 1
             /\ ~(\E i \in DOMAIN r.got : r.got[i] = e) => Cardinality(at(e)) = 0
  <2>1. ASSUME NEW i \in DOMAIN r.got, r.got[i] = e  PROVE Cardinality(at(e)) = 1
    <3>1. at(e) = {i}
      BY <1>2, <2>1 DEF Accounted
    <3> QED  BY <3>1, FS_Singleton
  <2>2. ASSUME ~(\E i \in DOMAIN r.got : r.got[i] = e)  PROVE Cardinality(at(e)) = 0
    <3>1. at(e) = {}
      BY <2>2
    <3> QED  BY <3>1, FS_EmptySet
  <2> QED  BY <2>1, <2>2
<1>5. ASSUME NEW e \in Entries
      PROVE  /\ delivered'[e] \in Nat
             /\ delivered'[e] + skipped[e] = IF e <= r.cpos THEN 1 ELSE 0
  <2> DEFINE n == Cardinality(at(e))
             has == \E i \in DOMAIN r.got : r.got[i] = e
  <2>1. delivered'[e] = delivered[e] + n
    BY <1>1
  <2>2. (has => n = 1) /\ (~has => n = 0)
    BY <1>4
  <2>3. has => pos < e /\ e <= r.cpos
    BY <1>2 DEF Accounted
  <2>4. /\ e <= pos => delivered[e] + skipped[e] = 1
        /\ pos < e /\ e <= r.cpos =>
              delivered[e] = 0 /\ skipped[e] \in {0, 1} /\ (skipped[e] = 0 <=> has)
        /\ r.cpos < e => delivered[e] = 0 /\ skipped[e] = 0
    BY <1>2 DEF Accounted
  <2>5. e \in Nat /\ delivered[e] \in Nat /\ skipped[e] \in Nat /\ pos \in Nat /\ r.cpos \in Nat
    BY <1>2, <1>3 DEF ReaddirInv, TypeOK
  <2>6. has \in BOOLEAN
    OBVIOUS
  <2> HIDE DEF n, has, r
  <2> QED  BY <1>2, <2>1, <2>2, <2>3, <2>4, <2>5, <2>6
<1>6. GetdentsResult(t) = "end" => r.cpos = NumEntries
  <2>1. GetdentsResult(t) = "end" => r.ret = "ok" /\ r.error = "ok" /\ r.bufError = "ok"
    BY DEF GetdentsResult, IterateResult
  <2> QED  BY <1>1, <1>2, <2>1 DEF StopsForReason
<1>7. GetdentsResult(t) \in {"none", "records", "error", "end"}
  BY DEF GetdentsResult
<1> HIDE DEF r
<1>8. /\ call' = [u \in Tasks |-> call'[u]] /\ \A u \in Tasks : call'[u] = NoCall
      /\ delivered' \in [Entries -> Nat]
  <2>1. delivered' = [e \in Entries |-> delivered'[e]]
    BY <1>1
  <2>2. \A u \in Tasks : u # t => call[u] = NoCall
    BY <1>1 DEF ReaddirInv
  <2>3. call = [u \in Tasks |-> call[u]]
    BY DEF ReaddirInv
  <2> QED  BY <1>1, <1>5, <2>1, <2>2, <2>3
<1>9. TypeOK'
  BY <1>1, <1>2, <1>7, <1>8 DEF ReaddirInv, TypeOK
<1>10. EachEntryOnce'
  BY <1>1, <1>5 DEF EachEntryOnce
<1>11. EndIsEnd'
  <2> SUFFICES ASSUME NEW u \in Tasks, result'[u] = "end"  PROVE pos' = NumEntries
    BY DEF EndIsEnd
  <2>1. CASE u = t
    BY <1>1, <1>6, <2>1 DEF ReaddirInv, TypeOK
  <2>2. CASE u # t
    <3>1. result[u] = "end"
      BY <1>1, <2>2 DEF ReaddirInv, TypeOK
    <3>2. pos = NumEntries
      BY <3>1 DEF ReaddirInv, EndIsEnd
    <3> QED  BY <1>1, <1>2, <1>3, <3>2
  <2> QED  BY <2>1, <2>2
<1> QED
  BY <1>1, <1>8, <1>9, <1>10, <1>11, ReaddirConstants DEF ReaddirInv

\* What happens outside of the call leaves it in order as long as the chosen cgroup
\* is not released.
LEMMA ElsewhereStep ==
    ASSUME ReaddirInv, Elsewhere,
           life' \in [Cgroups -> {"live", "dead", "released"}],
           policy' \in [Cgroups -> Policies \cup {Off}],
           inScope' \in [Cgroups -> BOOLEAN], task' \in [Tasks -> Cgroups],
           \A t \in Tasks : life'[task'[t]] = "live",
           \A t \in Tasks, c \in Cgroups : Holding(t, c) /\ life[c] # "released" => life'[c] # "released"
    PROVE  ReaddirInv'
<1>1. /\ hidden' = [t \in Tasks |-> hidden[t] \cap HiddenNow']
      /\ UNCHANGED <<pos, lock, call, result, delivered, skipped>>
  BY DEF Elsewhere
<1>2. TypeOK'
  BY <1>1 DEF ReaddirInv, TypeOK
<1>3. ASSUME NEW t \in Tasks, lock = t  PROVE CallOK(t, call[t])'
  <2>1. CallOK(t, call[t]) /\ call[t].pc # "idle"
    BY <1>3 DEF ReaddirInv, CallOK, Calls
  <2>2. Accounted(call[t])' /\ StopsForReason(call[t])' /\ pos' <= call'[t].cpos /\ call'[t] \in Calls
    BY <1>1, <2>1 DEF CallOK, Accounted, StopsForReason
  <2>3. Protected(call[t])'
    BY <1>1, <2>1 DEF CallOK, Protected, Holding
  <2>4. Filtered(t, call[t])'
    BY <1>1, <2>1 DEF CallOK, Filtered
  <2> QED  BY <2>2, <2>3, <2>4 DEF CallOK
<1> QED
  BY <1>1, <1>2, <1>3 DEF ReaddirInv, EachEntryOnce, EndIsEnd

\* Every step of Next keeps the invariant.
LEMMA ReaddirStep == ReaddirInv /\ [Next]_vars => ReaddirInv'
<1> SUFFICES ASSUME ReaddirInv, [Next]_vars PROVE ReaddirInv'
  OBVIOUS
<1>0. /\ life \in [Cgroups -> {"live", "dead", "released"}]
      /\ policy \in [Cgroups -> Policies \cup {Off}]
      /\ inScope \in [Cgroups -> BOOLEAN] /\ task \in [Tasks -> Cgroups]
      /\ \A t \in Tasks : life[task[t]] = "live"
  BY DEF ReaddirInv, TypeOK
<1>1. ASSUME NEW t \in Tasks, NEW size \in BufferSizes, Getdents(t, size)
      PROVE  ReaddirInv'
  BY <1>1, GetdentsStep
<1>2. ASSUME NEW t \in Tasks,
             EnterFails(t) \/ EnterPlain(t) \/ EnterManaged(t) \/ ChooseCgroup(t) \/ TryGet(t)
      PROVE  ReaddirInv'
  BY <1>2, EnterStep
<1>3. ASSUME NEW t \in Tasks, Iterate(t)
      PROVE  ReaddirInv'
  BY <1>3, EmitStep, HideStep, StopStep DEF Iterate
<1>4. ASSUME NEW t \in Tasks, Return(t)
      PROVE  ReaddirInv'
  BY <1>4, ReturnStep
<1>5. ASSUME NEW c \in Cgroups, NEW p \in Policies \cup {Off}, SetPolicy(c, p)
      PROVE  ReaddirInv'
  <2>1. policy' \in [Cgroups -> Policies \cup {Off}] /\ UNCHANGED <<life, inScope, task>> /\ Elsewhere
    BY <1>0, <1>5 DEF SetPolicy
  <2> QED  BY <1>0, <2>1, ElsewhereStep
<1>6. ASSUME NEW c \in Cgroups, NEW b \in BOOLEAN, SetScope(c, b)
      PROVE  ReaddirInv'
  <2>1. inScope' \in [Cgroups -> BOOLEAN] /\ UNCHANGED <<life, policy, task>> /\ Elsewhere
    BY <1>0, <1>6 DEF SetScope
  <2> QED  BY <1>0, <2>1, ElsewhereStep
<1>7. ASSUME NEW t \in Tasks, NEW c \in Cgroups, Migrate(t, c)
      PROVE  ReaddirInv'
  <2>1. /\ task' \in [Tasks -> Cgroups] /\ \A u \in Tasks : life[task'[u]] = "live"
        /\ UNCHANGED <<life, policy, inScope>> /\ Elsewhere
    BY <1>0, <1>7 DEF Migrate
  <2> QED  BY <1>0, <2>1, ElsewhereStep
<1>8. ASSUME NEW c \in Cgroups, Rmdir(c)
      PROVE  ReaddirInv'
  <2>1. /\ life' \in [Cgroups -> {"live", "dead", "released"}]
        /\ \A d \in Cgroups : life'[d] = "released" => life[d] = "released"
        /\ \A u \in Tasks : life'[task[u]] = "live"
        /\ UNCHANGED <<policy, inScope, task>> /\ Elsewhere
    BY <1>0, <1>8 DEF Rmdir
  <2> QED  BY <1>0, <2>1, ElsewhereStep
<1>9. ASSUME NEW c \in Cgroups, Release(c)
      PROVE  ReaddirInv'
  <2>1. /\ life' \in [Cgroups -> {"live", "dead", "released"}]
        /\ \A d \in Cgroups : d # c => life'[d] = life[d]
        /\ \A u \in Tasks : life'[task[u]] = "live" /\ ~Holding(u, c)
        /\ policy' \in [Cgroups -> Policies \cup {Off}]
        /\ UNCHANGED <<inScope, task>> /\ Elsewhere
    BY <1>0, <1>9 DEF Release
  <2> QED  BY <1>0, <2>1, ElsewhereStep
<1>10. CASE UNCHANGED vars
  BY <1>10 DEF vars, ReaddirInv, TypeOK, CallOK, Accounted, StopsForReason, Protected,
     Filtered, HiddenNow, Managed, DecisionIn, EachEntryOnce, EndIsEnd
<1> QED
  BY <1>1, <1>2, <1>3, <1>4, <1>5, <1>6, <1>7, <1>8, <1>9, <1>10 DEF Next

\* The invariant holds throughout.
THEOREM EnumerationInvariant == Spec => []ReaddirInv
BY ReaddirInit, ReaddirStep, PTL DEF Spec

\* Positions stay in the directory, space is never negative, records are entries.
THEOREM EnumerationTypes == Spec => []TypeOK
<1>1. ReaddirInv => TypeOK
  BY DEF ReaddirInv
<1> QED  BY <1>1, EnumerationInvariant, PTL

\* For every directory and buffer: between calls of getdents64 every entry before
\* f_pos was returned once or hidden once, and no entry behind it.
THEOREM NothingLostOrRepeated == Spec => []EachEntryOnce
<1>1. ReaddirInv => EachEntryOnce
  BY DEF ReaddirInv
<1> QED  BY <1>1, EnumerationInvariant, PTL

\* getdents64 returns "end of directory" only when the whole directory was passed,
\* whatever errors, refused records and undecidable decisions came before.
THEOREM ErrorsAreVisible == Spec => []EndIsEnd
<1>1. ReaddirInv => EndIsEnd
  BY DEF ReaddirInv
<1> QED  BY <1>1, EnumerationInvariant, PTL

\* cgroup_bpf_get_namei_ext_cgroup: the cgroup whose programs namei_ext_filldir
\* runs is not released before iterate_dir returns.
THEOREM ChosenCgroupStays == Spec => []CgroupAlive
<1>1. ReaddirInv => CgroupAlive
  <2> SUFFICES ASSUME ReaddirInv, NEW t \in Tasks, call[t].pc = "iter", call[t].cgrp # Nobody
               PROVE  life[call[t].cgrp] # "released"
    BY DEF CgroupAlive
  <2>1. CallOK(t, call[t])
    BY CallerHoldsLock
  <2> QED  BY <2>1 DEF CallOK, Protected
<1> QED  BY <1>1, EnumerationInvariant, PTL

\* namei_ext_filldir: an entry that the policies of all cgroups hide throughout a call
\* is not among its records, however tasks migrate and policies change, unless the
\* call found its cgroup being removed.
THEOREM HiddenIsNotReturned == Spec => []HiddenStaysHidden
<1>1. ReaddirInv => HiddenStaysHidden
  <2> SUFFICES ASSUME ReaddirInv, NEW t \in Tasks, call[t].pc # "idle", ~call[t].bare
               PROVE  \A i \in DOMAIN call[t].got : call[t].got[i] \notin hidden[t]
    BY DEF HiddenStaysHidden
  <2>1. CallOK(t, call[t])
    BY CallerHoldsLock
  <2> QED  BY <2>1 DEF CallOK, Filtered
<1> QED  BY <1>1, EnumerationInvariant, PTL
=============================================================================
