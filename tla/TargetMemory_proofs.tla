------------------------- MODULE TargetMemory_proofs ------------------------
(***************************************************************************)
(* The records of the target registry, proved for every number of cgroups, *)
(* writers, walks, target ids and records: who owns a record at any        *)
(* moment, and why no walk ever uses a freed one (TargetInv).  On top of   *)
(* that, the path references add up, and what a walk selects is alive      *)
(* (PathInv).                                                              *)
(***************************************************************************)
EXTENDS NameiExtTargets, FiniteSetTheorems, TLAPS

Registering == [op : {"register"}, cgrp : Cgroups, new : Records]
Removing == [op : {"clear", "retire"}, cgrp : Cgroups, recs : SUBSET Records]

WalkTypes ==
    /\ pc \in [Tasks -> {"idle", "component", "resolve", "borrow", "get", "apply",
                          "complete", "failed", "returned", "done"}]
    /\ mode \in [Tasks -> {"rcu", "ref", "none"}]
    /\ src \in [Tasks -> Records \cup {Null}]
    /\ wrec \in [Tasks -> Records \cup {Null}]

\* The types the argument needs.
MemoryTypes ==
    /\ life \in [Cgroups -> {"live", "dead", "released"}]
    /\ linked \subseteq Records /\ allocated \subseteq Records
    /\ rec \in [Records -> [cgrp : Cgroups, id : TargetIds, obj : Objects] \cup {NoRecord}]
    /\ act \in [Actors -> {Idle} \cup Registering \cup Removing]
    /\ grace \in [Actors -> SUBSET Tasks]
    /\ WalkTypes

\* The table's lock is held across steps by exactly the actor that clears.
LockInv == \A a \in Actors : act[a].op = "clear" <=> lock = a

\* An actor works on a cgroup that its references keep; a release worker works
\* on its own.  A cgroup whose release has begun has no linked record but those
\* its worker is taking out.
CgroupInv ==
    /\ \A w \in Writers : act[w] # Idle => life[act[w].cgrp] # "released"
    /\ \A c \in Cgroups : act[c] # Idle => /\ act[c].op \in {"clear", "retire"}
                                           /\ act[c].cgrp = c
                                           /\ life[c] = "released"
    /\ \A a \in Actors : \A r \in HeldBy(a) : rec[r].cgrp = act[a].cgrp
    /\ \A r \in linked : /\ rec[r].cgrp \in Cgroups
                         /\ life[rec[r].cgrp] = "released" => act[rec[r].cgrp].op = "clear"

\* Where a walk can hold a record, and that it is then in an RCU section.
Holds(t) ==
    /\ wrec[t] # Null => pc[t] = "get" \/ (pc[t] \in {"borrow", "apply"} /\ mode[t] = "rcu")
    /\ pc[t] \in {"borrow", "get"} => wrec[t] # Null
    /\ src[t] # Null => mode[t] = "rcu"
    /\ pc[t] \in {"get", "done"} => mode[t] # "rcu"

WalkInv == \A t \in Tasks : Holds(t)

\* A record a walk may use: linked, just taken out, or waiting for the walk.
Safe(r, t) ==
    \/ r \in linked
    \/ \E a \in Actors : act[a].op = "clear" /\ r \in act[a].recs
    \/ \E a \in Actors : act[a].op = "retire" /\ r \in act[a].recs /\ t \in grace[a]

ReadInv ==
    \A t \in Tasks : /\ wrec[t] # Null => Safe(wrec[t], t)
                     /\ src[t] # Null => Safe(src[t], t)

\* The inductive invariant.
TargetInv == MemoryTypes /\ LockInv /\ CgroupInv /\ WalkInv /\ ReadInv /\ NoLeak

-----------------------------------------------------------------------------
(* Walks.                                                                  *)

\* A record that is safe for a walk stays safe while the walk is under RCU.
LEMMA SafeKept ==
    ASSUME TargetInv, WalkStep, NEW r, NEW t \in Tasks, Safe(r, t), t \in InRcu'
    PROVE  Safe(r, t)'
  BY DEF WalkStep, registryVars, Safe, TargetInv, MemoryTypes

\* What a step of walk t has to establish.
LEMMA WalkKeeps ==
    ASSUME TargetInv, NEW t \in Tasks, WalkStep, WalkTypes',
           \A u \in Tasks \ {t} : /\ pc'[u] = pc[u] /\ mode'[u] = mode[u]
                                  /\ src'[u] = src[u] /\ wrec'[u] = wrec[u],
           Holds(t)',
           wrec'[t] # Null => Safe(wrec'[t], t),
           src'[t] # Null => Safe(src'[t], t)
    PROVE  TargetInv'
<1> USE DEF TargetInv
<1>1. MemoryTypes'
  BY DEF MemoryTypes, WalkStep, registryVars
<1>2. LockInv'
  BY DEF LockInv, WalkStep, registryVars
<1>3. \A a \in Actors : HeldBy(a)' = HeldBy(a)
  BY DEF HeldBy, WalkStep, registryVars
<1>4. CgroupInv'
  BY <1>3 DEF CgroupInv, WalkStep, registryVars
<1>5. NoLeak'
  BY <1>3 DEF NoLeak, WalkStep, registryVars
<1>6. WalkInv'
  BY DEF WalkInv, Holds
<1>7. ReadInv'
  <2> SUFFICES ASSUME NEW u \in Tasks
               PROVE  (/\ wrec[u] # Null => Safe(wrec[u], u)
                       /\ src[u] # Null => Safe(src[u], u))'
    BY DEF ReadInv
  <2>1. wrec'[u] # Null \/ src'[u] # Null => u \in InRcu'
    BY <1>6 DEF WalkInv, Holds, InRcu
  <2>2. wrec'[u] # Null => Safe(wrec'[u], u)
    BY DEF ReadInv
  <2>3. src'[u] # Null => Safe(src'[u], u)
    BY DEF ReadInv
  <2>4. \A r : Safe(r, u) /\ u \in InRcu' =>
            \/ r \in linked'
            \/ \E a \in Actors : act'[a].op = "clear" /\ r \in act'[a].recs
            \/ \E a \in Actors : act'[a].op = "retire" /\ r \in act'[a].recs /\ u \in grace'[a]
    BY SafeKept DEF Safe
  <2> QED
    BY <2>1, <2>2, <2>3, <2>4 DEF Safe
<1> QED
  BY <1>1, <1>2, <1>4, <1>5, <1>6, <1>7

\* A step that begins and ends without a record in hand.
LEMMA FreeWalkKeeps ==
    ASSUME TargetInv, NEW t \in Tasks, WalkStep, UNCHANGED wrec,
           pc[t] \notin {"borrow", "get", "apply"},
           NEW p \in {"idle", "component", "resolve", "complete", "failed", "returned", "done"},
           NEW m \in {"rcu", "ref", "none"}, p = "done" => m # "rcu",
           Become(t, pc, p), Become(t, mode, m),
           \/ m = mode[t] /\ UNCHANGED src
           \/ Become(t, src, Null)
    PROVE  TargetInv'
<1> USE DEF TargetInv, MemoryTypes, WalkTypes, Become
<1>1. wrec[t] = Null /\ wrec'[t] = Null
  BY DEF WalkInv, Holds
<1>2. WalkTypes'
  OBVIOUS
<1>3. \A u \in Tasks \ {t} : /\ pc'[u] = pc[u] /\ mode'[u] = mode[u]
                             /\ src'[u] = src[u] /\ wrec'[u] = wrec[u]
  OBVIOUS
<1>4. src'[t] = Null \/ (src'[t] = src[t] /\ mode'[t] = mode[t])
  OBVIOUS
<1>5. Holds(t)'
  BY <1>1, <1>4 DEF WalkInv, Holds
<1>6. src'[t] # Null => Safe(src'[t], t)
  BY <1>4 DEF ReadInv
<1> HIDE DEF TargetInv, MemoryTypes, WalkTypes, Become
<1> QED
  BY <1>1, <1>2, <1>3, <1>5, <1>6, WalkKeeps

\* A walk that holds no record fails to leave RCU-walk.
LEMMA UnlazyFailsKeeps ==
    ASSUME TargetInv, NEW t \in Tasks, UnlazyFails(t), pc[t] \notin {"borrow", "get", "apply"}
    PROVE  TargetInv'
<1>1. Become(t, pc, "failed") /\ Become(t, mode, "none") /\ Become(t, src, Null)
  BY DEF UnlazyFails
<1> QED
  BY <1>1, FreeWalkKeeps DEF UnlazyFails

\* Another attempt begins without a record.
LEMMA StartAttemptKeeps ==
    ASSUME TargetInv, NEW t \in Tasks, NEW n, StartAttempt(t, n),
           pc[t] \notin {"borrow", "get", "apply"}
    PROVE  TargetInv'
<1>1. PICK m \in {"rcu", "ref", "none"} : Become(t, mode, m)
  BY DEF StartAttempt
<1>2. Become(t, pc, "component") /\ Become(t, src, Null)
  BY DEF StartAttempt
<1> QED
  BY <1>1, <1>2, FreeWalkKeeps DEF StartAttempt

\* An error is returned by a walk without a record.
LEMMA ErrorFromKeeps ==
    ASSUME TargetInv, NEW t \in Tasks, ErrorFrom(t), pc[t] \notin {"borrow", "get", "apply"}
    PROVE  TargetInv'
<1>1. CASE Unlazied(t) /\ Become(t, pc, "failed") /\ UNCHANGED wrec /\ WalkStep
  <2>1. Become(t, mode, "ref") /\ Become(t, src, Null)
    BY <1>1 DEF Unlazied
  <2> QED
    BY <1>1, <2>1, FreeWalkKeeps
<1>2. CASE UnlazyFails(t)
  BY <1>2, UnlazyFailsKeeps
<1>3. CASE Become(t, pc, "failed") /\ UNCHANGED <<mode, src, wrec>> /\ WalkStep
  <2>1. mode[t] \in {"rcu", "ref", "none"} /\ Become(t, mode, mode[t])
    BY <1>3 DEF TargetInv, MemoryTypes, WalkTypes, Become
  <2> QED
    BY <1>3, <2>1, FreeWalkKeeps
<1> QED
  BY <1>1, <1>2, <1>3 DEF ErrorFrom

\* The end of a component leads to one of two places.
LEMMA NextComponentPlaces ==
    ASSUME NEW t \in Tasks, NextComponent(t)
    PROVE  \E p \in {"component", "complete"} : Become(t, pc, p)
  BY DEF NextComponent

\* A component before its target is looked up.
LEMMA ComponentKeeps ==
    ASSUME TargetInv, NEW t \in Tasks,
           \/ WalkPass(t) \/ WalkRedirect(t) \/ WalkError(t)
           \/ \E k \in Keys : WalkSelect(t, k)
    PROVE  TargetInv'
<1>0. mode[t] \in {"rcu", "ref", "none"} /\ (UNCHANGED mode => Become(t, mode, mode[t]))
  BY DEF TargetInv, MemoryTypes, WalkTypes, Become
<1>1. pc[t] = "component"
  BY DEF WalkPass, WalkRedirect, WalkError, WalkSelect
<1>2. CASE NextComponent(t) /\ UNCHANGED <<mode, src, wrec>> /\ WalkStep
  <2>1. PICK p \in {"component", "complete"} : Become(t, pc, p)
    BY <1>2, NextComponentPlaces
  <2> QED
    BY <1>0, <1>1, <1>2, <2>1, FreeWalkKeeps
<1>3. CASE NextComponent(t) /\ Unlazied(t) /\ UNCHANGED wrec /\ WalkStep
  <2>1. PICK p \in {"component", "complete"} : Become(t, pc, p)
    BY <1>3, NextComponentPlaces
  <2>2. Become(t, mode, "ref") /\ Become(t, src, Null)
    BY <1>3 DEF Unlazied
  <2> QED
    BY <1>1, <1>3, <2>1, <2>2, FreeWalkKeeps
<1>4. CASE UnlazyFails(t)
  BY <1>1, <1>4, UnlazyFailsKeeps
<1>5. CASE WalkError(t)
  BY <1>1, <1>5, ErrorFromKeeps DEF WalkError
<1>6. ASSUME NEW k \in Keys, WalkSelect(t, k) PROVE TargetInv'
  BY <1>0, <1>1, <1>6, FreeWalkKeeps DEF WalkSelect
<1> QED
  BY <1>2, <1>3, <1>4, <1>5, <1>6 DEF WalkPass, WalkRedirect

\* The steps with a record in hand.
LEMMA ResolveFindKeeps ==
    ASSUME TargetInv, NEW t \in Tasks, ResolveFind(t)
    PROVE  TargetInv'
<1> USE DEF TargetInv, MemoryTypes, WalkTypes, Become
<1>1. PICK r \in Found(key[t]) : wrec' = [wrec EXCEPT ![t] = r]
  BY DEF ResolveFind
<1>2. r \in linked /\ r \in Records /\ r # Null /\ wrec'[t] = r
  BY <1>1, TargetConstants DEF Found
<1>3. WalkTypes'
  BY <1>1, <1>2 DEF ResolveFind
<1>4. \A u \in Tasks \ {t} : /\ pc'[u] = pc[u] /\ mode'[u] = mode[u]
                             /\ src'[u] = src[u] /\ wrec'[u] = wrec[u]
  BY <1>1 DEF ResolveFind
<1>6. Holds(t)'
  BY <1>2 DEF ResolveFind, WalkInv, Holds
<1>7. Safe(wrec'[t], t) /\ (src'[t] # Null => Safe(src'[t], t))
  BY <1>2 DEF Safe, ReadInv, ResolveFind
<1> HIDE DEF TargetInv, MemoryTypes, WalkTypes, Become
<1> QED
  BY <1>3, <1>4, <1>6, <1>7, WalkKeeps DEF ResolveFind

\* A record found in RCU-walk is in the table, so no grace period it misses has begun.
LEMMA ResolveBorrowKeeps ==
    ASSUME TargetInv, NEW t \in Tasks, ResolveBorrow(t)
    PROVE  TargetInv'
<1> USE DEF TargetInv, MemoryTypes, WalkTypes, Become
<1>1. WalkTypes'
  BY DEF ResolveBorrow
<1>2. \A u \in Tasks \ {t} : /\ pc'[u] = pc[u] /\ mode'[u] = mode[u]
                             /\ src'[u] = src[u] /\ wrec'[u] = wrec[u]
  BY DEF ResolveBorrow
<1>3. Holds(t)'
  BY DEF ResolveBorrow, WalkInv, Holds
<1>4. (wrec'[t] # Null => Safe(wrec'[t], t)) /\ (src'[t] # Null => Safe(src'[t], t))
  BY DEF ReadInv, ResolveBorrow
<1> HIDE DEF TargetInv, MemoryTypes, WalkTypes, Become
<1> QED
  BY <1>1, <1>2, <1>3, <1>4, WalkKeeps DEF ResolveBorrow

\* In ref-walk the object is referenced and the record let go.
LEMMA ResolveGetKeeps ==
    ASSUME TargetInv, NEW t \in Tasks, ResolveGet(t)
    PROVE  TargetInv'
<1> USE DEF TargetInv, MemoryTypes, WalkTypes, Become
<1>1. WalkTypes'
  BY DEF ResolveGet
<1>2. \A u \in Tasks \ {t} : /\ pc'[u] = pc[u] /\ mode'[u] = mode[u]
                             /\ src'[u] = src[u] /\ wrec'[u] = wrec[u]
  BY DEF ResolveGet
<1>3. wrec'[t] = Null /\ src'[t] = src[t] /\ mode'[t] = mode[t] /\ pc'[t] = "apply"
  BY DEF ResolveGet
<1>4. Holds(t)'
  BY <1>3 DEF ResolveGet, WalkInv, Holds
<1>5. src'[t] # Null => Safe(src'[t], t)
  BY <1>3 DEF ReadInv
<1> HIDE DEF TargetInv, MemoryTypes, WalkTypes, Become
<1> QED
  BY <1>1, <1>2, <1>3, <1>4, <1>5, WalkKeeps DEF ResolveGet

\* The walk stands on the target, in RCU-walk with its record as the source.
LEMMA ApplyKeepsInv ==
    ASSUME TargetInv, NEW t \in Tasks, Apply(t)
    PROVE  TargetInv'
<1>0. PICK p \in {"component", "complete"} : Become(t, pc, p)
  BY NextComponentPlaces DEF Apply
<1> USE DEF TargetInv, MemoryTypes, WalkTypes, Become
<1>1. WalkTypes'
  BY <1>0 DEF Apply
<1>2. \A u \in Tasks \ {t} : /\ pc'[u] = pc[u] /\ mode'[u] = mode[u]
                             /\ src'[u] = src[u] /\ wrec'[u] = wrec[u]
  BY <1>0 DEF Apply
<1>3. wrec'[t] = Null /\ src'[t] = wrec[t] /\ mode'[t] = mode[t] /\ pc'[t] = p /\ pc[t] = "apply"
  BY <1>0 DEF Apply
<1>4. Holds(t)'
  BY <1>3 DEF WalkInv, Holds
<1>5. src'[t] # Null => Safe(src'[t], t)
  BY <1>3 DEF ReadInv
<1> HIDE DEF TargetInv, MemoryTypes, WalkTypes, Become
<1> QED
  BY <1>1, <1>2, <1>3, <1>4, <1>5, WalkKeeps DEF Apply

\* A refused target: the record is let go.
LEMMA ApplyErrorKeeps ==
    ASSUME TargetInv, NEW t \in Tasks, ApplyError(t)
    PROVE  TargetInv'
<1> USE DEF TargetInv, MemoryTypes, WalkTypes, Become
<1>1. WalkTypes'
  BY DEF ApplyError
<1>2. \A u \in Tasks \ {t} : /\ pc'[u] = pc[u] /\ mode'[u] = mode[u]
                             /\ src'[u] = src[u] /\ wrec'[u] = wrec[u]
  BY DEF ApplyError
<1>3. wrec'[t] = Null /\ src'[t] = src[t] /\ mode'[t] = mode[t] /\ pc'[t] = "failed"
  BY DEF ApplyError
<1>4. Holds(t)'
  BY <1>3 DEF WalkInv, Holds
<1>5. src'[t] # Null => Safe(src'[t], t)
  BY <1>3 DEF ReadInv
<1> HIDE DEF TargetInv, MemoryTypes, WalkTypes, Become
<1> QED
  BY <1>1, <1>2, <1>3, <1>4, <1>5, WalkKeeps DEF ApplyError

\* All steps of a walk.
LEMMA WalkingKeeps ==
    ASSUME TargetInv, NEW t \in Tasks, WalkStart(t) \/ Walking(t) \/ PutResult(t)
    PROVE  TargetInv'
<1>0. /\ mode[t] \in {"rcu", "ref", "none"}
      /\ UNCHANGED mode => Become(t, mode, mode[t])
      /\ UNCHANGED pc => Become(t, pc, pc[t])
  BY DEF TargetInv, MemoryTypes, WalkTypes, Become
<1>1. CASE WalkStart(t)
  BY <1>1, StartAttemptKeeps DEF WalkStart
<1>2. CASE \/ WalkPass(t) \/ WalkRedirect(t) \/ WalkError(t)
           \/ \E k \in Keys : WalkSelect(t, k)
  BY <1>2, ComponentKeeps
<1>3. CASE ResolveNone(t)
  <2>1. pc[t] \notin {"borrow", "get", "apply"} /\ ErrorFrom(t)
    BY <1>3 DEF ResolveNone
  <2> QED
    BY <2>1, ErrorFromKeeps
<1>4. CASE ResolveFind(t) \/ ResolveBorrow(t) \/ ResolveGet(t) \/ ApplyError(t) \/ Apply(t)
  BY <1>4, ResolveFindKeeps, ResolveBorrowKeeps, ResolveGetKeeps, ApplyErrorKeeps, ApplyKeepsInv
<1>5. CASE CompleteUnlazy(t)
  <2>1. pc[t] = "complete"
    BY <1>5 DEF CompleteUnlazy
  <2>2. CASE UnlazyFails(t)
    BY <2>1, <2>2, UnlazyFailsKeeps
  <2>3. CASE Unlazied(t) /\ UNCHANGED <<pc, wrec>> /\ WalkStep
    <3>1. Become(t, mode, "ref") /\ Become(t, src, Null) /\ Become(t, pc, "complete")
      BY <1>0, <2>1, <2>3 DEF Unlazied
    <3> QED
      BY <2>1, <2>3, <3>1, FreeWalkKeeps
  <2> QED
    BY <1>5, <2>2, <2>3 DEF CompleteUnlazy
<1>6. CASE CompleteOk(t)
  <2>1. Become(t, pc, "done") /\ pc[t] = "complete" /\ mode[t] = "ref"
    BY <1>6 DEF CompleteOk
  <2> QED
    BY <1>0, <1>6, <2>1, FreeWalkKeeps DEF CompleteOk
<1>10. CASE CompleteFails(t) \/ GiveUp(t)
  <2>1. /\ UNCHANGED <<mode, src, wrec>> /\ WalkStep
        /\ pc[t] \notin {"borrow", "get", "apply"}
        /\ \E p \in {"failed", "idle"} : Become(t, pc, p)
    BY <1>10 DEF CompleteFails, GiveUp
  <2>2. PICK p \in {"failed", "idle"} : Become(t, pc, p)
    BY <2>1
  <2> QED
    BY <1>0, <2>1, <2>2, FreeWalkKeeps
<1>7. CASE Terminate(t)
  <2>1. Become(t, pc, "returned") /\ Become(t, mode, "none") /\ Become(t, src, Null)
    BY <1>7 DEF Terminate
  <2> QED
    BY <1>7, <2>1, FreeWalkKeeps DEF Terminate
<1>8. CASE Retry(t)
  BY <1>8, StartAttemptKeeps DEF Retry
<1>9. CASE PutResult(t)
  <2>1. Become(t, pc, "idle") /\ Become(t, mode, "none") /\ pc[t] = "done" /\ UNCHANGED <<src, wrec>>
    BY <1>9 DEF PutResult
  <2>2. src[t] = Null
    BY <2>1 DEF TargetInv, WalkInv, Holds
  <2>3. Become(t, src, Null)
    BY <2>1, <2>2 DEF Become, TargetInv, MemoryTypes, WalkTypes
  <2> QED
    BY <1>9, <2>1, <2>3, FreeWalkKeeps DEF PutResult
<1> QED
  BY <1>1, <1>2, <1>3, <1>4, <1>5, <1>6, <1>7, <1>8, <1>9, <1>10 DEF Walking

-----------------------------------------------------------------------------
(* The registry.                                                           *)

\* What an actor holds depends only on what it is doing.
LEMMA IdleHoldsNothing ==
    ASSUME NEW a \in Actors, act[a] = Idle
    PROVE  HeldBy(a) = {} /\ act[a].op = "idle"
  BY DEF HeldBy, Idle

\* The walks keep their records when no record becomes unsafe.
LEMMA RegistryKeepsReaders ==
    ASSUME TargetInv, UNCHANGED walkVars,
           \A r \in Records, t \in Tasks : Safe(r, t) /\ t \in InRcu => Safe(r, t)'
    PROVE  WalkTypes' /\ WalkInv' /\ ReadInv'
<1> USE DEF TargetInv, walkVars
<1>1. WalkTypes'
  BY DEF MemoryTypes, WalkTypes
<1>2. WalkInv'
  BY DEF WalkInv, Holds
<1>3. \A t \in Tasks : wrec[t] # Null \/ src[t] # Null => t \in InRcu
  BY DEF WalkInv, Holds, InRcu
<1>4. \A t \in Tasks : /\ wrec[t] # Null => wrec[t] \in Records
                       /\ src[t] # Null => src[t] \in Records
  BY DEF MemoryTypes, WalkTypes
<1>5. ReadInv'
  <2> SUFFICES ASSUME NEW t \in Tasks
               PROVE  (/\ wrec[t] # Null => Safe(wrec[t], t)
                       /\ src[t] # Null => Safe(src[t], t))'
    BY DEF ReadInv
  <2>1. \A r \in Records : Safe(r, t) /\ t \in InRcu =>
            \/ r \in linked'
            \/ \E a \in Actors : act'[a].op = "clear" /\ r \in act'[a].recs
            \/ \E a \in Actors : act'[a].op = "retire" /\ r \in act'[a].recs /\ t \in grace'[a]
    BY DEF Safe
  <2> QED
    BY <1>3, <1>4, <2>1 DEF ReadInv, Safe
<1> QED
  BY <1>1, <1>2, <1>5

\* Ownership, record by record.
LEMMA Ownership ==
    ASSUME TargetInv
    PROVE  /\ \A r : r \in allocated <=> r \in linked \/ \E a \in Actors : r \in HeldBy(a)
           /\ \A a, b \in Actors : a # b => \A r : ~(r \in HeldBy(a) /\ r \in HeldBy(b))
           /\ \A a \in Actors : \A r : ~(r \in HeldBy(a) /\ r \in linked)
  BY DEF TargetInv, NoLeak

\* A new record is one nobody has.
LEMMA RegisterBeginKeeps ==
    ASSUME TargetInv, NEW w \in Writers, NEW c \in Cgroups, NEW id \in TargetIds,
           NEW o \in Objects, RegisterBegin(w, c, id, o)
    PROVE  TargetInv'
<1> USE DEF TargetInv
<1>0. w \in Actors /\ w \notin Cgroups /\ act[w] = Idle /\ life[c] = "live"
  BY TargetConstants DEF Actors, RegisterBegin
<1>1. PICK r \in Records \ allocated :
          /\ allocated' = allocated \cup {r}
          /\ rec' = [rec EXCEPT ![r] = [cgrp |-> c, id |-> id, obj |-> o]]
          /\ act' = [act EXCEPT ![w] = [op |-> "register", cgrp |-> c, new |-> r]]
  BY DEF RegisterBegin
<1>2. UNCHANGED <<life, linked, lock, grace, walkVars>>
  BY DEF RegisterBegin
<1>3. HeldBy(w) = {} /\ act[w].op = "idle"
  BY <1>0, IdleHoldsNothing
<1>4. HeldBy(w)' = {r} /\ act'[w].op = "register" /\ act'[w].cgrp = c
  BY <1>0, <1>1 DEF HeldBy, MemoryTypes
<1>5. \A a \in Actors : a # w => HeldBy(a)' = HeldBy(a) /\ act'[a] = act[a]
  BY <1>0, <1>1 DEF HeldBy, MemoryTypes
<1>6. WalkTypes' /\ WalkInv' /\ ReadInv'
  <2>1. \A q \in Records, t \in Tasks : Safe(q, t) /\ t \in InRcu => Safe(q, t)'
    BY <1>2, <1>3, <1>5 DEF Safe
  <2> QED
    BY <1>2, <2>1, RegistryKeepsReaders
<1>7. MemoryTypes'
  BY <1>0, <1>1, <1>2, <1>6 DEF MemoryTypes, Registering
<1>8. LockInv'
  BY <1>2, <1>3, <1>4, <1>5 DEF LockInv
<1>9. \A q \in allocated : rec'[q] = rec[q]
  BY <1>1 DEF MemoryTypes
<1>10. CgroupInv'
  <2>1. \A v \in Writers : act'[v] # Idle => life'[act'[v].cgrp] # "released"
    BY <1>0, <1>2, <1>4, <1>5 DEF CgroupInv, Actors
  <2>2. \A d \in Cgroups : act'[d] = act[d]
    BY <1>0, <1>5 DEF Actors
  <2>3. \A a \in Actors : \A q \in HeldBy(a)' : rec'[q].cgrp = act'[a].cgrp
    <3> SUFFICES ASSUME NEW a \in Actors, NEW q \in HeldBy(a)' PROVE rec'[q].cgrp = act'[a].cgrp
      OBVIOUS
    <3>1. CASE a = w
      BY <3>1, <1>1, <1>4 DEF MemoryTypes
    <3>2. CASE a # w
      <4>1. q \in HeldBy(a) /\ act'[a] = act[a]
        BY <3>2, <1>5
      <4>2. q \in allocated
        BY <4>1, Ownership
      <4> QED
        BY <4>1, <4>2, <1>9 DEF CgroupInv
    <3> QED
      BY <3>1, <3>2
  <2>4. \A q \in linked : q \in allocated
    BY Ownership
  <2> QED
    BY <1>2, <1>9, <2>1, <2>2, <2>3, <2>4 DEF CgroupInv
<1>11. NoLeak'
  <2>1. \A q : q \in allocated' <=> q \in linked' \/ \E a \in Actors : q \in HeldBy(a)'
    BY <1>0, <1>1, <1>2, <1>3, <1>4, <1>5, Ownership
  <2>2. \A a \in Actors : HeldBy(a)' \cap linked' = {}
    BY <1>0, <1>1, <1>2, <1>4, <1>5, Ownership
  <2>3. \A a, b \in Actors : a # b => HeldBy(a)' \cap HeldBy(b)' = {}
    BY <1>0, <1>1, <1>4, <1>5, Ownership
  <2>4. \A q \in linked : q \in allocated
    BY Ownership
  <2> QED
    BY <1>2, <1>9, <2>1, <2>2, <2>3, <2>4 DEF NoLeak
<1> HIDE DEF TargetInv
<1> QED
  BY <1>6, <1>7, <1>8, <1>10, <1>11 DEF TargetInv

\* An actor frees what it holds: a record that was never linked, or records
\* whose grace period is over.
LEMMA FreeKeeps ==
    ASSUME TargetInv, NEW a \in Actors, FreeRecords(HeldBy(a)),
           act[a].op = "register" \/ (act[a].op = "retire" /\ grace[a] = {}),
           act' = [act EXCEPT ![a] = Idle],
           UNCHANGED <<life, linked, lock, grace, walkVars>>
    PROVE  TargetInv'
<1> USE DEF TargetInv
<1>1. HeldBy(a)' = {} /\ act'[a] = Idle /\ act'[a].op = "idle"
  BY DEF HeldBy, Idle, MemoryTypes
<1>2. \A b \in Actors : b # a => HeldBy(b)' = HeldBy(b) /\ act'[b] = act[b]
  BY DEF HeldBy, MemoryTypes
<1>3. WalkTypes' /\ WalkInv' /\ ReadInv'
  <2>1. \A q \in Records, t \in Tasks : Safe(q, t) /\ t \in InRcu => Safe(q, t)'
    BY <1>2 DEF Safe
  <2> QED
    BY <2>1, RegistryKeepsReaders
<1>4. MemoryTypes'
  BY <1>3 DEF MemoryTypes, FreeRecords
<1>5. LockInv'
  BY <1>1, <1>2 DEF LockInv
<1>6. /\ allocated' = allocated \ HeldBy(a)
      /\ \A q \in Records : q \notin HeldBy(a) => rec'[q] = rec[q]
  BY DEF FreeRecords
<1>7. \A q \in linked : rec'[q] = rec[q]
  BY <1>6, Ownership DEF MemoryTypes
<1>8. CgroupInv'
  <2>1. \A v \in Writers : act'[v] # Idle => life'[act'[v].cgrp] # "released"
    BY <1>1, <1>2 DEF CgroupInv, Actors
  <2>2. \A d \in Cgroups : act'[d] # Idle => act'[d] = act[d]
    BY <1>1, <1>2 DEF Actors
  <2>3. \A b \in Actors : \A q \in HeldBy(b)' : rec'[q].cgrp = act'[b].cgrp
    <3> SUFFICES ASSUME NEW b \in Actors, NEW q \in HeldBy(b)' PROVE rec'[q].cgrp = act'[b].cgrp
      OBVIOUS
    <3>1. b # a /\ q \in HeldBy(b) /\ act'[b] = act[b]
      BY <1>1, <1>2
    <3>2. q \in Records /\ q \notin HeldBy(a)
      BY <3>1, Ownership DEF MemoryTypes
    <3> QED
      BY <1>6, <3>1, <3>2 DEF CgroupInv
  <2>4. \A q \in linked : life[rec[q].cgrp] = "released" => act'[rec[q].cgrp].op = "clear"
    <3> SUFFICES ASSUME NEW q \in linked, life[rec[q].cgrp] = "released"
                 PROVE  act'[rec[q].cgrp].op = "clear"
      OBVIOUS
    <3>1. rec[q].cgrp \in Actors /\ act[rec[q].cgrp].op = "clear"
      BY DEF CgroupInv, Actors
    <3> QED
      BY <1>2, <3>1
  <2> QED
    BY <1>7, <2>1, <2>2, <2>3, <2>4 DEF CgroupInv
<1>9. NoLeak'
  <2>1. \A q : q \in allocated' <=> q \in linked' \/ \E b \in Actors : q \in HeldBy(b)'
    BY <1>1, <1>2, <1>6, Ownership
  <2>2. \A b \in Actors : HeldBy(b)' \cap linked' = {}
    BY <1>1, <1>2, Ownership
  <2>3. \A b, d \in Actors : b # d => HeldBy(b)' \cap HeldBy(d)' = {}
    BY <1>1, <1>2, Ownership
  <2> QED
    BY <1>7, <2>1, <2>2, <2>3 DEF NoLeak
<1> HIDE DEF TargetInv
<1> QED
  BY <1>3, <1>4, <1>5, <1>8, <1>9 DEF TargetInv

\* The cgroup is gone: the new record was never in the table.
LEMMA RegisterDeadKeeps ==
    ASSUME TargetInv, NEW w \in Writers, RegisterDead(w)
    PROVE  TargetInv'
<1>1. w \in Actors /\ act[w].op = "register" /\ HeldBy(w) = {act[w].new}
  BY DEF RegisterDead, HeldBy, Actors
<1>2. FreeRecords(HeldBy(w))
  BY <1>1 DEF RegisterDead
<1> QED
  BY <1>1, <1>2, FreeKeeps DEF RegisterDead

\* The grace period is over: nobody can have found the record since.
LEMMA RetiredKeeps ==
    ASSUME TargetInv, NEW a \in Actors, Retired(a)
    PROVE  TargetInv'
<1>1. act[a].op = "retire" /\ HeldBy(a) = act[a].recs
  BY DEF Retired, HeldBy
<1>2. FreeRecords(HeldBy(a))
  BY <1>1 DEF Retired
<1> QED
  BY <1>1, <1>2, FreeKeeps DEF Retired

\* Retire leaves the actor with exactly the records it retires, and every walk
\* that could have found one of them in its grace period.
LEMMA RetireEffect ==
    ASSUME TargetInv, NEW a \in Actors, NEW rs \in SUBSET Records, Retire(a, rs),
           act[a].cgrp \in Cgroups
    PROVE  /\ act' \in [Actors -> {Idle} \cup Registering \cup Removing]
           /\ grace' \in [Actors -> SUBSET Tasks]
           /\ HeldBy(a)' = rs
           /\ act'[a].op # "clear"
           /\ act'[a] # Idle => act'[a].op = "retire" /\ act'[a].cgrp = act[a].cgrp
           /\ rs # {} => act'[a].op = "retire" /\ act'[a].recs = rs /\ grace'[a] = InRcu
           /\ \A b \in Actors : b # a => /\ HeldBy(b)' = HeldBy(b) /\ act'[b] = act[b]
                                         /\ grace'[b] = grace[b]
<1> USE DEF TargetInv, MemoryTypes
<1>1. CASE rs = {}
  <2>1. act' = [act EXCEPT ![a] = Idle] /\ grace' = grace
    BY <1>1 DEF Retire
  <2> QED
    BY <1>1, <2>1 DEF HeldBy, Idle
<1>2. CASE rs # {}
  <2>1. /\ act' = [act EXCEPT ![a] = [op |-> "retire", cgrp |-> act[a].cgrp, recs |-> rs]]
        /\ grace' = [grace EXCEPT ![a] = InRcu]
    BY <1>2 DEF Retire, GraceReaders
  <2>2. InRcu \subseteq Tasks
    BY DEF InRcu
  <2>3. act'[a] = [op |-> "retire", cgrp |-> act[a].cgrp, recs |-> rs]
    BY <2>1
  <2>4. act'[a] \in Removing
    BY <2>3 DEF Removing
  <2>5. act' \in [Actors -> {Idle} \cup Registering \cup Removing]
    BY <2>1, <2>3, <2>4
  <2>6. \A b \in Actors : b # a => /\ HeldBy(b)' = HeldBy(b) /\ act'[b] = act[b]
                                   /\ grace'[b] = grace[b]
    BY <2>1 DEF HeldBy
  <2>7. HeldBy(a)' = rs
    BY <2>3 DEF HeldBy
  <2> QED
    BY <1>2, <2>1, <2>2, <2>3, <2>5, <2>6, <2>7
<1> QED
  BY <1>1, <1>2

\* The record of the same id, if there is one, leaves the table for the new one.
LEMMA RegisterInstallKeeps ==
    ASSUME TargetInv, NEW w \in Writers, RegisterInstall(w)
    PROVE  TargetInv'
<1> DEFINE new == act[w].new
           same == Found(<<rec[new].cgrp, rec[new].id>>)
<1> USE DEF TargetInv
<1>0. /\ w \in Actors /\ w \notin Cgroups
      /\ act[w].op = "register" /\ act[w] # Idle /\ life[act[w].cgrp] = "live"
  BY TargetConstants DEF Actors, RegisterInstall, Idle
<1>1. act[w].cgrp \in Cgroups /\ new \in Records /\ HeldBy(w) = {new}
  BY <1>0 DEF MemoryTypes, Registering, Removing, Idle, HeldBy
<1>2. rec[new].cgrp = act[w].cgrp
  BY <1>0, <1>1 DEF CgroupInv
<1>3. /\ linked' = (linked \ same) \cup {new} /\ Retire(w, same)
      /\ UNCHANGED <<life, rec, allocated, lock, walkVars>>
  BY DEF RegisterInstall
<1>4. /\ same \subseteq linked /\ same \in SUBSET Records
      /\ \A q \in linked : q \in same <=> rec[q].cgrp = rec[new].cgrp /\ rec[q].id = rec[new].id
  BY DEF Found, MemoryTypes
<1> HIDE DEF new, same, TargetInv
<1>5. /\ act' \in [Actors -> {Idle} \cup Registering \cup Removing]
      /\ grace' \in [Actors -> SUBSET Tasks]
      /\ HeldBy(w)' = same
      /\ act'[w].op # "clear"
      /\ act'[w] # Idle => act'[w].op = "retire" /\ act'[w].cgrp = act[w].cgrp
      /\ same # {} => act'[w].op = "retire" /\ act'[w].recs = same /\ grace'[w] = InRcu
      /\ \A b \in Actors : b # w => /\ HeldBy(b)' = HeldBy(b) /\ act'[b] = act[b]
                                    /\ grace'[b] = grace[b]
  BY <1>0, <1>1, <1>3, <1>4, RetireEffect
<1> USE DEF TargetInv
<1>6. WalkTypes' /\ WalkInv' /\ ReadInv'
  <2>1. \A q \in Records, t \in Tasks : Safe(q, t) /\ t \in InRcu => Safe(q, t)'
    BY <1>0, <1>3, <1>5 DEF Safe
  <2> QED
    BY <1>3, <2>1, RegistryKeepsReaders
<1>7. MemoryTypes'
  BY <1>1, <1>3, <1>5, <1>6 DEF MemoryTypes
<1>8. LockInv'
  BY <1>0, <1>3, <1>5 DEF LockInv
<1>9. CgroupInv'
  <2>1. \A v \in Writers : act'[v] # Idle => life'[act'[v].cgrp] # "released"
    BY <1>0, <1>3, <1>5 DEF CgroupInv, Actors
  <2>2. \A d \in Cgroups : act'[d] = act[d]
    BY <1>0, <1>5 DEF Actors
  <2>3. \A a \in Actors : \A q \in HeldBy(a)' : rec'[q].cgrp = act'[a].cgrp
    <3> SUFFICES ASSUME NEW a \in Actors, NEW q \in HeldBy(a)' PROVE rec'[q].cgrp = act'[a].cgrp
      OBVIOUS
    <3>1. CASE a = w
      <4>1. q \in same /\ act'[w].op = "retire"
        BY <3>1, <1>5
      <4>2. act'[w].cgrp = act[w].cgrp
        BY <4>1, <1>5 DEF Idle
      <4> QED
        BY <3>1, <4>1, <4>2, <1>2, <1>3, <1>4
    <3>2. CASE a # w
      BY <3>2, <1>3, <1>5 DEF CgroupInv
    <3> QED
      BY <3>1, <3>2
  <2>4. \A q \in linked' : /\ rec'[q].cgrp \in Cgroups
                           /\ life'[rec'[q].cgrp] = "released" => act'[rec'[q].cgrp].op = "clear"
    BY <1>0, <1>1, <1>2, <1>3, <2>2 DEF CgroupInv
  <2> QED
    BY <1>3, <2>1, <2>2, <2>3, <2>4 DEF CgroupInv
<1>10. NoLeak'
  <2>1. \A q : q \in allocated' <=> q \in linked' \/ \E a \in Actors : q \in HeldBy(a)'
    BY <1>0, <1>1, <1>3, <1>4, <1>5, Ownership
  <2>2. \A a \in Actors : HeldBy(a)' \cap linked' = {}
    BY <1>0, <1>1, <1>3, <1>4, <1>5, Ownership
  <2>3. \A a, b \in Actors : a # b => HeldBy(a)' \cap HeldBy(b)' = {}
    BY <1>0, <1>1, <1>4, <1>5, Ownership
  <2>4. \A q, z \in linked' : rec'[q].cgrp = rec'[z].cgrp /\ rec'[q].id = rec'[z].id => q = z
    BY <1>3, <1>4 DEF NoLeak
  <2> QED
    BY <2>1, <2>2, <2>3, <2>4 DEF NoLeak
<1> HIDE DEF TargetInv
<1> QED
  BY <1>6, <1>7, <1>8, <1>9, <1>10 DEF TargetInv

\* What a clear took out waits for the readers of the moment.
LEMMA ClearEndKeeps ==
    ASSUME TargetInv, NEW a \in Actors, ClearEnd(a)
    PROVE  TargetInv'
<1> USE DEF TargetInv
<1>0. act[a].op = "clear" /\ lock = a /\ act[a] # Idle
  BY DEF LockInv, ClearEnd, Idle
<1>1. act[a].cgrp \in Cgroups /\ act[a].recs \in SUBSET Records /\ HeldBy(a) = act[a].recs
  BY <1>0 DEF MemoryTypes, Registering, Removing, Idle, HeldBy
<1>2. /\ Retire(a, act[a].recs) /\ lock' = Null
      /\ \A r \in linked : rec[r].cgrp # act[a].cgrp
      /\ UNCHANGED <<life, linked, rec, allocated, walkVars>>
  BY DEF ClearEnd
<1> HIDE DEF TargetInv
<1>3. /\ act' \in [Actors -> {Idle} \cup Registering \cup Removing]
      /\ grace' \in [Actors -> SUBSET Tasks]
      /\ HeldBy(a)' = act[a].recs
      /\ act'[a].op # "clear"
      /\ act'[a] # Idle => act'[a].op = "retire" /\ act'[a].cgrp = act[a].cgrp
      /\ act[a].recs # {} => /\ act'[a].op = "retire" /\ act'[a].recs = act[a].recs
                             /\ grace'[a] = InRcu
      /\ \A b \in Actors : b # a => /\ HeldBy(b)' = HeldBy(b) /\ act'[b] = act[b]
                                    /\ grace'[b] = grace[b]
  BY <1>1, <1>2, RetireEffect
<1> USE DEF TargetInv
<1>4. WalkTypes' /\ WalkInv' /\ ReadInv'
  <2>1. \A q \in Records, t \in Tasks : Safe(q, t) /\ t \in InRcu => Safe(q, t)'
    BY <1>0, <1>2, <1>3 DEF Safe
  <2> QED
    BY <1>2, <2>1, RegistryKeepsReaders
<1>5. MemoryTypes'
  BY <1>2, <1>3, <1>4 DEF MemoryTypes
<1>6. LockInv'
  BY <1>0, <1>2, <1>3, TargetConstants DEF LockInv, Actors
<1>7. CgroupInv'
  <2>1. \A v \in Writers : act'[v] # Idle => life'[act'[v].cgrp] # "released"
    BY <1>0, <1>2, <1>3 DEF CgroupInv, Actors
  <2>2. \A d \in Cgroups : act'[d] # Idle => /\ act'[d].op \in {"clear", "retire"}
                                             /\ act'[d].cgrp = d /\ life'[d] = "released"
    BY <1>0, <1>2, <1>3 DEF CgroupInv, Actors
  <2>3. \A b \in Actors : HeldBy(b)' = HeldBy(b) /\ (HeldBy(b)' # {} => act'[b].cgrp = act[b].cgrp)
    BY <1>1, <1>3 DEF Idle
  <2>4. \A b \in Actors : \A q \in HeldBy(b)' : rec'[q].cgrp = act'[b].cgrp
    BY <1>2, <2>3 DEF CgroupInv
  <2>5. \A q \in linked : life[rec[q].cgrp] = "released" => act'[rec[q].cgrp].op = "clear"
    <3> SUFFICES ASSUME NEW q \in linked, life[rec[q].cgrp] = "released"
                 PROVE  act'[rec[q].cgrp].op = "clear"
      OBVIOUS
    <3>1. rec[q].cgrp \in Cgroups /\ rec[q].cgrp \in Actors /\ act[rec[q].cgrp].op = "clear"
      BY DEF CgroupInv, Actors
    <3>2. rec[q].cgrp # a
      BY <1>0, <1>2, <3>1 DEF CgroupInv
    <3> QED
      BY <1>3, <3>1, <3>2
  <2> QED
    BY <1>2, <2>1, <2>2, <2>4, <2>5 DEF CgroupInv
<1>8. NoLeak'
  <2>1. \A b \in Actors : HeldBy(b)' = HeldBy(b)
    BY <1>1, <1>3
  <2> QED
    BY <1>2, <2>1 DEF NoLeak
<1> HIDE DEF TargetInv
<1> QED
  BY <1>4, <1>5, <1>6, <1>7, <1>8 DEF TargetInv

\* A clear removes one record after the other.
LEMMA ClearOneKeeps ==
    ASSUME TargetInv, NEW a \in Actors, ClearOne(a)
    PROVE  TargetInv'
<1> USE DEF TargetInv
<1>0. act[a].op = "clear" /\ lock = a /\ act[a] # Idle
  BY DEF LockInv, ClearOne, Idle
<1>1. act[a] \in Removing /\ act[a].recs \in SUBSET Records /\ HeldBy(a) = act[a].recs
  BY <1>0 DEF MemoryTypes, Registering, Removing, Idle, HeldBy
<1>2. PICK r \in linked : /\ rec[r].cgrp = act[a].cgrp
                          /\ linked' = linked \ {r}
                          /\ act' = [act EXCEPT ![a].recs = @ \cup {r}]
  BY DEF ClearOne
<1>3. UNCHANGED <<life, rec, allocated, lock, grace, walkVars>>
  BY DEF ClearOne
<1>4. act'[a] = [act[a] EXCEPT !.recs = @ \cup {r}]
  BY <1>2 DEF MemoryTypes
<1>5. /\ act'[a].op = "clear" /\ act'[a].cgrp = act[a].cgrp
      /\ act'[a].recs = act[a].recs \cup {r} /\ act'[a] \in Removing
  BY <1>0, <1>1, <1>2, <1>4 DEF Removing, MemoryTypes
<1>6. HeldBy(a)' = HeldBy(a) \cup {r}
  BY <1>1, <1>5 DEF HeldBy
<1>7. \A b \in Actors : b # a => HeldBy(b)' = HeldBy(b) /\ act'[b] = act[b]
  BY <1>2 DEF HeldBy, MemoryTypes
<1>8. WalkTypes' /\ WalkInv' /\ ReadInv'
  <2>1. \A q \in Records, t \in Tasks : Safe(q, t) /\ t \in InRcu => Safe(q, t)'
    BY <1>0, <1>2, <1>3, <1>5, <1>7 DEF Safe
  <2> QED
    BY <1>3, <2>1, RegistryKeepsReaders
<1>9. MemoryTypes'
  BY <1>2, <1>3, <1>5, <1>7, <1>8 DEF MemoryTypes
<1>10. LockInv'
  BY <1>0, <1>3, <1>5, <1>7 DEF LockInv
<1>11. CgroupInv'
  <2>1. \A b \in Actors : act'[b] # Idle => act[b] # Idle /\ act'[b].cgrp = act[b].cgrp
                                            /\ act'[b].op = act[b].op
    BY <1>0, <1>5, <1>7
  <2>2. \A b \in Actors : \A q \in HeldBy(b)' : rec'[q].cgrp = act'[b].cgrp
    BY <1>2, <1>3, <1>5, <1>6, <1>7 DEF CgroupInv
  <2>3. \A b \in Actors : act[b].op = "clear" => act'[b].op = "clear"
    BY <1>5, <1>7
  <2> QED
    BY <1>2, <1>3, <2>1, <2>2, <2>3 DEF CgroupInv, Actors
<1>12. NoLeak'
  <2>1. \A q : q \in allocated' <=> q \in linked' \/ \E b \in Actors : q \in HeldBy(b)'
    BY <1>2, <1>3, <1>6, <1>7, Ownership
  <2>2. \A b \in Actors : HeldBy(b)' \cap linked' = {}
    BY <1>2, <1>6, <1>7, Ownership
  <2>3. \A b, d \in Actors : b # d => HeldBy(b)' \cap HeldBy(d)' = {}
    BY <1>2, <1>6, <1>7, Ownership
  <2> QED
    BY <1>2, <1>3, <2>1, <2>2, <2>3 DEF NoLeak
<1> HIDE DEF TargetInv
<1> QED
  BY <1>8, <1>9, <1>10, <1>11, <1>12 DEF TargetInv

\* A clear begins, by a writer or by the release worker of a removed cgroup.
LEMMA BeginKeeps ==
    ASSUME TargetInv, NEW a \in Actors, NEW c \in Cgroups, act[a] = Idle, lock = Null,
           act' = [act EXCEPT ![a] = [op |-> "clear", cgrp |-> c, recs |-> {}]],
           lock' = a,
           UNCHANGED <<linked, rec, allocated, grace, walkVars>>,
           \/ a \in Writers /\ life[c] # "released" /\ UNCHANGED life
           \/ a = c /\ ~Referenced(c) /\ life' = [life EXCEPT ![c] = "released"]
    PROVE  TargetInv'
<1> USE DEF TargetInv
<1>1. /\ act'[a] = [op |-> "clear", cgrp |-> c, recs |-> {}]
      /\ act'[a].op = "clear" /\ act'[a].cgrp = c /\ act'[a].recs = {}
  BY DEF MemoryTypes
<1>2. HeldBy(a)' = {} /\ HeldBy(a) = {} /\ act[a].op = "idle"
  BY <1>1, IdleHoldsNothing DEF HeldBy
<1>3. \A b \in Actors : b # a => HeldBy(b)' = HeldBy(b) /\ act'[b] = act[b]
  BY DEF HeldBy, MemoryTypes
<1>4. WalkTypes' /\ WalkInv' /\ ReadInv'
  <2>1. \A q \in Records, t \in Tasks : Safe(q, t) /\ t \in InRcu => Safe(q, t)'
    BY <1>2, <1>3 DEF Safe
  <2> QED
    BY <2>1, RegistryKeepsReaders
<1>5. MemoryTypes'
  BY <1>1, <1>4 DEF MemoryTypes, Removing
<1>6. LockInv'
  BY <1>1, <1>3, TargetConstants DEF LockInv, Actors
<1>7. \A b \in Actors : HeldBy(b)' = HeldBy(b)
  BY <1>2, <1>3
<1>8. CgroupInv'
  <2>1. \A v \in Writers : act'[v] # Idle => life'[act'[v].cgrp] # "released"
    <3> SUFFICES ASSUME NEW v \in Writers, act'[v] # Idle
                 PROVE  life'[act'[v].cgrp] # "released"
      OBVIOUS
    <3>1. CASE a \in Writers /\ life[c] # "released" /\ UNCHANGED life
      BY <3>1, <1>1, <1>3 DEF CgroupInv, Actors
    <3>2. CASE a = c /\ ~Referenced(c) /\ life' = [life EXCEPT ![c] = "released"]
      <4>1. v # a /\ act'[v] = act[v]
        BY <3>2, <1>3, TargetConstants DEF Actors
      <4>2. life[act[v].cgrp] # "released" /\ act[v].cgrp # c
        BY <3>2, <4>1 DEF CgroupInv, Referenced
      <4> QED
        BY <3>2, <4>1, <4>2 DEF MemoryTypes
    <3> QED
      BY <3>1, <3>2
  <2>2. \A d \in Cgroups : act'[d] # Idle => /\ act'[d].op \in {"clear", "retire"}
                                             /\ act'[d].cgrp = d /\ life'[d] = "released"
    BY <1>1, <1>3, TargetConstants DEF CgroupInv, Actors, MemoryTypes
  <2>3. \A b \in Actors : \A q \in HeldBy(b)' : rec'[q].cgrp = act'[b].cgrp
    BY <1>2, <1>3 DEF CgroupInv
  <2>4. \A q \in linked : /\ rec[q].cgrp \in Cgroups
                          /\ life'[rec[q].cgrp] = "released" => act'[rec[q].cgrp].op = "clear"
    BY <1>1, <1>3 DEF CgroupInv, Actors, MemoryTypes
  <2> QED
    BY <2>1, <2>2, <2>3, <2>4 DEF CgroupInv
<1>9. NoLeak'
  BY <1>7 DEF NoLeak
<1> HIDE DEF TargetInv
<1> QED
  BY <1>4, <1>5, <1>6, <1>8, <1>9 DEF TargetInv

\* The release of a cgroup clears its records.
LEMMA ReleaseBeginKeeps ==
    ASSUME TargetInv, NEW c \in Cgroups, ReleaseBegin(c)
    PROVE  TargetInv'
<1>1. c \in Actors /\ act[c] = Idle
  BY DEF TargetInv, CgroupInv, ReleaseBegin, Actors
<1> QED
  BY <1>1, BeginKeeps DEF ReleaseBegin

\* So does the command.
LEMMA ClearBeginKeeps ==
    ASSUME TargetInv, NEW w \in Writers, NEW c \in Cgroups, ClearBegin(w, c)
    PROVE  TargetInv'
<1>1. w \in Actors /\ life[c] # "released"
  BY DEF ClearBegin, Actors
<1> QED
  BY <1>1, BeginKeeps DEF ClearBegin

\* rmdir, an object losing its last outside reference, and stuttering.
LEMMA OutsideKeeps ==
    ASSUME TargetInv, UNCHANGED <<linked, rec, allocated, lock, act, grace, walkVars>>,
           life' \in [Cgroups -> {"live", "dead", "released"}],
           \A c \in Cgroups : life'[c] = "released" <=> life[c] = "released"
    PROVE  TargetInv'
<1> USE DEF TargetInv
<1>1. \A b \in Actors : HeldBy(b)' = HeldBy(b)
  BY DEF HeldBy
<1>2. WalkTypes' /\ WalkInv' /\ ReadInv'
  <2>1. \A q \in Records, t \in Tasks : Safe(q, t) /\ t \in InRcu => Safe(q, t)'
    BY DEF Safe
  <2> QED
    BY <2>1, RegistryKeepsReaders
<1>3. MemoryTypes' /\ LockInv'
  BY <1>2 DEF MemoryTypes, LockInv
<1>4. CgroupInv'
  <2>1. \A w \in Writers : act[w] # Idle => act[w].cgrp \in Cgroups
    BY DEF MemoryTypes, Registering, Removing, Actors
  <2> QED
    BY <1>1, <2>1 DEF CgroupInv
<1>5. NoLeak'
  BY <1>1 DEF NoLeak
<1> HIDE DEF TargetInv
<1> QED
  BY <1>2, <1>3, <1>4, <1>5 DEF TargetInv

-----------------------------------------------------------------------------
(* The theorems.                                                           *)

\* There is no record at first.
LEMMA InitInv == Init => TargetInv
<1> SUFFICES ASSUME Init PROVE TargetInv
  OBVIOUS
<1>1. \A a \in Actors : act[a] = Idle /\ act[a].op = "idle" /\ HeldBy(a) = {}
  BY DEF Init, HeldBy, Idle
<1>2. MemoryTypes
  BY DEF Init, MemoryTypes, WalkTypes, NoRecord
<1>3. LockInv
  BY <1>1, TargetConstants DEF Init, LockInv, Actors
<1>4. CgroupInv
  BY <1>1 DEF Init, CgroupInv, Actors
<1>5. WalkInv /\ ReadInv
  BY DEF Init, WalkInv, Holds, ReadInv
<1>6. NoLeak
  BY <1>1 DEF Init, NoLeak
<1> QED
  BY <1>2, <1>3, <1>4, <1>5, <1>6 DEF TargetInv

\* Every step keeps the invariant.
LEMMA StepInv == TargetInv /\ [Next]_vars => TargetInv'
<1> SUFFICES ASSUME TargetInv, [Next]_vars PROVE TargetInv'
  OBVIOUS
<1>1. ASSUME NEW w \in Writers, NEW c \in Cgroups, NEW id \in TargetIds, NEW o \in Objects,
             RegisterBegin(w, c, id, o)
      PROVE  TargetInv'
  BY <1>1, RegisterBeginKeeps
<1>2. ASSUME NEW w \in Writers, NEW c \in Cgroups, ClearBegin(w, c) PROVE TargetInv'
  BY <1>2, ClearBeginKeeps
<1>3. ASSUME NEW a \in Actors, Updating(a) PROVE TargetInv'
  BY <1>3, RegisterDeadKeeps, RegisterInstallKeeps, ClearOneKeeps, ClearEndKeeps, RetiredKeeps
     DEF Updating
<1>4. ASSUME NEW c \in Cgroups, Rmdir(c) PROVE TargetInv'
  <2>1. /\ life' \in [Cgroups -> {"live", "dead", "released"}]
        /\ \A d \in Cgroups : life'[d] = "released" <=> life[d] = "released"
    BY <1>4 DEF Rmdir, TargetInv, MemoryTypes
  <2> QED
    BY <1>4, <2>1, OutsideKeeps DEF Rmdir
<1>5. ASSUME NEW c \in Cgroups, ReleaseBegin(c) PROVE TargetInv'
  BY <1>5, ReleaseBeginKeeps
<1>6. ASSUME NEW o \in Objects, Unpin(o) PROVE TargetInv'
  BY <1>6, OutsideKeeps DEF Unpin, TargetInv, MemoryTypes
<1>7. ASSUME NEW t \in Tasks, WalkStart(t) \/ Walking(t) \/ PutResult(t) PROVE TargetInv'
  BY <1>7, WalkingKeeps
<1>8. CASE UNCHANGED vars
  BY <1>8, OutsideKeeps DEF vars, registryVars, TargetInv, MemoryTypes
<1> QED
  BY <1>1, <1>2, <1>3, <1>4, <1>5, <1>6, <1>7, <1>8 DEF Next

\* The records that walks hold are not free memory.
LEMMA HeldRecords ==
    ASSUME TargetInv, NEW t \in Tasks
    PROVE  /\ wrec[t] # Null => wrec[t] \in allocated
           /\ src[t] # Null => src[t] \in allocated
<1>1. \A r : Safe(r, t) => r \in linked \/ \E a \in Actors : r \in HeldBy(a)
  BY DEF Safe, HeldBy
<1> QED
  BY <1>1, Ownership DEF TargetInv, ReadInv

\* The ownership of target records, the lock, and what walks may hold, at every
\* step of registrations, replacements, clears, removals and walks.
THEOREM TargetsSafe == Spec => []TargetInv
  BY InitInv, StepInv, PTL DEF Spec

\* namei_ext_resolve_target and a walk on a borrowed target never touch a freed
\* namei_ext_target, whichever replacement, clear or cgroup removal they race.
THEOREM TargetsNeverUsedAfterFree == Spec => []NoUseAfterFree
<1>1. TargetInv => NoUseAfterFree
  BY HeldRecords DEF NoUseAfterFree
<1> QED
  BY <1>1, TargetsSafe, PTL

\* A target record is in the table or belongs to exactly one call of register,
\* clear or release, and no key is in the table twice.
THEOREM TargetsNeverLeak == Spec => []NoLeak
<1>1. TargetInv => NoLeak
  BY DEF TargetInv
<1> QED
  BY <1>1, TargetsSafe, PTL

\* After namei_ext_cgroup_release no target of the cgroup is left, registered
\* or being registered.
THEOREM TargetReleaseIsFinal == Spec => []ReleasedLeavesNothing
<1>1. TargetInv => ReleasedLeavesNothing
  <2> SUFFICES ASSUME TargetInv, NEW c \in Cgroups, life[c] = "released", act[c] = Idle,
                      NEW r \in allocated, rec[r].cgrp = c
               PROVE  FALSE
    BY DEF ReleasedLeavesNothing
  <2>1. r \notin linked
    BY DEF TargetInv, CgroupInv, Idle
  <2>2. PICK a \in Actors : r \in HeldBy(a)
    BY <2>1, Ownership
  <2>3. act[a] # Idle /\ act[a].cgrp = c
    BY <2>2, IdleHoldsNothing DEF TargetInv, CgroupInv
  <2> QED
    BY <2>3 DEF TargetInv, CgroupInv, Actors
<1> QED
  BY <1>1, TargetsSafe, PTL

-----------------------------------------------------------------------------
(* Path references.                                                        *)

PathTypes ==
    /\ lock \in Actors \cup {Null}
    /\ refs \in [Objects -> Int]
    /\ pinned \in [Objects -> BOOLEAN] /\ pinned[Base]
    /\ attempt \in [Tasks -> 1..3]
    /\ left \in [Tasks -> 0..MaxComponents]
    /\ cur \in [Tasks -> Objects]
    /\ key \in [Tasks -> Keys \cup {Null}]
    /\ tgt \in [Tasks -> Objects]
    /\ err \in [Tasks -> {"none", "error", "echild", "estale"}]

\* Where a walk is says whether it holds references; what it borrows in RCU-walk
\* is the path of a record it holds, or the directory it started from.
Borrows(t) ==
    /\ pc[t] \in {"idle", "returned"} => mode[t] = "none"
    /\ pc[t] \notin {"idle", "returned", "failed"} => mode[t] # "none"
    /\ pc[t] \in {"component", "resolve", "borrow", "get", "apply"} => left[t] # 0
    /\ mode[t] = "rcu" /\ pc[t] = "apply" => wrec[t] # Null /\ tgt[t] = rec[wrec[t]].obj
    /\ mode[t] = "rcu" /\ src[t] = Null => cur[t] = Base
    /\ src[t] # Null => cur[t] = rec[src[t]].obj

\* The inductive invariant of the references, above TargetInv.
PathInv == PathTypes /\ RefsBalanced /\ \A t \in Tasks : Borrows(t)
\* A set that changes by one element at most.
LEMMA OneChanges ==
    ASSUME NEW S, IsFiniteSet(S), NEW A \in SUBSET S, NEW B \in SUBSET S, NEW x \in S,
           \A y \in S : y # x => (y \in A <=> y \in B)
    PROVE  /\ Cardinality(A) \in Nat /\ Cardinality(B) \in Nat
           /\ Cardinality(B) = Cardinality(A) - (IF x \in A THEN 1 ELSE 0)
                                              + (IF x \in B THEN 1 ELSE 0)
<1>1. IsFiniteSet(A) /\ IsFiniteSet(B)
  BY FS_Subset
<1>2. Cardinality(A) \in Nat /\ Cardinality(B) \in Nat
  BY <1>1, FS_CardinalityType
<1>3. A \ {x} = B \ {x}
  OBVIOUS
<1>4. Cardinality(A \ {x}) = IF x \in A THEN Cardinality(A) - 1 ELSE Cardinality(A)
  BY <1>1, FS_RemoveElement
<1>5. Cardinality(B \ {x}) = IF x \in B THEN Cardinality(B) - 1 ELSE Cardinality(B)
  BY <1>1, FS_RemoveElement
<1> QED
  BY <1>2, <1>3, <1>4, <1>5

\* A finite set with an element counts it.
LEMMA CountsElement ==
    ASSUME NEW S, IsFiniteSet(S), NEW A \in SUBSET S, NEW x \in A
    PROVE  Cardinality(A) \in Nat /\ Cardinality(A) > 0
<1>1. IsFiniteSet(A)
  BY FS_Subset
<1>2. Cardinality(A) \in Nat /\ Cardinality(A) # 0
  BY <1>1, FS_CardinalityType, FS_EmptySet
<1> QED
  BY <1>2

\* The three kinds of holders of a reference.
RecsOf(o) == {r \in allocated : rec[r].obj = o}
CurOf(o) == {t \in Tasks : mode[t] = "ref" /\ cur[t] = o}
TgtOf(o) == {t \in Tasks : mode[t] = "ref" /\ pc[t] = "apply" /\ tgt[t] = o}

\* The references of one walk.
OwnCur(t, o) == IF mode[t] = "ref" /\ cur[t] = o THEN 1 ELSE 0
OwnTgt(t, o) == IF mode[t] = "ref" /\ pc[t] = "apply" /\ tgt[t] = o THEN 1 ELSE 0

\* Records of an object are finitely many,
LEMMA RecordsCounted ==
    ASSUME TargetInv, NEW o
    PROVE  RecsOf(o) \in SUBSET Records /\ Cardinality(RecsOf(o)) \in Nat
<1>1. RecsOf(o) \in SUBSET Records
  BY DEF RecsOf, TargetInv, MemoryTypes
<1> QED
  BY <1>1, FS_Subset, FS_CardinalityType, TargetConstants

\* and so are the tasks that stand on it.
LEMMA TasksCounted ==
    ASSUME NEW o
    PROVE  Cardinality(CurOf(o)) \in Nat /\ Cardinality(TgtOf(o)) \in Nat
<1>1. CurOf(o) \in SUBSET Tasks /\ TgtOf(o) \in SUBSET Tasks
  BY DEF CurOf, TgtOf
<1> QED
  BY <1>1, FS_Subset, FS_CardinalityType, TargetConstants

\* A record that is not free memory has a path.
LEMMA AllocatedRecord ==
    ASSUME TargetInv, NEW r \in allocated
    PROVE  r \in Records /\ rec[r].obj \in Objects
<1>1. r \in Records
  BY DEF TargetInv, MemoryTypes
<1>2. rec[r].cgrp \in Cgroups
  <2>1. CASE r \in linked
    BY <2>1 DEF TargetInv, CgroupInv
  <2>2. CASE \E a \in Actors : r \in HeldBy(a)
    <3>1. PICK a \in Actors : r \in HeldBy(a)
      BY <2>2
    <3>2. act[a] \in Registering \cup Removing
      BY <3>1, IdleHoldsNothing DEF TargetInv, MemoryTypes
    <3>3. act[a].cgrp \in Cgroups
      BY <3>2 DEF Registering, Removing
    <3> QED
      BY <3>1, <3>3 DEF TargetInv, CgroupInv
  <2> QED
    BY <2>1, <2>2, Ownership
<1>3. rec[r] # NoRecord
  BY <1>2, TargetConstants DEF NoRecord
<1> QED
  BY <1>1, <1>3 DEF TargetInv, MemoryTypes

\* A walk that takes and puts what it comes to hold and ceases to hold keeps the
\* balance.
LEMMA WalkRefs ==
    ASSUME TargetInv, RefsBalanced, NEW t \in Tasks, WalkStep,
           \A u \in Tasks : u # t => /\ pc'[u] = pc[u] /\ mode'[u] = mode[u]
                                     /\ cur'[u] = cur[u] /\ tgt'[u] = tgt[u],
           refs \in [Objects -> Int],
           \A o \in Objects : refs'[o] = refs[o] - OwnCur(t, o) - OwnTgt(t, o)
                                                 + OwnCur(t, o)' + OwnTgt(t, o)'
    PROVE  RefsBalanced'
<1> SUFFICES ASSUME NEW o \in Objects
             PROVE  refs'[o] = Cardinality(RecsOf(o)') + Cardinality(CurOf(o)')
                                                       + Cardinality(TgtOf(o)')
  BY DEF RefsBalanced, RecsOf, CurOf, TgtOf
<1>1. RecsOf(o)' = RecsOf(o)
  BY DEF RecsOf, WalkStep, registryVars
<1>2. refs[o] = Cardinality(RecsOf(o)) + Cardinality(CurOf(o)) + Cardinality(TgtOf(o))
  BY DEF RefsBalanced, RecsOf, CurOf, TgtOf
<1>3. /\ Cardinality(CurOf(o)) \in Nat /\ Cardinality(CurOf(o)') \in Nat
      /\ Cardinality(CurOf(o)') = Cardinality(CurOf(o)) - OwnCur(t, o) + OwnCur(t, o)'
  <2>1. /\ CurOf(o) \in SUBSET Tasks /\ CurOf(o)' \in SUBSET Tasks
        /\ \A u \in Tasks : u # t => (u \in CurOf(o) <=> u \in CurOf(o)')
    BY DEF CurOf
  <2>2. /\ OwnCur(t, o) = IF t \in CurOf(o) THEN 1 ELSE 0
        /\ OwnCur(t, o)' = IF t \in CurOf(o)' THEN 1 ELSE 0
    BY DEF CurOf, OwnCur
  <2> HIDE DEF CurOf, OwnCur
  <2> QED
    BY <2>1, <2>2, OneChanges, TargetConstants
<1>4. /\ Cardinality(TgtOf(o)) \in Nat /\ Cardinality(TgtOf(o)') \in Nat
      /\ Cardinality(TgtOf(o)') = Cardinality(TgtOf(o)) - OwnTgt(t, o) + OwnTgt(t, o)'
  <2>1. /\ TgtOf(o) \in SUBSET Tasks /\ TgtOf(o)' \in SUBSET Tasks
        /\ \A u \in Tasks : u # t => (u \in TgtOf(o) <=> u \in TgtOf(o)')
    BY DEF TgtOf
  <2>2. /\ OwnTgt(t, o) = IF t \in TgtOf(o) THEN 1 ELSE 0
        /\ OwnTgt(t, o)' = IF t \in TgtOf(o)' THEN 1 ELSE 0
    BY DEF TgtOf, OwnTgt
  <2> HIDE DEF TgtOf, OwnTgt
  <2> QED
    BY <2>1, <2>2, OneChanges, TargetConstants
<1>5. refs[o] \in Int
  OBVIOUS
<1>6. Cardinality(RecsOf(o)) \in Nat
  BY RecordsCounted
<1>7. /\ OwnCur(t, o) \in {0, 1} /\ OwnCur(t, o)' \in {0, 1}
      /\ OwnTgt(t, o) \in {0, 1} /\ OwnTgt(t, o)' \in {0, 1}
  BY DEF OwnCur, OwnTgt
<1> QED
  BY <1>1, <1>2, <1>3, <1>4, <1>5, <1>6, <1>7

\* What a step of walk t has to establish for the references.
LEMMA WalkKeepsPaths ==
    ASSUME TargetInv, PathInv, NEW t \in Tasks, WalkStep, PathTypes',
           \A u \in Tasks : u # t => /\ pc'[u] = pc[u] /\ mode'[u] = mode[u] /\ left'[u] = left[u]
                                     /\ cur'[u] = cur[u] /\ src'[u] = src[u]
                                     /\ wrec'[u] = wrec[u] /\ tgt'[u] = tgt[u],
           Borrows(t)',
           \A o \in Objects : refs'[o] = refs[o] - OwnCur(t, o) - OwnTgt(t, o)
                                                 + OwnCur(t, o)' + OwnTgt(t, o)'
    PROVE  PathInv'
<1>1. RefsBalanced'
  BY WalkRefs DEF PathInv, PathTypes
<1>2. \A u \in Tasks : Borrows(u)'
  BY DEF PathInv, Borrows, WalkStep, registryVars
<1> QED
  BY <1>1, <1>2 DEF PathInv

\* The steps of a walk, one lemma for each way it takes and puts references.
LEMMA StartAttemptPaths ==
    ASSUME TargetInv, PathInv, NEW t \in Tasks, NEW n \in 1..3, StartAttempt(t, n),
           pc[t] \in {"idle", "returned"}
    PROVE  PathInv'
<1> USE DEF StartAttempt, Become, TargetInv, MemoryTypes, WalkTypes, PathInv, PathTypes
<1>0. Base \in Objects /\ MaxComponents \in Nat /\ MaxComponents # 0
  BY TargetConstants
<1>1. PathTypes'
  BY <1>0 DEF WalkStep, registryVars, PathGet
<1>2. \A u \in Tasks : u # t => /\ pc'[u] = pc[u] /\ mode'[u] = mode[u] /\ left'[u] = left[u]
                                /\ cur'[u] = cur[u] /\ src'[u] = src[u]
                                /\ wrec'[u] = wrec[u] /\ tgt'[u] = tgt[u]
  OBVIOUS
<1>3. Borrows(t)'
  BY <1>0 DEF Borrows, PathGet
<1>4. mode[t] = "none"
  BY DEF Borrows
<1>5. \A o \in Objects : refs'[o] = refs[o] - OwnCur(t, o) - OwnTgt(t, o)
                                            + OwnCur(t, o)' + OwnTgt(t, o)'
  BY <1>0, <1>4 DEF OwnCur, OwnTgt, PathGet
<1> HIDE DEF Become, TargetInv, MemoryTypes, WalkTypes, PathInv, PathTypes
<1> QED
  BY <1>1, <1>2, <1>3, <1>5, WalkKeepsPaths

\* legitimize_path takes nothing when it fails.
LEMMA UnlazyFailsPaths ==
    ASSUME TargetInv, PathInv, NEW t \in Tasks, UnlazyFails(t)
    PROVE  PathInv'
<1> USE DEF UnlazyFails, Become, TargetInv, MemoryTypes, WalkTypes, PathInv, PathTypes
<1>1. PathTypes'
  BY DEF WalkStep, registryVars
<1>2. \A u \in Tasks : u # t => /\ pc'[u] = pc[u] /\ mode'[u] = mode[u] /\ left'[u] = left[u]
                                /\ cur'[u] = cur[u] /\ src'[u] = src[u]
                                /\ wrec'[u] = wrec[u] /\ tgt'[u] = tgt[u]
  OBVIOUS
<1>3. Borrows(t)'
  BY DEF Borrows
<1>5. \A o \in Objects : refs'[o] = refs[o] - OwnCur(t, o) - OwnTgt(t, o)
                                            + OwnCur(t, o)' + OwnTgt(t, o)'
  BY DEF OwnCur, OwnTgt
<1> HIDE DEF Become, TargetInv, MemoryTypes, WalkTypes, PathInv, PathTypes
<1> QED
  BY <1>1, <1>2, <1>3, <1>5, WalkKeepsPaths DEF UnlazyFails

\* A component ends, or the walk fails or completes, outside of a selection:
\* the references stay, or nd->path is referenced on leaving RCU-walk.
LEMMA PlainStepPaths ==
    ASSUME TargetInv, PathInv, NEW t \in Tasks, WalkStep, UNCHANGED <<cur, tgt>>,
           \A u \in Tasks : u # t => wrec'[u] = wrec[u],
           pc[t] # "apply", mode[t] # "none",
           NEW p \in {"component", "resolve", "borrow", "get", "complete", "failed", "done"},
           Become(t, pc, p),
           attempt' \in [Tasks -> 1..3], key' \in [Tasks -> Keys \cup {Null}],
           err' \in [Tasks -> {"none", "error", "echild", "estale"}],
           \/ NextComponent(t) /\ pc[t] = "component"
           \/ UNCHANGED left /\ (pc[t] \in {"component", "resolve"} \/ p \in {"complete", "failed", "done"}),
           Unlazied(t) \/ UNCHANGED <<mode, refs, src>>
    PROVE  PathInv'
<1> USE DEF Become, TargetInv, MemoryTypes, WalkTypes, PathInv, PathTypes
<1>1. /\ left' \in [Tasks -> 0..MaxComponents]
      /\ p \in {"component", "resolve", "borrow", "get"} => left'[t] # 0
  BY TargetConstants DEF NextComponent, Borrows
<1>0. refs' \in [Objects -> Int]
  <2>1. cur[t] \in Objects
    OBVIOUS
  <2> QED
    BY <2>1 DEF Unlazied, PathGet
<1>2. PathTypes'
  BY <1>0, <1>1 DEF WalkStep, registryVars
<1>3. \A u \in Tasks : u # t => /\ pc'[u] = pc[u] /\ mode'[u] = mode[u] /\ left'[u] = left[u]
                                /\ cur'[u] = cur[u] /\ src'[u] = src[u]
                                /\ wrec'[u] = wrec[u] /\ tgt'[u] = tgt[u]
  BY DEF Unlazied, NextComponent
<1>4. Borrows(t)'
  BY <1>1 DEF Borrows, Unlazied, WalkStep, registryVars
<1>5. \A o \in Objects : refs'[o] = refs[o] - OwnCur(t, o) - OwnTgt(t, o)
                                            + OwnCur(t, o)' + OwnTgt(t, o)'
  <2>1. CASE Unlazied(t)
    BY <2>1 DEF OwnCur, OwnTgt, Unlazied, PathGet
  <2>2. CASE UNCHANGED <<mode, refs, src>>
    BY <2>2 DEF OwnCur, OwnTgt
  <2> QED
    BY <2>1, <2>2
<1> HIDE DEF Become, TargetInv, MemoryTypes, WalkTypes, PathInv, PathTypes
<1> QED
  BY <1>2, <1>3, <1>4, <1>5, WalkKeepsPaths

\* A borrowed target is its record's.
LEMMA ResolveBorrowPaths ==
    ASSUME TargetInv, PathInv, NEW t \in Tasks, ResolveBorrow(t)
    PROVE  PathInv'
<1> USE DEF ResolveBorrow, Become, TargetInv, MemoryTypes, WalkTypes, PathInv, PathTypes
<1>0. mode[t] = "rcu" /\ wrec[t] # Null
  <2>1. wrec[t] # Null
    BY DEF WalkInv, Holds
  <2> QED
    BY <2>1 DEF WalkInv, Holds
<1>1. rec[wrec[t]].obj \in Objects
  BY <1>0, HeldRecords, AllocatedRecord
<1>2. PathTypes'
  BY <1>1 DEF WalkStep, registryVars
<1>3. \A u \in Tasks : u # t => /\ pc'[u] = pc[u] /\ mode'[u] = mode[u] /\ left'[u] = left[u]
                                /\ cur'[u] = cur[u] /\ src'[u] = src[u]
                                /\ wrec'[u] = wrec[u] /\ tgt'[u] = tgt[u]
  OBVIOUS
<1>4. Borrows(t)'
  BY <1>0 DEF Borrows, WalkStep, registryVars
<1>5. \A o \in Objects : refs'[o] = refs[o] - OwnCur(t, o) - OwnTgt(t, o)
                                            + OwnCur(t, o)' + OwnTgt(t, o)'
  BY <1>0 DEF OwnCur, OwnTgt
<1> HIDE DEF Become, TargetInv, MemoryTypes, WalkTypes, PathInv, PathTypes
<1> QED
  BY <1>2, <1>3, <1>4, <1>5, WalkKeepsPaths

\* In ref-walk the object is taken with the record.
LEMMA ResolveGetPaths ==
    ASSUME TargetInv, PathInv, NEW t \in Tasks, ResolveGet(t)
    PROVE  PathInv'
<1> USE DEF ResolveGet, Become, TargetInv, MemoryTypes, WalkTypes, PathInv, PathTypes
<1>0. mode[t] = "ref" /\ wrec[t] # Null
  <2>1. mode[t] # "none"
    BY DEF Borrows
  <2>2. mode[t] # "rcu"
    BY DEF WalkInv, Holds
  <2> QED
    BY <2>1, <2>2 DEF WalkInv, Holds
<1>1. rec[wrec[t]].obj \in Objects
  BY <1>0, HeldRecords, AllocatedRecord
<1>2. PathTypes'
  <2>1. refs' \in [Objects -> Int]
    BY <1>1 DEF PathGet
  <2> QED
    BY <1>1, <2>1 DEF WalkStep, registryVars
<1>3. \A u \in Tasks : u # t => /\ pc'[u] = pc[u] /\ mode'[u] = mode[u] /\ left'[u] = left[u]
                                /\ cur'[u] = cur[u] /\ src'[u] = src[u]
                                /\ wrec'[u] = wrec[u] /\ tgt'[u] = tgt[u]
  OBVIOUS
<1>4. Borrows(t)'
  BY <1>0 DEF Borrows, WalkStep, registryVars
<1>5. \A o \in Objects : refs'[o] = refs[o] - OwnCur(t, o) - OwnTgt(t, o)
                                            + OwnCur(t, o)' + OwnTgt(t, o)'
  BY <1>0, <1>1 DEF OwnCur, OwnTgt, PathGet
<1> HIDE DEF Become, TargetInv, MemoryTypes, WalkTypes, PathInv, PathTypes
<1> QED
  BY <1>2, <1>3, <1>4, <1>5, WalkKeepsPaths

\* A refused target is given back.
LEMMA ApplyErrorPaths ==
    ASSUME TargetInv, PathInv, NEW t \in Tasks, ApplyError(t)
    PROVE  PathInv'
<1> USE DEF ApplyError, Become, TargetInv, MemoryTypes, WalkTypes, PathInv, PathTypes
<1>0. tgt[t] \in Objects /\ Base \in Objects
  BY TargetConstants
<1>1. refs' \in [Objects -> Int]
  BY <1>0 DEF PathPut
<1>2. PathTypes'
  BY <1>0, <1>1 DEF WalkStep, registryVars
<1>3. \A u \in Tasks : u # t => /\ pc'[u] = pc[u] /\ mode'[u] = mode[u] /\ left'[u] = left[u]
                                /\ cur'[u] = cur[u] /\ src'[u] = src[u]
                                /\ wrec'[u] = wrec[u] /\ tgt'[u] = tgt[u]
  OBVIOUS
<1>4. Borrows(t)'
  BY DEF Borrows, WalkStep, registryVars
<1>5. \A o \in Objects : refs'[o] = refs[o] - OwnCur(t, o) - OwnTgt(t, o)
                                            + OwnCur(t, o)' + OwnTgt(t, o)'
  BY <1>0 DEF OwnCur, OwnTgt, PathPut
<1> HIDE DEF Become, TargetInv, MemoryTypes, WalkTypes, PathInv, PathTypes
<1> QED
  BY <1>2, <1>3, <1>4, <1>5, WalkKeepsPaths

\* The target takes the place of nd->path, and its reference with it.
LEMMA ApplyPaths ==
    ASSUME TargetInv, PathInv, NEW t \in Tasks, Apply(t)
    PROVE  PathInv'
<1> USE DEF Apply, Become, TargetInv, MemoryTypes, WalkTypes, PathInv, PathTypes
<1>0. tgt[t] \in Objects /\ cur[t] \in Objects /\ Base \in Objects /\ mode[t] \in {"rcu", "ref"}
  BY TargetConstants DEF Borrows
<1>1. refs' \in [Objects -> Int]
  BY <1>0 DEF PathPut
<1>2. /\ left' \in [Tasks -> 0..MaxComponents]
      /\ pc'[t] = "complete" \/ (pc'[t] = "component" /\ left'[t] # 0)
  BY TargetConstants DEF NextComponent, Borrows
<1>3. PathTypes'
  BY <1>0, <1>1, <1>2 DEF WalkStep, registryVars
<1>4. \A u \in Tasks : u # t => /\ pc'[u] = pc[u] /\ mode'[u] = mode[u] /\ left'[u] = left[u]
                                /\ cur'[u] = cur[u] /\ src'[u] = src[u]
                                /\ wrec'[u] = wrec[u] /\ tgt'[u] = tgt[u]
  BY DEF NextComponent
<1>5. Borrows(t)'
  <2>1. wrec[t] # Null => mode[t] = "rcu"
    BY DEF WalkInv, Holds
  <2> QED
    BY <1>0, <1>2, <2>1 DEF Borrows, WalkStep, registryVars
<1>6. \A o \in Objects : refs'[o] = refs[o] - OwnCur(t, o) - OwnTgt(t, o)
                                            + OwnCur(t, o)' + OwnTgt(t, o)'
  BY <1>0, <1>2 DEF OwnCur, OwnTgt, PathPut
<1> HIDE DEF Become, TargetInv, MemoryTypes, WalkTypes, PathInv, PathTypes
<1> QED
  BY <1>3, <1>4, <1>5, <1>6, WalkKeepsPaths

\* A walk that has failed, or whose caller is done, puts nd->path.
LEMMA FinishPaths ==
    ASSUME TargetInv, PathInv, NEW t \in Tasks, Terminate(t) \/ GiveUp(t) \/ PutResult(t)
    PROVE  PathInv'
<1> USE DEF Terminate, GiveUp, PutResult, Become, TargetInv, MemoryTypes, WalkTypes,
            PathInv, PathTypes
<1>0. /\ cur[t] \in Objects /\ Base \in Objects /\ MaxComponents \in Nat /\ WalkStep
      /\ pc[t] = "done" => mode[t] = "ref"
      /\ src[t] # Null => mode[t] = "rcu"
  BY TargetConstants DEF Borrows, WalkInv, Holds
<1>1. refs' \in [Objects -> Int]
  BY <1>0 DEF PathPut
<1>2. PathTypes'
  BY <1>0, <1>1 DEF WalkStep, registryVars
<1>3. \A u \in Tasks : u # t => /\ pc'[u] = pc[u] /\ mode'[u] = mode[u] /\ left'[u] = left[u]
                                /\ cur'[u] = cur[u] /\ src'[u] = src[u]
                                /\ wrec'[u] = wrec[u] /\ tgt'[u] = tgt[u]
  OBVIOUS
<1>4. Borrows(t)'
  BY <1>0 DEF Borrows, WalkStep, registryVars
<1>5. \A o \in Objects : refs'[o] = refs[o] - OwnCur(t, o) - OwnTgt(t, o)
                                            + OwnCur(t, o)' + OwnTgt(t, o)'
  <2>1. CASE GiveUp(t)
    BY <2>1 DEF OwnCur, OwnTgt, Borrows
  <2>2. CASE Terminate(t) \/ PutResult(t)
    BY <1>0, <2>2 DEF OwnCur, OwnTgt, PathPut
  <2> QED
    BY <2>1, <2>2
<1> HIDE DEF Terminate, GiveUp, PutResult, Become, TargetInv, MemoryTypes, WalkTypes,
             PathInv, PathTypes
<1> QED
  BY <1>0, <1>2, <1>3, <1>4, <1>5, WalkKeepsPaths

\* All steps of a walk.
LEMMA WalkingPaths ==
    ASSUME TargetInv, PathInv, NEW t \in Tasks, WalkStart(t) \/ Walking(t) \/ PutResult(t)
    PROVE  PathInv'
<1> DEFINE types == /\ attempt' \in [Tasks -> 1..3] /\ key' \in [Tasks -> Keys \cup {Null}]
                    /\ err' \in [Tasks -> {"none", "error", "echild", "estale"}]
<1>0. /\ pc[t] = "component" \/ pc[t] = "resolve" \/ pc[t] = "complete" => mode[t] # "none"
      /\ UNCHANGED pc => Become(t, pc, pc[t])
  BY DEF PathInv, Borrows, Become, TargetInv, MemoryTypes, WalkTypes
<1>1. CASE WalkStart(t)
  BY <1>1, StartAttemptPaths DEF WalkStart
<1>2. CASE Retry(t)
  BY <1>2, StartAttemptPaths DEF Retry
<1>3. ASSUME NextComponent(t), pc[t] = "component", WalkStep, types, UNCHANGED <<cur, wrec, tgt>>,
             Unlazied(t) \/ UNCHANGED <<mode, refs, src>>
      PROVE  PathInv'
  <2>1. PICK p \in {"component", "complete"} : Become(t, pc, p)
    BY <1>3, NextComponentPlaces
  <2> QED
    BY <1>0, <1>3, <2>1, PlainStepPaths
<1>4. ASSUME ErrorFrom(t), pc[t] \in {"component", "resolve"} PROVE PathInv'
  <2>1. CASE UnlazyFails(t)
    BY <2>1, UnlazyFailsPaths
  <2>2. CASE ~UnlazyFails(t)
    <3>1. /\ Become(t, pc, "failed") /\ UNCHANGED <<left, cur, wrec, tgt>> /\ WalkStep
          /\ Unlazied(t) \/ UNCHANGED <<mode, refs, src>>
      BY <1>4, <2>2 DEF ErrorFrom
    <3>2. types
      BY <1>4, <2>2 DEF ErrorFrom, Become, PathInv, PathTypes
    <3> QED
      BY <1>0, <1>4, <3>1, <3>2, PlainStepPaths
  <2> QED
    BY <2>1, <2>2
<1>5. CASE WalkPass(t)
  <2>1. types
    BY <1>5 DEF WalkPass, PathInv, PathTypes
  <2> QED
    BY <1>3, <1>5, <2>1 DEF WalkPass
<1>6. CASE WalkRedirect(t)
  <2>1. CASE UnlazyFails(t)
    BY <2>1, UnlazyFailsPaths
  <2>2. CASE ~UnlazyFails(t)
    <3>1. types
      BY <1>6, <2>2 DEF WalkRedirect, PathInv, PathTypes
    <3>2. /\ NextComponent(t) /\ WalkStep /\ pc[t] = "component" /\ UNCHANGED <<cur, wrec, tgt>>
          /\ Unlazied(t) \/ UNCHANGED <<mode, refs, src>>
      BY <1>6, <2>2 DEF WalkRedirect
    <3> QED
      BY <1>3, <3>1, <3>2
  <2> QED
    BY <2>1, <2>2
<1>7. CASE WalkError(t) \/ ResolveNone(t)
  BY <1>4, <1>7 DEF WalkError, ResolveNone
<1>8. ASSUME NEW k \in Keys, WalkSelect(t, k) PROVE PathInv'
  <2>1. types
    BY <1>8 DEF WalkSelect, Become, PathInv, PathTypes
  <2> QED
    BY <1>0, <1>8, <2>1, PlainStepPaths DEF WalkSelect
<1>9. CASE ResolveFind(t)
  <2>1. types
    BY <1>9 DEF ResolveFind, Become, PathInv, PathTypes
  <2>2. PICK p \in {"borrow", "get"} : Become(t, pc, p)
    BY <1>9 DEF ResolveFind
  <2>3. \A u \in Tasks : u # t => wrec'[u] = wrec[u]
    BY <1>9 DEF ResolveFind, Become, TargetInv, MemoryTypes, WalkTypes
  <2> QED
    BY <1>0, <1>9, <2>1, <2>2, <2>3, PlainStepPaths DEF ResolveFind
<1>10. CASE ResolveBorrow(t) \/ ResolveGet(t) \/ ApplyError(t) \/ Apply(t)
  BY <1>10, ResolveBorrowPaths, ResolveGetPaths, ApplyErrorPaths, ApplyPaths
<1>11. CASE CompleteUnlazy(t)
  <2>1. CASE UnlazyFails(t)
    BY <2>1, UnlazyFailsPaths
  <2>2. CASE ~UnlazyFails(t)
    <3>1. types
      BY <1>11, <2>2 DEF CompleteUnlazy, PathInv, PathTypes
    <3>2. /\ Unlazied(t) /\ WalkStep /\ pc[t] = "complete" /\ UNCHANGED <<pc, left, cur, wrec, tgt>>
      BY <1>11, <2>2 DEF CompleteUnlazy
    <3> QED
      BY <1>0, <3>1, <3>2, PlainStepPaths
  <2> QED
    BY <2>1, <2>2
<1>12. CASE CompleteOk(t) \/ CompleteFails(t)
  <2>1. types
    BY <1>12 DEF CompleteOk, CompleteFails, Become, PathInv, PathTypes
  <2>2. PICK p \in {"failed", "done"} : Become(t, pc, p)
    BY <1>12 DEF CompleteOk, CompleteFails
  <2>3. WalkStep /\ pc[t] = "complete" /\ UNCHANGED <<refs, mode, src, left, cur, wrec, tgt>>
    BY <1>12 DEF CompleteOk, CompleteFails
  <2> QED
    BY <1>0, <2>1, <2>2, <2>3, PlainStepPaths
<1>13. CASE Terminate(t) \/ GiveUp(t) \/ PutResult(t)
  BY <1>13, FinishPaths
<1> QED
  BY <1>1, <1>2, <1>5, <1>6, <1>7, <1>8, <1>9, <1>10, <1>11, <1>12, <1>13 DEF Walking

\* The registry's steps: what walks hold stays as it is.
LEMMA RegistryKeepsBorrows ==
    ASSUME TargetInv, PathInv, UNCHANGED walkVars,
           \A t \in Tasks : /\ wrec[t] # Null => rec'[wrec[t]] = rec[wrec[t]]
                            /\ src[t] # Null => rec'[src[t]] = rec[src[t]]
    PROVE  \A t \in Tasks : Borrows(t)'
  BY DEF PathInv, Borrows, walkVars

\* The new record holds its object.
LEMMA RegisterBeginPaths ==
    ASSUME TargetInv, PathInv, NEW w \in Writers, NEW c \in Cgroups, NEW id \in TargetIds,
           NEW o \in Objects, RegisterBegin(w, c, id, o)
    PROVE  PathInv'
<1>1. PICK r \in Records \ allocated :
          /\ allocated' = allocated \cup {r}
          /\ rec' = [rec EXCEPT ![r] = [cgrp |-> c, id |-> id, obj |-> o]]
  BY DEF RegisterBegin
<1>2. refs' = PathGet(o) /\ UNCHANGED <<lock, pinned, walkVars>>
  BY DEF RegisterBegin
<1>3. PathTypes'
  BY <1>2 DEF PathInv, PathTypes, PathGet, walkVars
<1>4. rec'[r].obj = o /\ \A q \in Records : q # r => rec'[q] = rec[q]
  BY <1>1 DEF TargetInv, MemoryTypes
<1>5. \A t \in Tasks : Borrows(t)'
  <2>1. \A q \in allocated : rec'[q] = rec[q]
    BY <1>4, AllocatedRecord, <1>1
  <2> QED
    BY <1>2, <2>1, HeldRecords, RegistryKeepsBorrows
<1>6. RefsBalanced'
  <2> SUFFICES ASSUME NEW p \in Objects
               PROVE  refs'[p] = Cardinality(RecsOf(p)') + Cardinality(CurOf(p)')
                                                         + Cardinality(TgtOf(p)')
    BY DEF RefsBalanced, RecsOf, CurOf, TgtOf
  <2>1. CurOf(p)' = CurOf(p) /\ TgtOf(p)' = TgtOf(p)
    BY <1>2 DEF CurOf, TgtOf, walkVars
  <2>2. refs[p] = Cardinality(RecsOf(p)) + Cardinality(CurOf(p)) + Cardinality(TgtOf(p))
    BY DEF PathInv, RefsBalanced, RecsOf, CurOf, TgtOf
  <2>3. /\ RecsOf(p)' \in SUBSET Records /\ RecsOf(p) \in SUBSET Records
        /\ \A q \in Records : q # r => (q \in RecsOf(p) <=> q \in RecsOf(p)')
        /\ r \notin RecsOf(p) /\ (r \in RecsOf(p)' <=> p = o)
    BY <1>1, <1>4 DEF RecsOf, TargetInv, MemoryTypes
  <2>4. /\ Cardinality(RecsOf(p)) \in Nat
        /\ Cardinality(RecsOf(p)') = Cardinality(RecsOf(p)) - (IF r \in RecsOf(p) THEN 1 ELSE 0)
                                        + (IF r \in RecsOf(p)' THEN 1 ELSE 0)
    BY <2>3, OneChanges, TargetConstants
  <2>5. Cardinality(RecsOf(p)') = Cardinality(RecsOf(p)) + (IF p = o THEN 1 ELSE 0)
    BY <2>3, <2>4
  <2>6. Cardinality(CurOf(p)) \in Nat /\ Cardinality(TgtOf(p)) \in Nat
    BY TasksCounted
  <2>7. refs'[p] = refs[p] + (IF p = o THEN 1 ELSE 0) /\ refs[p] \in Int
    BY <1>2 DEF PathGet, PathInv, PathTypes
  <2> QED
    BY <2>1, <2>2, <2>4, <2>5, <2>6, <2>7
<1> QED
  BY <1>3, <1>5, <1>6 DEF PathInv

\* What an actor gives back is what its records held.
LEMMA FreePaths ==
    ASSUME TargetInv, PathInv, NEW a \in Actors, FreeRecords(HeldBy(a)),
           \A t \in Tasks : /\ wrec[t] # Null => wrec[t] \notin HeldBy(a)
                            /\ src[t] # Null => src[t] \notin HeldBy(a),
           UNCHANGED <<lock, pinned, walkVars>>
    PROVE  PathInv'
<1> DEFINE rs == HeldBy(a)
<1>1. rs \subseteq allocated /\ allocated \subseteq Records
  BY Ownership DEF TargetInv, MemoryTypes
<1>2. /\ refs' = [o \in Objects |-> refs[o] - Cardinality({r \in rs : rec[r].obj = o})]
      /\ allocated' = allocated \ rs
      /\ \A q \in Records : q \notin rs => rec'[q] = rec[q]
  BY DEF FreeRecords
<1> HIDE DEF rs
<1>3. \A t \in Tasks : Borrows(t)'
  <2>1. \A t \in Tasks : /\ wrec[t] # Null => wrec[t] \in Records \ rs
                         /\ src[t] # Null => src[t] \in Records \ rs
    BY <1>1, HeldRecords DEF rs
  <2> QED
    BY <1>2, <2>1, RegistryKeepsBorrows
<1> DEFINE freed(o) == Cardinality({r \in rs : rec[r].obj = o})
<1>4. \A o \in Objects : /\ freed(o) \in Nat
                         /\ Cardinality(RecsOf(o)') = Cardinality(RecsOf(o)) - freed(o)
                         /\ Cardinality(RecsOf(o)) \in Nat
  <2> SUFFICES ASSUME NEW o \in Objects
               PROVE  /\ freed(o) \in Nat
                      /\ Cardinality(RecsOf(o)') = Cardinality(RecsOf(o)) - freed(o)
                      /\ Cardinality(RecsOf(o)) \in Nat
    OBVIOUS
  <2> DEFINE D == {r \in rs : rec[r].obj = o}
             E == RecsOf(o)'
  <2>1. D \in SUBSET Records /\ E \in SUBSET Records /\ E \cup D = RecsOf(o) /\ E \cap D = {}
    BY <1>1, <1>2 DEF RecsOf
  <2> HIDE DEF D, E
  <2>2. IsFiniteSet(D) /\ IsFiniteSet(E)
    BY <2>1, FS_Subset, TargetConstants
  <2>3. Cardinality(D) \in Nat /\ Cardinality(E) \in Nat
    BY <2>2, FS_CardinalityType
  <2>4. Cardinality(RecsOf(o)) = Cardinality(E) + Cardinality(D) - Cardinality({})
    BY <2>1, <2>2, FS_Union
  <2>5. /\ Cardinality(RecsOf(o)) \in Nat
        /\ Cardinality(E) = Cardinality(RecsOf(o)) - Cardinality(D)
    BY <2>3, <2>4, FS_EmptySet
  <2> QED
    BY <2>3, <2>5 DEF D, E
<1>5. \A o \in Objects : refs[o] \in Int /\ refs'[o] = refs[o] - freed(o)
  BY <1>2 DEF PathInv, PathTypes
<1>6. refs' \in [Objects -> Int]
  BY <1>2, <1>4, <1>5
<1> HIDE DEF freed
<1>7. RefsBalanced'
  <2> SUFFICES ASSUME NEW p \in Objects
               PROVE  refs'[p] = Cardinality(RecsOf(p)') + Cardinality(CurOf(p)')
                                                         + Cardinality(TgtOf(p)')
    BY DEF RefsBalanced, RecsOf, CurOf, TgtOf
  <2>1. CurOf(p)' = CurOf(p) /\ TgtOf(p)' = TgtOf(p)
    BY DEF CurOf, TgtOf, walkVars
  <2>2. refs[p] = Cardinality(RecsOf(p)) + Cardinality(CurOf(p)) + Cardinality(TgtOf(p))
    BY DEF PathInv, RefsBalanced, RecsOf, CurOf, TgtOf
  <2>3. Cardinality(CurOf(p)) \in Nat /\ Cardinality(TgtOf(p)) \in Nat
    BY TasksCounted
  <2> QED
    BY <1>4, <1>5, <2>1, <2>2, <2>3
<1>8. PathTypes'
  BY <1>6 DEF PathInv, PathTypes, walkVars
<1> QED
  BY <1>3, <1>7, <1>8 DEF PathInv

\* The registry's other steps leave records and references alone.
LEMMA UntouchedPaths ==
    ASSUME TargetInv, PathInv, UNCHANGED <<rec, allocated, refs, walkVars>>,
           lock' \in Actors \cup {Null}, pinned' \in [Objects -> BOOLEAN], pinned'[Base]
    PROVE  PathInv'
<1>1. RefsBalanced'
  BY DEF PathInv, RefsBalanced, walkVars
<1>2. \A t \in Tasks : Borrows(t)'
  BY RegistryKeepsBorrows
<1> QED
  BY <1>1, <1>2 DEF PathInv, PathTypes, walkVars

\* No walk holds what is freed: a record that was never linked, or one whose
\* grace period is over.
LEMMA FreedUnused ==
    ASSUME TargetInv, NEW a \in Actors, NEW t \in Tasks,
           act[a].op = "register" \/ (act[a].op = "retire" /\ grace[a] = {})
    PROVE  /\ wrec[t] # Null => wrec[t] \notin HeldBy(a)
           /\ src[t] # Null => src[t] \notin HeldBy(a)
<1>1. ASSUME NEW r, Safe(r, t) PROVE r \notin HeldBy(a)
  <2>1. CASE r \in linked
    BY <2>1, Ownership
  <2>2. ASSUME NEW b \in Actors, act[b].op = "clear" \/ (act[b].op = "retire" /\ t \in grace[b]),
               r \in act[b].recs
        PROVE  r \notin HeldBy(a)
    <3>1. b # a /\ r \in HeldBy(b)
      BY <2>2 DEF HeldBy
    <3> QED
      BY <3>1, Ownership
  <2> QED
    BY <1>1, <2>1, <2>2 DEF Safe
<1> QED
  BY <1>1 DEF TargetInv, ReadInv

\* Nothing is held at first.
LEMMA InitPaths == Init => PathInv
<1> SUFFICES ASSUME Init PROVE PathInv
  OBVIOUS
<1>1. Base \in Objects /\ MaxComponents \in Nat
  BY TargetConstants
<1>2. PathTypes
  BY <1>1 DEF Init, PathTypes
<1>3. RefsBalanced
  <2> SUFFICES ASSUME NEW o \in Objects
               PROVE  refs[o] = Cardinality(RecsOf(o)) + Cardinality(CurOf(o)) + Cardinality(TgtOf(o))
    BY DEF RefsBalanced, RecsOf, CurOf, TgtOf
  <2>1. RecsOf(o) = {} /\ CurOf(o) = {} /\ TgtOf(o) = {} /\ refs[o] = 0
    BY DEF Init, RecsOf, CurOf, TgtOf
  <2> QED
    BY <2>1, FS_EmptySet
<1>4. \A t \in Tasks : Borrows(t)
  BY DEF Init, Borrows
<1> QED
  BY <1>2, <1>3, <1>4 DEF PathInv

\* Every step keeps the balance.
LEMMA StepPaths == TargetInv /\ PathInv /\ [Next]_vars => PathInv'
<1> SUFFICES ASSUME TargetInv, PathInv, [Next]_vars PROVE PathInv'
  OBVIOUS
<1>0. lock \in Actors \cup {Null} /\ pinned \in [Objects -> BOOLEAN] /\ pinned[Base]
  BY DEF PathInv, PathTypes
<1>1. ASSUME NEW w \in Writers, NEW c \in Cgroups, NEW id \in TargetIds, NEW o \in Objects,
             RegisterBegin(w, c, id, o)
      PROVE  PathInv'
  BY <1>1, RegisterBeginPaths
<1>2. ASSUME NEW w \in Writers, NEW c \in Cgroups, ClearBegin(w, c) PROVE PathInv'
  BY <1>0, <1>2, UntouchedPaths DEF ClearBegin, Actors
<1>3. ASSUME NEW a \in Actors, Updating(a) PROVE PathInv'
  <2>1. CASE RegisterDead(a)
    <3>1. act[a].op = "register" /\ HeldBy(a) = {act[a].new}
      BY <2>1 DEF RegisterDead, HeldBy
    <3> QED
      BY <2>1, <3>1, FreedUnused, FreePaths DEF RegisterDead
  <2>2. CASE Retired(a)
    <3>1. act[a].op = "retire" /\ HeldBy(a) = act[a].recs
      BY <2>2 DEF Retired, HeldBy
    <3> QED
      BY <2>2, <3>1, FreedUnused, FreePaths DEF Retired
  <2>3. CASE RegisterInstall(a) \/ ClearOne(a) \/ ClearEnd(a)
    BY <1>0, <2>3, UntouchedPaths DEF RegisterInstall, ClearOne, ClearEnd
  <2> QED
    BY <1>3, <2>1, <2>2, <2>3 DEF Updating
<1>4. ASSUME NEW c \in Cgroups, Rmdir(c) \/ ReleaseBegin(c) PROVE PathInv'
  BY <1>0, <1>4, UntouchedPaths DEF Rmdir, ReleaseBegin, Actors
<1>5. ASSUME NEW o \in Objects, Unpin(o) PROVE PathInv'
  BY <1>0, <1>5, UntouchedPaths DEF Unpin
<1>6. ASSUME NEW t \in Tasks, WalkStart(t) \/ Walking(t) \/ PutResult(t) PROVE PathInv'
  BY <1>6, WalkingPaths
<1>7. CASE UNCHANGED vars
  BY <1>0, <1>7, UntouchedPaths DEF vars, registryVars
<1> QED
  BY <1>1, <1>2, <1>3, <1>4, <1>5, <1>6, <1>7 DEF Next

\* The path references of records and walks, and what walks borrow, at every step.
THEOREM TargetPathsInvariant == Spec => []PathInv
  BY TargetsSafe, InitPaths, StepPaths, PTL DEF Spec

\* The references that namei_ext_register_target, namei_ext_get_target, path_init,
\* try_to_unlazy and namei_ext_apply_target take are exactly those that records
\* and ref-walks still hold, on every error path, for any number of each.
THEOREM TargetRefsBalanced == Spec => []RefsBalanced
<1>1. PathInv => RefsBalanced
  BY DEF PathInv
<1> QED
  BY <1>1, TargetPathsInvariant, PTL

\* An object with a record or a ref-walk on it has a reference.
LEMMA HoldersCount ==
    ASSUME TargetInv, PathInv, NEW o \in Objects,
           (\E r : r \in RecsOf(o)) \/ (\E t : t \in CurOf(o)) \/ (\E t : t \in TgtOf(o))
    PROVE  Alive(o)
<1>1. refs[o] = Cardinality(RecsOf(o)) + Cardinality(CurOf(o)) + Cardinality(TgtOf(o))
  BY DEF PathInv, RefsBalanced, RecsOf, CurOf, TgtOf
<1>2. /\ Cardinality(RecsOf(o)) \in Nat /\ Cardinality(CurOf(o)) \in Nat
      /\ Cardinality(TgtOf(o)) \in Nat
  BY RecordsCounted, TasksCounted
<1>3. (\E r : r \in RecsOf(o)) => Cardinality(RecsOf(o)) > 0
  BY RecordsCounted, CountsElement, TargetConstants
<1>4. CurOf(o) \in SUBSET Tasks /\ TgtOf(o) \in SUBSET Tasks
  BY DEF CurOf, TgtOf
<1>5. /\ (\E t : t \in CurOf(o)) => Cardinality(CurOf(o)) > 0
      /\ (\E t : t \in TgtOf(o)) => Cardinality(TgtOf(o)) > 0
  BY <1>4, CountsElement, TargetConstants
<1>6. refs[o] > 0
  BY <1>1, <1>2, <1>3, <1>5
<1> QED
  BY <1>6 DEF Alive

\* What a walk has found in the table, selected or made its nd->path is alive:
\* path_get in namei_ext_get_target never revives a dead dentry, and a borrowed
\* target is never lost to a replacement or a clear.
THEOREM TargetsSelectedAlive == Spec => []SelectedAlive
<1>1. TargetInv /\ PathInv => SelectedAlive
  <2> SUFFICES ASSUME TargetInv, PathInv, NEW t \in Tasks
               PROVE  /\ pc[t] \in {"borrow", "get"} => Alive(rec[wrec[t]].obj)
                      /\ pc[t] = "apply" => Alive(tgt[t])
                      /\ mode[t] # "none" => Alive(cur[t])
    BY DEF SelectedAlive
  <2>1. ASSUME NEW r \in allocated PROVE Alive(rec[r].obj)
    <3>1. rec[r].obj \in Objects /\ r \in RecsOf(rec[r].obj)
      BY <2>1, AllocatedRecord DEF RecsOf
    <3> QED
      BY <3>1, HoldersCount
  <2>2. /\ cur[t] \in Objects /\ tgt[t] \in Objects /\ Borrows(t)
        /\ mode[t] \in {"rcu", "ref", "none"}
    BY DEF PathInv, PathTypes, TargetInv, MemoryTypes, WalkTypes
  <2>3. pc[t] \in {"borrow", "get"} => wrec[t] # Null
    BY DEF TargetInv, WalkInv, Holds
  <2>4. pc[t] \in {"borrow", "get"} => Alive(rec[wrec[t]].obj)
    BY <2>1, <2>3, HeldRecords
  <2>5. ASSUME pc[t] = "apply" PROVE Alive(tgt[t])
    <3>1. CASE mode[t] = "rcu"
      BY <2>1, <2>2, <2>5, <3>1, HeldRecords DEF Borrows
    <3>2. CASE mode[t] = "ref"
      <4>1. t \in TgtOf(tgt[t])
        BY <2>5, <3>2 DEF TgtOf
      <4> QED
        BY <2>2, <4>1, HoldersCount
    <3> QED
      BY <2>2, <2>5, <3>1, <3>2 DEF Borrows
  <2>6. ASSUME mode[t] # "none" PROVE Alive(cur[t])
    <3>1. CASE mode[t] = "rcu" /\ src[t] = Null
      BY <2>2, <3>1 DEF Borrows, Alive, PathInv, PathTypes
    <3>2. CASE src[t] # Null
      BY <2>1, <2>2, <3>2, HeldRecords DEF Borrows
    <3>3. CASE mode[t] = "ref"
      <4>1. t \in CurOf(cur[t])
        BY <3>3 DEF CurOf
      <4> QED
        BY <2>2, <4>1, HoldersCount
    <3> QED
      BY <2>2, <2>6, <3>1, <3>2, <3>3
  <2> QED
    BY <2>4, <2>5, <2>6
<1> QED
  BY <1>1, TargetsSafe, TargetPathsInvariant, PTL

\* Types; no path is put more often than it was taken.
THEOREM TargetsTyped == Spec => []TypeOK
<1>1. TargetInv /\ PathInv => TypeOK
  <2> SUFFICES ASSUME TargetInv, PathInv PROVE TypeOK
    OBVIOUS
  <2>1. refs \in [Objects -> Nat]
    <3>1. ASSUME NEW o \in Objects PROVE refs[o] \in Nat
      <4>1. refs[o] = Cardinality(RecsOf(o)) + Cardinality(CurOf(o)) + Cardinality(TgtOf(o))
        BY DEF PathInv, RefsBalanced, RecsOf, CurOf, TgtOf
      <4> QED
        BY <4>1, RecordsCounted, TasksCounted
    <3> QED
      BY <3>1 DEF PathInv, PathTypes
  <2>2. linked \subseteq allocated
    BY DEF TargetInv, NoLeak
  <2> QED
    BY <2>1, <2>2 DEF TypeOK, TargetInv, MemoryTypes, WalkTypes, PathInv, PathTypes,
                      Registering, Removing
<1> QED
  BY <1>1, TargetsSafe, TargetPathsInvariant, PTL
=============================================================================
