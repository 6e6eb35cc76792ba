--------------------------- MODULE Scopes_proofs ----------------------------
(***************************************************************************)
(* The scope registry, proved for every set of cgroups, directories,       *)
(* readers, writers and scope sets and every width of its counters: who    *)
(* owns a scope set at any moment, and why no reader ever searches a freed *)
(* one; that a zero of a counter means that nothing is there, and that the *)
(* underflow checks of the put and del paths never fire.                   *)
(***************************************************************************)
EXTENDS NameiExtScopes, Integers, FiniteSetTheorems, TLAPS

(* Types, which are inductive by themselves.                               *)

\* What the counters' operators return: always a value of the C type, so an
\* update never leaves 0..UINT_MAX.
LEMMA CounterTypes ==
    ASSUME globalUsers \in 0..UintMax, exactUsers \in 0..UintMax,
           NEW nr \in Nat
    PROVE  /\ GlobalGet \in 0..UintMax
           /\ GlobalPut \in 0..UintMax
           /\ ExactAdd(nr) \in 0..UintMax
           /\ ExactDel(nr) \in 0..UintMax
  BY ScopeConstants DEF GlobalGet, GlobalPut, ExactAdd, ExactDel

\* Sets of directories are finite, so their sizes are numbers.
LEMMA EntriesFinite ==
    ASSUME NEW ents \in SUBSET Paths
    PROVE  Cardinality(ents) \in Nat
  BY ScopeConstants, FS_Subset, FS_CardinalityType

\* The first part of a replacement keeps what it assigns well typed.
LEMMA ReplaceGainTypes ==
    ASSUME TypeOK, NEW by \in Writers \cup {Releaser}, NEW c \in Cgroups,
           NEW new \in ScopePtrs, NEW ents \in SUBSET Paths,
           new = Tombstone => ents = {},
           ReplaceGain(by, c, new, ents)
    PROVE  /\ sec' \in {NoSec} \cup ReplaceSecs \cup ActiveSecs
           /\ seqOdd' \in BOOLEAN
           /\ stale' \in [Readers -> BOOLEAN]
           /\ index' \subseteq ScopeIds \X Paths
           /\ globalUsers' \in 0..UintMax
           /\ exactUsers' \in 0..UintMax
<1> USE DEF TypeOK
<1>1. /\ sec' \in {NoSec} \cup ReplaceSecs \cup ActiveSecs
      /\ seqOdd' \in BOOLEAN
      /\ stale' \in [Readers -> BOOLEAN]
  BY DEF ReplaceGain, ReplaceSecs, OpenSection, ScopePtrs
<1>2. index' \subseteq ScopeIds \X Paths
  BY DEF ReplaceGain, ScopePtrs, IndexAdd
<1>3. Cardinality(ents) \in Nat
  BY EntriesFinite
<1>4. globalUsers' \in 0..UintMax /\ exactUsers' \in 0..UintMax
  BY <1>3, CounterTypes DEF ReplaceGain, GlobalGained
<1> QED
  BY <1>1, <1>2, <1>4

\* The empty registry is well typed.
LEMMA InitTypes == ASSUME Init PROVE TypeOK
<1>1. 0 \in 0..UintMax
  BY ScopeConstants
<1>2. /\ index \subseteq ScopeIds \X Paths
      /\ rpath \in [Readers -> Paths]
      /\ sec \in {NoSec} \cup ReplaceSecs \cup ActiveSecs
  BY DEF Init
<1>3. grace \in [Actors -> SUBSET Readers] /\ old \in [Actors -> ScopeIds \cup {Null}]
  BY DEF Init
<1> QED
  BY <1>1, <1>2, <1>3 DEF Init, TypeOK, ScopePtrs

\* Every step keeps the types.
LEMMA StepTypes == ASSUME TypeOK, [Next]_vars PROVE TypeOK'
<1> USE DEF TypeOK, writerVars, readerVars
<1>1. ASSUME NEW w \in Writers, NEW c \in Cgroups, TakeCgroup(w, c) PROVE TypeOK'
  BY <1>1 DEF TakeCgroup
<1>2. ASSUME NEW w \in Writers, NEW cmd \in Commands, CommandRejected(w, cmd)
      PROVE  TypeOK'
  BY <1>2 DEF CommandRejected
<1>3. ASSUME NEW w \in Writers, NEW cmd \in Commands, CommandStart(w, cmd)
      PROVE  TypeOK'
  <2>1. wcgrp[w] \in Cgroups /\ mutex' \in Writers \cup {Attacher, Null}
    BY <1>3 DEF CommandStart
  <2>2. NewEntries(wcgrp[w], cmd) \in SUBSET Paths
    BY <2>1 DEF NewEntries, EntriesOf, Commands
  <2>3. CASE cmd.op = "global"
    <3>1. ReplaceGain(w, wcgrp[w], Null, {}) /\ UNCHANGED <<allocated, entries>>
      BY <1>3, <2>3 DEF CommandStart
    <3> HIDE DEF TypeOK
    <3>a. Null \in ScopePtrs /\ {} \in SUBSET Paths /\ w \in Writers \cup {Releaser}
      BY DEF ScopePtrs
    <3>2. /\ sec' \in {NoSec} \cup ReplaceSecs \cup ActiveSecs
          /\ seqOdd' \in BOOLEAN
          /\ stale' \in [Readers -> BOOLEAN]
          /\ index' \subseteq ScopeIds \X Paths
          /\ globalUsers' \in 0..UintMax
          /\ exactUsers' \in 0..UintMax
      BY <2>1, <3>1, <3>a, ReplaceGainTypes
    <3> QED
      BY <1>3, <2>1, <3>1, <3>2 DEF CommandStart, TypeOK
  <2>4. CASE cmd.op # "global"
    <3>1. PICK s \in ScopeIds : /\ AllocScopes(s, NewEntries(wcgrp[w], cmd))
                              /\ ReplaceGain(w, wcgrp[w], s, NewEntries(wcgrp[w], cmd))
      BY <1>3, <2>4 DEF CommandStart
    <3>2. entries' \in [ScopeIds -> SUBSET Paths] /\ allocated' \subseteq ScopeIds
      BY <2>2, <3>1 DEF AllocScopes
    <3> HIDE DEF TypeOK
    <3>3. /\ sec' \in {NoSec} \cup ReplaceSecs \cup ActiveSecs
          /\ seqOdd' \in BOOLEAN
          /\ stale' \in [Readers -> BOOLEAN]
          /\ index' \subseteq ScopeIds \X Paths
          /\ globalUsers' \in 0..UintMax
          /\ exactUsers' \in 0..UintMax
      BY <2>1, <2>2, <3>1, ReplaceGainTypes, ScopeConstants DEF ScopePtrs
    <3> QED
      BY <1>3, <2>1, <3>2, <3>3 DEF CommandStart, TypeOK
  <2> QED
    BY <2>3, <2>4
<1>15. ASSUME NEW w \in Writers, NEW cmd \in Commands, CommandAlloc(w, cmd)
       PROVE  TypeOK'
  <2>1. wcgrp[w] \in Cgroups /\ mutex' \in Writers \cup {Attacher, Null}
    BY <1>15 DEF CommandAlloc
  <2>2. NewEntries(wcgrp[w], cmd) \in SUBSET Paths
    BY <2>1 DEF NewEntries, EntriesOf, Commands
  <2>3. PICK s \in ScopeIds : /\ AllocScopes(s, NewEntries(wcgrp[w], cmd))
                            /\ fresh' = [fresh EXCEPT ![w] = s]
    BY <1>15 DEF CommandAlloc
  <2>4. entries' \in [ScopeIds -> SUBSET Paths] /\ allocated' \subseteq ScopeIds
    BY <2>2, <2>3 DEF AllocScopes
  <2> QED
    BY <1>15, <2>1, <2>3, <2>4 DEF CommandAlloc
<1>16. ASSUME NEW w \in Writers, CommandInstall(w) PROVE TypeOK'
  <2>1. fresh[w] \in ScopeIds /\ wcgrp[w] \in Cgroups /\ entries[fresh[w]] \in SUBSET Paths
    BY <1>16 DEF CommandInstall
  <2>2. ReplaceGain(w, wcgrp[w], fresh[w], entries[fresh[w]])
    BY <1>16 DEF CommandInstall
  <2>3. fresh' \in [Writers -> ScopeIds \cup {Null}]
    BY <1>16 DEF CommandInstall
  <2> HIDE DEF TypeOK
  <2>4. /\ sec' \in {NoSec} \cup ReplaceSecs \cup ActiveSecs
        /\ seqOdd' \in BOOLEAN
        /\ stale' \in [Readers -> BOOLEAN]
        /\ index' \subseteq ScopeIds \X Paths
        /\ globalUsers' \in 0..UintMax
        /\ exactUsers' \in 0..UintMax
    BY <2>1, <2>2, ReplaceGainTypes, ScopeConstants DEF ScopePtrs
  <2> QED
    BY <1>16, <2>3, <2>4 DEF CommandInstall, TypeOK
<1>17. ASSUME NEW w \in Writers, CommandAbandon(w) PROVE TypeOK'
  BY <1>17 DEF CommandAbandon, FreeScopes
<1>4. ASSUME NEW w \in Writers, CommandFinish(w) PROVE TypeOK'
  BY <1>4 DEF CommandFinish, FreeScopes, Actors
<1>5. CASE ReplacePublish
  BY <1>5 DEF ReplacePublish, ReplaceSecs, ActiveSecs, NoSec
<1>6. CASE ReplaceLose
  <2>1. sec \in ReplaceSecs
    BY <1>6 DEF ReplaceLose, ReplaceSecs, ActiveSecs, NoSec
  <2>2. EntriesOf(sec.prev) \in SUBSET Paths
    BY <2>1 DEF ReplaceSecs, EntriesOf
  <2>3. Cardinality(EntriesOf(sec.prev)) \in Nat
    BY <2>2, EntriesFinite
  <2>4. globalUsers' \in 0..UintMax /\ exactUsers' \in 0..UintMax
    BY <1>6, <2>3, CounterTypes DEF ReplaceLose, GlobalLost
  <2>5. index' \subseteq ScopeIds \X Paths
    BY <1>6 DEF ReplaceLose, IndexDel
  <2>6. grace' \in [Actors -> SUBSET Readers] /\ old' \in [Actors -> ScopeIds \cup {Null}]
    BY <1>6, <2>1 DEF ReplaceLose, ReplaceSecs, Actors, InRcu, GraceReaders
  <2>7. /\ active' \in [Cgroups -> BOOLEAN]
        /\ life' \in [Cgroups -> {"live", "dead", "releasing", "released"}]
    BY <1>6, <2>1 DEF ReplaceLose, ReplaceSecs
  <2> QED
    BY <1>6, <2>4, <2>5, <2>6, <2>7 DEF ReplaceLose
<1>7. ASSUME NEW c \in Cgroups, NEW val \in BOOLEAN, SetActiveBegin(c, val)
      PROVE  TypeOK'
  <2>1. globalUsers' \in 0..UintMax
    BY <1>7, CounterTypes DEF SetActiveBegin
  <2> QED
    BY <1>7, <2>1 DEF SetActiveBegin, OpenSection, ActiveSecs
<1>8. CASE SetActiveEnd
  <2>1. sec \in ActiveSecs
    BY <1>8 DEF SetActiveEnd, ReplaceSecs, NoSec
  <2>2. active' \in [Cgroups -> BOOLEAN]
    BY <1>8, <2>1 DEF SetActiveEnd, ActiveSecs
  <2> QED
    BY <1>8, <2>2 DEF SetActiveEnd
<1>9. ASSUME NEW c \in Cgroups, Rmdir(c) PROVE TypeOK'
  BY <1>9 DEF Rmdir
<1>10. ASSUME NEW c \in Cgroups, ReleaseStart(c) PROVE TypeOK'
  <2>1. ReplaceGain(Releaser, c, Tombstone, {})
    BY <1>10 DEF ReleaseStart
  <2> HIDE DEF TypeOK
  <2>2. /\ sec' \in {NoSec} \cup ReplaceSecs \cup ActiveSecs
        /\ seqOdd' \in BOOLEAN
        /\ stale' \in [Readers -> BOOLEAN]
        /\ index' \subseteq ScopeIds \X Paths
        /\ globalUsers' \in 0..UintMax
        /\ exactUsers' \in 0..UintMax
    BY <2>1, ReplaceGainTypes DEF ScopePtrs
  <2> QED
    BY <1>10, <2>2 DEF ReleaseStart, TypeOK
<1>11. ASSUME NEW c \in Cgroups, ReleaseFinish(c) PROVE TypeOK'
  BY <1>11 DEF ReleaseFinish, FreeScopes, Actors
<1>12. ASSUME NEW r \in Readers, NEW p \in Paths, FastBegin(r, p) PROVE TypeOK'
  BY <1>12 DEF FastBegin, ReaderStep
<1>13. ASSUME NEW r \in Readers, Walking(r) PROVE TypeOK'
  <2>1. CASE FastGlobal(r)
    BY <2>1 DEF FastGlobal, ReaderStep
  <2>2. CASE FastExact(r)
    BY <2>2 DEF FastExact, ReaderStep
  <2>3. CASE FastRetry(r)
    BY <2>3 DEF FastRetry, ReaderStep
  <2>4. CASE LoopBegin(r)
    BY <2>4 DEF LoopBegin, ReaderStep
  <2>5. CASE LoopGlobal(r)
    BY <2>5 DEF LoopGlobal, ReaderStep
  <2>6. CASE LoopIndex(r)
    BY <2>6 DEF LoopIndex, ReaderStep
  <2>7. CASE LoopRetry(r)
    BY <2>7 DEF LoopRetry, ReaderStep
  <2>8. ASSUME NEW c \in Cgroups, MatchLoad(r, c) PROVE TypeOK'
    BY <2>8 DEF MatchLoad, ReaderStep
  <2>9. CASE MatchDeref(r)
    BY <2>9 DEF MatchDeref, ReaderStep, ScopePtrs
  <2> QED
    BY <1>13, <2>1, <2>2, <2>3, <2>4, <2>5, <2>6, <2>7, <2>8, <2>9 DEF Walking
<1>14. CASE UNCHANGED vars
  BY <1>14 DEF vars
<1> QED
  BY <1>1, <1>2, <1>3, <1>4, <1>5, <1>6, <1>7, <1>8, <1>9, <1>10, <1>11, <1>12,
     <1>13, <1>14, <1>15, <1>16, <1>17 DEF Next, Writing

\* Every variable of the scope registry keeps its type under every interleaving
\* of commands, attaches, removals and walks; in particular the two counters
\* never leave the range of an unsigned int.
THEOREM TypeCorrect == Spec => []TypeOK
  BY InitTypes, StepTypes, PTL DEF Spec

-----------------------------------------------------------------------------
(* Ownership.                                                              *)

\* A writer's references keep its cgroup from being released.
WriterInv == \A w \in Writers : wcgrp[w] # Null => life[wcgrp[w]] \in {"live", "dead"}

\* What the holder of namei_ext_scopes_lock knows.
SectionInv ==
    /\ sec.op = "replace" =>
        /\ life[sec.cgrp] \in {"live", "dead"}
        /\ sec.by \in Writers => mutex = sec.by /\ old[sec.by] = Null
        /\ sec.by = Releaser => /\ life[sec.cgrp] = "dead"
                                /\ sec.new = Tombstone
                                /\ old[sec.cgrp] = Null
                                /\ \A w \in Writers : wcgrp[w] # sec.cgrp
        /\ sec.step = "gained" => scopes[sec.cgrp] = sec.prev
        /\ sec.step = "published" => scopes[sec.cgrp] = sec.new
    /\ sec.op = "active" => mutex = Attacher /\ life[sec.cgrp] \in {"live", "dead"}

\* A replaced set waits for its free with its writer, which still has
\* cgroup_mutex, or with the release worker.
OldInv ==
    /\ \A w \in Writers : old[w] # Null => mutex = w
    /\ \A c \in Cgroups : old[c] # Null => life[c] = "releasing"

\* A set that is not published yet is in the hands of the writer that has
\* cgroup_mutex, which has not opened its section.
FreshInv ==
    \A w \in Writers : fresh[w] # Null =>
        /\ mutex = w /\ wcgrp[w] # Null /\ old[w] = Null
        /\ sec.op = "replace" => sec.by # w

\* The set of an open section is owned by nobody else.
SectionOwns == InSection \cap (Installed \cup Olds) = {}

\* A reader holds a set that is installed, or that was replaced while it held it:
\* then whoever is to free the set waits for this reader.
ReaderInv ==
    \A r \in Readers : rptr[r] \in ScopeIds =>
        /\ rpc[r] = "deref"
        /\ \/ rptr[r] \in Installed
           \/ sec.op = "replace" /\ sec.step = "published" /\ rptr[r] = sec.prev
           \/ \E a \in Actors : old[a] = rptr[r] /\ r \in grace[a]

\* The inductive invariant.
MemoryInv ==
    /\ TypeOK /\ WriterInv /\ SectionInv /\ OldInv /\ FreshInv /\ SectionOwns /\ NoLeak
    /\ IndexMatchesScopes /\ ReaderInv /\ ReleasedLeavesNothing

-----------------------------------------------------------------------------
(* Walks.                                                                  *)

\* A step that leaves the writers' state alone disturbs only ReaderInv.
LEMMA WriterFrame ==
    ASSUME MemoryInv, UNCHANGED writerVars, TypeOK', ReaderInv'
    PROVE  MemoryInv'
<1> USE DEF MemoryInv, writerVars
<1>1. WriterInv' /\ SectionInv' /\ OldInv' /\ FreshInv' /\ ReleasedLeavesNothing'
  BY DEF WriterInv, SectionInv, OldInv, FreshInv, ReleasedLeavesNothing
<1>2. Installed' = Installed /\ Olds' = Olds /\ News' = News /\ InSection' = InSection
  BY DEF Installed, Olds, News, InSection
<1>3. SectionOwns'
  BY <1>2 DEF SectionOwns
<1>4. NoLeak'
  BY <1>2 DEF NoLeak
<1>5. IndexMatchesScopes'
  BY <1>2 DEF IndexMatchesScopes, NodesOf
<1> QED
  BY <1>1, <1>3, <1>4, <1>5

\* A step of a reader that holds no set, before and after.
LEMMA FreeReader ==
    ASSUME MemoryInv, NEW r \in Readers, NEW to, ReaderStep(r, to),
           rpc[r] # "deref", UNCHANGED rptr, TypeOK'
    PROVE  MemoryInv'
<1>1. rptr[r] \notin ScopeIds
  BY DEF MemoryInv, ReaderInv
<1>2. ReaderInv'
  <2> SUFFICES ASSUME NEW q \in Readers, rptr[q] \in ScopeIds
               PROVE  /\ rpc'[q] = "deref"
                      /\ \/ rptr[q] \in Installed
                         \/ sec.op = "replace" /\ sec.step = "published" /\ rptr[q] = sec.prev
                         \/ \E a \in Actors : old[a] = rptr[q] /\ q \in grace'[a]
    BY DEF ReaderInv, ReaderStep, writerVars, Installed
  <2>1. q # r
    BY <1>1
  <2>2. rpc'[q] = rpc[q]
    BY <2>1 DEF ReaderStep, MemoryInv, TypeOK
  <2>3. \A a \in Actors : q \in grace[a] => q \in grace'[a]
    BY <2>1 DEF ReaderStep
  <2> QED
    BY <2>2, <2>3 DEF MemoryInv, ReaderInv
<1> QED
  BY <1>2, WriterFrame DEF ReaderStep

\* A reader frees nothing and leaves its section when it has done with what it found.
LEMMA WalkingKeeps ==
    ASSUME MemoryInv, NEW r \in Readers, Walking(r), TypeOK'
    PROVE  MemoryInv'
<1>1. CASE \/ FastGlobal(r) \/ FastExact(r) \/ FastRetry(r) \/ LoopBegin(r)
           \/ LoopGlobal(r) \/ LoopIndex(r) \/ LoopRetry(r)
  <2>1. rpc[r] # "deref" /\ UNCHANGED rptr
    BY <1>1 DEF FastGlobal, FastExact, FastRetry, LoopBegin, LoopGlobal, LoopIndex, LoopRetry
  <2>2. \E to : ReaderStep(r, to)
    BY <1>1 DEF FastGlobal, FastExact, FastRetry, LoopBegin, LoopGlobal, LoopIndex, LoopRetry
  <2> QED
    BY <2>1, <2>2, FreeReader
<1>2. ASSUME NEW c \in Cgroups, MatchLoad(r, c) PROVE MemoryInv'
  <2>1. ReaderStep(r, "deref") /\ rptr' = [rptr EXCEPT ![r] = scopes[c]]
    BY <1>2 DEF MatchLoad
  <2>2. ReaderInv'
    <3> SUFFICES ASSUME NEW q \in Readers, rptr'[q] \in ScopeIds
                 PROVE  /\ rpc'[q] = "deref"
                        /\ \/ rptr'[q] \in Installed
                           \/ sec.op = "replace" /\ sec.step = "published" /\ rptr'[q] = sec.prev
                           \/ \E a \in Actors : old[a] = rptr'[q] /\ q \in grace'[a]
      BY <2>1 DEF ReaderInv, ReaderStep, writerVars, Installed
    <3>1. CASE q = r
      BY <2>1, <3>1 DEF ReaderStep, MemoryInv, TypeOK, Installed
    <3>2. CASE q # r
      <4>1. rpc'[q] = rpc[q] /\ rptr'[q] = rptr[q]
        BY <2>1, <3>2 DEF ReaderStep, MemoryInv, TypeOK
      <4>2. \A a \in Actors : q \in grace[a] => q \in grace'[a]
        BY <2>1, <3>2 DEF ReaderStep
      <4> QED
        BY <4>1, <4>2 DEF MemoryInv, ReaderInv
    <3> QED
      BY <3>1, <3>2
  <2> QED
    BY <2>1, <2>2, WriterFrame DEF ReaderStep
<1>3. CASE MatchDeref(r)
  <2>1. ReaderStep(r, "idle") /\ rptr' = [rptr EXCEPT ![r] = Null]
    BY <1>3 DEF MatchDeref
  <2>2. ReaderInv'
    <3> SUFFICES ASSUME NEW q \in Readers, rptr'[q] \in ScopeIds
                 PROVE  /\ rpc'[q] = "deref"
                        /\ \/ rptr'[q] \in Installed
                           \/ sec.op = "replace" /\ sec.step = "published" /\ rptr'[q] = sec.prev
                           \/ \E a \in Actors : old[a] = rptr'[q] /\ q \in grace'[a]
      BY <2>1 DEF ReaderInv, ReaderStep, writerVars, Installed
    <3>1. q # r
      BY <2>1, ScopeConstants DEF MemoryInv, TypeOK
    <3>2. rpc'[q] = rpc[q] /\ rptr'[q] = rptr[q]
      BY <2>1, <3>1 DEF ReaderStep, MemoryInv, TypeOK
    <3>3. \A a \in Actors : q \in grace[a] => q \in grace'[a]
      BY <2>1, <3>1 DEF ReaderStep
    <3> QED
      BY <3>2, <3>3 DEF MemoryInv, ReaderInv
  <2> QED
    BY <2>1, <2>2, WriterFrame DEF ReaderStep
<1> QED
  BY <1>1, <1>2, <1>3 DEF Walking

-----------------------------------------------------------------------------
(* Steps that neither install nor free a set.                              *)

\* The set a section took from a cgroup.
Taken == IF sec.op = "replace" /\ sec.step = "published" THEN {sec.prev} ELSE {}

\* A step that leaves sets, index and readers alone keeps all that is about them.
LEMMA MemoryFrame ==
    ASSUME MemoryInv, UNCHANGED <<scopes, entries, allocated, index, fresh, old, grace, rpc, rptr>>,
           InSection' = InSection, Taken' = Taken,
           TypeOK', WriterInv', SectionInv', OldInv', FreshInv', ReleasedLeavesNothing'
    PROVE  MemoryInv'
<1> USE DEF MemoryInv
<1>1. Installed' = Installed /\ Olds' = Olds /\ News' = News
  BY DEF Installed, Olds, News
<1>2. SectionOwns'
  BY <1>1 DEF SectionOwns
<1>3. NoLeak'
  BY <1>1 DEF NoLeak
<1>4. IndexMatchesScopes'
  BY <1>1 DEF IndexMatchesScopes, NodesOf
<1>5. \A s : (sec.op = "replace" /\ sec.step = "published" /\ s = sec.prev)
                 => (sec.op = "replace" /\ sec.step = "published" /\ s = sec.prev)'
  BY DEF Taken
<1>6. ReaderInv'
  BY <1>1, <1>5 DEF ReaderInv
<1> QED
  BY <1>2, <1>3, <1>4, <1>6

\* A writer takes a cgroup: no set changes.
LEMMA TakeCgroupKeeps ==
    ASSUME MemoryInv, NEW w \in Writers, NEW c \in Cgroups, TakeCgroup(w, c), TypeOK'
    PROVE  MemoryInv'
<1> USE DEF MemoryInv, TakeCgroup, TypeOK
<1>1. WriterInv'
  BY DEF WriterInv
<1>2. SectionInv'
  <2>1. sec.op = "replace" /\ sec.by = Releaser => c # sec.cgrp
    BY DEF SectionInv
  <2> QED
    BY <2>1 DEF SectionInv
<1>3. OldInv' /\ FreshInv' /\ ReleasedLeavesNothing'
  BY ScopeConstants DEF OldInv, FreshInv, ReleasedLeavesNothing
<1>4. InSection' = InSection /\ Taken' = Taken
  BY DEF InSection, Taken
<1> QED
  BY <1>1, <1>2, <1>3, <1>4, MemoryFrame DEF readerVars

\* A refused command: no set changes.
LEMMA CommandRejectedKeeps ==
    ASSUME MemoryInv, NEW w \in Writers, NEW cmd \in Commands, CommandRejected(w, cmd), TypeOK'
    PROVE  MemoryInv'
<1> USE DEF MemoryInv, CommandRejected, TypeOK
<1>1. WriterInv'
  BY DEF WriterInv
<1>2. SectionInv'
  <2>1. \A v \in Writers, c \in Cgroups : wcgrp[v] # c => wcgrp'[v] # c
    BY ScopeConstants
  <2>2. sec.op = "replace" => sec.cgrp \in Cgroups
    BY DEF NoSec, ReplaceSecs, ActiveSecs
  <2> QED
    BY <2>1, <2>2 DEF SectionInv
<1>3. OldInv' /\ FreshInv' /\ ReleasedLeavesNothing'
  BY ScopeConstants DEF OldInv, FreshInv, ReleasedLeavesNothing
<1>4. InSection' = InSection /\ Taken' = Taken
  BY DEF InSection, Taken
<1> QED
  BY <1>1, <1>2, <1>3, <1>4, MemoryFrame DEF readerVars

\* A removed cgroup keeps its set until its release.
LEMMA RmdirKeeps ==
    ASSUME MemoryInv, NEW c \in Cgroups, Rmdir(c), TypeOK'
    PROVE  MemoryInv'
<1> USE DEF MemoryInv, Rmdir, TypeOK
<1>1. WriterInv'
  BY DEF WriterInv
<1>2. SectionInv'
  <2>1. sec.op \in {"replace", "active"} => sec.cgrp \in Cgroups
    BY DEF NoSec, ReplaceSecs, ActiveSecs
  <2> QED
    BY <2>1 DEF SectionInv
<1>3. OldInv' /\ FreshInv' /\ ReleasedLeavesNothing'
  BY ScopeConstants DEF OldInv, FreshInv, ReleasedLeavesNothing
<1>4. InSection' = InSection /\ Taken' = Taken
  BY DEF InSection, Taken
<1> QED
  BY <1>1, <1>2, <1>3, <1>4, MemoryFrame DEF readerVars

\* The policy of a cgroup comes or goes: counters only.
LEMMA SetActiveBeginKeeps ==
    ASSUME MemoryInv, NEW c \in Cgroups, NEW val \in BOOLEAN, SetActiveBegin(c, val), TypeOK'
    PROVE  MemoryInv'
<1> USE DEF MemoryInv, SetActiveBegin, TypeOK
<1>1. WriterInv'
  BY DEF WriterInv
<1>2. SectionInv'
  <2>1. life[c] \in {"live", "dead"}
    BY ScopeConstants DEF Updatable, Referenced, WriterInv
  <2> QED
    BY <2>1 DEF SectionInv
<1>3. OldInv' /\ FreshInv' /\ ReleasedLeavesNothing'
  BY ScopeConstants DEF OldInv, FreshInv, ReleasedLeavesNothing
<1>4. InSection' = InSection /\ Taken' = Taken
  BY DEF InSection, Taken, NoSec
<1> QED
  BY <1>1, <1>2, <1>3, <1>4, MemoryFrame DEF readerVars

\* scope_active follows, and the section ends.
LEMMA SetActiveEndKeeps ==
    ASSUME MemoryInv, SetActiveEnd, TypeOK'
    PROVE  MemoryInv'
<1> USE DEF MemoryInv, SetActiveEnd, TypeOK
<1>0. sec \in ActiveSecs
  BY DEF ReplaceSecs, NoSec
<1>1. WriterInv'
  BY DEF WriterInv
<1>2. SectionInv'
  BY DEF SectionInv, NoSec
<1>3. OldInv' /\ FreshInv'
  BY ScopeConstants DEF OldInv, FreshInv, SectionInv
<1>4. ReleasedLeavesNothing'
  BY <1>0 DEF ReleasedLeavesNothing, SectionInv, ActiveSecs
<1>5. InSection' = InSection /\ Taken' = Taken
  BY <1>0 DEF InSection, Taken, NoSec, ActiveSecs
<1> QED
  BY <1>1, <1>2, <1>3, <1>4, <1>5, MemoryFrame DEF readerVars

-----------------------------------------------------------------------------
(* Replacement of a scope set.                                             *)

\* A section is opened with a set nobody else has, or with none.
LEMMA GainKeeps ==
    ASSUME MemoryInv, NEW by, NEW c \in Cgroups, NEW new \in ScopePtrs,
           NEW ents \in SUBSET Paths, ReplaceGain(by, c, new, ents),
           allocated' = allocated \cup ({new} \cap ScopeIds), News' = News \ {new},
           \A v, w \in Writers : fresh'[v] = fresh'[w] /\ fresh'[v] # Null => v = w,
           new \in ScopeIds => /\ new \notin Installed /\ new \notin Olds
                              /\ entries'[new] = ents
                              /\ \A s \in ScopeIds : s # new => entries'[s] = entries[s],
           new \notin ScopeIds => entries' = entries /\ ents = {},
           UNCHANGED <<scopes, old, grace, rpc, rptr>>, TypeOK'
    PROVE  SectionOwns' /\ NoLeak' /\ IndexMatchesScopes' /\ ReaderInv'
<1> USE DEF MemoryInv, TypeOK
<1>1. Installed' = Installed /\ Olds' = Olds
  BY DEF Installed, Olds
<1>2. InSection = {} /\ InSection' = {new} \cap ScopeIds
  BY DEF InSection, ReplaceGain, NoSec
<1>3. Installed \subseteq ScopeIds /\ Olds \subseteq ScopeIds /\ News \subseteq ScopeIds
  BY DEF Installed, Olds, News
<1>4. SectionOwns'
  BY <1>1, <1>2, <1>3 DEF SectionOwns
<1>5. NoLeak'
  <2>1. allocated' = Installed' \cup InSection' \cup Olds' \cup News'
    BY <1>1, <1>2, <1>3 DEF NoLeak
  <2>2. News' \cap (Installed' \cup InSection' \cup Olds') = {}
    BY <1>1, <1>2 DEF NoLeak
  <2> QED
    BY <1>1, <2>1, <2>2 DEF NoLeak
<1>6. IndexMatchesScopes'
  <2>1. CASE new \notin ScopeIds
    <3>1. index' = index
      BY <2>1 DEF ReplaceGain, IndexAdd
    <3> QED
      BY <1>1, <1>2, <2>1, <3>1 DEF IndexMatchesScopes, NodesOf
  <2>2. CASE new \in ScopeIds
    <3>1. index' = index \cup ({new} \X ents)
      BY <2>2, ScopeConstants DEF ReplaceGain, IndexAdd
    <3>2. entries'[new] = ents /\ \A s \in Installed : entries'[s] = entries[s]
      BY <1>3, <2>2
    <3>3. index = NodesOf(Installed)
      BY <1>2 DEF IndexMatchesScopes
    <3>4. NodesOf(Installed)' = NodesOf(Installed)
      BY <1>1, <3>2 DEF NodesOf, Installed
    <3>5. NodesOf(Installed \cup InSection)' = NodesOf(Installed)' \cup ({new} \X ents)
      BY <1>1, <1>2, <2>2, <3>2 DEF NodesOf
    <3> QED
      BY <3>1, <3>3, <3>4, <3>5 DEF IndexMatchesScopes
  <2> QED
    BY <2>1, <2>2
<1>7. ReaderInv'
  <2>1. ~(sec.op = "replace" /\ sec.step = "published")
    BY DEF ReplaceGain, NoSec
  <2> QED
    BY <1>1, <2>1 DEF ReaderInv
<1> QED
  BY <1>4, <1>5, <1>6, <1>7

\* A command builds its set in memory nobody else has.
LEMMA CommandStartKeeps ==
    ASSUME MemoryInv, NEW w \in Writers, NEW cmd \in Commands, CommandStart(w, cmd), TypeOK'
    PROVE  MemoryInv'
<1> USE DEF MemoryInv
<1> DEFINE c == wcgrp[w]
<1>1. c \in Cgroups /\ life[c] = "live" /\ mutex = Null
  BY DEF CommandStart, Rejected, TypeOK
<1>2. NewEntries(c, cmd) \in SUBSET Paths
  BY <1>1 DEF NewEntries, EntriesOf, Commands, TypeOK
<1>3. PICK new \in ScopePtrs, ents \in SUBSET Paths :
        /\ ReplaceGain(w, c, new, ents)
        /\ allocated' = allocated \cup ({new} \cap ScopeIds)
        /\ new \notin allocated
        /\ new \in ScopeIds => entries' = [entries EXCEPT ![new] = ents]
        /\ new \notin ScopeIds => entries' = entries /\ ents = {}
  <2>1. CASE cmd.op = "global"
    <3>1. ReplaceGain(w, c, Null, {}) /\ UNCHANGED <<allocated, entries>>
      BY <2>1 DEF CommandStart
    <3>2. Null \in ScopePtrs /\ {Null} \cap ScopeIds = {} /\ Null \notin allocated
      BY ScopeConstants DEF ScopePtrs, TypeOK
    <3> QED
      BY <3>1, <3>2
  <2>2. CASE cmd.op # "global"
    <3>1. PICK s \in ScopeIds : /\ AllocScopes(s, NewEntries(c, cmd))
                              /\ ReplaceGain(w, c, s, NewEntries(c, cmd))
      BY <2>2 DEF CommandStart
    <3>2. s \in ScopePtrs /\ {s} \cap ScopeIds = {s}
      BY DEF ScopePtrs
    <3> QED
      BY <1>2, <3>1, <3>2 DEF AllocScopes
  <2> QED
    BY <2>1, <2>2
<1>4. UNCHANGED <<life, scopes, active, wcgrp, fresh, old, grace, rpc, rptr>> /\ mutex' = w
  BY DEF CommandStart, readerVars
<1>5. SectionOwns' /\ NoLeak' /\ IndexMatchesScopes' /\ ReaderInv'
  <2>1. new \notin Installed /\ new \notin Olds /\ new \notin News
    BY <1>3 DEF NoLeak
  <2>2. News' = News \ {new}
    BY <1>4, <2>1 DEF News
  <2>3. \A v, u \in Writers : fresh'[v] = fresh'[u] /\ fresh'[v] # Null => v = u
    BY <1>4 DEF NoLeak
  <2>4. new \in ScopeIds => /\ entries'[new] = ents
                           /\ \A s \in ScopeIds : s # new => entries'[s] = entries[s]
    BY <1>3 DEF TypeOK
  <2> QED
    BY <1>1, <1>3, <1>4, <2>1, <2>2, <2>3, <2>4, GainKeeps
<1>6. WriterInv' /\ ReleasedLeavesNothing'
  BY <1>4 DEF WriterInv, ReleasedLeavesNothing
<1>7. OldInv' /\ FreshInv'
  BY <1>1, <1>4, ScopeConstants DEF OldInv, FreshInv
<1>8. SectionInv'
  <2>1. sec' = [op |-> "replace", by |-> w, cgrp |-> c, new |-> new, prev |-> scopes[c],
                step |-> "gained"]
    BY <1>3 DEF ReplaceGain
  <2>2. old[w] = Null
    BY <1>1, ScopeConstants DEF OldInv
  <2> QED
    BY <1>1, <1>4, <2>1, <2>2, ScopeConstants DEF SectionInv
<1> QED
  BY <1>5, <1>6, <1>7, <1>8

\* So do the commands that have theirs before they know that the cgroup is there ...
LEMMA CommandAllocKeeps ==
    ASSUME MemoryInv, NEW w \in Writers, NEW cmd \in Commands, CommandAlloc(w, cmd), TypeOK'
    PROVE  MemoryInv'
<1> USE DEF MemoryInv, TypeOK
<1>1. PICK s \in ScopeIds : /\ s \notin allocated /\ allocated' = allocated \cup {s}
                          /\ entries' = [entries EXCEPT ![s] = NewEntries(wcgrp[w], cmd)]
                          /\ fresh' = [fresh EXCEPT ![w] = s]
  BY DEF CommandAlloc, AllocScopes
<1>2. /\ wcgrp[w] # Null /\ mutex = Null /\ mutex' = w
      /\ UNCHANGED <<life, scopes, active, index, sec, wcgrp, old, grace, rpc, rptr>>
  BY DEF CommandAlloc, readerVars
<1>3. \A v \in Writers : fresh[v] = Null /\ old[v] = Null /\ (sec.op = "replace" => sec.by # v)
  BY <1>2, ScopeConstants DEF FreshInv, OldInv, SectionInv
<1>4. Installed' = Installed /\ InSection' = InSection /\ Olds' = Olds
  BY <1>2 DEF Installed, InSection, Olds
<1>5. News = {} /\ News' = {s}
  BY <1>1, <1>3, ScopeConstants DEF News
<1>6. s \notin Installed \cup InSection \cup Olds
  BY <1>1 DEF NoLeak
<1>7. NoLeak'
  <2>1. allocated' = Installed' \cup InSection' \cup Olds' \cup News'
    BY <1>1, <1>4, <1>5 DEF NoLeak
  <2>2. News' \cap (Installed' \cup InSection' \cup Olds') = {}
    BY <1>4, <1>5, <1>6
  <2>3. \A v, u \in Writers : fresh'[v] = fresh'[u] /\ fresh'[v] # Null => v = u
    BY <1>1, <1>3
  <2> QED
    BY <1>2, <1>4, <2>1, <2>2, <2>3 DEF NoLeak
<1>8. IndexMatchesScopes'
  <2>1. \A t \in Installed \cup InSection : entries'[t] = entries[t]
    BY <1>1, <1>6
  <2> QED
    BY <1>2, <1>4, <2>1 DEF IndexMatchesScopes, NodesOf
<1>9. SectionOwns' /\ ReaderInv'
  BY <1>2, <1>4 DEF SectionOwns, ReaderInv
<1>10. WriterInv' /\ ReleasedLeavesNothing'
  BY <1>2 DEF WriterInv, ReleasedLeavesNothing
<1>11. SectionInv' /\ OldInv'
  BY <1>2, ScopeConstants DEF SectionInv, OldInv
<1>12. FreshInv'
  BY <1>1, <1>2, <1>3 DEF FreshInv
<1> QED
  BY <1>7, <1>8, <1>9, <1>10, <1>11, <1>12

\* ... and install it ...
LEMMA CommandInstallKeeps ==
    ASSUME MemoryInv, NEW w \in Writers, CommandInstall(w), TypeOK'
    PROVE  MemoryInv'
<1> USE DEF MemoryInv
<1> DEFINE c == wcgrp[w]
           new == fresh[w]
<1>1. /\ c \in Cgroups /\ life[c] = "live" /\ mutex = w
      /\ new \in ScopeIds /\ new \in ScopePtrs /\ entries[new] \in SUBSET Paths
  BY DEF CommandInstall, TypeOK, ScopePtrs
<1>2. /\ ReplaceGain(w, c, new, entries[new]) /\ fresh' = [fresh EXCEPT ![w] = Null]
      /\ UNCHANGED <<life, scopes, active, entries, allocated, mutex, wcgrp, old, grace, rpc, rptr>>
  BY DEF CommandInstall, readerVars
<1>3. old[w] = Null /\ \A v \in Writers : v # w => fresh[v] = Null
  BY <1>1, ScopeConstants DEF FreshInv
<1>4. \A v \in Writers : fresh'[v] = Null
  BY <1>2, <1>3 DEF TypeOK
<1>5. News = {new} /\ News' = {}
  BY <1>1, <1>3, <1>4, ScopeConstants DEF News
<1>6. SectionOwns' /\ NoLeak' /\ IndexMatchesScopes' /\ ReaderInv'
  <2>1. new \notin Installed /\ new \notin Olds /\ new \in allocated
    BY <1>5 DEF NoLeak
  <2>2. allocated' = allocated \cup ({new} \cap ScopeIds) /\ News' = News \ {new}
    BY <1>2, <1>5, <2>1
  <2> HIDE DEF new, c
  <2> QED
    BY <1>1, <1>2, <1>4, <2>1, <2>2, GainKeeps
<1>7. WriterInv' /\ ReleasedLeavesNothing' /\ OldInv'
  BY <1>2 DEF WriterInv, ReleasedLeavesNothing, OldInv
<1>8. FreshInv'
  BY <1>4 DEF FreshInv
<1>9. SectionInv'
  <2>1. sec' = [op |-> "replace", by |-> w, cgrp |-> c, new |-> new, prev |-> scopes[c],
                step |-> "gained"]
    BY <1>2 DEF ReplaceGain
  <2> QED
    BY <1>1, <1>2, <1>3, <2>1, ScopeConstants DEF SectionInv
<1> QED
  BY <1>6, <1>7, <1>8, <1>9

\* ... or give it back, although nobody has seen it.
LEMMA AbandonKeeps ==
    ASSUME MemoryInv, NEW w \in Writers, CommandAbandon(w), TypeOK'
    PROVE  MemoryInv'
<1> USE DEF MemoryInv, TypeOK
<1> DEFINE new == fresh[w]
<1>1. mutex = w /\ new \in ScopeIds /\ sec = NoSec
  BY DEF CommandAbandon
<1>2. /\ allocated' = allocated \ {new} /\ fresh' = [fresh EXCEPT ![w] = Null] /\ mutex' = Null
      /\ \A t \in ScopeIds : t # new => entries'[t] = entries[t]
      /\ wcgrp' = [wcgrp EXCEPT ![w] = Null]
      /\ UNCHANGED <<life, scopes, active, index, sec, old, grace, rpc, rptr>>
  BY DEF CommandAbandon, FreeScopes, readerVars
<1>3. old[w] = Null /\ \A v \in Writers : v # w => fresh[v] = Null
  BY <1>1, ScopeConstants DEF FreshInv
<1>4. \A v \in Writers : fresh'[v] = Null
  BY <1>2, <1>3
<1>5. News = {new} /\ News' = {}
  BY <1>1, <1>3, <1>4, ScopeConstants DEF News
<1>6. Installed' = Installed /\ InSection' = InSection /\ Olds' = Olds
  BY <1>2 DEF Installed, InSection, Olds
<1>7. new \notin Installed \cup InSection \cup Olds
  BY <1>5 DEF NoLeak
<1>8. NoLeak'
  <2>1. allocated' = Installed' \cup InSection' \cup Olds' \cup News'
    BY <1>2, <1>5, <1>6, <1>7 DEF NoLeak
  <2> QED
    BY <1>2, <1>4, <1>5, <1>6, <2>1 DEF NoLeak
<1>9. IndexMatchesScopes'
  <2>1. \A t \in Installed \cup InSection : entries'[t] = entries[t]
    BY <1>2, <1>7 DEF Installed, InSection
  <2> QED
    BY <1>2, <1>6, <2>1 DEF IndexMatchesScopes, NodesOf
<1>10. SectionOwns' /\ ReaderInv'
  BY <1>2, <1>6 DEF SectionOwns, ReaderInv
<1>11. WriterInv' /\ ReleasedLeavesNothing'
  BY <1>2 DEF WriterInv, ReleasedLeavesNothing
<1>12. SectionInv' /\ FreshInv'
  BY <1>1, <1>2, <1>4 DEF SectionInv, FreshInv, NoSec
<1>13. OldInv'
  BY <1>1, <1>2, <1>3 DEF OldInv
<1> QED
  BY <1>8, <1>9, <1>10, <1>11, <1>12, <1>13

\* The release of a cgroup puts a tombstone in its place.
LEMMA ReleaseStartKeeps ==
    ASSUME MemoryInv, NEW c \in Cgroups, ReleaseStart(c), TypeOK'
    PROVE  MemoryInv'
<1> USE DEF MemoryInv
<1>1. ReplaceGain(Releaser, c, Tombstone, {}) /\ life[c] = "dead"
  BY DEF ReleaseStart
<1>2. UNCHANGED <<life, scopes, active, entries, allocated, mutex, wcgrp, fresh, old, grace, rpc, rptr>>
  BY DEF ReleaseStart, readerVars
<1>3. Tombstone \in ScopePtrs /\ Tombstone \notin ScopeIds
  BY ScopeConstants DEF ScopePtrs
<1>4. SectionOwns' /\ NoLeak' /\ IndexMatchesScopes' /\ ReaderInv'
  <2>1. allocated' = allocated \cup ({Tombstone} \cap ScopeIds) /\ {} \in SUBSET Paths
    BY <1>2, <1>3
  <2>2. News' = News \ {Tombstone}
    BY <1>2, <1>3 DEF News
  <2>3. \A v, u \in Writers : fresh'[v] = fresh'[u] /\ fresh'[v] # Null => v = u
    BY <1>2 DEF NoLeak
  <2> QED
    BY <1>1, <1>2, <1>3, <2>1, <2>2, <2>3, GainKeeps
<1>5. WriterInv' /\ ReleasedLeavesNothing' /\ OldInv'
  BY <1>2 DEF WriterInv, ReleasedLeavesNothing, OldInv
<1>6. SectionInv'
  <2>1. sec' = [op |-> "replace", by |-> Releaser, cgrp |-> c, new |-> Tombstone,
                prev |-> scopes[c], step |-> "gained"]
    BY <1>1 DEF ReplaceGain
  <2>2. old[c] = Null
    BY <1>1 DEF OldInv
  <2>3. \A w \in Writers : wcgrp[w] # c
    BY DEF ReleaseStart, Referenced
  <2> QED
    BY <1>1, <1>2, <2>1, <2>2, <2>3, ScopeConstants DEF SectionInv
<1>7. FreshInv'
  BY <1>1, <1>2, ScopeConstants DEF FreshInv, ReplaceGain
<1> QED
  BY <1>4, <1>5, <1>6, <1>7

\* The new set is published; the one before it is still in the index.
LEMMA ReplacePublishKeeps ==
    ASSUME MemoryInv, ReplacePublish, TypeOK'
    PROVE  MemoryInv'
<1> USE DEF MemoryInv, TypeOK
<1> DEFINE c == sec.cgrp
           new == sec.new
           prev == sec.prev
<1>1. sec \in ReplaceSecs /\ sec.op = "replace" /\ sec.step = "gained"
  BY DEF ReplacePublish, ReplaceSecs, ActiveSecs, NoSec
<1>2. c \in Cgroups /\ new \in ScopePtrs /\ prev \in ScopePtrs /\ scopes[c] = prev
  BY <1>1 DEF ReplaceSecs, SectionInv
<1>3. sec' = [sec EXCEPT !.step = "published"] /\ scopes' = [scopes EXCEPT ![c] = new]
  BY DEF ReplacePublish
<1>4. /\ sec'.op = "replace" /\ sec'.step = "published" /\ sec'.cgrp = c
      /\ sec'.new = new /\ sec'.prev = prev /\ sec'.by = sec.by
  BY <1>1, <1>3 DEF ReplaceSecs
<1>5. UNCHANGED <<life, active, entries, allocated, index, mutex, wcgrp, fresh, old, grace, rpc, rptr>>
  BY DEF ReplacePublish, readerVars
<1>6. InSection = {new} \cap ScopeIds /\ InSection' = {prev} \cap ScopeIds
  BY <1>1, <1>4 DEF InSection
<1>7. new \in ScopeIds => new \notin Installed /\ new \notin Olds
  BY <1>6 DEF SectionOwns
<1>8. prev \in ScopeIds => prev \in Installed /\ prev \notin Olds
  BY <1>2 DEF Installed, NoLeak, Olds
<1>9. Installed' = (Installed \ {prev}) \cup ({new} \cap ScopeIds)
  <2>1. \A d \in Cgroups : d # c => scopes'[d] = scopes[d] /\ (scopes[d] \in ScopeIds => scopes[d] # prev)
    BY <1>2, <1>3 DEF NoLeak
  <2>2. scopes'[c] = new
    BY <1>2, <1>3
  <2>3. ASSUME NEW s \in ScopeIds, s \in Installed, s # prev PROVE s \in Installed'
    BY <1>2, <2>1, <2>3 DEF Installed
  <2>4. ASSUME NEW s \in ScopeIds, s \in Installed'
        PROVE  s = new \/ (s \in Installed /\ s # prev)
    BY <2>1, <2>2, <2>4 DEF Installed
  <2>5. new \in ScopeIds => new \in Installed'
    BY <1>2, <2>2 DEF Installed
  <2>6. Installed \subseteq ScopeIds /\ Installed' \subseteq ScopeIds
    BY DEF Installed
  <2> QED
    BY <2>3, <2>4, <2>5, <2>6
<1>10. Olds' = Olds /\ News' = News
  BY <1>5 DEF Olds, News
<1>11. Installed' \cup InSection' = Installed \cup InSection
  <2>1. Installed \subseteq ScopeIds
    BY DEF Installed
  <2> QED
    BY <1>6, <1>8, <1>9, <2>1
<1>12. SectionOwns'
  BY <1>6, <1>7, <1>8, <1>9, <1>10 DEF SectionOwns
<1>13. NoLeak'
  <2>1. /\ allocated' = Installed' \cup InSection' \cup Olds' \cup News'
        /\ News' \cap (Installed' \cup InSection' \cup Olds') = {}
    BY <1>5, <1>10, <1>11 DEF NoLeak
  <2>2. \A a, b \in Actors : old'[a] = old'[b] /\ old'[a] # Null => a = b
    BY <1>5 DEF NoLeak
  <2>3. \A a \in Actors : old'[a] \notin Installed'
    BY <1>5, <1>7, <1>9 DEF NoLeak, Olds
  <2>4. ASSUME NEW d \in Cgroups, NEW e \in Cgroups, scopes'[d] = scopes'[e], scopes'[d] \in ScopeIds
        PROVE  d = e
    <3>1. CASE d # c /\ e # c
      BY <1>3, <2>4, <3>1 DEF NoLeak
    <3>2. CASE d = c /\ e # c
      <4>1. new \in ScopeIds /\ scopes[e] = new
        BY <1>2, <1>3, <2>4, <3>2
      <4> QED
        BY <1>7, <4>1 DEF Installed
    <3>3. CASE d # c /\ e = c
      <4>1. new \in ScopeIds /\ scopes[d] = new
        BY <1>2, <1>3, <2>4, <3>3
      <4> QED
        BY <1>7, <4>1 DEF Installed
    <3> QED
      BY <3>1, <3>2, <3>3
  <2> QED
    BY <1>5, <2>1, <2>2, <2>3, <2>4 DEF NoLeak
<1>14. IndexMatchesScopes'
  BY <1>5, <1>11 DEF IndexMatchesScopes, NodesOf
<1>15. ReaderInv'
  <2> SUFFICES ASSUME NEW r \in Readers, rptr[r] \in ScopeIds
               PROVE  /\ rpc[r] = "deref"
                      /\ \/ rptr[r] \in Installed'
                         \/ rptr[r] = prev
                         \/ \E a \in Actors : old[a] = rptr[r] /\ r \in grace[a]
    BY <1>4, <1>5 DEF ReaderInv
  <2> QED
    BY <1>1, <1>9 DEF ReaderInv
<1>16. SectionInv'
  BY <1>1, <1>2, <1>3, <1>4, <1>5 DEF SectionInv
<1>17. WriterInv' /\ OldInv' /\ FreshInv'
  BY <1>1, <1>4, <1>5 DEF WriterInv, OldInv, FreshInv
<1>18. ReleasedLeavesNothing'
  <2>1. life[c] \in {"live", "dead"}
    BY <1>1 DEF SectionInv
  <2> QED
    BY <1>3, <1>5, <2>1 DEF ReleasedLeavesNothing
<1> QED
  BY <1>12, <1>13, <1>14, <1>15, <1>16, <1>17, <1>18

\* The old set leaves the index and waits for the readers that may have found it.
LEMMA ReplaceLoseKeeps ==
    ASSUME MemoryInv, ReplaceLose, TypeOK'
    PROVE  MemoryInv'
<1> USE DEF MemoryInv, TypeOK
<1> DEFINE c == sec.cgrp
           prev == sec.prev
           a == IF sec.by = Releaser THEN sec.cgrp ELSE sec.by
<1>1. sec \in ReplaceSecs /\ sec.op = "replace" /\ sec.step = "published"
  BY DEF ReplaceLose, ReplaceSecs, ActiveSecs, NoSec
<1>2. c \in Cgroups /\ prev \in ScopePtrs /\ scopes[c] = sec.new /\ a \in Actors
  BY <1>1 DEF ReplaceSecs, SectionInv, Actors
<1>3. /\ old' = [old EXCEPT ![a] = IF prev \in ScopeIds THEN prev ELSE Null]
      /\ grace' = [grace EXCEPT ![a] = GraceReaders(prev)]
      /\ sec' = NoSec
      /\ UNCHANGED <<scopes, entries, allocated, mutex, wcgrp, fresh, rpc, rptr>>
  BY DEF ReplaceLose, readerVars
<1>4. old[a] = Null
  BY <1>1 DEF SectionInv, ReplaceSecs
<1>5. InSection = {prev} \cap ScopeIds /\ InSection' = {} /\ Installed' = Installed
  BY <1>1, <1>3 DEF InSection, NoSec, Installed
<1>6. prev \in ScopeIds => prev \notin Installed /\ prev \notin Olds
  BY <1>5 DEF SectionOwns
<1>7. Olds' = Olds \cup ({prev} \cap ScopeIds)
  <2>1. \A b \in Actors : b # a => old'[b] = old[b]
    BY <1>3
  <2>2. old'[a] = IF prev \in ScopeIds THEN prev ELSE Null
    BY <1>2, <1>3
  <2> QED
    BY <1>2, <1>4, <2>1, <2>2, ScopeConstants DEF Olds
<1>8. SectionOwns'
  BY <1>5 DEF SectionOwns
<1>9. NoLeak'
  <2>1. /\ allocated' = Installed' \cup InSection' \cup Olds' \cup News'
        /\ News' \cap (Installed' \cup InSection' \cup Olds') = {}
    <3>1. News' = News
      BY <1>3 DEF News
    <3> QED
      BY <1>3, <1>5, <1>7, <3>1 DEF NoLeak
  <2>2. \A b \in Actors : b # a => old[b] # prev \/ prev \notin ScopeIds
    BY <1>6 DEF Olds
  <2>3. \A b, d \in Actors : old'[b] = old'[d] /\ old'[b] # Null => b = d
    BY <1>2, <1>3, <2>2 DEF NoLeak
  <2>4. \A b \in Actors : old'[b] \notin Installed'
    BY <1>2, <1>3, <1>5, <1>6, ScopeConstants DEF NoLeak, Installed
  <2> QED
    BY <1>3, <2>1, <2>3, <2>4 DEF NoLeak
<1>10. IndexMatchesScopes'
  <2>1. CASE prev \notin ScopeIds
    <3>1. index' = index
      BY <2>1 DEF ReplaceLose, IndexDel, EntriesOf
    <3> QED
      BY <1>3, <1>5, <2>1, <3>1 DEF IndexMatchesScopes, NodesOf
  <2>2. CASE prev \in ScopeIds
    <3>1. index' = index \ ({prev} \X entries[prev])
      BY <2>2, ScopeConstants DEF ReplaceLose, IndexDel, EntriesOf
    <3>2. index = NodesOf(Installed \cup {prev})
      BY <1>5, <2>2 DEF IndexMatchesScopes
    <3>3. NodesOf(Installed) = NodesOf(Installed \cup {prev}) \ ({prev} \X entries[prev])
      BY <1>6, <2>2 DEF NodesOf
    <3>4. NodesOf(Installed \cup InSection)' = NodesOf(Installed)
      BY <1>3, <1>5 DEF NodesOf
    <3> QED
      BY <3>1, <3>2, <3>3, <3>4 DEF IndexMatchesScopes
  <2> QED
    BY <2>1, <2>2
<1>11. ReaderInv'
  <2> SUFFICES ASSUME NEW r \in Readers, rptr[r] \in ScopeIds
               PROVE  /\ rpc[r] = "deref"
                      /\ \/ rptr[r] \in Installed
                         \/ \E b \in Actors : old'[b] = rptr[r] /\ r \in grace'[b]
    BY <1>3, <1>5 DEF ReaderInv
  <2>1. rpc[r] = "deref"
    BY DEF ReaderInv
  <2>2. CASE rptr[r] = prev
    <3>1. old'[a] = prev /\ grace'[a] = InRcu
      BY <1>2, <1>3, <2>2, ScopeConstants DEF GraceReaders
    <3> QED
      BY <1>2, <2>1, <2>2, <3>1 DEF InRcu
  <2>3. ASSUME NEW b \in Actors, old[b] = rptr[r], r \in grace[b]
        PROVE  old'[b] = rptr[r] /\ r \in grace'[b]
    <3>1. b # a
      BY <1>4, <2>3, ScopeConstants
    <3> QED
      BY <1>3, <2>3, <3>1
  <2> QED
    BY <2>1, <2>2, <2>3 DEF ReaderInv
<1>12. SectionInv'
  BY <1>3 DEF SectionInv, NoSec
<1>13. WriterInv'
  BY <1>1, <1>3 DEF ReplaceLose, WriterInv, SectionInv
<1>14. OldInv'
  <2>1. CASE sec.by = Releaser
    <3>1. a = c /\ life' = [life EXCEPT ![c] = "releasing"]
      BY <2>1 DEF ReplaceLose
    <3>2. \A w \in Writers : w # c
      BY <1>2, ScopeConstants
    <3> QED
      BY <1>2, <1>3, <3>1, <3>2 DEF OldInv, Actors
  <2>2. CASE sec.by # Releaser
    <3>1. a \in Writers /\ mutex = a /\ life' = life /\ a \notin Cgroups
      BY <1>1, <2>2, ScopeConstants DEF ReplaceLose, SectionInv, ReplaceSecs
    <3> QED
      BY <1>3, <3>1 DEF OldInv, Actors
  <2> QED
    BY <2>1, <2>2
<1>15. ReleasedLeavesNothing'
  BY <1>1, <1>2, <1>3 DEF ReplaceLose, ReleasedLeavesNothing, SectionInv
<1>16. FreshInv'
  <2>1. \A v \in Writers : fresh[v] # Null => v # a /\ v \in Actors
    BY <1>1, <1>2, ScopeConstants DEF FreshInv, Actors
  <2>2. \A v \in Writers : fresh[v] # Null => old'[v] = old[v]
    BY <1>3, <2>1
  <2> QED
    BY <1>3, <2>2 DEF FreshInv, NoSec
<1> QED
  BY <1>8, <1>9, <1>10, <1>11, <1>12, <1>13, <1>14, <1>15, <1>16

-----------------------------------------------------------------------------
(* The end of a grace period.                                              *)

\* A set is freed when no reader that could hold it is left.
LEMMA FreeKeeps ==
    ASSUME MemoryInv, NEW a \in Actors, grace[a] = {}, FreeScopes(old[a]),
           old' = [old EXCEPT ![a] = Null],
           UNCHANGED <<scopes, index, sec, fresh, grace, rpc, rptr>>, TypeOK'
    PROVE  SectionOwns' /\ NoLeak' /\ IndexMatchesScopes' /\ ReaderInv'
<1> USE DEF MemoryInv, TypeOK
<1>1. Installed' = Installed /\ InSection' = InSection
  BY DEF Installed, InSection
<1>2. Olds' = Olds \ {old[a]}
  <2>1. old'[a] = Null /\ \A b \in Actors : b # a => old'[b] = old[b]
    OBVIOUS
  <2>2. \A b \in Actors : b # a /\ old[b] # Null => old[b] # old[a]
    BY DEF NoLeak
  <2> QED
    BY <2>1, <2>2, ScopeConstants DEF Olds
<1>3. /\ old[a] \in ScopeIds => old[a] \notin Installed /\ old[a] \notin InSection /\ old[a] \notin News
      /\ News' = News
  BY DEF NoLeak, SectionOwns, Olds, News
<1>4. SectionOwns'
  BY <1>1, <1>2 DEF SectionOwns
<1>5. NoLeak'
  <2>1. /\ allocated' = Installed' \cup InSection' \cup Olds' \cup News'
        /\ News' \cap (Installed' \cup InSection' \cup Olds') = {}
    <3>1. /\ allocated = Installed \cup InSection \cup Olds \cup News
          /\ News \cap (Installed \cup InSection \cup Olds) = {}
      BY DEF NoLeak
    <3>2. Installed \cup InSection \cup News \subseteq ScopeIds
      BY DEF Installed, InSection, News
    <3> QED
      BY <1>1, <1>2, <1>3, <3>1, <3>2 DEF FreeScopes
  <2>2. \A b, d \in Actors : old'[b] = old'[d] /\ old'[b] # Null => b = d
    BY DEF NoLeak
  <2>3. \A b \in Actors : old'[b] \notin Installed'
    BY <1>1, ScopeConstants DEF NoLeak, Installed
  <2> QED
    BY <2>1, <2>2, <2>3 DEF NoLeak
<1>6. IndexMatchesScopes'
  <2>1. \A s \in Installed \cup InSection : entries'[s] = entries[s]
    BY <1>3 DEF FreeScopes, Installed, InSection
  <2> QED
    BY <1>1, <2>1 DEF IndexMatchesScopes, NodesOf
<1>7. ReaderInv'
  <2> SUFFICES ASSUME NEW r \in Readers, rptr[r] \in ScopeIds,
                      NEW b \in Actors, old[b] = rptr[r], r \in grace[b]
               PROVE  old'[b] = rptr[r]
    BY <1>1 DEF ReaderInv
  <2> QED
    OBVIOUS
<1> QED
  BY <1>4, <1>5, <1>6, <1>7

\* A command frees what no reader can have.
LEMMA CommandFinishKeeps ==
    ASSUME MemoryInv, NEW w \in Writers, CommandFinish(w), TypeOK'
    PROVE  MemoryInv'
<1> USE DEF MemoryInv, TypeOK
<1>1. SectionOwns' /\ NoLeak' /\ IndexMatchesScopes' /\ ReaderInv'
  BY FreeKeeps DEF CommandFinish, readerVars, Actors
<1>2. WriterInv' /\ ReleasedLeavesNothing'
  BY DEF CommandFinish, WriterInv, ReleasedLeavesNothing
<1>3. OldInv' /\ FreshInv'
  BY ScopeConstants DEF CommandFinish, OldInv, FreshInv, Actors
<1>4. SectionInv'
  <2>1. sec.op # "active"
    BY ScopeConstants DEF CommandFinish, SectionInv
  <2>2. ASSUME sec.op = "replace"
        PROVE  sec.by = Releaser /\ sec.cgrp \in Cgroups /\ w # sec.cgrp
    BY <2>2, ScopeConstants DEF CommandFinish, SectionInv, ReplaceSecs, ActiveSecs, NoSec
  <2>3. \A v \in Writers, c \in Cgroups : wcgrp[v] # c => wcgrp'[v] # c
    BY ScopeConstants DEF CommandFinish
  <2>4. \A c \in Cgroups : old'[c] = old[c]
    BY ScopeConstants DEF CommandFinish, Actors
  <2> QED
    BY <2>1, <2>2, <2>3, <2>4, ScopeConstants DEF CommandFinish, SectionInv
<1> QED
  BY <1>1, <1>2, <1>3, <1>4

\* So does a release, and nothing of the cgroup is left.
LEMMA ReleaseFinishKeeps ==
    ASSUME MemoryInv, NEW c \in Cgroups, ReleaseFinish(c), TypeOK'
    PROVE  MemoryInv'
<1> USE DEF MemoryInv, TypeOK
<1>1. SectionOwns' /\ NoLeak' /\ IndexMatchesScopes' /\ ReaderInv'
  BY FreeKeeps DEF ReleaseFinish, readerVars, Actors
<1>2. WriterInv' /\ ReleasedLeavesNothing'
  BY DEF ReleaseFinish, WriterInv, ReleasedLeavesNothing
<1>3. OldInv' /\ FreshInv'
  BY ScopeConstants DEF ReleaseFinish, OldInv, FreshInv, Actors
<1>4. SectionInv'
  <2>1. sec.op \in {"replace", "active"} => sec.cgrp \in Cgroups /\ sec.cgrp # c
    BY DEF ReleaseFinish, SectionInv, ReplaceSecs, ActiveSecs, NoSec
  <2>2. \A w \in Writers : old'[w] = old[w]
    BY ScopeConstants DEF ReleaseFinish, Actors
  <2>3. \A d \in Cgroups : d # c => old'[d] = old[d] /\ life'[d] = life[d]
    BY DEF ReleaseFinish, Actors
  <2> QED
    BY <2>1, <2>2, <2>3 DEF ReleaseFinish, SectionInv
<1> QED
  BY <1>1, <1>2, <1>3, <1>4

-----------------------------------------------------------------------------
(* The theorems.                                                           *)

\* Nothing is allocated at first.
LEMMA InitMemory == ASSUME Init PROVE MemoryInv
<1>1. TypeOK
  BY InitTypes
<1>2. WriterInv /\ SectionInv /\ OldInv /\ FreshInv /\ ReleasedLeavesNothing
  BY DEF Init, WriterInv, SectionInv, OldInv, FreshInv, ReleasedLeavesNothing, NoSec, Actors
<1>3. Installed = {} /\ Olds = {} /\ News = {} /\ InSection = {}
  BY ScopeConstants DEF Init, Installed, Olds, News, InSection, NoSec
<1>4. SectionOwns /\ IndexMatchesScopes
  BY <1>3 DEF Init, SectionOwns, IndexMatchesScopes, NodesOf
<1>5. NoLeak
  <2>1. allocated = Installed \cup InSection \cup Olds \cup News
    BY <1>3 DEF Init
  <2> QED
    BY <1>3, <2>1, ScopeConstants DEF Init, NoLeak
<1>6. ReaderInv
  BY ScopeConstants DEF Init, ReaderInv
<1> QED
  BY <1>1, <1>2, <1>4, <1>5, <1>6 DEF MemoryInv

\* Every step keeps the invariant.
LEMMA StepMemory == ASSUME MemoryInv, [Next]_vars PROVE MemoryInv'
<1>1. TypeOK'
  BY StepTypes DEF MemoryInv
<1>2. ASSUME NEW w \in Writers, Writing(w) PROVE MemoryInv'
  BY <1>1, <1>2, TakeCgroupKeeps, CommandRejectedKeeps, CommandStartKeeps,
     CommandAllocKeeps, CommandInstallKeeps, AbandonKeeps, CommandFinishKeeps
  DEF Writing
<1>3. CASE ReplacePublish \/ ReplaceLose
  BY <1>1, <1>3, ReplacePublishKeeps, ReplaceLoseKeeps
<1>4. ASSUME NEW c \in Cgroups, NEW val \in BOOLEAN, SetActiveBegin(c, val) PROVE MemoryInv'
  BY <1>1, <1>4, SetActiveBeginKeeps
<1>5. CASE SetActiveEnd
  BY <1>1, <1>5, SetActiveEndKeeps
<1>6. ASSUME NEW c \in Cgroups, Rmdir(c) \/ ReleaseStart(c) \/ ReleaseFinish(c) PROVE MemoryInv'
  BY <1>1, <1>6, RmdirKeeps, ReleaseStartKeeps, ReleaseFinishKeeps
<1>7. ASSUME NEW r \in Readers, NEW p \in Paths, FastBegin(r, p) PROVE MemoryInv'
  <2>1. ReaderStep(r, "fastG") /\ UNCHANGED rptr /\ rpc[r] # "deref"
    BY <1>7 DEF FastBegin
  <2> QED
    BY <1>1, <2>1, FreeReader
<1>8. ASSUME NEW r \in Readers, Walking(r) PROVE MemoryInv'
  BY <1>1, <1>8, WalkingKeeps
<1>9. CASE UNCHANGED vars
  <2>1. UNCHANGED writerVars /\ UNCHANGED <<grace, rpc, rptr>>
    BY <1>9 DEF vars, readerVars
  <2>2. ReaderInv'
    BY <2>1 DEF MemoryInv, ReaderInv, Installed, writerVars
  <2> QED
    BY <1>1, <2>1, <2>2, WriterFrame
<1> QED
  BY <1>2, <1>3, <1>4, <1>5, <1>6, <1>7, <1>8, <1>9 DEF Next

\* The ownership discipline is an invariant of the registry.
THEOREM MemorySafe == Spec => []MemoryInv
  BY InitMemory, StepMemory, PTL DEF Spec

\* No reader of namei_ext_policy_parent_matches ever searches a freed scope set,
\* and no freed set is linked in the hash index, for any number of readers,
\* writers, cgroups and directories.
THEOREM ScopesNeverUsedAfterFree == Spec => []NoUseAfterFree
<1>1. MemoryInv => NoUseAfterFree
  <2> SUFFICES ASSUME MemoryInv PROVE NoUseAfterFree
    OBVIOUS
  <2>1. Installed \cup InSection \cup Olds \subseteq allocated
    BY DEF MemoryInv, NoLeak
  <2>2. ASSUME NEW r \in Readers, rptr[r] \in ScopeIds PROVE rptr[r] \in allocated
    <3>1. sec.op = "replace" /\ sec.step = "published" /\ rptr[r] = sec.prev => rptr[r] \in InSection
      BY <2>2 DEF InSection
    <3> QED
      BY <2>1, <2>2, <3>1 DEF MemoryInv, ReaderInv, Olds
  <2>3. ASSUME NEW n \in index PROVE n[1] \in allocated
    BY <2>1, <2>3 DEF MemoryInv, IndexMatchesScopes, NodesOf
  <2> QED
    BY <2>2, <2>3 DEF NoUseAfterFree
<1> QED
  BY <1>1, MemorySafe, PTL

\* Every scope set is owned by exactly one cgroup, section or actor, the set an
\* exact or clear command has built before it finds its cgroup removed included:
\* none leaks and none is freed twice.
THEOREM ScopesNeverLeak == Spec => []NoLeak
<1>1. MemoryInv => NoLeak
  BY DEF MemoryInv
<1> QED
  BY <1>1, MemorySafe, PTL

\* The hash index always holds exactly the entries of the installed sets and of
\* the set in the open section.
THEOREM IndexExact == Spec => []IndexMatchesScopes
<1>1. MemoryInv => IndexMatchesScopes
  BY DEF MemoryInv
<1> QED
  BY <1>1, MemorySafe, PTL

\* A released cgroup has the tombstone for a scope and no active policy, whatever
\* commands and detaches were in flight.
THEOREM ReleaseIsFinal == Spec => []ReleasedLeavesNothing
<1>1. MemoryInv => ReleasedLeavesNothing
  BY DEF MemoryInv
<1> QED
  BY <1>1, MemorySafe, PTL

-----------------------------------------------------------------------------
(* The two counters.                                                       *)

\* By how much namei_ext_global_scope_users is ahead of the scopes inside an open
\* write section.
Ahead ==
    CASE sec.op = "replace" /\ sec.step = "gained" /\ active[sec.cgrp] /\ sec.new = Null -> 1
      [] sec.op = "replace" /\ sec.step = "published" /\ active[sec.cgrp] /\ sec.prev = Null -> 1
      [] sec.op = "active" /\ scopes[sec.cgrp] = Null -> IF sec.val THEN 1 ELSE -1
      [] OTHER -> 0

GlobalCount == globalUsers \in {Cardinality(GlobalScopes) + Ahead, UintMax}
ExactCount == exactUsers \in {Cardinality(index), UintMax}

\* The inductive invariant, on top of MemoryInv.
CounterInv ==
    /\ GlobalCount /\ ExactCount
    /\ sec.op = "active" => active[sec.cgrp] # sec.val
    /\ \A s \in ScopeIds : Cardinality(entries[s]) <= MaxParents

\* What SaturationJustified says of one step.
StickStep ==
    /\ globalUsers # UintMax /\ globalUsers' = UintMax => globalUsers = UintMax - 1
    /\ exactUsers # UintMax /\ exactUsers' = UintMax => exactUsers + MaxParents >= UintMax

-----------------------------------------------------------------------------

\* Both counted sets are finite.
LEMMA CountedFinite ==
    ASSUME TypeOK
    PROVE  /\ IsFiniteSet(GlobalScopes) /\ Cardinality(GlobalScopes) \in Nat
           /\ IsFiniteSet(index) /\ Cardinality(index) \in Nat
           /\ \A s \in ScopeIds : IsFiniteSet(entries[s]) /\ Cardinality(entries[s]) \in Nat
<1>1. GlobalScopes \in SUBSET Cgroups
  BY DEF GlobalScopes
<1>2. IsFiniteSet(ScopeIds \X Paths)
  BY ScopeConstants, FS_Product
<1>3. index \in SUBSET (ScopeIds \X Paths) /\ \A s \in ScopeIds : entries[s] \in SUBSET Paths
  BY DEF TypeOK
<1>4. IsFiniteSet(GlobalScopes) /\ IsFiniteSet(index)
  BY <1>1, <1>2, <1>3, ScopeConstants, FS_Subset
<1>5. \A s \in ScopeIds : IsFiniteSet(entries[s])
  BY <1>3, ScopeConstants, FS_Subset
<1> QED  BY <1>4, <1>5, FS_CardinalityType

\* The nodes of one set are as many as its directories.
LEMMA NodeCount ==
    ASSUME NEW s, NEW ents \in SUBSET Paths
    PROVE  /\ IsFiniteSet({s} \X ents) /\ Cardinality(ents) \in Nat
           /\ Cardinality({s} \X ents) = Cardinality(ents)
<1>1. IsFiniteSet(ents) /\ Cardinality(ents) \in Nat
  BY ScopeConstants, FS_Subset, FS_CardinalityType
<1>2. IsFiniteSet({s}) /\ Cardinality({s}) = 1
  BY FS_Singleton
<1>3. IsFiniteSet({s} \X ents) /\ Cardinality({s} \X ents) = Cardinality({s}) * Cardinality(ents)
  BY <1>1, <1>2, FS_Product
<1>4. \A n \in Nat : 1 * n = n
  OBVIOUS
<1> QED  BY <1>1, <1>2, <1>3, <1>4

\* Outside sections every set in the index is installed.
LEMMA IndexedInstalled ==
    ASSUME MemoryInv, sec = NoSec, NEW n \in index
    PROVE  n[1] \in Installed
<1>1. InSection = {}
  BY DEF InSection, NoSec
<1>2. n[1] \in Installed \cup InSection
  BY DEF MemoryInv, IndexMatchesScopes, NodesOf
<1> QED  BY <1>1, <1>2

\* What counters, scopes and sections do not depend on.
LEMMA CounterFrame ==
    ASSUME CounterInv, UNCHANGED <<scopes, active, index, globalUsers, exactUsers, sec>>,
           \A s \in ScopeIds : entries'[s] = entries[s] \/ entries'[s] = {}
    PROVE  CounterInv' /\ StickStep
<1>1. GlobalCount' /\ ExactCount'
  BY DEF CounterInv, GlobalCount, ExactCount, GlobalScopes, Ahead
<1>2. \A s \in ScopeIds : Cardinality(entries'[s]) <= MaxParents
  <2>1. Cardinality({}) = 0 /\ 0 <= MaxParents
    BY FS_EmptySet, ScopeConstants
  <2>2. ASSUME NEW s \in ScopeIds  PROVE Cardinality(entries'[s]) <= MaxParents
    <3>1. CASE entries'[s] = {}
      BY <2>1, <3>1, Zenon
    <3>2. CASE entries'[s] = entries[s]
      BY <3>2 DEF CounterInv
    <3> QED  BY <3>1, <3>2
  <2> QED  BY <2>2
<1> QED  BY <1>1, <1>2 DEF CounterInv, StickStep

\* A section opens: the new scope is counted before it is there.
LEMMA GainCounts ==
    ASSUME MemoryInv, CounterInv, NEW by, NEW c \in Cgroups, NEW new \in ScopePtrs,
           NEW ents \in SUBSET Paths, ReplaceGain(by, c, new, ents),
           new \notin Installed,
           Cardinality(ents) <= MaxParents,
           UNCHANGED <<scopes, active>>
    PROVE  GlobalCount' /\ ExactCount' /\ StickStep
<1>0. TypeOK /\ globalUsers \in 0..UintMax /\ exactUsers \in 0..UintMax /\ UintMax \in Nat
      /\ MaxParents \in Nat /\ active[c] \in BOOLEAN
  BY ScopeConstants DEF MemoryInv, TypeOK
<1>1. /\ sec = NoSec
      /\ sec' = [op |-> "replace", by |-> by, cgrp |-> c, new |-> new, prev |-> scopes[c],
                 step |-> "gained"]
  BY DEF ReplaceGain
<1>2. Ahead = 0 /\ Ahead' = IF active[c] /\ new = Null THEN 1 ELSE 0
  BY <1>1 DEF Ahead, NoSec
<1>3. GlobalScopes' = GlobalScopes /\ Cardinality(GlobalScopes) \in Nat
  BY <1>0, CountedFinite DEF GlobalScopes
<1>4. globalUsers \in {Cardinality(GlobalScopes), UintMax}
  BY <1>2, <1>3 DEF CounterInv, GlobalCount
<1>5. CASE new = Null
  <2>1. globalUsers' = GlobalGained(c) /\ UNCHANGED <<index, exactUsers>>
    BY <1>5 DEF ReplaceGain
  <2>2. ExactCount'
    BY <2>1 DEF CounterInv, ExactCount
  <2>3. GlobalCount'
    BY <1>0, <1>2, <1>3, <1>4, <1>5, <2>1 DEF GlobalCount, GlobalGained, GlobalGet
  <2>4. StickStep
    BY <1>0, <2>1 DEF StickStep, GlobalGained, GlobalGet
  <2> QED  BY <2>2, <2>3, <2>4
<1>6. CASE new # Null
  <2>1. /\ index' = index \cup ({new} \X ents) /\ exactUsers' = ExactAdd(Cardinality(ents))
        /\ UNCHANGED globalUsers
    BY <1>6 DEF ReplaceGain, IndexAdd
  <2>2. GlobalCount'
    BY <1>2, <1>3, <1>4, <1>6, <2>1 DEF GlobalCount
  <2>3. index \cap ({new} \X ents) = {}
    <3>1. ASSUME NEW n \in index, n \in {new} \X ents  PROVE FALSE
      <4>1. n[1] = new /\ n[1] \in ScopeIds
        BY <1>0, <3>1 DEF TypeOK
      <4>2. n[1] \in Installed
        BY <1>1, <3>1, IndexedInstalled
      <4> QED  BY <4>1, <4>2
    <3> QED  BY <3>1
  <2>4. Cardinality(index') = Cardinality(index) + Cardinality(ents) /\ Cardinality(ents) \in Nat
        /\ Cardinality(index) \in Nat
    <3>1. IsFiniteSet({new} \X ents) /\ Cardinality({new} \X ents) = Cardinality(ents)
          /\ Cardinality(ents) \in Nat
      BY NodeCount
    <3>2. IsFiniteSet(index) /\ Cardinality(index) \in Nat
      BY <1>0, CountedFinite
    <3>3. Cardinality(index \cup ({new} \X ents)) =
            Cardinality(index) + Cardinality({new} \X ents) - Cardinality(index \cap ({new} \X ents))
      BY <3>1, <3>2, FS_Union
    <3>4. Cardinality(index \cap ({new} \X ents)) = 0
      BY <2>3, FS_EmptySet
    <3> QED  BY <2>1, <3>1, <3>2, <3>3, <3>4
  <2>5. ExactCount'
    BY <1>0, <2>1, <2>4 DEF CounterInv, ExactCount, ExactAdd
  <2>6. StickStep
    BY <1>0, <2>1, <2>4 DEF StickStep, ExactAdd
  <2> QED  BY <2>2, <2>5, <2>6
<1> QED  BY <1>5, <1>6

\* policy_parent commands: a fresh set has at most MaxParents directories.
LEMMA CommandStartCounts ==
    ASSUME MemoryInv, CounterInv, NEW w \in Writers, NEW cmd \in Commands, CommandStart(w, cmd)
    PROVE  CounterInv' /\ StickStep
<1>0. TypeOK /\ wcgrp[w] \in Cgroups /\ MaxParents \in Nat /\ MaxParents >= 1
      /\ UNCHANGED <<scopes, active>>
  BY ScopeConstants DEF MemoryInv, TypeOK, CommandStart
<1> DEFINE c == wcgrp[w]
           ents == NewEntries(c, cmd)
<1>1. CASE cmd.op = "global"
  <2>1. ReplaceGain(w, c, Null, {}) /\ UNCHANGED entries
    BY <1>1 DEF CommandStart
  <2>2. GlobalCount' /\ ExactCount' /\ StickStep
    BY <1>0, <2>1, GainCounts, FS_EmptySet, ScopeConstants DEF ScopePtrs, Installed
  <2>3. sec'.op = "replace"
    BY <2>1 DEF ReplaceGain
  <2> QED  BY <2>1, <2>2, <2>3 DEF CounterInv
<1>2. CASE cmd.op = "add"
  <2>1. PICK s \in ScopeIds :
            /\ s \notin allocated /\ entries' = [entries EXCEPT ![s] = ents]
            /\ ReplaceGain(w, c, s, ents)
    BY <1>2 DEF CommandStart, AllocScopes
  <2>2. ents \in SUBSET Paths /\ Cardinality(ents) <= MaxParents
    <3> DEFINE e == EntriesOf(scopes[c])
    <3>1. cmd.path \in Paths /\ ents = e \cup {cmd.path}
      BY <1>2 DEF Commands, NewEntries
    <3>2. cmd.path \notin e /\ Cardinality(e) # MaxParents
      BY <1>2 DEF CommandStart, Rejected
    <3>3. e \in SUBSET Paths
      BY <1>0 DEF EntriesOf, TypeOK
    <3>4. IsFiniteSet(e) /\ Cardinality(e) \in Nat
      BY <3>3, ScopeConstants, FS_Subset, FS_CardinalityType
    <3>5. Cardinality(e) <= MaxParents
      <4>1. CASE scopes[c] \in ScopeIds
        BY <4>1 DEF EntriesOf, CounterInv
      <4>2. CASE scopes[c] \notin ScopeIds
        <5>1. e = {}
          BY <4>2 DEF EntriesOf
        <5>2. Cardinality(e) = 0
          BY <5>1, FS_EmptySet
        <5> QED  BY <1>0, <5>2
      <4> QED  BY <4>1, <4>2
    <3>6. Cardinality(ents) = Cardinality(e) + 1
      BY <3>1, <3>2, <3>4, FS_AddElement
    <3> HIDE DEF e, ents
    <3> QED  BY <1>0, <3>1, <3>2, <3>3, <3>4, <3>5, <3>6
  <2>3. GlobalCount' /\ ExactCount' /\ StickStep
    <3>1. s \notin Installed
      BY <2>1 DEF MemoryInv, NoLeak
    <3> QED
      BY <1>0, <2>1, <2>2, <3>1, GainCounts DEF ScopePtrs
  <2>4. sec'.op = "replace"
    BY <2>1 DEF ReplaceGain
  <2>5. \A t \in ScopeIds : Cardinality(entries'[t]) <= MaxParents
    <3> HIDE DEF ents
    <3> QED  BY <1>0, <2>1, <2>2 DEF CounterInv, TypeOK
  <2> QED  BY <2>3, <2>4, <2>5 DEF CounterInv
<1> QED  BY <1>1, <1>2 DEF CommandStart

\* A set built before the lock is taken counts for nothing yet.
LEMMA CommandAllocCounts ==
    ASSUME MemoryInv, CounterInv, NEW w \in Writers, NEW cmd \in Commands, CommandAlloc(w, cmd)
    PROVE  CounterInv' /\ StickStep
<1> DEFINE ents == NewEntries(wcgrp[w], cmd)
<1>0. TypeOK /\ MaxParents \in Nat /\ MaxParents >= 1
  BY ScopeConstants DEF MemoryInv
<1>1. PICK s \in ScopeIds : entries' = [entries EXCEPT ![s] = ents]
  BY DEF CommandAlloc, AllocScopes
<1>2. UNCHANGED <<scopes, active, index, globalUsers, exactUsers, sec>>
  BY DEF CommandAlloc
<1>3. Cardinality(ents) <= MaxParents
  <2>1. CASE cmd.op = "exact"
    <3>1. ents = {cmd.path}
      BY <2>1 DEF NewEntries
    <3>2. Cardinality(ents) = 1
      BY <3>1, FS_Singleton
    <3> QED  BY <1>0, <3>2
  <2>2. CASE cmd.op = "clear"
    <3>1. ents = {}
      BY <2>2 DEF NewEntries
    <3>2. Cardinality(ents) = 0
      BY <3>1, FS_EmptySet
    <3> QED  BY <1>0, <3>2
  <2> QED  BY <2>1, <2>2 DEF CommandAlloc
<1>4. \A t \in ScopeIds : Cardinality(entries'[t]) <= MaxParents
  <2> HIDE DEF ents
  <2> QED  BY <1>0, <1>1, <1>3 DEF CounterInv, TypeOK
<1>5. GlobalCount' /\ ExactCount'
  BY <1>2 DEF CounterInv, GlobalCount, ExactCount, GlobalScopes, Ahead
<1> QED  BY <1>2, <1>4, <1>5 DEF CounterInv, StickStep

\* It is counted when it is installed.
LEMMA CommandInstallCounts ==
    ASSUME MemoryInv, CounterInv, NEW w \in Writers, CommandInstall(w)
    PROVE  CounterInv' /\ StickStep
<1> DEFINE new == fresh[w]
           ents == entries[new]
<1>1. /\ wcgrp[w] \in Cgroups /\ new \in ScopeIds /\ new \in ScopePtrs /\ ents \in SUBSET Paths
      /\ ReplaceGain(w, wcgrp[w], new, ents) /\ UNCHANGED <<scopes, active, entries>>
  BY DEF MemoryInv, TypeOK, CommandInstall, ScopePtrs
<1>2. new \notin Installed
  BY <1>1 DEF MemoryInv, NoLeak, News
<1>3. Cardinality(ents) <= MaxParents
  BY <1>1 DEF CounterInv
<1>4. sec'.op = "replace"
  BY <1>1 DEF ReplaceGain
<1> HIDE DEF new, ents
<1>5. GlobalCount' /\ ExactCount' /\ StickStep
  BY <1>1, <1>2, <1>3, GainCounts
<1> QED  BY <1>1, <1>4, <1>5 DEF CounterInv

\* The release worker opens its section with the tombstone.
LEMMA ReleaseStartCounts ==
    ASSUME MemoryInv, CounterInv, NEW c \in Cgroups, ReleaseStart(c)
    PROVE  CounterInv' /\ StickStep
<1>1. ReplaceGain(Releaser, c, Tombstone, {}) /\ UNCHANGED <<scopes, active, entries>>
  BY DEF ReleaseStart
<1>2. Cardinality({}) <= MaxParents
  BY FS_EmptySet, ScopeConstants
<1>3. GlobalCount' /\ ExactCount' /\ StickStep
  BY <1>1, <1>2, GainCounts, ScopeConstants DEF ScopePtrs, Installed
<1>4. sec'.op = "replace"
  BY <1>1 DEF ReplaceGain
<1> QED  BY <1>1, <1>3, <1>4 DEF CounterInv

\* What a replace section looks like.
LEMMA SectionShape ==
    ASSUME TypeOK, sec.op = "replace"
    PROVE  /\ sec \in ReplaceSecs /\ sec.cgrp \in Cgroups /\ sec.new \in ScopePtrs
           /\ sec.prev \in ScopePtrs /\ sec.step \in {"gained", "published"}
BY DEF TypeOK, NoSec, ReplaceSecs, ActiveSecs

\* The pointer is switched: the counter stays, the scopes catch up.
LEMMA PublishCounts ==
    ASSUME MemoryInv, CounterInv, ReplacePublish
    PROVE  CounterInv' /\ StickStep
<1> DEFINE c == sec.cgrp
           G == GlobalScopes
<1>0. TypeOK /\ c \in Cgroups /\ sec \in ReplaceSecs /\ sec.new \in ScopePtrs /\ sec.prev = scopes[c]
      /\ active[c] \in BOOLEAN
  BY SectionShape DEF MemoryInv, SectionInv, ReplacePublish, TypeOK
<1>1. /\ sec.op = "replace" /\ sec.step = "gained"
      /\ scopes' = [scopes EXCEPT ![c] = sec.new] /\ sec' = [sec EXCEPT !.step = "published"]
      /\ UNCHANGED <<active, entries, index, globalUsers, exactUsers>>
  BY DEF ReplacePublish
<1>2. /\ Ahead = IF active[c] /\ sec.new = Null THEN 1 ELSE 0
      /\ Ahead' = IF active[c] /\ sec.prev = Null THEN 1 ELSE 0
  <2>1. sec'.op = "replace" /\ sec'.step = "published" /\ sec'.cgrp = c /\ sec'.prev = sec.prev
    BY <1>0, <1>1 DEF ReplaceSecs
  <2> QED  BY <1>1, <2>1 DEF Ahead
<1>3. IsFiniteSet(G) /\ Cardinality(G) \in Nat
  BY <1>0, CountedFinite
<1>4. \A d \in Cgroups : d # c => scopes'[d] = scopes[d]
  BY <1>0, <1>1 DEF TypeOK
<1>5. scopes'[c] = sec.new
  BY <1>0, <1>1 DEF TypeOK
<1>6. Cardinality(G') + Ahead' = Cardinality(G) + Ahead
  <2>1. CASE ~active[c] \/ (sec.new = Null <=> sec.prev = Null)
    <3>1. G' = G
      BY <1>0, <1>1, <1>4, <1>5, <2>1 DEF GlobalScopes
    <3> QED  BY <1>2, <2>1, <3>1
  <2>2. CASE active[c] /\ sec.new = Null /\ sec.prev # Null
    <3>1. G' = G \cup {c} /\ c \notin G
      BY <1>0, <1>1, <1>4, <1>5, <2>2 DEF GlobalScopes
    <3>2. Cardinality(G') = Cardinality(G) + 1
      BY <1>3, <3>1, FS_AddElement
    <3> QED  BY <1>2, <1>3, <2>2, <3>2
  <2>3. CASE active[c] /\ sec.new # Null /\ sec.prev = Null
    <3>1. G' = G \ {c} /\ c \in G
      BY <1>0, <1>1, <1>4, <1>5, <2>3 DEF GlobalScopes
    <3>2. Cardinality(G') = Cardinality(G) - 1
      BY <1>3, <3>1, FS_RemoveElement
    <3> QED  BY <1>2, <1>3, <2>3, <3>2
  <2> QED  BY <1>0, <2>1, <2>2, <2>3
<1>7. GlobalCount'
  BY <1>1, <1>6 DEF CounterInv, GlobalCount
<1>8. sec'.op = "replace"
  BY <1>0, <1>1 DEF ReplaceSecs
<1> QED  BY <1>1, <1>7, <1>8 DEF CounterInv, ExactCount, StickStep

\* The old scope is counted out, and it was counted: no underflow.
LEMMA LoseCounts ==
    ASSUME MemoryInv, CounterInv, ReplaceLose
    PROVE  CounterInv' /\ StickStep
<1> DEFINE c == sec.cgrp
           p == sec.prev
<1>0. /\ TypeOK /\ c \in Cgroups /\ sec \in ReplaceSecs /\ p \in ScopePtrs
      /\ active[c] \in BOOLEAN /\ scopes[c] = sec.new
      /\ globalUsers \in 0..UintMax /\ exactUsers \in 0..UintMax /\ UintMax \in Nat
      /\ MaxParents \in Nat
  BY SectionShape, ScopeConstants DEF MemoryInv, SectionInv, ReplaceLose, TypeOK
<1>1. /\ sec.op = "replace" /\ sec.step = "published" /\ sec' = NoSec
      /\ UNCHANGED <<scopes, entries>>
      /\ active' = IF sec.by = Releaser THEN [active EXCEPT ![c] = FALSE] ELSE active
  BY DEF ReplaceLose
<1>2. Ahead = (IF active[c] /\ p = Null THEN 1 ELSE 0) /\ Ahead' = 0
  BY <1>1 DEF Ahead, NoSec
<1>3. GlobalScopes' = GlobalScopes /\ Cardinality(GlobalScopes) \in Nat
  <2>1. CASE sec.by = Releaser
    <3>1. scopes[c] # Null
      BY <1>0, <1>1, <2>1, ScopeConstants DEF MemoryInv, SectionInv
    <3>2. \A d \in Cgroups : d # c => active'[d] = active[d]
      BY <1>0, <1>1, <2>1 DEF TypeOK
    <3> QED  BY <1>0, <1>1, <3>1, <3>2, CountedFinite DEF GlobalScopes
  <2>2. CASE sec.by # Releaser
    BY <1>0, <1>1, <2>2, CountedFinite DEF GlobalScopes
  <2> QED  BY <2>1, <2>2
<1>4. globalUsers \in {Cardinality(GlobalScopes) + Ahead, UintMax}
  BY DEF CounterInv, GlobalCount
<1>5. CASE p = Null
  <2>1. globalUsers' = GlobalLost(c) /\ UNCHANGED <<index, exactUsers>>
    BY <1>5 DEF ReplaceLose
  <2>2. GlobalCount' /\ StickStep
    BY <1>0, <1>2, <1>3, <1>4, <1>5, <2>1 DEF GlobalCount, StickStep, GlobalLost, GlobalPut
  <2> QED  BY <1>1, <2>1, <2>2 DEF CounterInv, ExactCount, NoSec
<1>6. CASE p # Null
  <2> DEFINE e == EntriesOf(p)
  <2>1. index' = index \ ({p} \X e) /\ exactUsers' = ExactDel(Cardinality(e)) /\ UNCHANGED globalUsers
    BY <1>6 DEF ReplaceLose, IndexDel
  <2>2. GlobalCount'
    BY <1>2, <1>3, <1>4, <1>6, <2>1 DEF GlobalCount
  <2>3. e \in SUBSET Paths
    BY <1>0 DEF EntriesOf, TypeOK
  <2>4. index \cap ({p} \X e) = {p} \X e
    <3>1. CASE p \in ScopeIds
      <4>1. p \in InSection /\ e = entries[p]
        BY <1>1, <3>1 DEF InSection, EntriesOf
      <4>2. \A n \in {p} \X e : n \in NodesOf(Installed \cup InSection)
        BY <2>3, <3>1, <4>1 DEF NodesOf
      <4>3. index = NodesOf(Installed \cup InSection)
        BY DEF MemoryInv, IndexMatchesScopes
      <4> QED  BY <4>2, <4>3
    <3>2. CASE p \notin ScopeIds
      BY <3>2 DEF EntriesOf
    <3> QED  BY <3>1, <3>2
  <2>5. /\ IsFiniteSet(index) /\ Cardinality(index) \in Nat
        /\ Cardinality({p} \X e) = Cardinality(e) /\ Cardinality(e) \in Nat
    BY <1>0, <2>3, CountedFinite, NodeCount
  <2>6. Cardinality(index') = Cardinality(index) - Cardinality(e)
    <3>1. Cardinality(index \ ({p} \X e)) = Cardinality(index) - Cardinality(index \cap ({p} \X e))
      BY ONLY <2>5, FS_Difference, Zenon
    <3>2. Cardinality(index') = Cardinality(index) - Cardinality({p} \X e)
      BY ONLY <2>1, <2>4, <3>1, Zenon
    <3> QED  BY ONLY <2>5, <3>2, Zenon
  <2>7. Cardinality(e) <= Cardinality(index)
    <3>1. {p} \X e \in SUBSET index
      BY <2>4
    <3> QED  BY <2>5, <3>1, FS_Subset
  <2> HIDE DEF e
  <2>8. ExactCount' /\ StickStep
    BY <1>0, <2>1, <2>5, <2>6, <2>7 DEF CounterInv, ExactCount, StickStep, ExactDel
  <2> QED  BY <1>1, <2>2, <2>8 DEF CounterInv, NoSec
<1> QED  BY <1>5, <1>6

\* Attach and detach at a cgroup with a global scope.
LEMMA ActiveCounts ==
    ASSUME MemoryInv, CounterInv,
           (\E c \in Cgroups, val \in BOOLEAN : SetActiveBegin(c, val)) \/ SetActiveEnd
    PROVE  CounterInv' /\ StickStep
<1>0. /\ TypeOK /\ globalUsers \in 0..UintMax /\ UintMax \in Nat
      /\ IsFiniteSet(GlobalScopes) /\ Cardinality(GlobalScopes) \in Nat
  BY CountedFinite, ScopeConstants DEF MemoryInv, TypeOK
<1>1. ASSUME NEW c \in Cgroups, NEW val \in BOOLEAN, SetActiveBegin(c, val)
      PROVE  CounterInv' /\ StickStep
  <2>1. /\ sec = NoSec /\ active[c] # val /\ sec' = [op |-> "active", cgrp |-> c, val |-> val]
        /\ globalUsers' = IF scopes[c] # Null THEN globalUsers
                          ELSE IF val THEN GlobalGet ELSE GlobalPut
        /\ UNCHANGED <<scopes, active, entries, index, exactUsers>>
    BY <1>1 DEF SetActiveBegin
  <2>2. Ahead = 0 /\ Ahead' = IF scopes[c] = Null THEN IF val THEN 1 ELSE -1 ELSE 0
    BY <2>1 DEF Ahead, NoSec
  <2>3. GlobalScopes' = GlobalScopes
    BY <2>1 DEF GlobalScopes
  <2>4. globalUsers \in {Cardinality(GlobalScopes), UintMax}
    BY <1>0, <2>2 DEF CounterInv, GlobalCount
  <2>5. ~val /\ scopes[c] = Null => Cardinality(GlobalScopes) # 0
    <3>1. active[c] \in BOOLEAN
      BY <1>0 DEF TypeOK
    <3>2. ~val /\ scopes[c] = Null => c \in GlobalScopes
      BY <2>1, <3>1 DEF GlobalScopes
    <3> QED  BY <1>0, <3>2, FS_EmptySet
  <2>6. GlobalCount' /\ StickStep
    BY <1>0, <2>1, <2>2, <2>3, <2>4, <2>5 DEF GlobalCount, StickStep, GlobalGet, GlobalPut
  <2> QED  BY <2>1, <2>6 DEF CounterInv, ExactCount
<1>2. CASE SetActiveEnd
  <2> DEFINE c == sec.cgrp
             G == GlobalScopes
  <2>1. /\ sec.op = "active" /\ sec' = NoSec /\ active' = [active EXCEPT ![c] = sec.val]
        /\ UNCHANGED <<scopes, entries, index, globalUsers, exactUsers>>
    BY <1>2 DEF SetActiveEnd
  <2>2. c \in Cgroups /\ sec.val \in BOOLEAN /\ active[c] # sec.val /\ active[c] \in BOOLEAN
    BY <1>0, <2>1 DEF TypeOK, NoSec, ReplaceSecs, ActiveSecs, CounterInv
  <2>3. (\A d \in Cgroups : d # c => active'[d] = active[d]) /\ active'[c] = sec.val
    BY <1>0, <2>1, <2>2 DEF TypeOK
  <2>4. Ahead' = 0 /\ Ahead = IF scopes[c] = Null THEN IF sec.val THEN 1 ELSE -1 ELSE 0
    BY <2>1 DEF Ahead, NoSec
  <2>5. Cardinality(G') = Cardinality(G) + Ahead
    <3>1. CASE scopes[c] # Null
      <4>1. G' = G
        BY <2>1, <2>3, <3>1 DEF GlobalScopes
      <4> QED  BY <1>0, <2>4, <3>1, <4>1
    <3>2. CASE scopes[c] = Null /\ sec.val
      <4>1. G' = G \cup {c} /\ c \notin G
        BY <2>1, <2>2, <2>3, <3>2 DEF GlobalScopes
      <4> QED  BY <1>0, <2>4, <3>2, <4>1, FS_AddElement
    <3>3. CASE scopes[c] = Null /\ ~sec.val
      <4>1. G' = G \ {c} /\ c \in G
        BY <2>1, <2>2, <2>3, <3>3 DEF GlobalScopes
      <4>2. Cardinality(G') = Cardinality(G) - 1
        BY <1>0, <4>1, FS_RemoveElement
      <4> QED  BY <1>0, <2>4, <3>3, <4>2
    <3> QED  BY <2>2, <3>1, <3>2, <3>3
  <2>6. Cardinality(G') \in Nat
    <3>1. G' \in SUBSET Cgroups
      BY DEF GlobalScopes
    <3> QED  BY <3>1, ScopeConstants, FS_Subset, FS_CardinalityType
  <2>7. GlobalCount'
    BY <2>1, <2>4, <2>5, <2>6 DEF CounterInv, GlobalCount
  <2> QED  BY <2>1, <2>7 DEF CounterInv, ExactCount, StickStep, NoSec
<1> QED  BY <1>1, <1>2

\* Nothing counts at the start.
LEMMA CounterInit == Init => CounterInv
<1> SUFFICES ASSUME Init PROVE CounterInv
  OBVIOUS
<1>1. GlobalScopes = {} /\ index = {} /\ Ahead = 0 /\ sec.op = "none"
  BY DEF Init, GlobalScopes, Ahead, NoSec
<1>2. Cardinality({}) = 0 /\ 0 <= MaxParents
  BY FS_EmptySet, ScopeConstants
<1>3. GlobalCount /\ ExactCount
  BY <1>1, <1>2 DEF Init, GlobalCount, ExactCount
<1>4. \A s \in ScopeIds : entries[s] = {}
  BY DEF Init
<1> QED  BY <1>1, <1>2, <1>3, <1>4 DEF CounterInv

\* Every step of Next keeps the counters right.
LEMMA CounterStep == MemoryInv /\ CounterInv /\ [Next]_vars => CounterInv' /\ StickStep
<1> SUFFICES ASSUME MemoryInv, CounterInv, [Next]_vars PROVE CounterInv' /\ StickStep
  OBVIOUS
<1>1. ASSUME NEW w \in Writers, Writing(w)
      PROVE  CounterInv' /\ StickStep
  <2>1. ASSUME NEW c \in Cgroups, TakeCgroup(w, c)  PROVE CounterInv' /\ StickStep
    BY <2>1, CounterFrame DEF TakeCgroup
  <2>2. ASSUME NEW cmd \in Commands, CommandRejected(w, cmd)  PROVE CounterInv' /\ StickStep
    BY <2>2, CounterFrame DEF CommandRejected
  <2>3. CASE CommandFinish(w)
    BY <2>3, CounterFrame DEF CommandFinish, FreeScopes
  <2>4. CASE CommandAbandon(w)
    BY <2>4, CounterFrame DEF CommandAbandon, FreeScopes
  <2> QED  BY <1>1, <2>1, <2>2, <2>3, <2>4, CommandStartCounts, CommandAllocCounts,
              CommandInstallCounts DEF Writing
<1>2. CASE ReplacePublish \/ ReplaceLose
  BY <1>2, PublishCounts, LoseCounts
<1>3. CASE (\E c \in Cgroups, val \in BOOLEAN : SetActiveBegin(c, val)) \/ SetActiveEnd
  BY <1>3, ActiveCounts
<1>4. ASSUME NEW c \in Cgroups, Rmdir(c) \/ ReleaseStart(c) \/ ReleaseFinish(c)
      PROVE  CounterInv' /\ StickStep
  <2>1. CASE Rmdir(c)
    BY <2>1, CounterFrame DEF Rmdir
  <2>2. CASE ReleaseFinish(c)
    BY <2>2, CounterFrame DEF ReleaseFinish, FreeScopes
  <2> QED  BY <1>4, <2>1, <2>2, ReleaseStartCounts
<1>5. ASSUME NEW r \in Readers, (\E p \in Paths : FastBegin(r, p)) \/ Walking(r)
      PROVE  CounterInv' /\ StickStep
  <2>1. UNCHANGED writerVars
    BY <1>5 DEF FastBegin, Walking, FastGlobal, FastExact, FastRetry, LoopBegin, LoopGlobal,
       LoopIndex, LoopRetry, MatchLoad, MatchDeref, ReaderStep
  <2> QED  BY <2>1, CounterFrame DEF writerVars
<1>6. CASE UNCHANGED vars
  BY <1>6, CounterFrame DEF vars, writerVars
<1> QED  BY <1>1, <1>2, <1>3, <1>4, <1>5, <1>6 DEF Next

-----------------------------------------------------------------------------

\* Memory and counters together.
THEOREM CountersInvariant == Spec => [](MemoryInv /\ CounterInv)
BY MemorySafe, CounterInit, CounterStep, PTL DEF Spec

\* For every registry: outside write sections namei_ext_global_scope_users and
\* namei_ext_exact_scope_users are exact or stuck at UINT_MAX.
THEOREM CountersExact == Spec => []CountersMatch
<1>1. MemoryInv /\ CounterInv => CountersMatch
  <2> SUFFICES ASSUME MemoryInv, CounterInv, sec = NoSec
               PROVE  /\ globalUsers \in {Cardinality(GlobalScopes), UintMax}
                      /\ exactUsers \in {Cardinality(index), UintMax}
    BY DEF CountersMatch
  <2>1. Ahead = 0
    BY DEF Ahead, NoSec
  <2>2. Cardinality(GlobalScopes) \in Nat
    BY CountedFinite DEF MemoryInv
  <2> QED  BY <2>1, <2>2 DEF CounterInv, GlobalCount, ExactCount
<1> QED  BY <1>1, CountersInvariant, PTL

\* The WARN_ON_ONCE branches of the put and del paths are never taken: a counter
\* sticks only when it has counted up to UINT_MAX.
THEOREM UnderflowNeverHappens == Spec => SaturationJustified
<1>1. MemoryInv /\ CounterInv /\ [Next]_vars =>
        [ /\ globalUsers # UintMax /\ globalUsers' = UintMax => globalUsers = UintMax - 1
          /\ exactUsers # UintMax /\ exactUsers' = UintMax => exactUsers + MaxParents >= UintMax
        ]_vars
  BY CounterStep DEF StickStep
<1> QED  BY <1>1, CountersInvariant, PTL DEF Spec, SaturationJustified
=============================================================================
