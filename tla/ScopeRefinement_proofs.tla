----------------------- MODULE ScopeRefinement_proofs -----------------------
(***************************************************************************)
(* The detailed registry implements the abstract one, for every set of     *)
(* cgroups, directories, readers, writers and scope sets: the lock-free    *)
(* prefilter never denies a directory that was managed all along.          *)
(***************************************************************************)
EXTENDS NameiExtScopesImpl, Scopes_proofs

\* A reader between read_seqcount_begin and read_seqcount_retry.
Sampling(r) == rpc[r] \in {"fastG", "fastE", "fastR", "loopG", "loopI", "loopR"}

\* What a reader knows while its sample of the sequence count still holds: no
\* section is open, so what it read is still true.
SampleOK(r) ==
    /\ sec = NoSec
    /\ rpc[r] \in {"fastE", "fastR", "loopI"} => globalUsers = 0
    /\ rpc[r] = "fastR" => exactUsers = 0
    /\ rpc[r] = "loopR" /\ ~found[r] =>
         globalUsers = 0 /\ \A s \in ScopeIds : <<s, rpath[r]>> \notin index

SeqInv ==
    /\ seqOdd <=> sec # NoSec
    /\ \A r \in Readers : Sampling(r) /\ ~stale[r] => SampleOK(r)

\* mayMiss is exactly the memory of the queries in progress.
HistInv ==
    /\ mayMiss \in [Readers -> BOOLEAN] /\ answer \in [Readers -> BOOLEAN]
    /\ \A r \in Readers : ~Querying(r) => ~mayMiss[r]
    /\ \A r \in Readers : Querying(r) /\ ~Abstract!Managed(AbstractScope, active, rpath[r]) => mayMiss[r]

\* The inductive invariant.
ImplInv == MemoryInv /\ CounterInv /\ SeqInv /\ HistInv

-----------------------------------------------------------------------------
(* The sequence count.                                                     *)

\* An open section tells every reader to retry.
LEMMA OpenSectionSeq ==
    ASSUME OpenSection, sec' # NoSec
    PROVE  SeqInv'
BY DEF OpenSection, SeqInv

\* What a sample does not depend on.
LEMMA SeqFrame ==
    ASSUME SeqInv,
           UNCHANGED <<index, globalUsers, exactUsers, seqOdd, sec, stale, rpc, rpath, found>>
    PROVE  SeqInv'
BY DEF SeqInv, SampleOK, Sampling

\* The steps inside an open section: no sample holds before or after them.
LEMMA SectionSeq ==
    ASSUME MemoryInv, SeqInv, ReplacePublish \/ ReplaceLose \/ SetActiveEnd
    PROVE  SeqInv'
<1>1. sec # NoSec
  BY DEF ReplacePublish, ReplaceLose, SetActiveEnd, NoSec
<1>2. UNCHANGED <<rpc, stale>>
  BY DEF ReplacePublish, ReplaceLose, SetActiveEnd, readerVars
<1>3. \A r \in Readers : ~(Sampling(r) /\ ~stale[r])
  BY <1>1 DEF SeqInv, SampleOK
<1>4. \A r \in Readers : ~(Sampling(r) /\ ~stale[r])'
  BY <1>2, <1>3 DEF Sampling
<1>5. (seqOdd <=> sec # NoSec)'
  <2>1. CASE ReplacePublish
    <3>1. sec'.op = "replace" /\ UNCHANGED seqOdd
      <4>1. sec \in ReplaceSecs
        BY <2>1 DEF ReplacePublish, MemoryInv, TypeOK, NoSec, ActiveSecs
      <4> QED  BY <2>1, <4>1 DEF ReplacePublish, ReplaceSecs
    <3> QED  BY <1>1, <3>1 DEF SeqInv, NoSec
  <2>2. CASE ReplaceLose \/ SetActiveEnd
    BY <2>2 DEF ReplaceLose, SetActiveEnd
  <2> QED  BY <2>1, <2>2
<1> QED  BY <1>4, <1>5 DEF SeqInv

\* A step of a reader: its own sample, and nobody else's.
LEMMA ReaderSeq ==
    ASSUME MemoryInv, SeqInv, NEW r \in Readers, Walking(r) \/ \E p \in Paths : FastBegin(r, p)
    PROVE  SeqInv'
<1>1. UNCHANGED writerVars
  BY DEF FastBegin, Walking, FastGlobal, FastExact, FastRetry, LoopBegin, LoopGlobal,
     LoopIndex, LoopRetry, MatchLoad, MatchDeref, ReaderStep
<1>2. UNCHANGED <<index, globalUsers, exactUsers, seqOdd, sec>>
  BY <1>1 DEF writerVars
<1>3. ASSUME NEW q \in Readers, q # r
      PROVE  /\ rpc'[q] = rpc[q] /\ rpath'[q] = rpath[q] /\ stale'[q] = stale[q]
             /\ found'[q] = found[q]
  BY <1>3 DEF FastBegin, Walking, FastGlobal, FastExact, FastRetry, LoopBegin, LoopGlobal,
     LoopIndex, LoopRetry, MatchLoad, MatchDeref, ReaderStep, MemoryInv, TypeOK
<1>4. (seqOdd <=> sec # NoSec)'
  BY <1>2 DEF SeqInv
<1>5. ASSUME NEW q \in Readers, q # r, (Sampling(q) /\ ~stale[q])'  PROVE SampleOK(q)'
  BY <1>2, <1>3, <1>5 DEF SeqInv, SampleOK, Sampling
<1>6. (Sampling(r) /\ ~stale[r])' => SampleOK(r)'
  <2>0. /\ rpc \in [Readers -> {"idle", "fastG", "fastE", "fastR", "loop", "loopG",
                             "loopI", "loopR", "maybe", "deref"}]
        /\ rpath \in [Readers -> Paths] /\ stale \in [Readers -> BOOLEAN]
        /\ found \in [Readers -> BOOLEAN]
    BY DEF MemoryInv, TypeOK
  <2>1. ASSUME NEW p \in Paths, FastBegin(r, p)  PROVE (Sampling(r) /\ ~stale[r])' => SampleOK(r)'
    BY <1>2, <2>0, <2>1 DEF FastBegin, ReaderStep, SeqInv, SampleOK, Sampling
  <2>2. CASE LoopBegin(r)
    BY <1>2, <2>0, <2>2 DEF LoopBegin, ReaderStep, SeqInv, SampleOK, Sampling
  <2>3. CASE FastGlobal(r)
    BY <1>2, <2>0, <2>3 DEF FastGlobal, ReaderStep, SeqInv, SampleOK, Sampling
  <2>4. CASE FastExact(r)
    BY <1>2, <2>0, <2>4 DEF FastExact, ReaderStep, SeqInv, SampleOK, Sampling
  <2>5. CASE FastRetry(r)
    BY <1>2, <2>0, <2>5 DEF FastRetry, ReaderStep, SeqInv, SampleOK, Sampling
  <2>6. CASE LoopGlobal(r)
    BY <1>2, <2>0, <2>6 DEF LoopGlobal, ReaderStep, SeqInv, SampleOK, Sampling
  <2>7. CASE LoopIndex(r)
    BY <1>2, <2>0, <2>7 DEF LoopIndex, ReaderStep, SeqInv, SampleOK, Sampling
  <2>8. CASE LoopRetry(r)
    BY <1>2, <2>0, <2>8 DEF LoopRetry, ReaderStep, SeqInv, SampleOK, Sampling
  <2>9. CASE (\E c \in Cgroups : MatchLoad(r, c)) \/ MatchDeref(r)
    BY <1>2, <2>0, <2>9 DEF MatchLoad, MatchDeref, ReaderStep, SeqInv, SampleOK, Sampling
  <2> QED  BY <2>1, <2>2, <2>3, <2>4, <2>5, <2>6, <2>7, <2>8, <2>9 DEF Walking
<1> QED  BY <1>4, <1>5, <1>6 DEF SeqInv

\* Samples survive every step of the registry.
LEMMA SeqStep == MemoryInv /\ SeqInv /\ [Next]_vars => SeqInv'
<1> SUFFICES ASSUME MemoryInv, SeqInv, [Next]_vars  PROVE SeqInv'
  OBVIOUS
<1>1. ASSUME NEW w \in Writers, Writing(w)  PROVE SeqInv'
  <2>1. ASSUME NEW cmd \in Commands, CommandStart(w, cmd)  PROVE SeqInv'
    <3>1. OpenSection /\ sec'.op = "replace"
      BY <2>1 DEF CommandStart, ReplaceGain
    <3> QED  BY <3>1, OpenSectionSeq DEF NoSec
  <2>2. CASE CommandInstall(w)
    <3>1. OpenSection /\ sec'.op = "replace"
      BY <2>2 DEF CommandInstall, ReplaceGain
    <3> QED  BY <3>1, OpenSectionSeq DEF NoSec
  <2>3. CASE \/ \E c \in Cgroups : TakeCgroup(w, c)
             \/ \E cmd \in Commands : CommandRejected(w, cmd) \/ CommandAlloc(w, cmd)
             \/ CommandAbandon(w) \/ CommandFinish(w)
    BY <2>3, SeqFrame DEF TakeCgroup, CommandRejected, CommandAlloc, CommandAbandon, CommandFinish,
       readerVars
  <2> QED  BY <1>1, <2>1, <2>2, <2>3 DEF Writing
<1>2. CASE ReplacePublish \/ ReplaceLose \/ SetActiveEnd
  BY <1>2, SectionSeq
<1>3. ASSUME NEW c \in Cgroups,
             Rmdir(c) \/ ReleaseStart(c) \/ ReleaseFinish(c)
                \/ \E val \in BOOLEAN : SetActiveBegin(c, val)
      PROVE  SeqInv'
  <2>1. CASE ReleaseStart(c)
    <3>1. OpenSection /\ sec'.op = "replace"
      BY <2>1 DEF ReleaseStart, ReplaceGain
    <3> QED  BY <3>1, OpenSectionSeq DEF NoSec
  <2>2. ASSUME NEW val \in BOOLEAN, SetActiveBegin(c, val)  PROVE SeqInv'
    <3>1. OpenSection /\ sec'.op = "active"
      BY <2>2 DEF SetActiveBegin
    <3> QED  BY <3>1, OpenSectionSeq DEF NoSec
  <2>3. CASE Rmdir(c) \/ ReleaseFinish(c)
    BY <2>3, SeqFrame DEF Rmdir, ReleaseFinish, readerVars
  <2> QED  BY <1>3, <2>1, <2>2, <2>3
<1>4. ASSUME NEW r \in Readers, Walking(r) \/ \E p \in Paths : FastBegin(r, p)  PROVE SeqInv'
  BY <1>4, ReaderSeq
<1>5. CASE UNCHANGED vars
  BY <1>5, SeqFrame DEF vars, writerVars, readerVars
<1> QED  BY <1>1, <1>2, <1>3, <1>4, <1>5 DEF Next

-----------------------------------------------------------------------------
(* The history and the abstract state.                                     *)

\* A reader has an abstract query exactly while it is inside the prefilter.
LEMMA QueryValue ==
    ASSUME TypeOK, NEW r \in Readers
    PROVE  /\ AbstractQuery[r] # NoQuery <=> Querying(r)
           /\ Querying(r) => AbstractQuery[r] = rpath[r]
<1>1. rpath[r] # NoQuery
  BY ImplConstants DEF TypeOK
<1> QED  BY <1>1 DEF AbstractQuery

\* The history variables mean what they say after every step, whatever it was.
LEMMA HistStep ==
    ASSUME TypeOK', HistInv, History
    PROVE  HistInv'
<1>1. mayMiss' = [r \in Readers |->
            /\ AbstractQuery'[r] # NoQuery
            /\ mayMiss[r] \/ ~Abstract!Managed(AbstractScope', active', AbstractQuery'[r])]
  BY DEF History, Abstract!Observe
<1>2. \A r \in Readers : /\ AbstractQuery'[r] # NoQuery <=> Querying(r)'
                         /\ Querying(r)' => AbstractQuery'[r] = rpath'[r]
  <2>1. ASSUME NEW r \in Readers
        PROVE  /\ AbstractQuery'[r] # NoQuery <=> Querying(r)'
               /\ Querying(r)' => AbstractQuery'[r] = rpath'[r]
    <3>1. rpath'[r] # NoQuery
      BY ImplConstants DEF TypeOK
    <3> QED  BY <3>1 DEF AbstractQuery
  <2> QED  BY <2>1
<1>3. mayMiss' \in [Readers -> BOOLEAN]
  BY <1>1
<1>4. answer' \in [Readers -> BOOLEAN]
  <2>1. ASSUME NEW r \in Readers
        PROVE  (IF Querying(r) # Querying(r)' THEN rpc'[r] = "maybe" ELSE answer[r]) \in BOOLEAN
    BY DEF HistInv
  <2> QED  BY <2>1 DEF History
<1>5. \A r \in Readers : ~Querying(r)' => ~mayMiss'[r]
  BY <1>1, <1>2
<1>6. \A r \in Readers :
        Querying(r)' /\ ~Abstract!Managed(AbstractScope', active', rpath'[r]) => mayMiss'[r]
  BY <1>1, <1>2
<1> QED  BY <1>3, <1>4, <1>5, <1>6 DEF HistInv

\* Directories whose reads are all zero and still valid are unmanaged.
LEMMA ZeroMeansUnmanaged ==
    ASSUME MemoryInv, CounterInv, sec = NoSec, globalUsers = 0, NEW p \in Paths,
           \A s \in ScopeIds : <<s, p>> \notin index
    PROVE  ~Abstract!Managed(AbstractScope, active, p)
<1>1. GlobalScopes = {}
  <2>1. Ahead = 0
    BY DEF Ahead, NoSec
  <2>2. IsFiniteSet(GlobalScopes) /\ Cardinality(GlobalScopes) \in Nat
    BY CountedFinite DEF MemoryInv
  <2>3. Cardinality(GlobalScopes) = 0
    BY <2>1, <2>2, ScopeConstants DEF CounterInv, GlobalCount
  <2> QED  BY <2>2, <2>3, FS_EmptySet
<1>2. SUFFICES ASSUME NEW c \in Cgroups,
                      IF AbstractScope[c] = Global THEN active[c] ELSE p \in AbstractScope[c]
               PROVE  FALSE
  BY DEF Abstract!Managed
<1>3. CASE scopes[c] = Null
  <2>1. AbstractScope[c] = Global
    BY <1>3 DEF AbstractScope
  <2> QED  BY <1>1, <1>2, <1>3, <2>1 DEF GlobalScopes
<1>4. CASE scopes[c] # Null
  <2>1. AbstractScope[c] = EntriesOf(scopes[c]) /\ EntriesOf(scopes[c]) \in SUBSET Paths
    BY <1>4 DEF AbstractScope, EntriesOf, MemoryInv, TypeOK
  <2>2. p \in EntriesOf(scopes[c])
    BY <1>2, <2>1, ImplConstants
  <2>3. scopes[c] \in ScopeIds /\ p \in entries[scopes[c]]
    BY <2>2 DEF EntriesOf
  <2>4. scopes[c] \in Installed
    BY <2>3 DEF Installed
  <2>5. <<scopes[c], p>> \in NodesOf(Installed \cup InSection)
    BY <2>3, <2>4 DEF NodesOf
  <2> QED  BY <2>3, <2>5 DEF MemoryInv, IndexMatchesScopes
<1> QED  BY <1>3, <1>4

\* The abstract scopes see only the installed sets.
LEMMA ScopeFrame ==
    ASSUME UNCHANGED scopes, \A s \in Installed : entries'[s] = entries[s]
    PROVE  AbstractScope' = AbstractScope
<1>1. ASSUME NEW c \in Cgroups
      PROVE  (IF scopes[c] = Null THEN Global ELSE EntriesOf(scopes[c]))'
               = IF scopes[c] = Null THEN Global ELSE EntriesOf(scopes[c])
  BY DEF EntriesOf, Installed
<1> QED  BY <1>1 DEF AbstractScope

\* The queries depend on the readers only.
LEMMA QueryFrame ==
    ASSUME UNCHANGED <<rpc, rpath>>
    PROVE  AbstractQuery' = AbstractQuery
BY DEF AbstractQuery, Querying

\* While the queries do not change, no answer does.
LEMMA AnswerFrame ==
    ASSUME TypeOK, TypeOK', HistInv, History, AbstractQuery' = AbstractQuery
    PROVE  answer' = answer
<1>1. \A r \in Readers : Querying(r)' <=> Querying(r)
  <2>1. ASSUME NEW r \in Readers  PROVE Querying(r)' <=> Querying(r)
    <3>1. rpath'[r] # NoQuery /\ rpath[r] # NoQuery
      BY ImplConstants DEF TypeOK
    <3>2. AbstractQuery'[r] = AbstractQuery[r]
      OBVIOUS
    <3> QED  BY <3>1, <3>2 DEF AbstractQuery
  <2> QED  BY <2>1
<1>2. answer' = [r \in Readers |-> answer[r]]
  <2>1. \A r \in Readers : Querying(r) = Querying(r)'
    BY <1>1 DEF Querying
  <2> QED  BY <2>1 DEF History
<1> QED  BY <1>2 DEF HistInv

\* A step that changes neither scopes, flags nor queries is invisible.
LEMMA Invisible ==
    ASSUME TypeOK, TypeOK', HistInv, History, AbstractScope' = AbstractScope,
           UNCHANGED active, AbstractQuery' = AbstractQuery
    PROVE  UNCHANGED <<AbstractScope, active, AbstractQuery, mayMiss, answer>>
<1>1. answer' = answer
  BY AnswerFrame
<1>2. mayMiss' = [r \in Readers |->
            /\ AbstractQuery[r] # NoQuery
            /\ mayMiss[r] \/ ~Abstract!Managed(AbstractScope, active, AbstractQuery[r])]
  BY DEF History, Abstract!Observe
<1>3. ASSUME NEW r \in Readers  PROVE mayMiss'[r] = mayMiss[r]
  BY <1>2, QueryValue DEF HistInv
<1>4. mayMiss' = mayMiss
  BY <1>2, <1>3 DEF HistInv
<1> QED  BY <1>1, <1>4

-----------------------------------------------------------------------------
(* Step simulation.                                                        *)

\* A reader of the program asks, answers or does nothing visible.
LEMMA ReaderSimulates ==
    ASSUME ImplInv, TypeOK', History, NEW r \in Readers,
           Walking(r) \/ \E p \in Paths : FastBegin(r, p)
    PROVE  [Abstract!Next]_(Abstract!vars)
<1>0. TypeOK /\ HistInv
  BY DEF ImplInv, MemoryInv
<1>1. UNCHANGED writerVars
  BY DEF FastBegin, Walking, FastGlobal, FastExact, FastRetry, LoopBegin, LoopGlobal,
     LoopIndex, LoopRetry, MatchLoad, MatchDeref, ReaderStep
<1>2. AbstractScope' = AbstractScope /\ active' = active
  BY <1>1, ScopeFrame DEF writerVars
<1>3. ASSUME NEW q \in Readers, q # r  PROVE rpc'[q] = rpc[q] /\ rpath'[q] = rpath[q]
  BY <1>0, <1>3 DEF FastBegin, Walking, FastGlobal, FastExact, FastRetry, LoopBegin, LoopGlobal,
     LoopIndex, LoopRetry, MatchLoad, MatchDeref, ReaderStep, TypeOK
<1>4. \A q \in Readers : q # r => (Querying(q)' <=> Querying(q)) /\ AbstractQuery'[q] = AbstractQuery[q]
  BY <1>3 DEF Querying, AbstractQuery
<1>5. Abstract!Observe
  BY DEF History
<1>6. CASE (Querying(r)' <=> Querying(r)) /\ rpath'[r] = rpath[r]
  <2>1. AbstractQuery' = AbstractQuery
    BY <1>4, <1>6 DEF AbstractQuery
  <2> QED  BY <1>0, <1>2, <2>1, Invisible DEF Abstract!vars
<1>7. CASE ~Querying(r) /\ Querying(r)' /\ rpc'[r] # "maybe"
  <2>1. AbstractQuery[r] = NoQuery /\ AbstractQuery'[r] = rpath'[r] /\ rpath'[r] \in Paths
    BY <1>7 DEF AbstractQuery, TypeOK
  <2>2. AbstractQuery' = [AbstractQuery EXCEPT ![r] = rpath'[r]]
    BY <1>4, <2>1 DEF AbstractQuery
  <2>3. answer' = [answer EXCEPT ![r] = FALSE]
    <3>1. answer' = [q \in Readers |->
            IF Querying(q) # Querying(q)' THEN rpc'[q] = "maybe" ELSE answer[q]]
      BY DEF History
    <3>2. ASSUME NEW q \in Readers, q # r  PROVE answer'[q] = answer[q]
      <4>1. Querying(q)' = Querying(q)
        BY <1>4, <3>2 DEF Querying
      <4> QED  BY <3>1, <4>1
    <3>3. answer'[r] = FALSE
      <4>1. Querying(r)' # Querying(r)
        BY <1>7 DEF Querying
      <4>2. answer'[r] = (rpc'[r] = "maybe")
        BY <3>1, <4>1
      <4> QED  BY <1>7, <4>2
    <3>4. answer \in [Readers -> BOOLEAN]
      BY <1>0 DEF HistInv
    <3> QED  BY <3>1, <3>2, <3>3, <3>4
  <2>4. Abstract!Ask(r, rpath'[r])
    BY <1>2, <1>5, <2>1, <2>2, <2>3 DEF Abstract!Ask
  <2> QED  BY <2>1, <2>4 DEF Abstract!Next
<1>8. ASSUME NEW a \in BOOLEAN, Querying(r), ~Querying(r)', (rpc'[r] = "maybe") = a, a \/ mayMiss[r]
      PROVE  Abstract!Next
  <2>1. AbstractQuery[r] # NoQuery /\ AbstractQuery'[r] = NoQuery
    BY <1>0, <1>8, QueryValue DEF AbstractQuery
  <2>2. AbstractQuery' = [AbstractQuery EXCEPT ![r] = NoQuery]
    BY <1>4, <2>1 DEF AbstractQuery
  <2>3. answer' = [answer EXCEPT ![r] = a]
    <3>1. answer' = [q \in Readers |->
            IF Querying(q) # Querying(q)' THEN rpc'[q] = "maybe" ELSE answer[q]]
      BY DEF History
    <3>2. ASSUME NEW q \in Readers, q # r  PROVE answer'[q] = answer[q]
      <4>1. Querying(q)' = Querying(q)
        BY <1>4, <3>2 DEF Querying
      <4> QED  BY <3>1, <4>1
    <3>3. answer'[r] = a
      <4>1. Querying(r)' # Querying(r)
        BY <1>8 DEF Querying
      <4>2. answer'[r] = (rpc'[r] = "maybe")
        BY <3>1, <4>1
      <4> QED  BY <1>8, <4>2
    <3>4. answer \in [Readers -> BOOLEAN]
      BY <1>0 DEF HistInv
    <3> QED  BY <3>1, <3>2, <3>3, <3>4
  <2>4. Abstract!Reply(r, a)
    BY <1>2, <1>5, <1>8, <2>1, <2>2, <2>3 DEF Abstract!Reply
  <2> QED  BY <2>4 DEF Abstract!Next
<1>9. ASSUME Querying(r), sec = NoSec, globalUsers = 0, \A s \in ScopeIds : <<s, rpath[r]>> \notin index
      PROVE  mayMiss[r]
  <2>1. rpath[r] \in Paths
    BY <1>0 DEF TypeOK
  <2>2. ~Abstract!Managed(AbstractScope, active, rpath[r])
    BY <1>9, <2>1, ZeroMeansUnmanaged DEF ImplInv
  <2> QED  BY <1>0, <1>9, <2>2 DEF HistInv
<1>10. CASE \E p \in Paths : FastBegin(r, p)
  <2>1. rpc[r] = "idle" /\ rpc'[r] = "fastG"
    BY <1>0, <1>10 DEF FastBegin, ReaderStep, TypeOK
  <2> QED  BY <1>7, <2>1 DEF Querying
<1>11. CASE FastGlobal(r) \/ FastExact(r) \/ LoopBegin(r) \/ LoopGlobal(r) \/ LoopIndex(r)
            \/ (\E c \in Cgroups : MatchLoad(r, c)) \/ MatchDeref(r)
  <2>1. (Querying(r)' <=> Querying(r)) /\ rpath'[r] = rpath[r]
    BY <1>0, <1>11 DEF FastGlobal, FastExact, LoopBegin, LoopGlobal, LoopIndex, MatchLoad, MatchDeref,
       ReaderStep, Querying, TypeOK
  <2> QED  BY <1>6, <2>1
<1>12. CASE FastRetry(r)
  <2>1. /\ rpc[r] = "fastR" /\ rpc'[r] = IF stale[r] THEN "loop" ELSE "idle"
        /\ rpath'[r] = rpath[r]
    BY <1>0, <1>12 DEF FastRetry, ReaderStep, TypeOK
  <2>2. CASE stale[r]
    BY <1>6, <2>1, <2>2 DEF Querying
  <2>3. CASE ~stale[r]
    <3>1. sec = NoSec /\ globalUsers = 0 /\ exactUsers = 0
      BY <2>1, <2>3 DEF ImplInv, SeqInv, SampleOK, Sampling
    <3>2. index = {}
      <4>1. IsFiniteSet(index) /\ Cardinality(index) \in Nat
        BY <1>0, CountedFinite
      <4>2. Cardinality(index) = 0
        BY <3>1, <4>1, ScopeConstants DEF ImplInv, CounterInv, ExactCount
      <4> QED  BY <4>1, <4>2, FS_EmptySet
    <3>3. mayMiss[r]
      BY <1>9, <2>1, <3>1, <3>2 DEF Querying
    <3> QED  BY <1>8, <2>1, <2>3, <3>3 DEF Querying
  <2> QED  BY <2>2, <2>3
<1>13. CASE LoopRetry(r)
  <2>1. /\ rpc[r] = "loopR"
        /\ rpc'[r] = IF stale[r] THEN "loop" ELSE IF found[r] THEN "maybe" ELSE "idle"
        /\ rpath'[r] = rpath[r]
    BY <1>0, <1>13 DEF LoopRetry, ReaderStep, TypeOK
  <2>2. CASE stale[r]
    BY <1>6, <2>1, <2>2 DEF Querying
  <2>3. CASE ~stale[r] /\ found[r]
    BY <1>8, <2>1, <2>3 DEF Querying
  <2>4. CASE ~stale[r] /\ ~found[r]
    <3>1. sec = NoSec /\ globalUsers = 0 /\ \A s \in ScopeIds : <<s, rpath[r]>> \notin index
      BY <2>1, <2>4 DEF ImplInv, SeqInv, SampleOK, Sampling
    <3>2. mayMiss[r]
      BY <1>9, <2>1, <3>1 DEF Querying
    <3> QED  BY <1>8, <2>1, <2>4, <3>2 DEF Querying
  <2> QED  BY <2>2, <2>3, <2>4
<1> QED  BY <1>10, <1>11, <1>12, <1>13 DEF Walking

\* A step of a writer, of the attach path or of a release worker that moves no
\* scope pointer and no flag.
LEMMA QuietWriter ==
    ASSUME ImplInv, TypeOK', History, UNCHANGED <<scopes, active, rpc, rpath>>,
           \A s \in Installed : entries'[s] = entries[s]
    PROVE  UNCHANGED Abstract!vars
<1>1. AbstractScope' = AbstractScope /\ AbstractQuery' = AbstractQuery
  BY ScopeFrame, QueryFrame
<1> QED  BY <1>1, Invisible DEF ImplInv, MemoryInv, Abstract!vars

\* rcu_assign_pointer is the moment at which the new scope is in force.
LEMMA PublishSimulates ==
    ASSUME ImplInv, TypeOK', History, ReplacePublish
    PROVE  Abstract!Next
<1> DEFINE c == sec.cgrp
           new == IF sec.new = Null THEN Global ELSE EntriesOf(sec.new)
<1>1. TypeOK /\ HistInv /\ c \in Cgroups /\ sec.new \in ScopePtrs
  <2>1. sec \in ReplaceSecs
    BY DEF ReplacePublish, ImplInv, MemoryInv, TypeOK, NoSec, ActiveSecs
  <2> QED  BY <2>1 DEF ImplInv, MemoryInv, ReplaceSecs
<1>2. /\ scopes' = [scopes EXCEPT ![c] = sec.new]
      /\ UNCHANGED <<active, entries, rpc, rpath>>
  BY DEF ReplacePublish, readerVars
<1>3. new \in {Global} \cup SUBSET Paths
  BY <1>1 DEF EntriesOf, TypeOK
<1>4. AbstractScope' = [AbstractScope EXCEPT ![c] = new]
  <2>1. ASSUME NEW d \in Cgroups
        PROVE  AbstractScope'[d] = IF d = c THEN new ELSE AbstractScope[d]
    BY <1>1, <1>2 DEF AbstractScope, EntriesOf, TypeOK
  <2> HIDE DEF c, new
  <2> QED  BY <1>1, <2>1 DEF AbstractScope
<1>5. AbstractQuery' = AbstractQuery
  BY <1>2, QueryFrame
<1>6. answer' = answer
  BY <1>1, <1>5, AnswerFrame
<1>7. Abstract!SetScope(c, new)
  <2> HIDE DEF c, new
  <2> QED  BY <1>2, <1>4, <1>5, <1>6 DEF Abstract!SetScope, History
<1> HIDE DEF c, new
<1> QED  BY <1>1, <1>3, <1>7 DEF Abstract!Next

\* A step that only changes one cgroup's flag is an attach or a detach.
LEMMA ActiveSimulates ==
    ASSUME ImplInv, TypeOK', History, NEW c \in Cgroups, NEW b \in BOOLEAN,
           active' = [active EXCEPT ![c] = b], UNCHANGED <<scopes, entries, rpc, rpath>>
    PROVE  Abstract!Next
<1>1. AbstractScope' = AbstractScope /\ AbstractQuery' = AbstractQuery
  BY ScopeFrame, QueryFrame
<1>2. answer' = answer
  BY <1>1, AnswerFrame DEF ImplInv, MemoryInv
<1>3. Abstract!SetActive(c, b)
  BY <1>1, <1>2 DEF Abstract!SetActive, History
<1> QED  BY <1>3 DEF Abstract!Next

\* Freeing a replaced or unused set, or filling a new one, touches no installed set.
LEMMA InstalledKept ==
    ASSUME MemoryInv
    PROVE  /\ Installed \subseteq allocated
           /\ \A a \in Actors : FreeScopes(old[a]) =>
                \A s \in Installed : entries'[s] = entries[s]
           /\ \A w \in Writers : FreeScopes(fresh[w]) =>
                \A s \in Installed : entries'[s] = entries[s]
<1>1. /\ Installed \subseteq allocated
      /\ \A a \in Actors : old[a] \notin Installed
      /\ \A w \in Writers : fresh[w] \notin Installed
  BY DEF MemoryInv, NoLeak, News, Installed
<1>2. Installed \subseteq ScopeIds
  BY DEF Installed
<1> QED  BY <1>1, <1>2 DEF FreeScopes

\* Every step of the program is a step of the abstract registry or invisible.
LEMMA StepSimulates ==
    ASSUME ImplInv, TypeOK', Next, History
    PROVE  [Abstract!Next]_(Abstract!vars)
<1>0. MemoryInv
  BY DEF ImplInv
<1>1. ASSUME NEW w \in Writers, Writing(w)  PROVE UNCHANGED Abstract!vars
  <2>1. UNCHANGED <<scopes, active, rpc, rpath>>
    BY <1>1 DEF Writing, TakeCgroup, CommandRejected, CommandStart, CommandAlloc, CommandInstall,
       CommandAbandon, CommandFinish, readerVars
  <2>2. \A s \in Installed : entries'[s] = entries[s]
    <3>1. CASE \/ \E c \in Cgroups : TakeCgroup(w, c)
               \/ \E cmd \in Commands : CommandRejected(w, cmd)
               \/ CommandInstall(w)
      BY <3>1 DEF TakeCgroup, CommandRejected, CommandInstall
    <3>2. ASSUME NEW cmd \in Commands, CommandStart(w, cmd) \/ CommandAlloc(w, cmd)
          PROVE  \A s \in Installed : entries'[s] = entries[s]
      <4>1. UNCHANGED entries \/ \E s \in ScopeIds : AllocScopes(s, NewEntries(wcgrp[w], cmd))
        BY <3>2 DEF CommandStart, CommandAlloc
      <4> QED  BY <1>0, <4>1, InstalledKept DEF AllocScopes, MemoryInv, TypeOK
    <3>3. CASE CommandFinish(w)
      <4>1. w \in Actors /\ FreeScopes(old[w])
        BY <3>3 DEF CommandFinish, Actors
      <4> QED  BY <1>0, <4>1, InstalledKept
    <3>4. CASE CommandAbandon(w)
      BY <1>0, <3>4, InstalledKept DEF CommandAbandon
    <3> QED  BY <1>1, <3>1, <3>2, <3>3, <3>4 DEF Writing
  <2> QED  BY <2>1, <2>2, QuietWriter
<1>2. CASE ReplacePublish
  BY <1>2, PublishSimulates
<1>3. CASE ReplaceLose
  <2>1. UNCHANGED <<scopes, entries, rpc, rpath>>
    BY <1>3 DEF ReplaceLose, readerVars
  <2>2. CASE sec.by = Releaser
    <3>1. sec.cgrp \in Cgroups /\ active' = [active EXCEPT ![sec.cgrp] = FALSE]
      <4>1. sec \in ReplaceSecs
        BY <1>0, <1>3 DEF ReplaceLose, MemoryInv, TypeOK, NoSec, ActiveSecs
      <4> QED  BY <1>3, <2>2, <4>1 DEF ReplaceLose, ReplaceSecs
    <3> QED  BY <2>1, <3>1, ActiveSimulates
  <2>3. CASE sec.by # Releaser
    <3>1. active' = active
      BY <1>3, <2>3 DEF ReplaceLose
    <3> QED  BY <2>1, <3>1, QuietWriter
  <2> QED  BY <2>2, <2>3
<1>4. ASSUME NEW c \in Cgroups, NEW val \in BOOLEAN, SetActiveBegin(c, val)
      PROVE  UNCHANGED Abstract!vars
  BY <1>4, QuietWriter DEF SetActiveBegin, readerVars
<1>5. CASE SetActiveEnd
  <2>1. sec.cgrp \in Cgroups /\ sec.val \in BOOLEAN
    <3>1. sec \in ActiveSecs
      BY <1>0, <1>5 DEF SetActiveEnd, MemoryInv, TypeOK, NoSec, ReplaceSecs
    <3> QED  BY <3>1 DEF ActiveSecs
  <2>2. active' = [active EXCEPT ![sec.cgrp] = sec.val] /\ UNCHANGED <<scopes, entries, rpc, rpath>>
    BY <1>5 DEF SetActiveEnd, readerVars
  <2> QED  BY <2>1, <2>2, ActiveSimulates
<1>6. ASSUME NEW c \in Cgroups, Rmdir(c) \/ ReleaseStart(c) \/ ReleaseFinish(c)
      PROVE  UNCHANGED Abstract!vars
  <2>1. UNCHANGED <<scopes, active, rpc, rpath>>
    BY <1>6 DEF Rmdir, ReleaseStart, ReleaseFinish, readerVars
  <2>2. \A s \in Installed : entries'[s] = entries[s]
    <3>1. CASE Rmdir(c) \/ ReleaseStart(c)
      BY <3>1 DEF Rmdir, ReleaseStart
    <3>2. CASE ReleaseFinish(c)
      <4>1. c \in Actors /\ FreeScopes(old[c])
        BY <3>2 DEF ReleaseFinish, Actors
      <4> QED  BY <1>0, <4>1, InstalledKept
    <3> QED  BY <1>6, <3>1, <3>2
  <2> QED  BY <2>1, <2>2, QuietWriter
<1>7. ASSUME NEW r \in Readers, Walking(r) \/ \E p \in Paths : FastBegin(r, p)
      PROVE  [Abstract!Next]_(Abstract!vars)
  BY <1>7, ReaderSimulates
<1> QED  BY <1>1, <1>2, <1>3, <1>4, <1>5, <1>6, <1>7 DEF Next

-----------------------------------------------------------------------------

\* The initial state of the program is the initial state of the promise.
LEMMA ImplStart == ImplInit => ImplInv /\ Abstract!Init
<1> SUFFICES ASSUME ImplInit  PROVE ImplInv /\ Abstract!Init
  OBVIOUS
<1>1. Init /\ MemoryInv /\ CounterInv
  BY InitMemory, CounterInit DEF ImplInit
<1>2. SeqInv
  BY <1>1 DEF Init, SeqInv, Sampling
<1>3. \A r \in Readers : ~Querying(r)
  BY <1>1 DEF Init, Querying
<1>4. HistInv
  BY <1>3 DEF ImplInit, HistInv
<1>5. AbstractScope = [c \in Cgroups |-> Global] /\ AbstractQuery = [r \in Readers |-> NoQuery]
  BY <1>1, <1>3 DEF Init, AbstractScope, AbstractQuery
<1> QED  BY <1>1, <1>2, <1>4, <1>5 DEF ImplInv, ImplInit, Init, Abstract!Init

\* The invariant is kept, and every step is allowed by the promise.
LEMMA ImplStep == ImplInv /\ [Next /\ History]_implVars => ImplInv' /\ [Abstract!Next]_(Abstract!vars)
<1> SUFFICES ASSUME ImplInv, [Next /\ History]_implVars
             PROVE  ImplInv' /\ [Abstract!Next]_(Abstract!vars)
  OBVIOUS
<1>1. [Next]_vars
  BY DEF implVars
<1>2. MemoryInv' /\ CounterInv' /\ SeqInv'
  BY <1>1, StepMemory, CounterStep, SeqStep DEF ImplInv
<1>3. TypeOK'
  BY <1>2 DEF MemoryInv
<1>4. CASE Next /\ History
  <2>1. HistInv'
    BY <1>3, <1>4, HistStep DEF ImplInv
  <2>2. [Abstract!Next]_(Abstract!vars)
    BY <1>3, <1>4, StepSimulates
  <2> QED  BY <1>2, <2>1, <2>2 DEF ImplInv
<1>5. CASE UNCHANGED implVars
  <2>1. UNCHANGED <<vars, mayMiss, answer>>
    BY <1>5 DEF implVars
  <2>2. UNCHANGED <<scopes, entries, active, rpc, rpath, mayMiss, answer>>
    BY <2>1 DEF vars, writerVars, readerVars
  <2>3. AbstractScope' = AbstractScope /\ AbstractQuery' = AbstractQuery
    BY <2>2, ScopeFrame, QueryFrame
  <2>4. UNCHANGED Abstract!vars
    BY <2>2, <2>3 DEF Abstract!vars
  <2>5. \A r \in Readers : Querying(r)' <=> Querying(r)
    BY <2>2 DEF Querying
  <2>6. HistInv'
    BY <2>2, <2>3, <2>5 DEF HistInv, ImplInv
  <2> QED  BY <1>2, <2>4, <2>6 DEF ImplInv
<1> QED  BY <1>4, <1>5

\* For every registry, the index, the counters, the seqcount and RCU together
\* implement atomic scopes: namei_ext_parent_maybe_managed answers "not managed"
\* only for a directory that was unmanaged at some moment of the call.
THEOREM RegistryImplementsScopes == ImplSpec => PrefilterSound
BY ImplStart, ImplStep, PTL DEF ImplSpec, PrefilterSound, Abstract!Spec
=============================================================================
