-------------------------- MODULE OpenResolve_proofs -------------------------
(***************************************************************************)
(* Where a lookup or an open ends, proved for every tree, pathname, policy *)
(* and limit of links: it runs out of steps, and when nobody disturbs it,  *)
(* it returns what resolution by substitution returns.                     *)
(***************************************************************************)
EXTENDS Open_proofs, NameiExtOpenRef, WellFoundedInduction

-----------------------------------------------------------------------------
(* The order on the measures of a call.                                    *)

LessThan == {ss \in Nat \X Nat : ss[1] < ss[2]}

\* Numbers have no endless descent.
LEMMA LessThanWellFounded == IsWellFoundedOn(LessThan, Nat)
  BY NatLessThanWellFounded, Zenon DEF OpToRel, LessThan

\* Fewer as a relation.
FewerThan == {ss \in Measures \X Measures : Fewer(ss[1], ss[2])}

\* A walk cannot take steps for ever: the order in which each of them comes before
\* the last has no endless descent (CallAdvances, link_path_walk).
THEOREM CallIsFinite == IsWellFoundedOn(FewerThan, Measures)
<1> DEFINE lex == LexProductOrdering(LessThan, Nat, 5)
<1>1. IsWellFoundedOn(lex, Measures)
  BY LessThanWellFounded, WFLexProductOrdering DEF Measures
<1>2. ASSUME NEW s \in Measures, NEW t \in Measures, Fewer(s, t) PROVE <<s, t>> \in lex
  BY <1>2 DEF LexProductOrdering, LessThan, Fewer, Measures
<1>3. FewerThan \cap (Measures \X Measures) \subseteq lex
  BY <1>2 DEF FewerThan
<1> HIDE DEF lex
<1> QED
  BY <1>1, <1>3, IsWellFoundedOnSubrelation

-----------------------------------------------------------------------------
(* What a resolution computes.                                             *)

\* A function of T-values follows nx from any point of S until fin, where it is an.
Follows(g, S, fin, an, nx) == \A p \in S : g[p] = IF p \in fin THEN an[p] ELSE g[nx[p]]

\* Pairs that a relation with these properties has in any case.
Closed(G, S, fin, an, nx) ==
    /\ \A p \in fin : <<p, an[p]>> \in G
    /\ \A p \in S \ fin : \A t : <<nx[p], t>> \in G => <<p, t>> \in G
Least(S, T, fin, an, nx) == {m \in S \X T : \A G \in SUBSET (S \X T) : Closed(G, S, fin, an, nx) => m \in G}

\* The smallest such relation has them too.
LEMMA LeastClosed ==
    ASSUME NEW S, NEW T, NEW fin \in SUBSET S, NEW an, NEW nx,
           \A p \in fin : an[p] \in T
    PROVE  Closed(Least(S, T, fin, an, nx), S, fin, an, nx) /\ Least(S, T, fin, an, nx) \in SUBSET (S \X T)
<1> DEFINE M == Least(S, T, fin, an, nx)
<1>1. ASSUME NEW p \in fin PROVE <<p, an[p]>> \in M
  BY DEF Least, Closed
<1>2. ASSUME NEW p \in S \ fin, NEW t, <<nx[p], t>> \in M PROVE <<p, t>> \in M
  <2>1. <<nx[p], t>> \in S \X T
    BY <1>2 DEF Least
  <2>2. t \in T /\ <<p, t>> \in S \X T
    BY <2>1
  <2>3. ASSUME NEW G \in SUBSET (S \X T), Closed(G, S, fin, an, nx) PROVE <<p, t>> \in G
    <3>1. <<nx[p], t>> \in G
      BY <1>2, <2>3 DEF Least
    <3> QED
      BY <2>3, <3>1 DEF Closed
  <2> QED
    BY <2>2, <2>3 DEF Least
<1>3. M \in SUBSET (S \X T)
  BY DEF Least
<1> QED
  BY <1>1, <1>2, <1>3 DEF Closed

\* Where every step descends in a well-founded relation, there is such a function.
LEMMA Iteration ==
    ASSUME NEW S, NEW T, NEW fin \in SUBSET S, NEW an, NEW nx, NEW Rel,
           \A p \in fin : an[p] \in T,
           \A p \in S \ fin : nx[p] \in S /\ <<nx[p], p>> \in Rel,
           IsWellFoundedOn(Rel, S)
    PROVE  \E g \in [S -> T] : Follows(g, S, fin, an, nx)
<1> DEFINE M == Least(S, T, fin, an, nx)
           none == {p \in S : \A t \in T : <<p, t>> \notin M}
           many == {p \in S : \E t, u \in T : t # u /\ <<p, t>> \in M /\ <<p, u>> \in M}
<1>1. Closed(M, S, fin, an, nx) /\ M \in SUBSET (S \X T)
  BY LeastClosed
<1>2. none = {}
  <2> SUFFICES ASSUME none # {} PROVE FALSE
    OBVIOUS
  <2>1. PICK p \in none : \A q \in none : <<q, p>> \notin Rel
    <3>1. none \subseteq S
      OBVIOUS
    <3> HIDE DEF none
    <3> QED
      BY <3>1, WFMin
  <2>2. p \in S /\ \A t \in T : <<p, t>> \notin M
    BY <2>1
  <2>3. p \notin fin
    BY <1>1, <2>2 DEF Closed
  <2>4. nx[p] \in S /\ nx[p] \notin none
    BY <2>1, <2>2, <2>3
  <2>5. PICK t \in T : <<nx[p], t>> \in M
    BY <2>4
  <2> HIDE DEF M
  <2>6. <<p, t>> \in M
    BY <1>1, <2>2, <2>3, <2>5 DEF Closed
  <2> QED
    BY <2>2, <2>6
<1>3. many = {}
  <2> SUFFICES ASSUME many # {} PROVE FALSE
    OBVIOUS
  <2>1. PICK p \in many : \A q \in many : <<q, p>> \notin Rel
    <3>1. many \subseteq S
      OBVIOUS
    <3> HIDE DEF many
    <3> QED
      BY <3>1, WFMin
  <2>2. PICK v : /\ p \in fin => v = an[p]
                 /\ p \notin fin => \A t \in T : <<nx[p], t>> \in M => t = v
    <3>1. CASE p \in fin
      BY <3>1
    <3>2. CASE p \notin fin
      <4>1. nx[p] \in S /\ nx[p] \notin many
        BY <2>1, <3>2
      <4>2. \A t, u \in T : <<nx[p], t>> \in M /\ <<nx[p], u>> \in M => t = u
        BY <4>1
      <4> HIDE DEF M
      <4> QED
        BY <3>2, <4>2
    <3> QED
      BY <3>1, <3>2
  <2> DEFINE G == {m \in M : m[1] = p => m[2] = v}
  <2> HIDE DEF M
  <2>3. G \in SUBSET (S \X T)
    BY <1>1
  <2>4. Closed(G, S, fin, an, nx)
    <3>1. ASSUME NEW q \in fin PROVE <<q, an[q]>> \in G
      BY <1>1, <2>2 DEF Closed
    <3>2. ASSUME NEW q \in S \ fin, NEW t, <<nx[q], t>> \in G PROVE <<q, t>> \in G
      <4>1. <<nx[q], t>> \in M
        BY <3>2
      <4>2. <<q, t>> \in M /\ t \in T
        BY <1>1, <4>1 DEF Closed
      <4> QED
        BY <2>2, <4>1, <4>2
    <3> HIDE DEF G
    <3> QED
      BY <3>1, <3>2 DEF Closed
  <2>5. M \subseteq G
    <3> HIDE DEF G
    <3> QED
      BY <2>3, <2>4 DEF M, Least
  <2>6. \A t \in T : <<p, t>> \in M => t = v
    BY <2>5
  <2> QED
    BY <2>1, <2>6
<1> DEFINE g == [p \in S |-> CHOOSE t \in T : <<p, t>> \in M]
<1> HIDE DEF M
<1>4. \A p \in S : \E t \in T : <<p, t>> \in M
  BY <1>2
<1>5. \A p \in S : g[p] \in T /\ <<p, g[p]>> \in M
  BY <1>4
<1>6. g \in [S -> T]
  BY <1>5
<1>7. \A p \in S : \A t \in T : <<p, t>> \in M => t = g[p]
  <2> HIDE DEF g
  <2> QED
    BY <1>3, <1>5
<1> HIDE DEF g
<1>8. ASSUME NEW p \in S PROVE g[p] = IF p \in fin THEN an[p] ELSE g[nx[p]]
  <2>1. CASE p \in fin
    BY <1>1, <1>7, <2>1 DEF Closed
  <2>2. CASE p \notin fin
    <3>1. <<nx[p], g[nx[p]]>> \in M /\ g[nx[p]] \in T
      BY <1>5, <2>2
    <3>2. <<p, g[nx[p]]>> \in M
      BY <1>1, <2>2, <3>1 DEF Closed
    <3> QED
      BY <1>7, <2>2, <3>1, <3>2
  <2> QED
    BY <2>1, <2>2
<1> QED
  BY <1>6, <1>8 DEF Follows

Comps == Seq(Names \cup {".."})

\* A step of the resolution follows a link or takes a component.
Descends(q, p) == q.n > p.n \/ (q.n = p.n /\ Len(q.comps) < Len(p.comps))
Downwards == {ss \in Position \X Position : Descends(ss[1], ss[2])}

\* It ends, or descends to another position, and odd is what it says of the slash.
Sound(s, p, odd) ==
    \/ \E e, o : s = Ends(Answer(e, o, odd))
    \/ \E q \in Position : s = Goes(q) /\ Descends(q, p) /\ q.odd = odd

\* Links left and components left cannot both go down for ever.
LEMMA DownwardsWellFounded == IsWellFoundedOn(Downwards, Position)
<1> DEFINE lex == LexPairOrdering(LessThan, LessThan, Nat, Nat)
           m(p) == <<MaxSymlinks - p.n, Len(p.comps)>>
<1>1. IsWellFoundedOn(lex, Nat \X Nat)
  BY LessThanWellFounded, WFLexPairOrdering
<1>2. ASSUME NEW p \in Position PROVE MaxSymlinks - p.n \in Nat /\ Len(p.comps) \in Nat
  BY OpenConstants DEF Position
<1>3. ASSUME NEW p \in Position, NEW q \in Position, Descends(q, p) PROVE <<m(q), m(p)>> \in lex
  <2>1. q.n \in 0..MaxSymlinks /\ p.n \in 0..MaxSymlinks /\ MaxSymlinks \in Nat
    BY OpenConstants DEF Position
  <2>2. \/ MaxSymlinks - q.n < MaxSymlinks - p.n
        \/ MaxSymlinks - q.n = MaxSymlinks - p.n /\ Len(q.comps) < Len(p.comps)
    BY <1>3, <2>1 DEF Descends
  <2> QED
    BY <1>2, <2>2 DEF LexPairOrdering, LessThan
<1> SUFFICES ASSUME NEW f \in [Nat -> Position], \A i \in Nat : <<f[i + 1], f[i]>> \in Downwards
             PROVE  FALSE
  BY DEF IsWellFoundedOn
<1> DEFINE h == [i \in Nat |-> m(f[i])]
<1>4. h \in [Nat -> Nat \X Nat]
  BY <1>2
<1>5. ASSUME NEW i \in Nat PROVE <<h[i + 1], h[i]>> \in lex
  <2>1. f[i + 1] \in Position /\ f[i] \in Position /\ Descends(f[i + 1], f[i])
    BY DEF Downwards
  <2> HIDE DEF lex
  <2> QED
    BY <1>3, <2>1
<1> HIDE DEF lex, h
<1> QED
  BY <1>1, <1>4, <1>5 DEF IsWellFoundedOn

\* The first component of a position and what is behind it.
LEMMA FirstComponent ==
    ASSUME NEW p \in Position, p.comps # <<>>
    PROVE  /\ Head(p.comps) \in Names \cup {".."} /\ Tail(p.comps) \in Comps
           /\ Len(Tail(p.comps)) < Len(p.comps)
           /\ p.comps = <<Head(p.comps)>> \o Tail(p.comps)
<1>1. p.comps \in Comps
  BY DEF Position, Comps
<1>2. /\ Head(p.comps) \in Names \cup {".."} /\ Tail(p.comps) \in Comps
      /\ Len(Tail(p.comps)) = Len(p.comps) - 1 /\ Len(p.comps) \in Nat
  BY <1>1 DEF Comps
<1>3. p.comps = <<Head(p.comps)>> \o Tail(p.comps)
  <2> DEFINE s == p.comps
  <2>1. s \in Comps /\ s # <<>>
    BY <1>1
  <2> HIDE DEF s
  <2>2. s = <<Head(s)>> \o Tail(s)
    BY <2>1, HeadTailProperties, ConcatProperties DEF Comps
  <2> QED
    BY <2>2 DEF s
<1> QED
  BY <1>2, <1>3

\* An error ends the resolution.
LEMMA ErrorSound == ASSUME NEW p, NEW e, NEW odd PROVE Sound(Error(e, odd), p, odd)
  BY DEF Sound, Error

\* So does the last component.
LEMMA LastSound ==
    ASSUME NEW p, NEW c, NEW o, NEW d, NEW odd
    PROVE  Sound(Ends(LastObject(c, o, d, odd)), p, odd)
<1>1. \E e, x : LastObject(c, o, d, odd) = Answer(e, x, odd)
  BY DEF LastObject
<1> QED
  BY <1>1, Zenon DEF Sound

\* A component that leads somewhere.
LEMMA ArriveSound ==
    ASSUME NEW c \in Calls, NEW p \in Position, p.comps # <<>>, NEW o \in Objects \cup {Nil},
           NEW odd \in BOOLEAN, ~Final(p) => odd = p.odd
    PROVE  Sound(Arrive(c, p, o, odd), p, odd)
<1>1. CASE Final(p)
  <2>1. Arrive(c, p, o, odd) = Ends(LastObject(c, o, c.directory \/ Slashed(p), odd))
    BY <1>1, Zenon DEF Arrive
  <2> QED
    BY <2>1, LastSound, Zenon
<1>2. CASE ~Final(p) /\ o \in Dirs
  <2> DEFINE t == Tail(p.comps)
             q == [p EXCEPT !.dir = o, !.comps = t]
  <2>1. Arrive(c, p, o, odd) = Goes(q)
    <3>1. o # Nil
      BY <1>2, OpenConstants DEF Objects
    <3> QED
      BY <1>2, <3>1, Zenon DEF Arrive
  <2>2. t \in Comps /\ Len(t) < Len(p.comps)
    BY FirstComponent
  <2> HIDE DEF t
  <2>3. q \in Position /\ q.n = p.n /\ q.comps = t /\ q.odd = p.odd
    BY <1>2, <2>2 DEF Position, Comps
  <2> HIDE DEF q
  <2> QED
    BY <1>2, <2>1, <2>2, <2>3 DEF Sound, Descends
<1>3. CASE ~Final(p) /\ o \notin Dirs
  <2>1. Arrive(c, p, o, odd) \in {Error("ENOENT", odd), Error("ENOTDIR", odd)}
    <3>1. CASE o = Nil
      BY <1>3, <3>1, Zenon DEF Arrive
    <3>2. CASE o # Nil
      BY <1>3, <3>2, Zenon DEF Arrive
    <3> QED
      BY <3>1, <3>2
  <2> QED
    BY <2>1, ErrorSound
<1> QED
  BY <1>1, <1>2, <1>3

\* A link that is replaced by its body.
LEMMA SubstituteSound ==
    ASSUME NEW c \in Calls, NEW p \in Position, p.comps # <<>>, NEW b \in Pathname, NEW odd \in BOOLEAN
    PROVE  Sound(Substitute(c, p, b, odd), p, odd)
<1>0. p.n \in 0..MaxSymlinks /\ MaxSymlinks \in Nat
  BY OpenConstants DEF Position
<1>1. CASE p.n >= MaxSymlinks
  <2>1. Substitute(c, p, b, odd) = Error("ELOOP", odd)
    <3>1. ~(p.n < MaxSymlinks)
      BY <1>0, <1>1
    <3> QED
      BY <1>1, <3>1, Zenon DEF Substitute
  <2> QED
    BY <2>1, ErrorSound
<1>2. CASE p.n < MaxSymlinks /\ b.abs /\ c.beneath
  <2>1. Substitute(c, p, b, odd) = Error("EXDEV", odd)
    <3>1. ~(p.n >= MaxSymlinks)
      BY <1>0, <1>2
    <3> QED
      BY <1>2, <3>1, Zenon DEF Substitute
  <2> QED
    BY <2>1, ErrorSound
<1>3. CASE p.n < MaxSymlinks /\ ~(b.abs /\ c.beneath)
  <2> DEFINE t == b.comps \o Tail(p.comps)
             d == IF b.abs THEN Root ELSE p.dir
             sl == IF Final(p) THEN b.slash ELSE p.slash
             n == p.n + 1
             sd == Slashed(p)
             q == [dir |-> d, comps |-> t, slash |-> sl, slashed |-> sd, n |-> n, odd |-> odd]
  <2>1. Substitute(c, p, b, odd) = Goes(q)
    <3>1. ~(p.n >= MaxSymlinks)
      BY <1>0, <1>3
    <3> QED
      BY <1>3, <3>1, Zenon DEF Substitute
  <2>2. /\ t \in Comps /\ d \in Dirs /\ sl \in BOOLEAN /\ n \in 0..MaxSymlinks /\ n > p.n
        /\ sd \in BOOLEAN
    <3>1. b.comps \in Comps /\ Tail(p.comps) \in Comps
      BY FirstComponent DEF Pathname, Comps
    <3>2. t \in Comps
      BY <3>1 DEF Comps
    <3>3. d \in Dirs /\ sl \in BOOLEAN
      BY OpenConstants DEF Position, Pathname
    <3>4. p.slashed \in BOOLEAN /\ p.slash \in BOOLEAN
      BY DEF Position
    <3>5. sd \in BOOLEAN
      BY <3>4 DEF Slashed
    <3> QED
      BY <1>0, <1>3, <3>2, <3>3, <3>5
  <2> HIDE DEF t, d, sl, n, sd
  <2>3. q \in Position /\ q.n > p.n /\ q.odd = odd
    BY <2>2 DEF Position, Comps
  <2> HIDE DEF q
  <2> QED
    BY <2>1, <2>3 DEF Sound, Descends
<1> QED
  BY <1>0, <1>1, <1>2, <1>3

\* A name that is looked up.
LEMMA EnterSound ==
    ASSUME NEW c \in Calls, NEW p \in Position, p.comps # <<>>, NEW o \in Objects \cup {Nil},
           NEW odd \in BOOLEAN, ~Final(p) => odd = p.odd
    PROVE  Sound(Enter(c, p, o, odd), p, odd)
<1> DEFINE eisdir == Opens(c, p) /\ c.creat /\ p.slash
           linked == o \in Links /\ (~Final(p) \/ c.follow \/ Slashed(p))
<1>1. CASE eisdir
  <2>1. Enter(c, p, o, odd) = Error("EISDIR", odd)
    BY <1>1, Zenon DEF Enter
  <2> QED
    BY <2>1, ErrorSound
<1>2. CASE ~eisdir /\ linked
  <2>1. Enter(c, p, o, odd) = Substitute(c, p, Body[o], odd)
    BY <1>2, Zenon DEF Enter
  <2>2. Body[o] \in Pathname
    BY <1>2, OpenConstants
  <2> QED
    BY <2>1, <2>2, SubstituteSound
<1>3. CASE ~eisdir /\ ~linked
  <2>1. Enter(c, p, o, odd) = Arrive(c, p, o, odd)
    BY <1>3, Zenon DEF Enter
  <2> QED
    BY <2>1, ArriveSound
<1> QED
  BY <1>1, <1>2, <1>3

\* A selected target.
LEMMA SelectSound ==
    ASSUME NEW c \in Calls, NEW p \in Position, p.comps # <<>>, NEW o \in Objects \cup {Nil},
           NEW odd \in BOOLEAN, ~Final(p) => odd = p.odd
    PROVE  Sound(Select(c, p, o, odd), p, odd)
<1>1. \/ \E e : Select(c, p, o, odd) = Error(e, odd)
      \/ Select(c, p, o, odd) = Arrive(c, p, o, odd)
  BY DEF Select
<1> QED
  BY <1>1, ErrorSound, ArriveSound, Zenon

\* What the slash has to do with a name for which the policy says dec.
OddAt(c, p, dec) == p.odd \/ (Opens(c, p) /\ p.slash /\ dec.act \in {"redirect", "select"})

\* An ordinary name.
LEMMA NamedSound ==
    ASSUME NEW ents \in Layout, NEW c \in Calls, NEW p \in Position, p.comps # <<>>,
           Head(p.comps) \in Names, NEW dec \in Decision
    PROVE  Sound(Named(ents, c, p, dec), p, OddAt(c, p, dec))
<1> DEFINE odd == OddAt(c, p, dec)
           creating == Opens(c, p) /\ c.creat
<1> SUFFICES Sound(Named(ents, c, p, dec), p, odd)
  OBVIOUS
<1>1. odd \in BOOLEAN /\ (~Final(p) => odd = p.odd)
  BY DEF OddAt, Position, Opens
<1>2. \A x \in Names : ents[p.dir][x] \in Objects \cup {Nil}
  BY DEF Position, Layout
<1>3. /\ dec.act \in {"hide", "invalid", "pass", "redirect", "select"}
      /\ dec.act = "redirect" => dec.to \in Names
      /\ dec.act = "select" => dec.to \in Objects \cup {Nil}
  BY DEF Decision
<1>4. CASE dec.act \in {"hide", "invalid"} \/ (dec.act \in {"redirect", "select"} /\ creating)
  <2>1. \E e : Named(ents, c, p, dec) = Error(e, odd)
    BY <1>4 DEF Named, OddAt
  <2> QED
    BY <2>1, ErrorSound, Zenon
<1>5. CASE dec.act = "select" /\ ~creating
  <2>1. Named(ents, c, p, dec) = Select(c, p, dec.to, odd)
    <3>1. dec.act # "hide" /\ dec.act # "invalid" /\ dec.act # "pass" /\ dec.act # "redirect"
      BY <1>5
    <3> QED
      BY <1>5, <3>1, Zenon DEF Named, OddAt
  <2> HIDE DEF odd
  <2> QED
    BY <1>1, <1>3, <1>5, <2>1, SelectSound
<1>6. CASE dec.act = "redirect" /\ ~creating
  <2>1. Named(ents, c, p, dec) = Enter(c, p, ents[p.dir][dec.to], odd)
    <3>1. dec.act # "hide" /\ dec.act # "invalid" /\ dec.act # "pass" /\ dec.act # "select"
      BY <1>6
    <3> QED
      BY <1>6, <3>1, Zenon DEF Named, OddAt
  <2>2. ents[p.dir][dec.to] \in Objects \cup {Nil}
    BY <1>2, <1>3, <1>6
  <2> HIDE DEF odd
  <2> QED
    BY <1>1, <2>1, <2>2, EnterSound
<1>7. CASE dec.act = "pass"
  <2>1. Named(ents, c, p, dec) = Enter(c, p, ents[p.dir][Head(p.comps)], odd)
    <3>1. dec.act # "hide" /\ dec.act # "invalid" /\ dec.act # "redirect" /\ dec.act # "select" /\ dec.act \notin {"redirect", "select"}
      BY <1>7
    <3> QED
      BY <1>7, <3>1, Zenon DEF Named, OddAt
  <2>2. ents[p.dir][Head(p.comps)] \in Objects \cup {Nil}
    BY <1>2
  <2> HIDE DEF odd
  <2> QED
    BY <1>1, <2>1, <2>2, EnterSound
<1> QED
  BY <1>3, <1>4, <1>5, <1>6, <1>7

\* A step up.
LEMMA UpwardsSound ==
    ASSUME NEW c \in Calls, NEW p \in Position, p.comps # <<>>
    PROVE  Sound(Upwards(c, p), p, p.odd)
<1>1. p.dir \in Dirs /\ Root \in Objects /\ ParentOf[p.dir] \in Objects /\ p.odd \in BOOLEAN
  BY OpenConstants DEF Position, Objects
<1>2. \/ Upwards(c, p) = Error("EXDEV", p.odd)
      \/ Upwards(c, p) = Arrive(c, p, Root, p.odd)
      \/ Upwards(c, p) = Arrive(c, p, ParentOf[p.dir], p.odd)
  BY Zenon DEF Upwards
<1>3. Sound(Arrive(c, p, Root, p.odd), p, p.odd) /\ Sound(Arrive(c, p, ParentOf[p.dir], p.odd), p, p.odd)
  BY <1>1, ArriveSound
<1> QED
  BY <1>2, <1>3, ErrorSound, Zenon

\* What the policy says is a decision.
LEMMA DecisionAtType ==
    ASSUME NEW pol \in Policies, NEW d, NEW name \in Names
    PROVE  DecisionAt(pol, d, name) \in Decision
<1>1. pol[name] \in Decision /\ [act |-> "pass", to |-> Nil] \in Decision
  <2>1. pol \in [Names -> Decision]
    BY OpenConstants
  <2>2. pol[name] \in Decision
    BY <2>1, Zenon
  <2> QED
    BY <2>2 DEF Decision
<1> QED
  BY <1>1, Zenon DEF DecisionAt

\* Every step.
LEMMA OnwardSound ==
    ASSUME NEW ents \in Layout, NEW pol \in Policies, NEW c \in Calls, NEW p \in Position
    PROVE  \E odd \in BOOLEAN : (p.odd => odd) /\ Sound(Onward(ents, pol, c, p), p, odd)
<1>0. p.odd \in BOOLEAN
  BY DEF Position
<1>1. CASE p.comps = <<>>
  <2>1. Onward(ents, pol, c, p) = Ends(LastObject(c, p.dir, FALSE, p.odd))
    BY <1>1, Zenon DEF Onward
  <2> QED
    BY <1>0, <2>1, LastSound, Zenon
<1>2. CASE p.comps # <<>> /\ Head(p.comps) = ".."
  <2>1. Onward(ents, pol, c, p) = Upwards(c, p)
    BY <1>2, Zenon DEF Onward
  <2> QED
    BY <1>0, <1>2, <2>1, UpwardsSound
<1>3. CASE p.comps # <<>> /\ Head(p.comps) # ".."
  <2> DEFINE dec == DecisionAt(pol, p.dir, Head(p.comps))
  <2>1. Onward(ents, pol, c, p) = Named(ents, c, p, dec)
    BY <1>3, Zenon DEF Onward
  <2>2. Head(p.comps) \in Names
    BY <1>3, FirstComponent
  <2>3. dec \in Decision
    BY <2>2, DecisionAtType
  <2> HIDE DEF dec
  <2>4. Sound(Named(ents, c, p, dec), p, OddAt(c, p, dec))
    BY <1>3, <2>2, <2>3, NamedSound
  <2>5. OddAt(c, p, dec) \in BOOLEAN /\ (p.odd => OddAt(c, p, dec))
    BY <1>0 DEF OddAt
  <2> QED
    BY <2>1, <2>4, <2>5
<1> QED
  BY <1>1, <1>2, <1>3

\* A resolution: one step, and the resolution from there.
Resolves(A, ents, pol, c) ==
    \A p \in Position : A[p] = IF Onward(ents, pol, c, p).ends THEN Onward(ents, pol, c, p).ans
                               ELSE A[Onward(ents, pol, c, p).to]

\* The reference is defined at every position: its recursion ends.
THEOREM ResolutionDefined ==
    ASSUME NEW ents \in Layout, NEW pol \in Policies, NEW c \in Calls
    PROVE  Resolves(Resolution(ents, pol, c), ents, pol, c)
<1> DEFINE step(p) == Onward(ents, pol, c, p)
           fin == {p \in Position : step(p).ends}
           an == [p \in Position |-> step(p).ans]
           nx == [p \in Position |-> step(p).to]
           T == {an[p] : p \in Position}
           body(A) == [p \in Position |-> IF step(p).ends THEN step(p).ans ELSE A[step(p).to]]
<1>1. ASSUME NEW p \in Position \ fin PROVE nx[p] \in Position /\ <<nx[p], p>> \in Downwards
  <2>1. PICK odd \in BOOLEAN : Sound(step(p), p, odd)
    BY OnwardSound
  <2>2. ~step(p).ends
    BY <1>1
  <2> HIDE DEF step
  <2>3. PICK q \in Position : step(p) = Goes(q) /\ Descends(q, p)
    BY <2>1, <2>2 DEF Sound, Ends
  <2>4. step(p).to = q
    BY <2>3 DEF Goes
  <2> QED
    BY <2>3, <2>4 DEF Downwards
<1>2. \E g \in [Position -> T] : Follows(g, Position, fin, an, nx)
  <2>1. fin \in SUBSET Position /\ \A p \in fin : an[p] \in T
    OBVIOUS
  <2> HIDE DEF fin, an, nx, T
  <2> QED
    BY <1>1, <2>1, DownwardsWellFounded, Iteration
<1>3. \E g : g = body(g)
  <2>1. PICK g \in [Position -> T] : Follows(g, Position, fin, an, nx)
    BY <1>2
  <2>2. \A p \in Position : g[p] = body(g)[p]
    <3> HIDE DEF step
    <3> QED
      BY <2>1 DEF Follows
  <2>3. g = body(g)
    <3> HIDE DEF step, T
    <3> QED
      BY <2>2
  <2> QED
    BY <2>3
<1>4. Resolution(ents, pol, c) = CHOOSE A : A = body(A)
  BY Zenon DEF Resolution
<1>5. Resolution(ents, pol, c) = body(Resolution(ents, pol, c))
  <2> HIDE DEF body
  <2> QED
    BY <1>3, <1>4, Zenon
<1> DEFINE A == Resolution(ents, pol, c)
<1>6. ASSUME NEW p \in Position PROVE A[p] = IF step(p).ends THEN step(p).ans ELSE A[step(p).to]
  <2>1. A = body(A)
    BY <1>5
  <2> HIDE DEF A, step
  <2> QED
    BY <2>1
<1> QED
  BY <1>6, Zenon DEF Resolves

\* An answer to which the slash of a redirected or selected name contributed is marked as such.
LEMMA OddStays ==
    ASSUME NEW ents \in Layout, NEW pol \in Policies, NEW c \in Calls, NEW A, Resolves(A, ents, pol, c),
           NEW p \in Position, p.odd
    PROVE  A[p].odd
<1> DEFINE bad == {q \in Position : q.odd /\ ~A[q].odd}
<1> SUFFICES ASSUME bad # {} PROVE FALSE
  OBVIOUS
<1>1. PICK q \in bad : \A r \in bad : <<r, q>> \notin Downwards
  <2>1. bad \subseteq Position
    OBVIOUS
  <2> HIDE DEF bad
  <2> QED
    BY <2>1, DownwardsWellFounded, WFMin
<1>2. q \in Position /\ q.odd /\ ~A[q].odd
  BY <1>1
<1> DEFINE s == Onward(ents, pol, c, q)
<1>3. PICK odd \in BOOLEAN : odd /\ Sound(s, q, odd)
  BY <1>2, OnwardSound
<1>4. A[q] = IF s.ends THEN s.ans ELSE A[s.to]
  BY <1>2, Zenon DEF Resolves
<1> HIDE DEF s
<1>5. CASE \E e, o : s = Ends(Answer(e, o, odd))
  BY <1>2, <1>3, <1>4, <1>5 DEF Ends, Answer
<1>6. CASE \E r \in Position : s = Goes(r) /\ Descends(r, q) /\ r.odd = odd
  <2>1. PICK r \in Position : s = Goes(r) /\ Descends(r, q) /\ r.odd = odd
    BY <1>6
  <2>2. ~s.ends /\ s.to = r
    BY <2>1 DEF Goes
  <2>3. A[q] = A[r]
    BY <1>4, <2>2
  <2>4. r \in bad
    BY <1>2, <1>3, <2>1, <2>3
  <2>5. <<r, q>> \in Downwards
    BY <1>2, <2>1 DEF Downwards
  <2> QED
    BY <1>1, <2>4, <2>5
<1> QED
  BY <1>3, <1>5, <1>6 DEF Sound

-----------------------------------------------------------------------------
(* What the operators of the walk do to its fields, references aside.      *)

\* v has the fields of a walk, and those of w but for some.
Keeps(v, w, some) == DOMAIN v = Fields /\ \A f \in Fields \ some : v[f] = w[f]

\* Keeping less is implied, and two steps add up.
LEMMA KeepsMore ==
    ASSUME NEW u, NEW v, NEW w, NEW a, NEW b, Keeps(u, v, a), Keeps(v, w, b)
    PROVE  Keeps(u, w, a \cup b)
  BY DEF Keeps

\* A walk has the fields of a walk.
LEMMA WalkFields == ASSUME NEW w \in Walks PROVE DOMAIN w = Fields
  BY DEF Walks, Fields

\* References.
LEMMA RefKeeps ==
    ASSUME NEW w, DOMAIN w = Fields, NEW s
    PROVE  Keeps(RefTake(w, s), w, {"refs"}) /\ Keeps(RefPut(w, s), w, {"refs"})
<1>1. ASSUME NEW r PROVE Keeps([w EXCEPT !.refs = r], w, {"refs"})
  BY DEF Keeps, Fields
<1>2. Keeps(Take(w, s), w, {"refs"}) /\ Keeps(Put(w, s), w, {"refs"})
  BY <1>1 DEF Take, Put
<1>3. Keeps(w, w, {"refs"})
  BY DEF Keeps
<1> QED
  BY <1>2, <1>3, Zenon DEF RefTake, RefPut

\* A link that leaves the stack.
LEMMA PutLinkKeeps ==
    ASSUME NEW w, DOMAIN w = Fields
    PROVE  /\ Keeps(PutLink(w), w, {"stack", "bodies", "refs"})
           /\ Keeps(PutFinishedLink(w), w, {"stack", "bodies", "refs"})
<1> DEFINE top == w.stack[Len(w.stack)]
           front == SubSeq(w.stack, 1, Len(w.stack) - 1)
           rest == w.bodies \ {top.id}
           x == top.link
           u == [w EXCEPT !.stack = front, !.bodies = rest]
<1>1. PutLink(w) = RefPut(u, <<x>>)
  BY DEF PutLink
<1> HIDE DEF x, front, rest
<1>2. Keeps(u, w, {"stack", "bodies"}) /\ DOMAIN u = Fields
  BY DEF Keeps, Fields
<1> HIDE DEF u
<1>3. Keeps(PutLink(w), w, {"stack", "bodies", "refs"})
  BY <1>1, <1>2, RefKeeps DEF Keeps
<1>4. Keeps(w, w, {"stack", "bodies", "refs"})
  BY DEF Keeps
<1> QED
  BY <1>3, <1>4, Zenon DEF PutFinishedLink

RootOf(w) == IF w.root # Nil THEN w.root ELSE Root

\* set_root
LEMMA SetRootKeeps ==
    ASSUME NEW w, DOMAIN w = Fields
    PROVE  Keeps(SetRoot(w), w, {"root", "grabbed", "refs"}) /\ SetRoot(w).root = RootOf(w)
<1>1. CASE w.root # Nil
  BY <1>1 DEF SetRoot, RootOf, Keeps
<1>2. CASE w.root = Nil
  <2> DEFINE g == ~w.rcu
             u == [w EXCEPT !.root = Root, !.grabbed = g]
  <2>1. SetRoot(w) = RefTake(u, <<Root>>)
    BY <1>2 DEF SetRoot
  <2> HIDE DEF g
  <2>2. Keeps(u, w, {"root", "grabbed"}) /\ DOMAIN u = Fields /\ u.root = Root
    BY DEF Keeps, Fields
  <2> HIDE DEF u
  <2>3. Keeps(SetRoot(w), u, {"refs"})
    BY <2>1, <2>2, RefKeeps
  <2> QED
    BY <1>2, <2>2, <2>3 DEF Keeps, RootOf, Fields
<1> QED
  BY <1>1, <1>2

\* An error.
LEMMA FailKeeps ==
    ASSUME NEW w, DOMAIN w = Fields, NEW e
    PROVE  Keeps(Fail(w, e), w, {"pc", "err"}) /\ Fail(w, e).pc = "end" /\ Fail(w, e).err = e
  BY DEF Fail, Keeps, Fields

\* nd_jump_root
LEMMA JumpRootKeeps ==
    ASSUME NEW w, DOMAIN w = Fields
    PROVE  /\ w.call.beneath => JumpRoot(w) = Fail(w, "EXDEV")
           /\ ~w.call.beneath => /\ Keeps(JumpRoot(w), w, {"root", "grabbed", "refs", "path", "jumped"})
                                 /\ JumpRoot(w).path = RootOf(w) /\ JumpRoot(w).root = RootOf(w)
<1>1. CASE w.call.beneath
  BY <1>1 DEF JumpRoot
<1>2. CASE ~w.call.beneath
  <2> DEFINE r == SetRoot(w)
             u == [r EXCEPT !.path = r.root, !.jumped = TRUE]
             v == RefPut(u, <<r.path>>)
  <2>1. JumpRoot(w) = RefTake(v, <<r.root>>)
    BY <1>2 DEF JumpRoot
  <2>2. Keeps(r, w, {"root", "grabbed", "refs"}) /\ r.root = RootOf(w)
    BY SetRootKeeps
  <2> HIDE DEF r
  <2>3. Keeps(u, r, {"path", "jumped"}) /\ u.path = r.root
    BY <2>2 DEF Keeps, Fields
  <2> HIDE DEF u
  <2>4. Keeps(v, u, {"refs"})
    BY <2>3, RefKeeps DEF Keeps
  <2> HIDE DEF v
  <2>5. Keeps(JumpRoot(w), v, {"refs"})
    BY <2>1, <2>4, RefKeeps DEF Keeps
  <2> QED
    BY <1>2, <2>2, <2>3, <2>4, <2>5 DEF Keeps, Fields
<1> QED
  BY <1>1, <1>2

\* A component that was not a link to follow.
LEMMA SteppedKeeps ==
    ASSUME NEW w, DOMAIN w = Fields, w.trailing \in BOOLEAN
    PROVE  /\ Keeps(Stepped(w), w, {"pc", "err"})
           /\ w.trailing => Stepped(w).pc = "complete" /\ Stepped(w).err = w.err
           /\ ~w.trailing /\ w.path \in Dirs => Stepped(w).pc = "walk" /\ Stepped(w).err = w.err
           /\ ~w.trailing /\ w.path \notin Dirs => Stepped(w).pc = "fail" /\ Stepped(w).err = "ENOTDIR"
<1>1. CASE w.trailing
  BY <1>1 DEF Stepped, Keeps, Fields
<1>2. CASE ~w.trailing /\ w.path \in Dirs
  BY <1>2 DEF Stepped, Keeps, Fields
<1>3. CASE ~w.trailing /\ w.path \notin Dirs
  BY <1>3 DEF Stepped, Keeps, Fields
<1> QED
  BY <1>1, <1>2, <1>3

Picks == {"stack", "bodies", "refs", "root", "grabbed", "path", "jumped", "links", "pc", "err", "text", "names"}

\* The link is too many, or leads out of a scoped lookup.
PickFails(v, w, b) ==
    /\ LinkLimit(w) => v.pc = "end" /\ v.err = "ELOOP"
    /\ ~LinkLimit(w) /\ b.abs /\ w.call.beneath => v.pc = "end" /\ v.err = "EXDEV"

\* The walk lands where it stands, as Stepped says.
Lands(v, w) ==
    /\ w.trailing => v.pc = "complete" /\ v.err = w.err
    /\ ~w.trailing /\ v.path \in Dirs => v.pc = "walk" /\ v.err = w.err
    /\ ~w.trailing /\ v.path \notin Dirs => v.pc = "fail" /\ v.err = "ENOTDIR"

\* It is followed.
PickGoes(v, w, b) ==
    ~LinkLimit(w) /\ ~(b.abs /\ w.call.beneath) =>
        /\ v.path = IF b.abs THEN RootOf(w) ELSE w.path
        /\ b.comps = <<>> => v.text = w.text /\ v.names = w.names /\ Lands(v, w)
        /\ b.comps # <<>> => /\ v.pc = "walk" /\ v.err = w.err /\ v.text = Text(b, w.links + 1)
                             /\ v.names = IF w.trailing THEN <<>> ELSE Append(w.names, w.text)

\* pick_link
LEMMA PickLinkKeeps ==
    ASSUME NEW w, DOMAIN w = Fields, w.trailing \in BOOLEAN, w.pc # "end", NEW l
    PROVE  /\ Keeps(PickLink(w, l), w, Picks) /\ PickLink(w, l).links = w.links + 1
           /\ PickLink(w, l).root \in {w.root, RootOf(w)}
           /\ PickFails(PickLink(w, l), w, Body[l]) /\ PickGoes(PickLink(w, l), w, Body[l])
<1> DEFINE id == w.links + 1
           b == Body[l]
           bs == w.bodies \cup {id}
           st == Append(w.stack, [link |-> l, id |-> id])
           q == [w EXCEPT !.links = id, !.bodies = bs, !.stack = st]
           pushed == RefTake(q, <<l>>)
           jumped == IF b.abs THEN JumpRoot(pushed) ELSE pushed
           ns == IF w.trailing THEN <<>> ELSE Append(jumped.names, w.text)
           v == PickLink(w, l)
<1>1. /\ LinkLimit(w) => v = Fail([w EXCEPT !.links = id], "ELOOP")
      /\ ~LinkLimit(w) /\ jumped.pc = "end" => v = jumped
      /\ ~LinkLimit(w) /\ jumped.pc # "end" /\ b.comps = <<>> => v = Stepped(PutLink(jumped))
      /\ ~LinkLimit(w) /\ jumped.pc # "end" /\ b.comps # <<>> =>
            v = [jumped EXCEPT !.pc = "walk", !.text = Text(b, id), !.names = ns]
  BY Zenon DEF PickLink
<1> HIDE DEF v, id, bs, st
<1>2. CASE LinkLimit(w)
  <2> DEFINE u == [w EXCEPT !.links = id]
  <2>1. Keeps(u, w, {"links"}) /\ u.links = id
    BY DEF Keeps, Fields
  <2>2. v = Fail(u, "ELOOP")
    BY <1>1, <1>2
  <2> HIDE DEF u
  <2>3. Keeps(v, u, {"pc", "err"}) /\ v.pc = "end" /\ v.err = "ELOOP"
    BY <2>1, <2>2, FailKeeps DEF Keeps
  <2>4. Keeps(v, w, Picks) /\ v.links = id /\ v.root = w.root
    BY <2>1, <2>3 DEF Keeps, Fields, Picks
  <2> QED
    BY <1>2, <2>3, <2>4 DEF v, id, PickFails, PickGoes
<1>3. CASE ~LinkLimit(w)
  <2>1. Keeps(q, w, {"links", "bodies", "stack"}) /\ q.links = id
    BY DEF Keeps, Fields
  <2> HIDE DEF q
  <2>2. Keeps(pushed, q, {"refs"})
    BY <2>1, RefKeeps DEF Keeps
  <2> HIDE DEF pushed
  <2>3. /\ Keeps(pushed, w, {"links", "bodies", "stack", "refs"}) /\ pushed.links = id
        /\ DOMAIN pushed = Fields /\ pushed.root = w.root /\ pushed.call = w.call /\ pushed.pc = w.pc
        /\ pushed.path = w.path
    BY <2>1, <2>2 DEF Keeps, Fields
  <2>4. CASE b.abs /\ w.call.beneath
    <3>1. jumped = Fail(pushed, "EXDEV")
      BY <2>3, <2>4, JumpRootKeeps
    <3> HIDE DEF jumped
    <3>2. Keeps(jumped, pushed, {"pc", "err"}) /\ jumped.pc = "end" /\ jumped.err = "EXDEV"
      BY <2>3, <3>1, FailKeeps
    <3>3. v = jumped
      BY <1>1, <1>3, <3>2
    <3>4. Keeps(v, w, Picks) /\ v.links = id /\ v.root = w.root
      BY <2>3, <3>2, <3>3 DEF Keeps, Fields, Picks
    <3> QED
      BY <1>3, <2>4, <3>2, <3>3, <3>4 DEF v, id, b, PickFails, PickGoes
  <2>5. CASE ~(b.abs /\ w.call.beneath)
    <3>1. /\ Keeps(jumped, pushed, {"root", "grabbed", "refs", "path", "jumped"})
          /\ jumped.path = IF b.abs THEN RootOf(w) ELSE w.path
          /\ jumped.root \in {w.root, RootOf(w)}
      <4>1. CASE b.abs
        BY <2>3, <2>5, <4>1, JumpRootKeeps DEF RootOf
      <4>2. CASE ~b.abs
        BY <2>3, <4>2 DEF Keeps
      <4> QED
        BY <4>1, <4>2
    <3> HIDE DEF jumped
    <3>2. /\ DOMAIN jumped = Fields /\ jumped.pc = w.pc /\ jumped.links = id /\ jumped.names = w.names
          /\ jumped.text = w.text /\ jumped.trailing = w.trailing /\ jumped.err = w.err
          /\ Keeps(jumped, w, Picks)
      BY <2>3, <3>1 DEF Keeps, Fields, Picks
    <3>3. CASE b.comps = <<>>
      <4> DEFINE put == PutLink(jumped)
      <4>1. Keeps(put, jumped, {"stack", "bodies", "refs"})
        BY <3>2, PutLinkKeeps
      <4>2. v = Stepped(put)
        BY <1>1, <1>3, <3>2, <3>3
      <4> HIDE DEF put
      <4>3. /\ DOMAIN put = Fields /\ put.trailing = w.trailing /\ put.path = jumped.path
            /\ put.err = w.err /\ put.root = jumped.root /\ put.links = id /\ put.text = w.text /\ put.names = w.names
        BY <3>2, <4>1 DEF Keeps, Fields
      <4>4. /\ Keeps(v, put, {"pc", "err"})
            /\ put.trailing => v.pc = "complete" /\ v.err = put.err
            /\ ~put.trailing /\ put.path \in Dirs => v.pc = "walk" /\ v.err = put.err
            /\ ~put.trailing /\ put.path \notin Dirs => v.pc = "fail" /\ v.err = "ENOTDIR"
        BY <4>2, <4>3, SteppedKeeps
      <4>5. /\ v.path = put.path /\ v.root = put.root /\ v.links = id /\ v.text = w.text /\ v.names = w.names
        BY <4>3, <4>4 DEF Keeps, Fields
      <4>6. Keeps(v, w, Picks)
        BY <3>2, <4>1, <4>4 DEF Keeps, Fields, Picks
      <4>7. Lands(v, w)
        BY <4>3, <4>4, <4>5 DEF Lands
      <4> QED
        BY <1>3, <2>5, <3>1, <3>3, <4>3, <4>5, <4>6, <4>7 DEF v, id, b, PickFails, PickGoes
    <3>4. CASE b.comps # <<>>
      <4> DEFINE t == Text(b, id)
      <4>1. v = [jumped EXCEPT !.pc = "walk", !.text = t, !.names = ns]
        BY <1>1, <1>3, <3>2, <3>4
      <4>2. ns = IF w.trailing THEN <<>> ELSE Append(w.names, w.text)
        BY <3>2
      <4> HIDE DEF t, ns
      <4>3. /\ Keeps(v, jumped, {"pc", "text", "names"})
            /\ v.pc = "walk" /\ v.text = t /\ v.names = ns
        BY <3>2, <4>1 DEF Keeps, Fields
      <4>4. Keeps(v, w, Picks) /\ v.err = w.err /\ v.path = jumped.path /\ v.root = jumped.root /\ v.links = id
        BY <3>2, <4>3 DEF Keeps, Fields, Picks
      <4> QED
        BY <1>3, <2>5, <3>1, <3>4, <4>2, <4>3, <4>4 DEF v, id, b, t, PickFails, PickGoes
    <3> QED
      BY <3>3, <3>4
  <2> QED
    BY <2>4, <2>5
<1> QED
  BY <1>2, <1>3

\* step_into leads nowhere, to a link, or to an object.
LEMMA StepIntoKeeps ==
    ASSUME NEW w, DOMAIN w = Fields, w.trailing \in BOOLEAN, w.pc # "end", NEW o \in Objects \cup {Nil},
           NEW v, v = StepInto(w, o)
    PROVE  \/ o = Nil /\ Keeps(v, w, {"pc", "err"}) /\ v.pc = "end" /\ v.err = "ENOENT"
           \/ o \in Links /\ (~w.trailing \/ w.follow) /\ v = PickLink(w, o)
           \/ /\ o \in Objects /\ ~(o \in Links /\ (~w.trailing \/ w.follow))
              /\ Keeps(v, w, {"path", "refs", "pc", "err"}) /\ v.path = o /\ Lands(v, w)
<1>1. CASE o = Nil
  <2>1. v = Fail(w, "ENOENT")
    BY <1>1, OpenConstants DEF StepInto, Objects
  <2> QED
    BY <1>1, <2>1, FailKeeps
<1>2. CASE o # Nil /\ o \in Links /\ (~w.trailing \/ w.follow)
  <2>1. v = PickLink(w, o)
    BY <1>2 DEF StepInto
  <2> QED
    BY <1>2, <2>1
<1>3. CASE o # Nil /\ ~(o \in Links /\ (~w.trailing \/ w.follow))
  <2> DEFINE u == [w EXCEPT !.path = o]
             x == RefPut(u, <<w.path>>)
             m == RefTake(x, <<o>>)
  <2>1. v = Stepped(m)
    BY <1>3 DEF StepInto
  <2>2. Keeps(u, w, {"path"}) /\ u.path = o
    BY DEF Keeps, Fields
  <2> HIDE DEF u
  <2>3. Keeps(x, u, {"refs"})
    BY <2>2, RefKeeps DEF Keeps
  <2> HIDE DEF x
  <2>4. Keeps(m, x, {"refs"})
    BY <2>3, RefKeeps DEF Keeps
  <2> HIDE DEF m
  <2>5. /\ Keeps(m, w, {"path", "refs"}) /\ m.path = o /\ DOMAIN m = Fields
        /\ m.trailing = w.trailing /\ m.err = w.err
    BY <2>2, <2>3, <2>4 DEF Keeps, Fields
  <2>6. /\ Keeps(v, m, {"pc", "err"})
        /\ m.trailing => v.pc = "complete" /\ v.err = m.err
        /\ ~m.trailing /\ m.path \in Dirs => v.pc = "walk" /\ v.err = m.err
        /\ ~m.trailing /\ m.path \notin Dirs => v.pc = "fail" /\ v.err = "ENOTDIR"
    BY <2>1, <2>5, SteppedKeeps
  <2>7. Keeps(v, w, {"path", "refs", "pc", "err"}) /\ v.path = o
    BY <2>5, <2>6 DEF Keeps, Fields
  <2>8. Lands(v, w)
    BY <2>5, <2>6, <2>7 DEF Lands
  <2> QED
    BY <1>3, <2>7, <2>8
<1> QED
  BY <1>1, <1>2, <1>3

-----------------------------------------------------------------------------
(* The actions, as far as the fields above are concerned.                  *)

Unlazies == {"rcu", "path", "bodies", "stack", "root", "grabbed", "refs", "pc", "err"}

\* try_to_unlazy leaves RCU-walk, or ends the attempt.
LEMMA UnlazyEffect ==
    ASSUME nd \in Walks, Unlazy
    PROVE  /\ \/ Keeps(nd', nd, {"rcu", "root", "grabbed", "refs"})
              \/ Keeps(nd', nd, Unlazies) /\ nd'.pc = "end" /\ nd'.err = "ECHILD"
           /\ ~nd'.rcu /\ nd'.root \in {nd.root, Nil}
<1> DEFINE w == ToUnlazy(nd)
<1>1. DOMAIN nd = Fields
  BY WalkFields
<1>2. Keeps(w, nd, {"root"}) /\ w.root \in {nd.root, Nil} /\ DOMAIN w = Fields
  <2>1. CASE nd.pc = "complete" /\ ~nd.call.beneath
    BY <1>1, <2>1 DEF ToUnlazy, Keeps, Fields
  <2>2. CASE ~(nd.pc = "complete" /\ ~nd.call.beneath)
    BY <1>1, <2>2 DEF ToUnlazy, Keeps
  <2> QED
    BY <2>1, <2>2
<1>3. \/ nd' = Unlazied(w)
      \/ \E f \in LinksFail(w) \cup PathFails(w) \cup RootFails(w) : nd' = Fail(f, "ECHILD")
  BY DEF Unlazy, Walk
<1> HIDE DEF w
<1>4. CASE nd' = Unlazied(w)
  <2> DEFINE s == LinksOf(w.stack) \o <<w.path, w.root>>
             g == w.root # Nil
             r == [o \in Objects |-> [w EXCEPT !.rcu = FALSE, !.grabbed = g].refs[o] + Count(o, s)]
  <2>1. nd' = [[w EXCEPT !.rcu = FALSE, !.grabbed = g] EXCEPT !.refs = r]
    BY <1>4 DEF Unlazied, Take
  <2> HIDE DEF s, g, r
  <2>2. Keeps(nd', w, {"rcu", "grabbed", "refs"}) /\ ~nd'.rcu
    BY <1>2, <2>1 DEF Keeps, Fields
  <2> QED
    BY <1>2, <2>2 DEF Keeps, Fields
<1>5. ASSUME NEW f, nd' = Fail(f, "ECHILD"),
             Keeps(f, w, Unlazies), ~f.rcu, f.root \in {w.root, Nil}
      PROVE  Keeps(nd', nd, Unlazies) /\ nd'.pc = "end" /\ nd'.err = "ECHILD" /\ ~nd'.rcu /\ nd'.root \in {nd.root, Nil}
  <2>1. Keeps(nd', f, {"pc", "err"}) /\ nd'.pc = "end" /\ nd'.err = "ECHILD"
    BY <1>5, FailKeeps DEF Keeps
  <2>2. Keeps(nd', nd, Unlazies)
    BY <1>2, <1>5, <2>1 DEF Keeps, Fields, Unlazies
  <2>3. nd'.rcu = f.rcu /\ nd'.root = f.root
    BY <2>1 DEF Keeps, Fields
  <2> QED
    BY <1>2, <1>5, <2>1, <2>2, <2>3
<1>6. ASSUME NEW u, Keeps(u, w, {"rcu", "path", "bodies", "stack", "root", "grabbed"}), ~u.rcu,
             u.root \in {w.root, Nil}, NEW s, NEW f, f = Take(u, s)
      PROVE  Keeps(f, w, Unlazies) /\ ~f.rcu /\ f.root \in {w.root, Nil}
  <2> DEFINE r == [o \in Objects |-> u.refs[o] + Count(o, s)]
  <2>1. f = [u EXCEPT !.refs = r]
    BY <1>6 DEF Take
  <2> HIDE DEF r
  <2>2. Keeps(f, u, {"refs"})
    BY <1>6, <2>1 DEF Keeps, Fields
  <2>3. Keeps(f, w, Unlazies)
    BY <1>6, <2>2 DEF Keeps, Unlazies
  <2>4. f.rcu = u.rcu /\ f.root = u.root
    BY <2>2 DEF Keeps, Fields
  <2> QED
    BY <1>6, <2>3, <2>4
<1>7. ASSUME NEW f \in LinksFail(w) PROVE Keeps(f, w, Unlazies) /\ ~f.rcu /\ f.root \in {w.root, Nil}
  <2>1. PICK st, s : f = Take([w EXCEPT !.rcu = FALSE, !.path = Nil, !.bodies = {}, !.stack = st], s)
    <3> DEFINE failsAt(i, l) ==
                 Take([w EXCEPT !.rcu = FALSE, !.path = Nil, !.bodies = {},
                                !.stack = Append(SubSeq(@, 1, i - 1), [@[i] EXCEPT !.link = l])],
                      Append(SubSeq(LinksOf(w.stack), 1, i - 1), l))
    <3>1. f \in UNION {{failsAt(i, w.stack[i].link), failsAt(i, Nil)} : i \in DOMAIN w.stack}
      BY <1>7 DEF LinksFail
    <3>2. PICK i, l : f = failsAt(i, l)
      <4> HIDE DEF failsAt
      <4> QED
        BY <3>1
    <3> QED
      BY <3>2
  <2> DEFINE u == [w EXCEPT !.rcu = FALSE, !.path = Nil, !.bodies = {}, !.stack = st]
  <2>2. Keeps(u, w, {"rcu", "path", "bodies", "stack", "root", "grabbed"}) /\ ~u.rcu /\ u.root = w.root
    BY <1>2 DEF Keeps, Fields
  <2> HIDE DEF u
  <2>3. f = Take(u, s)
    BY <2>1 DEF u
  <2> QED
    BY <1>6, <2>2, <2>3
<1>8. ASSUME NEW f \in PathFails(w) PROVE Keeps(f, w, Unlazies) /\ ~f.rcu /\ f.root \in {w.root, Nil}
  <2>1. PICK p, s : f = Take([w EXCEPT !.rcu = FALSE, !.path = p], s)
    BY <1>8 DEF PathFails
  <2> DEFINE u == [w EXCEPT !.rcu = FALSE, !.path = p]
  <2>2. Keeps(u, w, {"rcu", "path", "bodies", "stack", "root", "grabbed"}) /\ ~u.rcu /\ u.root = w.root
    BY <1>2 DEF Keeps, Fields
  <2> HIDE DEF u
  <2>3. f = Take(u, s)
    BY <2>1 DEF u
  <2> QED
    BY <1>6, <2>2, <2>3
<1>9. ASSUME NEW f \in RootFails(w) PROVE Keeps(f, w, Unlazies) /\ ~f.rcu /\ f.root \in {w.root, Nil}
  <2>1. PICK r \in {w.root, Nil} : \E s : f = Take([w EXCEPT !.rcu = FALSE, !.grabbed = TRUE, !.root = r], s)
    <3>1. w.root # Nil
      BY <1>9 DEF RootFails
    <3> QED
      BY <1>9, <3>1 DEF RootFails
  <2>2. PICK s : f = Take([w EXCEPT !.rcu = FALSE, !.grabbed = TRUE, !.root = r], s)
    BY <2>1
  <2> DEFINE u == [w EXCEPT !.rcu = FALSE, !.grabbed = TRUE, !.root = r]
  <2>3. Keeps(u, w, {"rcu", "path", "bodies", "stack", "root", "grabbed"}) /\ ~u.rcu /\ u.root = r
    BY <1>2 DEF Keeps, Fields
  <2> HIDE DEF u
  <2>4. f = Take(u, s)
    BY <2>2 DEF u
  <2> QED
    BY <1>6, <2>3, <2>4
<1> QED
  BY <1>3, <1>4, <1>5, <1>7, <1>8, <1>9

\* An error that RCU-walk cannot avoid, or that a slash causes.
LEMMA FailsEffect ==
    ASSUME nd \in Walks, NEW e, nd' = Fail(nd, e)
    PROVE  Keeps(nd', nd, {"pc", "err"}) /\ nd'.pc = "end" /\ nd'.err = e
  BY WalkFields, FailKeeps

\* lookup_last and the beginning of open_last_lookups.
LEMMA LastComponentEffect ==
    ASSUME nd \in Walks, LastComponent
    PROVE  LET slash == nd.call.kind = "lookup" /\ nd.last.slash /\ nd.last.name # ".."
           IN  /\ nd.pc = "last" /\ nd'.pc = "decide" /\ nd'.trailing
               /\ Keeps(nd', nd, {"pc", "trailing", "more", "directory", "follow", "intent"})
               /\ nd'.directory = (nd.directory \/ slash) /\ nd'.follow = (nd.follow \/ slash)
               /\ nd'.intent = (nd.call.kind = "open")
<1> DEFINE slash == nd.call.kind = "lookup" /\ nd.last.slash /\ nd.last.name # ".."
           dir == nd.directory \/ slash
           fol == nd.follow \/ slash
           int == nd.call.kind = "open"
<1>1. nd.pc = "last" /\ nd' = [nd EXCEPT !.pc = "decide", !.trailing = TRUE, !.more = FALSE,
                                         !.directory = dir, !.follow = fol, !.intent = int]
  BY DEF LastComponent, Walk
<1>2. DOMAIN nd = Fields
  BY WalkFields
<1> HIDE DEF dir, fol, int
<1>3. /\ nd.pc = "last" /\ nd'.pc = "decide" /\ nd'.trailing
      /\ Keeps(nd', nd, {"pc", "trailing", "more", "directory", "follow", "intent"})
      /\ nd'.directory = dir /\ nd'.follow = fol /\ nd'.intent = int
  BY <1>1, <1>2 DEF Keeps, Fields
<1> QED
  BY <1>3 DEF dir, fol, int

\* The policy has been asked.
LEMMA DecideEffect ==
    ASSUME nd \in Walks, Decide
    PROVE  /\ nd.pc = "decide" /\ nd.last.name \in Names /\ Keeps(nd', nd, {"decision", "pc"})
           /\ nd'.decision = DecisionFor(nd)
           /\ nd'.decision.act # "select" /\ PolicyError(nd, nd'.decision) = "ok"
           /\ nd'.pc = IF nd'.decision.act = "redirect" THEN "redirect" ELSE "lookup"
<1> DEFINE d == DecisionFor(nd)
           to == IF d.act = "redirect" THEN "redirect" ELSE "lookup"
<1>1. /\ nd.pc = "decide" /\ nd.last.name \in Names /\ d.act # "select" /\ PolicyError(nd, d) = "ok"
      /\ nd' = [nd EXCEPT !.decision = d, !.pc = to]
  BY DEF Decide, Deciding, Walk
<1>2. DOMAIN nd = Fields
  BY WalkFields
<1> HIDE DEF d, to
<1>3. Keeps(nd', nd, {"decision", "pc"}) /\ nd'.decision = d /\ nd'.pc = to
  BY <1>1, <1>2 DEF Keeps, Fields
<1> QED
  BY <1>1, <1>3 DEF d, to

\* It refuses.
LEMMA PolicyFailsEffect ==
    ASSUME nd \in Walks, PolicyFails
    PROVE  /\ nd.pc = "decide" /\ nd.last.name \in Names /\ Keeps(nd', nd, {"decision", "pc", "err"})
           /\ nd'.pc = "fail" /\ nd'.err = PolicyError(nd, DecisionFor(nd)) /\ nd'.err # "ok"
<1> DEFINE d == DecisionFor(nd)
           e == PolicyError(nd, d)
<1>1. /\ nd.pc = "decide" /\ nd.last.name \in Names /\ e # "ok"
      /\ nd' = [nd EXCEPT !.decision = d, !.pc = "fail", !.err = e]
  BY DEF PolicyFails, Deciding, Walk
<1>2. DOMAIN nd = Fields
  BY WalkFields
<1> HIDE DEF d, e
<1>3. Keeps(nd', nd, {"decision", "pc", "err"}) /\ nd'.pc = "fail" /\ nd'.err = e
  BY <1>1, <1>2 DEF Keeps, Fields
<1> QED
  BY <1>1, <1>3 DEF d, e

\* An error in ref-walk.
LEMMA FailRefEffect ==
    ASSUME nd \in Walks, FailRef
    PROVE  nd.pc = "fail" /\ Keeps(nd', nd, {"pc"}) /\ nd'.pc = "end"
<1>1. nd.pc = "fail" /\ nd' = [nd EXCEPT !.pc = "end"]
  BY DEF FailRef, Walk
<1> QED
  BY <1>1, WalkFields DEF Keeps, Fields

\* A redirect.
LEMMA ApplyRedirectEffect ==
    ASSUME nd \in Walks, ApplyRedirect
    PROVE  /\ nd.pc = "redirect" /\ Keeps(nd', nd, {"pc", "last"}) /\ nd'.pc = "lookup"
           /\ nd'.last.name = nd.decision.to /\ nd'.last.slash = FALSE
<1> DEFINE l == [name |-> nd.decision.to, src |-> 0, slash |-> FALSE]
<1>1. nd.pc = "redirect" /\ nd' = [nd EXCEPT !.pc = "lookup", !.last = l]
  BY DEF ApplyRedirect, Walk
<1>2. l.name = nd.decision.to /\ l.slash = FALSE
  OBVIOUS
<1> HIDE DEF l
<1>3. Keeps(nd', nd, {"pc", "last"}) /\ nd'.pc = "lookup" /\ nd'.last = l
  BY <1>1, WalkFields DEF Keeps, Fields
<1> QED
  BY <1>1, <1>2, <1>3

\* The flags of an open at its last component.
LEMMA OpenFlagsKeeps ==
    ASSUME NEW w, DOMAIN w = Fields
    PROVE  /\ Keeps(OpenFlags(w), w, {"directory", "follow"})
           /\ OpenFlags(w).directory = (w.directory \/ w.last.slash)
           /\ OpenFlags(w).follow = (w.follow \/ w.last.slash)
<1> DEFINE dir == w.directory \/ w.last.slash
           fol == w.follow \/ w.last.slash
           v == OpenFlags(w)
<1>1. v = [w EXCEPT !.directory = dir, !.follow = fol]
  BY DEF OpenFlags
<1> HIDE DEF dir, fol, v
<1>2. Keeps(v, w, {"directory", "follow"}) /\ v.directory = dir /\ v.follow = fol
  BY <1>1 DEF Keeps, Fields
<1> QED
  BY <1>2 DEF dir, fol, v

\* Nothing in the cache.
LEMMA CacheMissEffect ==
    ASSUME nd \in Walks, CacheMiss
    PROVE  /\ nd.pc = "lookup" /\ nd'.pc = "slow" /\ Keeps(nd', nd, {"pc", "directory", "follow"})
           /\ ~(LastOfOpen /\ nd.call.creat /\ nd.last.slash)
           /\ LastOfOpen => /\ nd'.directory = (nd.directory \/ nd.last.slash)
                            /\ nd'.follow = (nd.follow \/ nd.last.slash)
           /\ ~LastOfOpen => nd'.directory = nd.directory /\ nd'.follow = nd.follow
<1> DEFINE w == IF LastOfOpen THEN OpenFlags(nd) ELSE nd
<1>1. nd.pc = "lookup" /\ ~(LastOfOpen /\ nd.call.creat /\ nd.last.slash) /\ nd' = [w EXCEPT !.pc = "slow"]
  BY Zenon DEF CacheMiss, Walk
<1>2. DOMAIN nd = Fields
  BY WalkFields
<1>3. /\ Keeps(w, nd, {"directory", "follow"})
      /\ LastOfOpen => /\ w.directory = (nd.directory \/ nd.last.slash)
                       /\ w.follow = (nd.follow \/ nd.last.slash)
      /\ ~LastOfOpen => w = nd
  <2>1. CASE LastOfOpen
    BY <1>2, <2>1, OpenFlagsKeeps
  <2>2. CASE ~LastOfOpen
    BY <1>2, <2>2 DEF Keeps
  <2> QED
    BY <2>1, <2>2
<1> HIDE DEF w
<1>4. Keeps(nd', w, {"pc"}) /\ nd'.pc = "slow"
  BY <1>1, <1>3 DEF Keeps, Fields
<1>5. Keeps(nd', nd, {"pc", "directory", "follow"}) /\ nd'.directory = w.directory /\ nd'.follow = w.follow
  BY <1>3, <1>4 DEF Keeps, Fields
<1> QED
  BY <1>1, <1>3, <1>4, <1>5

\* link_path_walk takes a component from the text, or from one around it.
LEMMA NextComponentEffect ==
    ASSUME nd \in Walks, NextComponent
    PROVE  LET comps == nd.text.comps
               rest == Tail(comps)
           IN  /\ nd.pc = "walk"
               /\ Keeps(nd', nd, {"last", "jumped", "text", "names", "pc", "more", "trailing"})
               /\ nd'.last.name = IF comps = <<>> THEN Nil ELSE Head(comps)
               /\ comps # <<>> => nd'.last.slash = (rest # <<>> \/ nd.text.slash)
               /\ comps = <<>> => /\ nd'.text = nd.text /\ nd'.names = nd.names /\ nd'.pc = "last"
                                  /\ ~nd'.last.slash
               /\ comps # <<>> /\ rest # <<>> =>
                    /\ nd'.text.comps = rest /\ nd'.text.slash = nd.text.slash /\ nd'.names = nd.names
                    /\ nd'.pc = "decide" /\ ~nd'.trailing
               /\ comps # <<>> /\ rest = <<>> /\ nd.names # <<>> =>
                    /\ nd'.text = nd.names[Len(nd.names)] /\ nd'.names = SubSeq(nd.names, 1, Len(nd.names) - 1)
                    /\ nd'.pc = "decide" /\ ~nd'.trailing
               /\ comps # <<>> /\ rest = <<>> /\ nd.names = <<>> =>
                    /\ nd'.text.comps = <<>> /\ nd'.text.slash = nd.text.slash /\ nd'.names = nd.names
                    /\ nd'.pc = "last"
<1> DEFINE t == nd.text
           comps == t.comps
           rest == Tail(comps)
           l == [name |-> Head(comps), src |-> t.src, slash |-> rest # <<>> \/ t.slash]
           j == Head(comps) = ".."
           w == [nd EXCEPT !.last = l, !.jumped = j]
           top == nd.names[Len(nd.names)]
           front(ns) == SubSeq(ns, 1, Len(ns) - 1)
           some == {"last", "jumped", "text", "names", "pc", "more", "trailing"}
<1>1. /\ nd.pc = "walk"
      /\ comps = <<>> => nd' = [nd EXCEPT !.last = NoLast, !.pc = "last"]
      /\ comps # <<>> /\ rest # <<>> =>
            nd' = [w EXCEPT !.text.comps = rest, !.pc = "decide", !.more = TRUE, !.trailing = FALSE]
      /\ comps # <<>> /\ rest = <<>> /\ nd.names # <<>> =>
            nd' = [w EXCEPT !.text = top, !.names = front(@),
                            !.pc = "decide", !.more = FALSE, !.trailing = FALSE]
      /\ comps # <<>> /\ rest = <<>> /\ nd.names = <<>> => nd' = [w EXCEPT !.text.comps = <<>>, !.pc = "last"]
  BY Zenon DEF NextComponent, Walk
<1>2. DOMAIN nd = Fields /\ DOMAIN t = {"comps", "slash", "src"}
  BY WalkFields DEF Walks, TextType
<1>3. l.name = Head(comps) /\ l.slash = (rest # <<>> \/ t.slash) /\ NoLast.name = Nil
  BY DEF NoLast
<1> HIDE DEF l, j
<1>4. /\ Keeps(w, nd, {"last", "jumped"}) /\ w.last = l /\ w.text = t /\ w.names = nd.names /\ DOMAIN w = Fields
  BY <1>2 DEF Keeps, Fields
<1> DEFINE a == rest
<1> HIDE DEF w, rest
<1>5. ASSUME NEW u, NEW z, u = [t EXCEPT !.comps = z] PROVE u.comps = z /\ u.slash = t.slash
  BY <1>2, <1>5
<1>6. CASE comps = <<>>
  <2> DEFINE n == NoLast
  <2>1. nd' = [nd EXCEPT !.last = n, !.pc = "last"] /\ n.name = Nil /\ ~n.slash
    BY <1>1, <1>3, <1>6 DEF NoLast
  <2> HIDE DEF n
  <2>2. /\ Keeps(nd', nd, some) /\ nd'.last = n /\ nd'.text = nd.text /\ nd'.names = nd.names /\ nd'.pc = "last"
    BY <1>2, <2>1 DEF Keeps, Fields
  <2> QED
    BY <1>1, <1>6, <2>1, <2>2
<1>7. CASE comps # <<>> /\ rest # <<>>
  <2> DEFINE u == [t EXCEPT !.comps = rest]
  <2>1. nd' = [w EXCEPT !.text = u, !.pc = "decide", !.more = TRUE, !.trailing = FALSE]
    BY <1>1, <1>4, <1>7
  <2>2. u.comps = rest /\ u.slash = t.slash
    BY <1>5
  <2> HIDE DEF u
  <2>3. /\ Keeps(nd', w, {"text", "pc", "more", "trailing"}) /\ nd'.text = u /\ nd'.pc = "decide" /\ ~nd'.trailing
    BY <1>4, <2>1 DEF Keeps, Fields
  <2>4. Keeps(nd', nd, some) /\ nd'.last = l /\ nd'.names = nd.names
    BY <1>4, <2>3 DEF Keeps, Fields
  <2> QED
    BY <1>1, <1>3, <1>7, <2>2, <2>3, <2>4 DEF rest
<1>8. CASE comps # <<>> /\ rest = <<>> /\ nd.names # <<>>
  <2> DEFINE ns == front(nd.names)
  <2>1. nd' = [w EXCEPT !.text = top, !.names = ns, !.pc = "decide", !.more = FALSE, !.trailing = FALSE]
    BY <1>1, <1>4, <1>8
  <2> HIDE DEF ns, top
  <2>2. /\ Keeps(nd', w, {"text", "names", "pc", "more", "trailing"}) /\ nd'.text = top /\ nd'.names = ns
        /\ nd'.pc = "decide" /\ ~nd'.trailing
    BY <1>4, <2>1 DEF Keeps, Fields
  <2>3. Keeps(nd', nd, some) /\ nd'.last = l
    BY <1>4, <2>2 DEF Keeps, Fields
  <2> QED
    BY <1>1, <1>3, <1>8, <2>2, <2>3 DEF rest, ns, top
<1>9. CASE comps # <<>> /\ rest = <<>> /\ nd.names = <<>>
  <2> DEFINE z == <<>>
             u == [t EXCEPT !.comps = z]
  <2>1. nd' = [w EXCEPT !.text = u, !.pc = "last"]
    BY <1>1, <1>4, <1>9
  <2>2. u.comps = z /\ u.slash = t.slash
    BY <1>5
  <2> HIDE DEF u, z
  <2>3. /\ Keeps(nd', w, {"text", "pc"}) /\ nd'.text = u /\ nd'.pc = "last"
    BY <1>4, <2>1 DEF Keeps, Fields
  <2>4. Keeps(nd', nd, some) /\ nd'.last = l /\ nd'.names = nd.names
    BY <1>4, <2>3 DEF Keeps, Fields
  <2> QED
    BY <1>1, <1>3, <1>9, <2>2, <2>3, <2>4 DEF rest, z
<1> QED
  BY <1>6, <1>7, <1>8, <1>9

\* A step to another path, references moved with it.
LEMMA MoveKeeps ==
    ASSUME NEW w, DOMAIN w = Fields, NEW o, NEW s, NEW t, NEW v,
           v = RefTake(RefPut([w EXCEPT !.path = o], s), t)
    PROVE  Keeps(v, w, {"path", "refs"}) /\ v.path = o
<1> DEFINE u == [w EXCEPT !.path = o]
           x == RefPut(u, s)
<1>1. Keeps(u, w, {"path"}) /\ u.path = o
  BY DEF Keeps, Fields
<1>2. v = RefTake(x, t)
  OBVIOUS
<1> HIDE DEF u
<1>3. Keeps(x, u, {"refs"})
  BY <1>1, RefKeeps DEF Keeps
<1> HIDE DEF x
<1>4. DOMAIN x = Fields
  BY <1>3 DEF Keeps
<1>5. Keeps(v, x, {"refs"})
  BY <1>2, <1>4, RefKeeps, Zenon
<1> QED
  BY <1>1, <1>3, <1>5 DEF Keeps, Fields

\* Landing behind a change of path and references.
LEMMA LandsKeeps ==
    ASSUME NEW u, DOMAIN u = Fields, NEW w, w.trailing \in BOOLEAN, u.trailing = w.trailing, u.err = w.err,
           NEW v, v = Stepped(u)
    PROVE  Keeps(v, u, {"pc", "err"}) /\ v.path = u.path /\ v.root = u.root /\ Lands(v, w)
<1>1. /\ Keeps(v, u, {"pc", "err"})
      /\ u.trailing => v.pc = "complete" /\ v.err = u.err
      /\ ~u.trailing /\ u.path \in Dirs => v.pc = "walk" /\ v.err = u.err
      /\ ~u.trailing /\ u.path \notin Dirs => v.pc = "fail" /\ v.err = "ENOTDIR"
  BY SteppedKeeps
<1>2. v.path = u.path /\ v.root = u.root
  BY <1>1 DEF Keeps, Fields
<1> QED
  BY <1>1, <1>2 DEF Lands

Moved == {"stack", "bodies", "refs", "root", "grabbed", "path", "pc", "err"}

\* handle_dots
LEMMA DotsEffect ==
    ASSUME nd \in Walks, Dots
    PROVE  /\ nd.pc = "decide" /\ nd.last.name \in {"..", Nil}
           /\ Keeps(nd', nd, Moved) /\ nd'.root \in {nd.root, RootOf(nd)}
           /\ nd.last.name = Nil => nd'.path = nd.path /\ Lands(nd', nd)
           /\ nd.last.name = ".." /\ nd.path = RootOf(nd) =>
                /\ ~nd.call.beneath => nd'.path = nd.path /\ Lands(nd', nd)
                /\ nd.call.beneath => nd'.pc = "end" /\ nd'.err = IF nd.rcu THEN "ECHILD" ELSE "EXDEV"
           /\ nd.last.name = ".." /\ nd.path # RootOf(nd) => nd'.path = ParentOf[nd.path] /\ Lands(nd', nd)
<1> DEFINE put == PutFinishedLink(nd)
           w == SetRoot(put)
           e == IF w.rcu THEN "ECHILD" ELSE "EXDEV"
           up == ParentOf[w.path]
           m == RefTake(RefPut([w EXCEPT !.path = up], <<w.path>>), <<up>>)
<1>1. /\ nd.pc = "decide" /\ nd.last.name \in {"..", Nil}
      /\ nd' = CASE nd.last.name = Nil -> Stepped(put)
                 [] nd.last.name = ".." /\ w.path = w.root ->
                       IF ~w.call.beneath THEN Stepped(w) ELSE Fail(w, e)
                 [] OTHER -> Stepped(m)
  BY Zenon DEF Dots, Walk
<1>2. DOMAIN nd = Fields /\ nd.trailing \in BOOLEAN
  BY WalkFields DEF Walks
<1>3. Keeps(put, nd, {"stack", "bodies", "refs"})
  BY <1>2, PutLinkKeeps
<1> HIDE DEF put
<1>4. /\ DOMAIN put = Fields /\ put.root = nd.root /\ put.path = nd.path /\ put.trailing = nd.trailing
      /\ put.err = nd.err
  BY <1>3 DEF Keeps, Fields
<1>5. Keeps(w, put, {"root", "grabbed", "refs"}) /\ w.root = RootOf(nd)
  BY <1>4, SetRootKeeps DEF RootOf
<1> HIDE DEF w
<1>6. /\ DOMAIN w = Fields /\ w.path = nd.path /\ w.trailing = nd.trailing /\ w.err = nd.err
      /\ w.call = nd.call /\ w.rcu = nd.rcu /\ Keeps(w, nd, {"stack", "bodies", "refs", "root", "grabbed"})
  BY <1>3, <1>4, <1>5 DEF Keeps, Fields
<1>7. Nil # ".."
  BY OpenConstants
<1>8. CASE nd.last.name = Nil
  <2>1. nd' = Stepped(put)
    <3>1. nd.last.name # ".."
      BY <1>7, <1>8
    <3> QED
      BY <1>1, <1>8, <3>1, Zenon
  <2>2. Keeps(nd', put, {"pc", "err"}) /\ nd'.path = put.path /\ nd'.root = put.root /\ Lands(nd', nd)
    BY <1>2, <1>4, <2>1, LandsKeeps
  <2>3. Keeps(nd', nd, Moved)
    BY <1>3, <2>2 DEF Keeps, Moved
  <2> QED
    BY <1>1, <1>4, <1>7, <1>8, <2>2, <2>3
<1>9. CASE nd.last.name = ".." /\ w.path = w.root /\ ~w.call.beneath
  <2>1. nd' = Stepped(w)
    BY <1>1, <1>7, <1>9
  <2>2. Keeps(nd', w, {"pc", "err"}) /\ nd'.path = w.path /\ nd'.root = w.root /\ Lands(nd', nd)
    BY <1>2, <1>6, <2>1, LandsKeeps
  <2>3. Keeps(nd', nd, Moved)
    BY <1>6, <2>2 DEF Keeps, Moved
  <2> QED
    BY <1>1, <1>5, <1>6, <1>7, <1>9, <2>2, <2>3
<1>10. CASE nd.last.name = ".." /\ w.path = w.root /\ w.call.beneath
  <2>1. nd' = Fail(w, e)
    BY <1>1, <1>7, <1>10
  <2>2. e = IF nd.rcu THEN "ECHILD" ELSE "EXDEV"
    BY <1>6
  <2> HIDE DEF e
  <2>3. Keeps(nd', w, {"pc", "err"}) /\ nd'.pc = "end" /\ nd'.err = e
    BY <1>6, <2>1, FailKeeps
  <2>4. Keeps(nd', nd, Moved) /\ nd'.root = w.root
    BY <1>6, <2>3 DEF Keeps, Moved, Fields
  <2> QED
    BY <1>1, <1>5, <1>6, <1>7, <1>10, <2>2, <2>3, <2>4
<1>11. CASE nd.last.name = ".." /\ w.path # w.root
  <2>1. nd' = Stepped(m)
    BY <1>1, <1>7, <1>11
  <2>2. up = ParentOf[nd.path]
    BY <1>6
  <2> HIDE DEF up
  <2>3. Keeps(m, w, {"path", "refs"}) /\ m.path = up
    BY <1>6, MoveKeeps
  <2> HIDE DEF m
  <2>4. DOMAIN m = Fields /\ m.trailing = nd.trailing /\ m.err = nd.err /\ m.root = w.root
    BY <1>6, <2>3 DEF Keeps, Fields
  <2>5. Keeps(nd', m, {"pc", "err"}) /\ nd'.path = m.path /\ nd'.root = m.root /\ Lands(nd', nd)
    BY <1>2, <2>1, <2>4, LandsKeeps
  <2>6. Keeps(nd', nd, Moved)
    BY <1>6, <2>3, <2>5 DEF Keeps, Moved
  <2> QED
    BY <1>1, <1>5, <1>6, <1>7, <1>11, <2>2, <2>3, <2>4, <2>5, <2>6
<1> QED
  BY <1>1, <1>8, <1>9, <1>10, <1>11

\* What becomes of a component that leads to o: nothing, a link, an object.
EntersLink(w, o) == o \in Links /\ (~w.trailing \/ w.follow)
Enters(v, w, o) ==
    /\ Keeps(v, w, Picks)
    /\ ~EntersLink(w, o) => v.root = w.root /\ v.links = w.links /\ v.text = w.text /\ v.names = w.names
    /\ o = Nil => v.pc = "end" /\ v.err = "ENOENT"
    /\ o \in Objects /\ ~EntersLink(w, o) => v.path = o /\ Lands(v, w)
    /\ EntersLink(w, o) => /\ v.links = w.links + 1 /\ v.root \in {w.root, RootOf(w)}
                           /\ PickFails(v, w, Body[o]) /\ PickGoes(v, w, Body[o])

\* put_link and step_into.
LEMMA EntersKeeps ==
    ASSUME NEW w, DOMAIN w = Fields, w.trailing \in BOOLEAN, w.pc # "end", NEW o \in Objects \cup {Nil},
           NEW v, v = StepInto(PutFinishedLink(w), o)
    PROVE  Enters(v, w, o)
<1> DEFINE p == PutFinishedLink(w)
<1>1. Keeps(p, w, {"stack", "bodies", "refs"}) /\ v = StepInto(p, o)
  BY PutLinkKeeps
<1> HIDE DEF p
<1>2. /\ DOMAIN p = Fields /\ p.trailing = w.trailing /\ p.pc = w.pc /\ p.follow = w.follow /\ p.links = w.links
      /\ p.root = w.root /\ p.err = w.err /\ p.call = w.call /\ p.path = w.path /\ p.text = w.text /\ p.names = w.names
  BY <1>1 DEF Keeps, Fields
<1>3. Nil \notin Links /\ Links \subseteq Objects /\ Nil \notin Objects
  BY OpenConstants DEF Objects
<1>4. CASE o = Nil /\ Keeps(v, p, {"pc", "err"}) /\ v.pc = "end" /\ v.err = "ENOENT"
  <2>1. Keeps(v, w, Picks) /\ v.root = w.root /\ v.links = w.links /\ v.text = w.text /\ v.names = w.names
    BY <1>1, <1>2, <1>4 DEF Keeps, Picks, Fields
  <2> QED
    BY <1>3, <1>4, <2>1 DEF Enters, EntersLink
<1>5. CASE o \in Links /\ (~p.trailing \/ p.follow) /\ v = PickLink(p, o)
  <2>1. /\ Keeps(v, p, Picks) /\ v.links = p.links + 1 /\ v.root \in {p.root, RootOf(p)}
        /\ PickFails(v, p, Body[o]) /\ PickGoes(v, p, Body[o])
    BY <1>2, <1>5, PickLinkKeeps
  <2>2. Keeps(v, w, Picks)
    BY <1>1, <2>1 DEF Keeps, Picks
  <2>3. LinkLimit(p) <=> LinkLimit(w)
    BY <1>2 DEF LinkLimit
  <2>4. RootOf(p) = RootOf(w)
    BY <1>2 DEF RootOf
  <2>5. PickFails(v, w, Body[o])
    BY <1>2, <2>1, <2>3 DEF PickFails
  <2>6. Lands(v, p) => Lands(v, w)
    BY <1>2 DEF Lands
  <2>7. PickGoes(v, w, Body[o])
    BY <1>2, <2>1, <2>3, <2>4, <2>6, Zenon DEF PickGoes
  <2>8. EntersLink(w, o)
    BY <1>2, <1>5 DEF EntersLink
  <2> QED
    BY <1>2, <1>3, <1>5, <2>1, <2>2, <2>4, <2>5, <2>7, <2>8 DEF Enters
<1>6. CASE /\ o \in Objects /\ ~(o \in Links /\ (~p.trailing \/ p.follow))
           /\ Keeps(v, p, {"path", "refs", "pc", "err"}) /\ v.path = o /\ Lands(v, p)
  <2>1. Keeps(v, w, Picks) /\ v.root = w.root /\ v.links = w.links /\ v.text = w.text /\ v.names = w.names
    BY <1>1, <1>2, <1>6 DEF Keeps, Picks, Fields
  <2>2. Lands(v, w)
    BY <1>2, <1>6 DEF Lands
  <2>3. ~EntersLink(w, o)
    BY <1>2, <1>6 DEF EntersLink
  <2> QED
    BY <1>3, <1>6, <2>1, <2>2, <2>3 DEF Enters
<1> QED
  BY <1>1, <1>2, <1>4, <1>5, <1>6, StepIntoKeeps

\* walk_component_common
LEMMA ComponentEffect ==
    ASSUME TreeOK, nd \in Walks, WalkOK(nd), Component
    PROVE  nd.pc \in {"lookup", "slow"} /\ ~LastOfOpen /\ Enters(nd', nd, Found)
<1>1. nd.pc \in {"lookup", "slow"} /\ ~LastOfOpen /\ nd' = StepInto(PutFinishedLink(nd), Found)
  BY DEF Component, LookingUp, Walk
<1>2. DOMAIN nd = Fields /\ nd.trailing \in BOOLEAN
  BY WalkFields DEF Walks
<1>3. Found \in Objects \cup {Nil}
  BY <1>1, FoundType
<1> QED
  BY <1>1, <1>2, <1>3, EntersKeeps

\* open_last_lookups
LEMMA OpenFoundEffect ==
    ASSUME TreeOK, nd \in Walks, WalkOK(nd), OpenFound
    PROVE  /\ nd.pc \in {"lookup", "slow"} /\ LastOfOpen
           /\ nd.pc = "lookup" => ~nd.call.excl /\ ~(nd.call.creat /\ (nd.last.slash \/ Found = Nil))
           /\ nd.pc = "slow" => Found # Nil \/ ~nd.call.creat
           /\ \E s : /\ Enters(s, OpenFlags(nd), Found)
                     /\ Keeps(nd', s, {"intent"}) /\ nd'.intent = (s.pc # "walk")
<1> DEFINE w == OpenFlags(nd)
           s == StepInto(PutFinishedLink(w), Found)
           i == s.pc # "walk"
<1>1. /\ nd.pc \in {"lookup", "slow"} /\ LastOfOpen
      /\ nd.pc = "lookup" => ~nd.call.excl /\ ~(nd.call.creat /\ (nd.last.slash \/ Found = Nil))
      /\ nd.pc = "slow" => Found # Nil \/ ~nd.call.creat
  BY DEF OpenFound, LookingUp
<1>2. nd' = [s EXCEPT !.intent = i]
  BY DEF OpenFound, Walk, FinishLookup
<1>3. DOMAIN nd = Fields /\ nd.trailing \in BOOLEAN
  BY WalkFields DEF Walks
<1>4. Found \in Objects \cup {Nil}
  BY <1>1, FoundType
<1>5. Keeps(w, nd, {"directory", "follow"})
  BY <1>3, OpenFlagsKeeps
<1> HIDE DEF w
<1>6. DOMAIN w = Fields /\ w.trailing = nd.trailing /\ w.pc = nd.pc
  BY <1>5 DEF Keeps, Fields
<1>7. Enters(s, w, Found)
  BY <1>1, <1>3, <1>4, <1>6, EntersKeeps
<1> HIDE DEF s
<1>8. DOMAIN s = Fields
  BY <1>7 DEF Enters, Keeps
<1> HIDE DEF i
<1>9. Keeps(nd', s, {"intent"}) /\ nd'.intent = i
  BY <1>2, <1>8 DEF Keeps, Fields
<1>10. Enters(s, OpenFlags(nd), Found) /\ Keeps(nd', s, {"intent"}) /\ nd'.intent = (s.pc # "walk")
  BY <1>7, <1>9, Zenon DEF w, i
<1> QED
  BY <1>1, <1>10

\* lookup_open creates.
LEMMA OpenCreatesEffect ==
    ASSUME nd \in Walks, OpenCreates
    PROVE  /\ nd.pc = "slow" /\ ~nd.rcu /\ LastOfOpen /\ nd.call.creat /\ Found = Nil
           /\ Keeps(nd', nd, {"created", "path", "pc", "refs"})
           /\ nd'.created /\ nd'.path = Fresh /\ nd'.pc = "complete"
<1> DEFINE u == [nd EXCEPT !.created = TRUE, !.path = Fresh, !.pc = "complete"]
           x == RefPut(u, <<nd.path>>)
<1>1. /\ nd.pc = "slow" /\ ~nd.rcu /\ LastOfOpen /\ nd.call.creat /\ Found = Nil
      /\ nd' = RefTake(x, <<Fresh>>)
  BY DEF OpenCreates
<1>2. Keeps(u, nd, {"created", "path", "pc"}) /\ u.created /\ u.path = Fresh /\ u.pc = "complete"
  BY WalkFields DEF Keeps, Fields
<1> HIDE DEF u
<1>3. Keeps(x, u, {"refs"})
  BY <1>2, RefKeeps DEF Keeps
<1> HIDE DEF x
<1>4. Keeps(nd', x, {"refs"})
  BY <1>1, <1>3, RefKeeps DEF Keeps
<1> QED
  BY <1>1, <1>2, <1>3, <1>4 DEF Keeps, Fields

\* do_open or path_lookupat returns.
CompleteError(w) ==
    CASE CompleteWalkError(w) # "ok" -> CompleteWalkError(w)
      [] CompleteWalkError(w) = "ok" /\ w.call.kind = "open" -> DoOpenError(w)
      [] OTHER -> LookupError(w)

\* complete_walk and what follows.
LEMMA CompleteEffect ==
    ASSUME nd \in Walks, Complete
    PROVE  /\ nd.pc = "complete" /\ ~nd.rcu /\ Keeps(nd', nd, {"pc", "err"})
           /\ nd'.pc = "end" /\ nd'.err = CompleteError(nd)
           /\ result' = [err |-> nd'.err, obj |-> IF nd'.err = "ok" THEN nd.path ELSE Nil]
<1> DEFINE e == CompleteError(nd)
<1>1. /\ nd.pc = "complete" /\ ~nd.rcu /\ nd' = [nd EXCEPT !.pc = "end", !.err = e]
      /\ result' = [err |-> e, obj |-> IF e = "ok" THEN nd.path ELSE Nil]
  BY Zenon DEF Complete, Completing, CompleteError
<1> HIDE DEF e
<1>2. Keeps(nd', nd, {"pc", "err"}) /\ nd'.pc = "end" /\ nd'.err = e
  BY <1>1, WalkFields DEF Keeps, Fields
<1> QED
  BY <1>1, <1>2 DEF e

\* A stale object ends the attempt.
LEMMA StaleEffect ==
    ASSUME nd \in Walks, Stale
    PROVE  /\ nd.pc = "complete" /\ ~nd.created /\ Keeps(nd', nd, {"pc", "err"}) /\ nd'.pc = "end"
           /\ nd'.err = "ESTALE" \/ (nd'.err = "ECHILD" /\ nd.attempt = 1)
<1>1. /\ nd.pc = "complete" /\ ~nd.created
      /\ nd' = Fail(nd, "ESTALE") \/ (nd' = Fail(nd, "ECHILD") /\ nd.attempt = 1)
  BY DEF Stale, Completing, Walk
<1> QED
  BY <1>1, WalkFields, FailKeeps

Ended == {"stack", "bodies", "path", "grabbed", "root", "rcu", "refs", "pc", "attempt"}

\* terminate_walk, and the next attempt or none.
LEMMA TerminateEffect ==
    ASSUME nd \in Walks, Terminate
    PROVE  /\ nd.pc = "end" /\ Keeps(nd', nd, Ended) /\ ~nd'.rcu /\ nd'.root = Nil /\ nd'.path = Nil
           /\ NextAttempt(nd) # 0 => nd'.pc = "init" /\ nd'.attempt = NextAttempt(nd)
           /\ NextAttempt(nd) = 0 => nd'.pc = "done" /\ nd'.attempt = nd.attempt
           /\ result' = IF nd.err = "ok" THEN result ELSE [err |-> nd.err, obj |-> Nil]
<1> DEFINE p == RefPut(nd, Pointers(nd))
           z == <<>>
           t == [p EXCEPT !.stack = z, !.bodies = {}, !.path = Nil, !.grabbed = FALSE, !.root = Nil, !.rcu = FALSE]
           n == NextAttempt(nd)
<1>1. /\ nd.pc = "end" /\ nd' = IF n # 0 THEN [t EXCEPT !.pc = "init", !.attempt = n] ELSE [t EXCEPT !.pc = "done"]
      /\ result' = IF nd.err = "ok" THEN result ELSE [err |-> nd.err, obj |-> Nil]
  BY Zenon DEF Terminate, Terminated, Pointers
<1>2. Keeps(p, nd, {"refs"})
  BY WalkFields, RefKeeps
<1> HIDE DEF p, n, z
<1>3. /\ Keeps(t, p, {"stack", "bodies", "path", "grabbed", "root", "rcu"})
      /\ t.path = Nil /\ t.root = Nil /\ ~t.rcu
  BY <1>2 DEF Keeps, Fields
<1> HIDE DEF t
<1>4. Keeps(t, nd, {"stack", "bodies", "path", "grabbed", "root", "rcu", "refs"}) /\ DOMAIN t = Fields /\ t.attempt = nd.attempt
  BY <1>2, <1>3 DEF Keeps, Fields
<1>5. CASE n # 0
  <2>1. nd' = [t EXCEPT !.pc = "init", !.attempt = n]
    BY <1>1, <1>5
  <2>2. Keeps(nd', t, {"pc", "attempt"}) /\ nd'.pc = "init" /\ nd'.attempt = n
    BY <1>4, <2>1 DEF Keeps, Fields
  <2>3. Keeps(nd', nd, Ended) /\ nd'.path = Nil /\ nd'.root = Nil /\ ~nd'.rcu
    BY <1>3, <1>4, <2>2 DEF Keeps, Fields, Ended
  <2> QED
    BY <1>1, <1>5, <2>2, <2>3 DEF n
<1>6. CASE n = 0
  <2>1. nd' = [t EXCEPT !.pc = "done"]
    BY <1>1, <1>6
  <2>2. Keeps(nd', t, {"pc"}) /\ nd'.pc = "done"
    BY <1>4, <2>1 DEF Keeps, Fields
  <2>3. Keeps(nd', nd, Ended) /\ nd'.path = Nil /\ nd'.root = Nil /\ ~nd'.rcu /\ nd'.attempt = nd.attempt
    BY <1>3, <1>4, <2>2 DEF Keeps, Fields, Ended
  <2> QED
    BY <1>1, <1>6, <2>2, <2>3 DEF n
<1> QED
  BY <1>5, <1>6

\* namei_ext_apply_target
LEMMA ApplyTargetEffect ==
    ASSUME nd \in Walks, ApplyTarget
    PROVE  LET d == DecisionFor(nd)
               e == ApplyTargetError(nd, d.to)
           IN  /\ nd.pc = "decide" /\ nd.last.name \in Names /\ d.act = "select" /\ PolicyError(nd, d) = "ok"
               /\ Keeps(nd', nd, {"decision", "refs", "path", "jumped", "stack", "bodies", "pc", "err"})
               /\ e # "ok" => nd'.pc = "end" /\ nd'.err = e
               /\ e = "ok" => nd'.path = d.to /\ Lands(nd', nd)
<1> DEFINE d == DecisionFor(nd)
           x == d.to
           e == ApplyTargetError(nd, x)
           w0 == [nd EXCEPT !.decision = d]
           w == RefTake(w0, <<x>>)
           f == Fail(w, e)
           u == [w EXCEPT !.path = x, !.jumped = TRUE]
           m == RefPut(u, <<w.path>>)
           s == Selected(m)
           some == {"decision", "refs", "path", "jumped", "stack", "bodies", "pc", "err"}
<1>1. /\ nd.pc = "decide" /\ nd.last.name \in Names /\ d.act = "select" /\ PolicyError(nd, d) = "ok"
      /\ nd' = IF e # "ok" THEN RefPut(f, <<x>>) ELSE Stepped(s)
  BY Zenon DEF ApplyTarget, Deciding, Walk
<1>2. DOMAIN nd = Fields /\ nd.trailing \in BOOLEAN
  BY WalkFields DEF Walks
<1> SUFFICES /\ Keeps(nd', nd, some)
             /\ e # "ok" => nd'.pc = "end" /\ nd'.err = e
             /\ e = "ok" => nd'.path = x /\ Lands(nd', nd)
  BY <1>1
<1> HIDE DEF d, x, e
<1>3. Keeps(w0, nd, {"decision"})
  BY <1>2 DEF Keeps, Fields
<1> HIDE DEF w0
<1>4. Keeps(w, w0, {"refs"})
  BY <1>3, RefKeeps DEF Keeps
<1> HIDE DEF w
<1>5. Keeps(w, nd, {"decision", "refs"}) /\ DOMAIN w = Fields
  BY <1>3, <1>4 DEF Keeps, Fields
<1>6. CASE e # "ok"
  <2>1. nd' = RefPut(f, <<x>>)
    BY <1>1, <1>6
  <2>2. Keeps(f, w, {"pc", "err"}) /\ f.pc = "end" /\ f.err = e
    BY <1>5, FailKeeps
  <2> HIDE DEF f
  <2>3. Keeps(nd', f, {"refs"})
    BY <2>1, <2>2, RefKeeps DEF Keeps
  <2>4. Keeps(nd', nd, some) /\ nd'.pc = "end" /\ nd'.err = e
    BY <1>5, <2>2, <2>3 DEF Keeps, Fields
  <2> QED
    BY <1>6, <2>4
<1>7. CASE e = "ok"
  <2>1. nd' = Stepped(s)
    BY <1>1, <1>7
  <2>2. Keeps(u, w, {"path", "jumped"}) /\ u.path = x
    BY <1>5 DEF Keeps, Fields
  <2> HIDE DEF u
  <2>3. Keeps(m, u, {"refs"})
    BY <2>2, RefKeeps DEF Keeps
  <2> HIDE DEF m
  <2>4. DOMAIN m = Fields
    BY <2>3 DEF Keeps
  <2>5. Keeps(s, m, {"stack", "bodies", "refs"})
    <3>1. Keeps(m, m, {"stack", "bodies", "refs"})
      BY <2>4 DEF Keeps
    <3> QED
      BY <2>4, <3>1, PutLinkKeeps DEF Selected
  <2> HIDE DEF s
  <2>6. /\ DOMAIN s = Fields /\ s.path = x /\ s.trailing = nd.trailing /\ s.err = nd.err
        /\ Keeps(s, nd, {"decision", "refs", "path", "jumped", "stack", "bodies"})
    BY <1>5, <2>2, <2>3, <2>5 DEF Keeps, Fields
  <2>7. Keeps(nd', s, {"pc", "err"}) /\ nd'.path = s.path /\ Lands(nd', nd)
    BY <1>2, <2>1, <2>6, LandsKeeps
  <2>8. Keeps(nd', nd, some)
    BY <2>6, <2>7 DEF Keeps
  <2> QED
    BY <1>7, <2>6, <2>7, <2>8
<1> QED
  BY <1>6, <1>7

\* set_nameidata
LEMMA SetNameidataFields ==
    ASSUME NEW c \in Calls, NEW s, s = SetNameidata(c)
    PROVE  /\ DOMAIN s = Fields /\ s.pc = "init" /\ s.call = c /\ s.attempt = 1 /\ s.links = 0 /\ s.text = Text(c.path, 0)
           /\ s.names = <<>> /\ s.directory = c.directory /\ s.follow = c.follow /\ ~s.intent /\ ~s.created
           /\ s.err = "ok" /\ s.root = Nil /\ s.quiet /\ s.rcu
  BY SetNameidataType, WalkFields DEF SetNameidata

\* path_init
LEMMA PathInitEffect ==
    ASSUME nd \in Walks, PathInit
    PROVE  LET c == nd.call
           IN  /\ nd.pc = "init" /\ DOMAIN nd' = Fields
               /\ nd'.call = c /\ nd'.attempt = nd.attempt /\ nd'.links = nd.links /\ nd'.quiet = nd.quiet
               /\ nd'.rcu = (nd.attempt = 1) /\ nd'.text = Text(c.path, 0) /\ nd'.names = <<>>
               /\ nd'.directory = c.directory /\ nd'.follow = c.follow /\ ~nd'.intent /\ ~nd'.created
               /\ c.path.abs /\ c.beneath => nd'.pc = "end" /\ nd'.err = "EXDEV"
               /\ ~(c.path.abs /\ c.beneath) => /\ nd'.pc = "walk" /\ nd'.err = "ok"
                                                /\ nd'.path = IF c.path.abs THEN Root ELSE Cwd
               /\ ~c.beneath => nd'.root \in {Nil, Root}
<1> DEFINE c == nd.call
           s == SetNameidata(c)
           lazy == nd.attempt = 1
           a == nd.attempt
           n == nd.links
           q == nd.quiet
           w == [s EXCEPT !.pc = "walk", !.attempt = a, !.links = n, !.rcu = lazy, !.quiet = q]
           g == ~w.rcu
           ub == [w EXCEPT !.path = Cwd, !.root = Cwd, !.grabbed = g]
           ur == [w EXCEPT !.path = Cwd]
<1>1. nd.pc = "init" /\ nd' = IF c.path.abs THEN JumpRoot(w)
            ELSE IF c.beneath THEN RefTake(ub, <<Cwd, Cwd>>)
            ELSE RefTake(ur, <<Cwd>>)
  BY Zenon DEF PathInit, Walk
<1>2. c \in Calls
  BY DEF Walks
<1>3. /\ DOMAIN s = Fields /\ s.call = c /\ s.text = Text(c.path, 0)
      /\ s.names = <<>> /\ s.directory = c.directory /\ s.follow = c.follow /\ ~s.intent /\ ~s.created
      /\ s.err = "ok" /\ s.root = Nil
  BY <1>2, SetNameidataFields
<1> HIDE DEF s, lazy, a, n, q
<1>4. /\ Keeps(w, s, {"pc", "attempt", "links", "rcu", "quiet"})
      /\ w.pc = "walk" /\ w.attempt = a /\ w.links = n /\ w.rcu = lazy /\ w.quiet = q
  BY <1>3 DEF Keeps, Fields
<1> HIDE DEF w
<1> DEFINE kept == {"path", "root", "grabbed", "refs", "jumped"}
           Kind(v) == /\ DOMAIN v = Fields
               /\ v.call = c /\ v.attempt = a /\ v.links = n /\ v.quiet = q
               /\ v.rcu = lazy /\ v.text = Text(c.path, 0) /\ v.names = <<>>
               /\ v.directory = c.directory /\ v.follow = c.follow /\ ~v.intent /\ ~v.created
<1>5. Kind(w) /\ w.err = "ok" /\ w.root = Nil
  BY <1>3, <1>4 DEF Keeps, Fields
<1> HIDE DEF c
<1>6. ASSUME NEW v, NEW some, Keeps(v, w, some), some \in SUBSET (kept \cup {"pc", "err"})
      PROVE  Kind(v) /\ ("pc" \notin some => v.pc = "walk") /\ ("err" \notin some => v.err = "ok")
             /\ ("root" \notin some => v.root = Nil)
  <2>1. \A f \in Fields \ (kept \cup {"pc", "err"}) : v[f] = w[f]
    BY <1>6 DEF Keeps
  <2>2. Kind(v)
    BY <1>5, <1>6, <2>1 DEF Keeps, Fields
  <2> QED
    BY <1>4, <1>5, <1>6, <2>2 DEF Keeps, Fields
<1>7. CASE c.path.abs /\ c.beneath
  <2>1. nd' = Fail(w, "EXDEV")
    BY <1>1, <1>5, <1>7, JumpRootKeeps
  <2>2. Keeps(nd', w, {"pc", "err"}) /\ nd'.pc = "end" /\ nd'.err = "EXDEV"
    BY <1>5, <2>1, FailKeeps
  <2>3. Kind(nd')
    BY <1>6, <2>2
  <2> QED
    BY <1>1, <1>7, <2>2, <2>3 DEF c, a, n, q, lazy
<1>8. CASE c.path.abs /\ ~c.beneath
  <2>1. /\ Keeps(nd', w, {"root", "grabbed", "refs", "path", "jumped"})
        /\ nd'.path = RootOf(w) /\ nd'.root = RootOf(w)
    BY <1>1, <1>5, <1>8, JumpRootKeeps
  <2>2. Kind(nd') /\ nd'.pc = "walk" /\ nd'.err = "ok"
    BY <1>6, <2>1
  <2>3. RootOf(w) = Root
    BY <1>5 DEF RootOf
  <2> QED
    BY <1>1, <1>8, <2>1, <2>2, <2>3 DEF c, a, n, q, lazy
<1>9. CASE ~c.path.abs /\ c.beneath
  <2>1. nd' = RefTake(ub, <<Cwd, Cwd>>)
    BY <1>1, <1>9
  <2> HIDE DEF g
  <2>2. Keeps(ub, w, {"path", "root", "grabbed"}) /\ ub.path = Cwd
    BY <1>5 DEF Keeps, Fields
  <2> HIDE DEF ub
  <2>3. Keeps(nd', ub, {"refs"})
    BY <2>1, <2>2, RefKeeps DEF Keeps
  <2>4. Keeps(nd', w, {"path", "root", "grabbed", "refs"}) /\ nd'.path = Cwd
    BY <2>2, <2>3 DEF Keeps, Fields
  <2>5. Kind(nd') /\ nd'.pc = "walk" /\ nd'.err = "ok"
    BY <1>6, <2>4
  <2> QED
    BY <1>1, <1>9, <2>4, <2>5 DEF c, a, n, q, lazy
<1>10. CASE ~c.path.abs /\ ~c.beneath
  <2>1. nd' = RefTake(ur, <<Cwd>>)
    BY <1>1, <1>10
  <2>2. Keeps(ur, w, {"path"}) /\ ur.path = Cwd
    BY <1>5 DEF Keeps, Fields
  <2> HIDE DEF ur
  <2>3. Keeps(nd', ur, {"refs"})
    BY <2>1, <2>2, RefKeeps DEF Keeps
  <2>4. Keeps(nd', w, {"path", "refs"}) /\ nd'.path = Cwd
    BY <2>2, <2>3 DEF Keeps, Fields
  <2>5. Kind(nd') /\ nd'.pc = "walk" /\ nd'.err = "ok" /\ nd'.root = Nil
    BY <1>6, <2>4
  <2> QED
    BY <1>1, <1>10, <2>4, <2>5 DEF c, a, n, q, lazy
<1> QED
  BY <1>7, <1>8, <1>9, <1>10

-----------------------------------------------------------------------------
(* More of the invariant: modes, the count of links, and what was created. *)

Modes(w) ==
    /\ w.rcu => w.attempt = 1
    /\ ~w.call.beneath => w.root \in {Nil, Root}
    /\ w.pc \in {"walk", "last"} \/ (w.pc \in InComponent /\ ~w.trailing) => ~w.intent

Counted(w) ==
    /\ w.links <= MaxSymlinks + 1
    /\ w.links > MaxSymlinks => w.pc \in {"end", "done"} /\ w.err = "ELOOP"
    /\ w.attempt = 1 /\ w.pc = "init" => w.links = 0

Made(w) ==
    /\ w.created => /\ ~w.rcu /\ w.pc \in {"complete", "end", "done"}
                    /\ w.err \notin {"ECHILD", "ESTALE"}
                    /\ w.pc = "complete" => w.path = Fresh
    /\ w.pc = "complete" => w.path \in Objects

Tidy(w) == Modes(w) /\ Counted(w) /\ Made(w)

\* O_CREAT's file is in no directory but where the call created it.
NoFresh == nd = Idle \/ ~nd.created => \A d \in Dirs, x \in Names : fs[d][x] # Fresh

TidyInv == NoFresh /\ (nd = Idle \/ Tidy(nd))

\* A walk that has created something has completed.
LEMMA NotCreated ==
    ASSUME NEW w \in Walks, Tidy(w), w.pc \notin {"complete", "end", "done"}
    PROVE  ~w.created /\ w.links <= MaxSymlinks
  BY OpenConstants DEF Tidy, Made, Counted, Walks

\* An attempt ends with an error before anything was created.
LEMMA TidyEnds ==
    ASSUME NEW w \in Walks, Tidy(w), ~w.created, w.links <= MaxSymlinks, NEW v \in Walks, v.pc = "end",
           v.call = w.call, v.links = w.links, v.attempt = w.attempt, v.created = w.created,
           v.rcu => w.rcu, v.root \in {w.root, Nil}
    PROVE  Tidy(v)
<1>1. Modes(v)
  BY DEF Tidy, Modes, InComponent
<1>2. Counted(v)
  BY OpenConstants DEF Tidy, Counted, Walks
<1>3. Made(v)
  BY DEF Made
<1> QED
  BY <1>1, <1>2, <1>3 DEF Tidy

\* A walk goes on in the same mode with the same links.
LEMMA TidyGoes ==
    ASSUME NEW w \in Walks, Tidy(w), NEW v \in Walks, v.pc \in Reading \cup {"fail", "complete"},
           v.call = w.call, v.links = w.links, v.links <= MaxSymlinks, v.attempt = w.attempt, ~w.created, ~v.created,
           v.rcu => w.rcu, v.root \in {w.root, Nil, Root},
           v.pc \in {"walk", "last"} \/ (v.pc \in InComponent /\ ~v.trailing) => ~v.intent,
           v.pc = "complete" => v.path \in Objects
    PROVE  Tidy(v)
<1>1. Modes(v)
  BY DEF Tidy, Modes
<1>2. Counted(v)
  BY OpenConstants DEF Tidy, Counted, Walks, Reading, InComponent
<1>3. Made(v)
  BY DEF Made
<1> QED
  BY <1>1, <1>2, <1>3 DEF Tidy

\* try_to_unlazy
LEMMA TidyUnlazy ==
    ASSUME nd \in Walks, WalkOK(nd), Tidy(nd), TryToUnlazy \/ TryToUnlazyNext, nd' \in Walks
    PROVE  Tidy(nd')
<1>1. nd.pc \in {"walk", "slow", "redirect", "fail", "complete", "lookup"} /\ nd.rcu /\ Unlazy
  BY DEF TryToUnlazy, TryToUnlazyNext, LookupFast
<1>2. ~nd.created /\ nd.links <= MaxSymlinks
  BY <1>1, OpenConstants DEF Tidy, Made, Counted, Walks
<1>3. CASE Keeps(nd', nd, {"rcu", "root", "grabbed", "refs"})
  <2>1. /\ nd'.pc = nd.pc /\ nd'.call = nd.call /\ nd'.links = nd.links /\ nd'.attempt = nd.attempt
        /\ nd'.created = nd.created /\ nd'.intent = nd.intent /\ nd'.trailing = nd.trailing /\ nd'.path = nd.path
    BY <1>3 DEF Keeps, Fields
  <2>2. nd'.root \in {nd.root, Nil} /\ ~nd'.rcu
    BY <1>1, UnlazyEffect
  <2>3. /\ nd.pc \in {"walk", "last"} \/ (nd.pc \in InComponent /\ ~nd.trailing) => ~nd.intent
        /\ nd.pc = "complete" => nd.path \in Objects
    BY DEF Tidy, Modes, Made
  <2> QED
    BY <1>1, <1>2, <2>1, <2>2, <2>3, TidyGoes DEF Reading, InComponent
<1>4. CASE Keeps(nd', nd, Unlazies) /\ nd'.pc = "end"
  <2>1. /\ nd'.call = nd.call /\ nd'.links = nd.links /\ nd'.attempt = nd.attempt /\ nd'.created = nd.created
    BY <1>4 DEF Keeps, Fields, Unlazies
  <2>2. nd'.root \in {nd.root, Nil} /\ ~nd'.rcu
    BY <1>1, UnlazyEffect
  <2> QED
    BY <1>2, <1>4, <2>1, <2>2, TidyEnds
<1> QED
  BY <1>1, <1>3, <1>4, UnlazyEffect

\* The steps that only set an error, a flag, the decision or the component.
LEMMA TidyFlags ==
    ASSUME NEW w \in Walks, WalkOK(w), Tidy(w), w.pc \in Reading \cup {"fail"}, NEW v \in Walks,
           Keeps(v, w, {"pc", "err", "decision", "last", "jumped", "text", "names", "more", "trailing",
                        "directory", "follow", "intent"}),
           v.pc \in Reading \cup {"fail", "end"},
           v.pc \in {"walk", "last"} \/ (v.pc \in InComponent /\ ~v.trailing) => ~v.intent
    PROVE  Tidy(v)
<1>1. ~w.created /\ w.links <= MaxSymlinks
  BY NotCreated DEF Reading, InComponent
<1>2. /\ v.call = w.call /\ v.links = w.links /\ v.attempt = w.attempt /\ v.created = w.created
      /\ v.rcu = w.rcu /\ v.root = w.root
  BY DEF Keeps, Fields
<1>3. CASE v.pc = "end"
  BY <1>1, <1>2, <1>3, TidyEnds
<1>4. CASE v.pc \in Reading \cup {"fail"}
  <2>1. v.pc # "complete"
    BY <1>4 DEF Reading, InComponent
  <2> QED
    BY <1>1, <1>2, <1>4, <2>1, TidyGoes
<1> QED
  BY <1>3, <1>4

\* The intent does not change within a component.
LEMMA SameIntent ==
    ASSUME NEW w, Tidy(w), w.pc \in Reading, NEW v, v.pc \in InComponent \cup {"fail", "end"},
           v.intent = w.intent, v.trailing = w.trailing, w.pc \in InComponent
    PROVE  v.pc \in {"walk", "last"} \/ (v.pc \in InComponent /\ ~v.trailing) => ~v.intent
  BY DEF Tidy, Modes, InComponent

\* Those steps.
LEMMA TidySmall ==
    ASSUME nd \in Walks, WalkOK(nd), Tidy(nd), nd' \in Walks,
           \/ RcuFails \/ OpenSlash \/ Decide \/ PolicyFails \/ FailRef \/ ApplyRedirect \/ CacheMiss
           \/ NextComponent \/ LastComponent
    PROVE  Tidy(nd')
<1> DEFINE some == {"pc", "err", "decision", "last", "jumped", "text", "names", "more", "trailing",
                    "directory", "follow", "intent"}
           calm(v) == v.pc \in {"walk", "last"} \/ (v.pc \in InComponent /\ ~v.trailing) => ~v.intent
<1> SUFFICES /\ nd.pc \in Reading \cup {"fail"} /\ Keeps(nd', nd, some)
             /\ nd'.pc \in Reading \cup {"fail", "end"} /\ calm(nd')
  BY TidyFlags
<1>1. ASSUME nd.pc \in InComponent, NEW less, Keeps(nd', nd, less), less \in SUBSET (some \ {"trailing", "intent"}),
             nd'.pc \in InComponent \cup {"fail", "end"}
      PROVE  Keeps(nd', nd, some) /\ calm(nd')
  <2>1. nd'.intent = nd.intent /\ nd'.trailing = nd.trailing
    BY <1>1 DEF Keeps, Fields
  <2>2. Keeps(nd', nd, some)
    BY <1>1 DEF Keeps
  <2> QED
    BY <1>1, <2>1, <2>2, SameIntent DEF Reading
<1>2. CASE RcuFails \/ OpenSlash
  <2>1. \E e : nd' = Fail(nd, e)
    BY <1>2 DEF RcuFails, OpenSlash, Walk
  <2>2. nd.pc \in InComponent
    BY <1>2 DEF RcuFails, OpenSlash, LookupFast, InComponent
  <2>3. Keeps(nd', nd, {"pc", "err"}) /\ nd'.pc = "end"
    BY <2>1, FailsEffect
  <2> QED
    BY <1>1, <2>2, <2>3 DEF Reading
<1>3. CASE Decide
  <2>1. nd.pc = "decide" /\ Keeps(nd', nd, {"decision", "pc"}) /\ nd'.pc \in {"redirect", "lookup"}
    BY <1>3, DecideEffect
  <2> QED
    BY <1>1, <2>1 DEF Reading, InComponent
<1>4. CASE PolicyFails
  <2>1. nd.pc = "decide" /\ Keeps(nd', nd, {"decision", "pc", "err"}) /\ nd'.pc = "fail"
    BY <1>4, PolicyFailsEffect
  <2> QED
    BY <1>1, <2>1 DEF Reading, InComponent
<1>5. CASE FailRef
  <2>1. nd.pc = "fail" /\ Keeps(nd', nd, {"pc"}) /\ nd'.pc = "end"
    BY <1>5, FailRefEffect
  <2>2. Keeps(nd', nd, some)
    BY <2>1 DEF Keeps
  <2> QED
    BY <2>1, <2>2 DEF Reading, InComponent
<1>6. CASE ApplyRedirect
  <2>1. nd.pc = "redirect" /\ Keeps(nd', nd, {"pc", "last"}) /\ nd'.pc = "lookup"
    BY <1>6, ApplyRedirectEffect
  <2> QED
    BY <1>1, <2>1 DEF Reading, InComponent
<1>7. CASE CacheMiss
  <2>1. nd.pc = "lookup" /\ Keeps(nd', nd, {"pc", "directory", "follow"}) /\ nd'.pc = "slow"
    BY <1>7, CacheMissEffect
  <2> QED
    BY <1>1, <2>1 DEF Reading, InComponent
<1>8. CASE NextComponent
  <2>1. /\ nd.pc = "walk" /\ Keeps(nd', nd, {"last", "jumped", "text", "names", "pc", "more", "trailing"})
        /\ nd'.pc \in {"last", "decide"}
    BY <1>8, NextComponentEffect
  <2>2. Keeps(nd', nd, some) /\ nd'.intent = nd.intent
    BY <2>1 DEF Keeps, Fields
  <2>3. ~nd.intent
    BY <2>1 DEF Tidy, Modes
  <2> QED
    BY <2>1, <2>2, <2>3 DEF Reading, InComponent
<1>9. CASE LastComponent
  <2>1. /\ nd.pc = "last" /\ Keeps(nd', nd, {"pc", "trailing", "more", "directory", "follow", "intent"})
        /\ nd'.pc = "decide" /\ nd'.trailing
    BY <1>9, LastComponentEffect
  <2>2. Keeps(nd', nd, some)
    BY <2>1 DEF Keeps
  <2> QED
    BY <2>1, <2>2 DEF Reading, InComponent
<1> QED
  BY <1>2, <1>3, <1>4, <1>5, <1>6, <1>7, <1>8, <1>9

\* A component that leads to o.
LEMMA TidyEnters ==
    ASSUME NEW w \in Walks, Tidy(w), w.pc \in InComponent, w.path \in Objects, NEW o \in Objects \cup {Nil},
           NEW u, Keeps(u, w, {"directory", "follow"}), NEW s, Enters(s, u, o),
           NEW v \in Walks, Keeps(v, s, {"intent"}), v.pc = "walk" => ~v.intent
    PROVE  Tidy(v)
<1>1. ~w.created /\ w.links <= MaxSymlinks /\ w.links \in Nat /\ w.trailing \in BOOLEAN
  BY NotCreated DEF InComponent, Walks
<1>2. /\ u.call = w.call /\ u.links = w.links /\ u.attempt = w.attempt /\ u.created = w.created /\ u.rcu = w.rcu
      /\ u.root = w.root /\ u.trailing = w.trailing /\ u.path = w.path
  BY DEF Keeps, Fields
<1>3. Keeps(s, u, Picks)
  BY DEF Enters
<1>4. /\ v.call = u.call /\ v.attempt = u.attempt /\ v.created = u.created /\ v.rcu = u.rcu
  BY <1>3 DEF Keeps, Fields, Picks
<1>5. v.links = s.links /\ v.root = s.root /\ v.path = s.path /\ v.pc = s.pc /\ v.err = s.err
  BY DEF Keeps, Fields
<1>6. v.root \in {w.root, Nil, Root}
  BY <1>2, <1>5 DEF Enters, RootOf
<1>7. Lands(s, u) => s.pc \in {"complete", "walk", "fail"}
  BY <1>1, <1>2 DEF Lands
<1>8. CASE ~EntersLink(u, o)
  <2>1. v.links = w.links /\ v.root = w.root
    BY <1>2, <1>5, <1>8 DEF Enters
  <2>2. CASE o = Nil
    BY <1>1, <1>2, <1>4, <1>5, <2>1, <2>2, TidyEnds DEF Enters
  <2>3. CASE o \in Objects
    <3>1. v.path = o /\ v.pc \in {"complete", "walk", "fail"}
      BY <1>5, <1>7, <1>8, <2>3 DEF Enters
    <3> QED
      BY <1>1, <1>2, <1>4, <1>6, <2>1, <2>3, <3>1, TidyGoes DEF Reading, InComponent
  <2> QED
    BY <2>2, <2>3
<1>9. CASE EntersLink(u, o)
  <2>1. v.links = w.links + 1 /\ PickFails(s, u, Body[o]) /\ PickGoes(s, u, Body[o])
    BY <1>2, <1>5, <1>9 DEF Enters
  <2>2. LinkLimit(u) <=> w.links >= MaxSymlinks
    BY <1>2 DEF LinkLimit
  <2>3. CASE LinkLimit(u)
    <3>1. v.pc = "end" /\ v.err = "ELOOP" /\ v.links <= MaxSymlinks + 1
      BY <1>1, <1>5, <2>1, <2>3, OpenConstants DEF PickFails
    <3>2. Modes(v)
      BY <1>2, <1>4, <1>6, <3>1 DEF Tidy, Modes, InComponent
    <3>3. Counted(v) /\ Made(v)
      BY <1>1, <1>2, <1>4, <3>1 DEF Counted, Made
    <3> QED
      BY <3>2, <3>3 DEF Tidy
  <2>4. CASE ~LinkLimit(u)
    <3>1. v.links <= MaxSymlinks
      BY <1>1, <2>1, <2>2, <2>4, OpenConstants
    <3>2. v.pc \in {"end", "walk", "fail", "complete"} /\ (v.pc = "complete" => v.path \in Objects)
      <4>1. CASE Body[o].abs /\ u.call.beneath
        BY <1>5, <2>1, <2>4, <4>1 DEF PickFails
      <4>2. CASE ~(Body[o].abs /\ u.call.beneath)
        <5>1. v.pc \in {"walk", "fail", "complete"}
          BY <1>5, <1>7, <2>1, <2>4, <4>2 DEF PickGoes
        <5>2. v.path \in {RootOf(u), u.path}
          BY <1>5, <2>1, <2>4, <4>2 DEF PickGoes
        <5>3. RootOf(u) \in Objects
          BY <1>2, OpenConstants DEF RootOf, Walks, Objects
        <5> QED
          BY <5>1, <5>2, <5>3, <1>2
      <4> QED
        BY <4>1, <4>2
    <3>3. Modes(v)
      BY <1>2, <1>4, <1>6, <3>2 DEF Tidy, Modes, InComponent
    <3>4. Counted(v) /\ Made(v)
      BY <1>1, <1>2, <1>4, <3>1, <3>2, OpenConstants DEF Counted, Made, Walks
    <3> QED
      BY <3>3, <3>4 DEF Tidy
  <2> QED
    BY <2>3, <2>4
<1> QED
  BY <1>8, <1>9

\* A component that leads somewhere without a link.
LEMMA TidyLands ==
    ASSUME NEW w \in Walks, WalkOK(w), Tidy(w), w.pc \in InComponent, NEW v \in Walks,
           Keeps(v, w, {"decision", "jumped"} \cup Moved), v.root \in {w.root, Nil, Root},
           (v.pc = "end" /\ v.root \in {w.root, Nil}) \/ Lands(v, w), v.pc = "complete" => v.path \in Objects
    PROVE  Tidy(v)
<1>1. ~w.created /\ w.links <= MaxSymlinks
  BY NotCreated DEF InComponent
<1>2. /\ v.call = w.call /\ v.links = w.links /\ v.attempt = w.attempt /\ v.created = w.created /\ v.rcu = w.rcu
      /\ v.trailing = w.trailing /\ v.intent = w.intent
  BY DEF Keeps, Fields, Moved
<1>3. CASE v.pc = "end" /\ v.root \in {w.root, Nil}
  BY <1>1, <1>2, <1>3, TidyEnds
<1>4. CASE Lands(v, w)
  <2>1. v.pc \in {"complete", "walk", "fail"} /\ (v.pc = "walk" => ~w.trailing)
    BY <1>4 DEF Lands, Walks
  <2>2. v.pc = "walk" => ~v.intent
    BY <1>2, <2>1 DEF Tidy, Modes
  <2> QED
    BY <1>1, <1>2, <2>1, <2>2, TidyGoes DEF Reading, InComponent
<1> QED
  BY <1>3, <1>4

\* Those components, and the ones that are looked up.
LEMMA TidyComponents ==
    ASSUME TreeOK, nd \in Walks, WalkOK(nd), Tidy(nd), nd' \in Walks,
           Dots \/ ApplyTarget \/ Component \/ OpenFound
    PROVE  Tidy(nd')
<1>0. /\ nd.pc \in InComponent => nd.path \in Dirs /\ nd.path \in Objects
      /\ nd.trailing \in BOOLEAN /\ nd.path \in Objects \cup {Nil}
  BY DEF WalkOK, PlaceOK, Reading, Walks, Objects
<1>1. CASE Dots
  <2>1. /\ nd.pc = "decide" /\ Keeps(nd', nd, Moved) /\ nd'.root \in {nd.root, RootOf(nd)}
        /\ \/ nd'.pc = "end" /\ nd.call.beneath
           \/ Lands(nd', nd) /\ nd'.path \in {nd.path, ParentOf[nd.path]}
    BY <1>1, DotsEffect
  <2>2. nd.call.beneath => RootOf(nd) = nd.root
    <3>1. nd.call.beneath => nd.root = Cwd
      BY <2>1 DEF WalkOK, PlaceOK, Reading, InComponent
    <3>2. Cwd # Nil
      BY OpenConstants DEF Objects
    <3> QED
      BY <3>1, <3>2 DEF RootOf
  <2>3. Keeps(nd', nd, {"decision", "jumped"} \cup Moved)
    BY <2>1 DEF Keeps
  <2>4. nd.path \in Objects /\ ParentOf[nd.path] \in Objects
    BY <1>0, <2>1, OpenConstants DEF InComponent, Objects
  <2>5. nd'.root \in {nd.root, Nil, Root}
    BY <2>1 DEF RootOf
  <2>6. (nd'.pc = "end" /\ nd'.root \in {nd.root, Nil}) \/ Lands(nd', nd)
    BY <2>1, <2>2
  <2>7. nd'.pc = "complete" => nd'.path \in Objects
    BY <2>1, <2>4
  <2> QED
    BY <2>1, <2>3, <2>5, <2>6, <2>7, TidyLands DEF InComponent
<1>2. CASE ApplyTarget
  <2> DEFINE d == DecisionFor(nd)
             e == ApplyTargetError(nd, d.to)
  <2>1. /\ nd.pc = "decide" /\ nd.last.name \in Names /\ d.act = "select"
        /\ Keeps(nd', nd, {"decision", "refs", "path", "jumped", "stack", "bodies", "pc", "err"})
        /\ e # "ok" => nd'.pc = "end"
        /\ e = "ok" => nd'.path = d.to /\ Lands(nd', nd)
    BY <1>2, ApplyTargetEffect
  <2>2. e = "ok" => d.to \in Dirs
    BY DEF ApplyTargetError
  <2> HIDE DEF d, e
  <2>3. Keeps(nd', nd, {"decision", "jumped"} \cup Moved) /\ nd'.root = nd.root
    BY <2>1 DEF Keeps, Moved, Fields
  <2>4. nd'.pc = "complete" => nd'.path \in Objects
    BY <2>1, <2>2 DEF Objects
  <2> QED
    BY <2>1, <2>3, <2>4, TidyLands DEF InComponent
<1>3. CASE Component
  <2>1. nd.pc \in {"lookup", "slow"} /\ ~LastOfOpen /\ Enters(nd', nd, Found)
    BY <1>3, ComponentEffect
  <2>2. Found \in Objects \cup {Nil}
    BY <2>1, FoundType
  <2>3. Keeps(nd, nd, {"directory", "follow"}) /\ Keeps(nd', nd', {"intent"})
    BY WalkFields DEF Keeps
  <2>4. nd'.intent = nd.intent
    BY <2>1 DEF Enters, Keeps, Fields, Picks
  <2>5. ~nd.intent
    BY <2>1 DEF Tidy, Modes, WalkOK, DecideOK, LastOfOpen, InComponent
  <2> QED
    BY <1>0, <2>1, <2>2, <2>3, <2>4, <2>5, TidyEnters DEF InComponent
<1>4. CASE OpenFound
  <2>1. PICK s : /\ Enters(s, OpenFlags(nd), Found)
                 /\ Keeps(nd', s, {"intent"}) /\ nd'.intent = (s.pc # "walk")
    BY <1>4, OpenFoundEffect
  <2>2. nd.pc \in {"lookup", "slow"}
    BY <1>4, OpenFoundEffect
  <2>3. Found \in Objects \cup {Nil}
    BY <2>2, FoundType
  <2>4. Keeps(OpenFlags(nd), nd, {"directory", "follow"})
    BY WalkFields, OpenFlagsKeeps
  <2>5. nd'.pc = s.pc
    BY <2>1 DEF Keeps, Fields
  <2> QED
    BY <1>0, <2>1, <2>2, <2>3, <2>4, <2>5, TidyEnters DEF InComponent
<1> QED
  BY <1>1, <1>2, <1>3, <1>4

\* The end of an attempt, and the beginning of one.
LEMMA TidyAttempts ==
    ASSUME nd \in Walks, WalkOK(nd), Tidy(nd), nd' \in Walks,
           OpenCreates \/ Complete \/ Stale \/ Terminate \/ PathInit
    PROVE  Tidy(nd')
<1>0. /\ nd.links \in Nat /\ MaxSymlinks \in Nat /\ Fresh \in Objects /\ Modes(nd) /\ Counted(nd) /\ Made(nd)
      /\ nd.attempt \in 1..3 /\ nd.pc \in Steps
  BY OpenConstants DEF Walks, Objects, Tidy
<1>1. CASE OpenCreates
  <2>1. /\ nd.pc = "slow" /\ ~nd.rcu /\ Keeps(nd', nd, {"created", "path", "pc", "refs"})
        /\ nd'.created /\ nd'.path = Fresh /\ nd'.pc = "complete"
    BY <1>1, OpenCreatesEffect
  <2>2. /\ nd'.call = nd.call /\ nd'.links = nd.links /\ nd'.attempt = nd.attempt /\ nd'.rcu = nd.rcu
        /\ nd'.root = nd.root /\ nd'.err = nd.err
    BY <2>1 DEF Keeps, Fields
  <2>3. nd.err = "ok"
    BY <2>1 DEF WalkOK, DecideOK, Reading, InComponent
  <2> QED
    BY <1>0, <2>1, <2>2, <2>3 DEF Tidy, Modes, Counted, Made, InComponent
<1>2. CASE Complete
  <2>1. /\ nd.pc = "complete" /\ ~nd.rcu /\ Keeps(nd', nd, {"pc", "err"})
        /\ nd'.pc = "end" /\ nd'.err = CompleteError(nd)
    BY <1>2, CompleteEffect
  <2>2. /\ nd'.call = nd.call /\ nd'.links = nd.links /\ nd'.attempt = nd.attempt /\ nd'.rcu = nd.rcu
        /\ nd'.root = nd.root /\ nd'.created = nd.created
    BY <2>1 DEF Keeps, Fields
  <2>3. CompleteError(nd) \notin {"ECHILD", "ESTALE"}
    <3>1. CompleteWalkError(nd) \in {"EXDEV", "ok"}
      BY DEF CompleteWalkError
    <3>2. DoOpenError(nd) \in {"EEXIST", "EISDIR", "ENOTDIR", "ELOOP", "ok"}
      BY DEF DoOpenError
    <3>3. LookupError(nd) \in {"ENOTDIR", "ok"}
      BY DEF LookupError
    <3> QED
      BY <3>1, <3>2, <3>3 DEF CompleteError
  <2>4. Modes(nd')
    BY <1>0, <2>1, <2>2 DEF Modes, InComponent
  <2>5. Counted(nd')
    BY <1>0, <2>1, <2>2 DEF Counted
  <2>6. Made(nd')
    BY <1>0, <2>1, <2>2, <2>3 DEF Made
  <2> QED
    BY <2>4, <2>5, <2>6 DEF Tidy
<1>3. CASE Stale
  <2>1. nd.pc = "complete" /\ ~nd.created /\ Keeps(nd', nd, {"pc", "err"}) /\ nd'.pc = "end"
    BY <1>3, StaleEffect
  <2>2. /\ nd'.call = nd.call /\ nd'.links = nd.links /\ nd'.attempt = nd.attempt /\ nd'.rcu = nd.rcu
        /\ nd'.root = nd.root /\ nd'.created = nd.created
    BY <2>1 DEF Keeps, Fields
  <2>3. nd.links <= MaxSymlinks
    BY <1>0, <2>1 DEF Counted
  <2> QED
    BY <2>1, <2>2, <2>3, TidyEnds
<1>4. CASE Terminate
  <2>1. /\ nd.pc = "end" /\ Keeps(nd', nd, Ended) /\ ~nd'.rcu /\ nd'.root = Nil /\ nd'.path = Nil
        /\ NextAttempt(nd) # 0 => nd'.pc = "init" /\ nd'.attempt = NextAttempt(nd)
        /\ NextAttempt(nd) = 0 => nd'.pc = "done" /\ nd'.attempt = nd.attempt
    BY <1>4, TerminateEffect
  <2>2. nd'.call = nd.call /\ nd'.links = nd.links /\ nd'.created = nd.created /\ nd'.err = nd.err
    BY <2>1 DEF Keeps, Fields, Ended
  <2>3. NextAttempt(nd) \in {0, 2, 3} /\ (NextAttempt(nd) # 0 => nd.err \in {"ECHILD", "ESTALE"})
    BY DEF NextAttempt
  <2>4. Modes(nd')
    BY <1>0, <2>1, <2>2, <2>3 DEF Modes, InComponent
  <2>5. Counted(nd')
    BY <1>0, <2>1, <2>2, <2>3 DEF Counted
  <2>6. Made(nd')
    BY <1>0, <2>1, <2>2, <2>3 DEF Made
  <2> QED
    BY <2>4, <2>5, <2>6 DEF Tidy
<1>5. CASE PathInit
  <2>1. /\ nd.pc = "init" /\ nd'.call = nd.call /\ nd'.attempt = nd.attempt /\ nd'.links = nd.links
        /\ nd'.rcu = (nd.attempt = 1) /\ ~nd'.intent /\ ~nd'.created /\ nd'.pc \in {"walk", "end"}
        /\ ~nd.call.beneath => nd'.root \in {Nil, Root}
    BY <1>5, PathInitEffect
  <2>2. Modes(nd')
    BY <2>1 DEF Modes, InComponent
  <2>3. Counted(nd') /\ Made(nd')
    BY <1>0, <2>1 DEF Counted, Made
  <2> QED
    BY <2>2, <2>3 DEF Tidy
<1> QED
  BY <1>1, <1>2, <1>3, <1>4, <1>5

\* Other tasks leave the walk alone.
LEMMA DisturbEffect ==
    ASSUME TreeOK, nd \in Walks, Disturb
    PROVE  Keeps(nd', nd, {"quiet"}) /\ ~nd'.quiet /\ changes' # changes
<1>1. nd' = [nd EXCEPT !.quiet = FALSE] /\ changes' = changes + 1
  BY DEF Disturb
<1>2. Keeps(nd', nd, {"quiet"}) /\ ~nd'.quiet
  BY <1>1, WalkFields DEF Keeps, Fields
<1>3. changes \in Int
  BY DEF TreeOK
<1> QED
  BY <1>1, <1>2, <1>3

\* A step of the call.
LEMMA TidyWalkStep ==
    ASSUME OpenInv, TidyInv, WalkStep
    PROVE  TidyInv'
<1>1. nd.pc # "idle"
  BY DEF WalkStep, TryToUnlazy, TryToUnlazyNext, LookupFast, RcuFails, PathInit, NextComponent,
         LastComponent, Dots, Decide, PolicyFails, Deciding, FailRef, ApplyRedirect, ApplyTarget,
         Component, LookingUp, CacheMiss, OpenSlash, OpenFound, OpenCreates, Complete, Completing,
         Stale, Terminate
<1>2. nd # Idle /\ TreeOK /\ nd \in Walks /\ WalkOK(nd) /\ Tidy(nd) /\ nd' \in Walks
  BY <1>1, WalkStepOK DEF OpenInv, TidyInv, Idle, Kept
<1>3. Tidy(nd')
  <2>1. CASE TryToUnlazy \/ TryToUnlazyNext
    BY <1>2, <2>1, TidyUnlazy
  <2>2. CASE \/ RcuFails \/ OpenSlash \/ Decide \/ PolicyFails \/ FailRef \/ ApplyRedirect \/ CacheMiss
             \/ NextComponent \/ LastComponent
    BY <1>2, <2>2, TidySmall
  <2>3. CASE Dots \/ ApplyTarget \/ Component \/ OpenFound
    BY <1>2, <2>3, TidyComponents
  <2>4. CASE OpenCreates \/ Complete \/ Stale \/ Terminate \/ PathInit
    BY <1>2, <2>4, TidyAttempts
  <2> QED
    BY <2>1, <2>2, <2>3, <2>4 DEF WalkStep
<1>4. NoFresh'
  <2>1. CASE OpenCreates
    <3>1. nd'.created /\ nd' \in Walks
      BY <1>2, <2>1, OpenCreatesEffect
    <3>2. nd' # Idle
      BY <3>1, WalkFields DEF Idle, Fields
    <3> QED
      BY <3>1, <3>2 DEF NoFresh
  <2>2. CASE ~OpenCreates
    <3>1. fs' = fs
      BY <2>2 DEF WalkStep, Walk, TryToUnlazy, TryToUnlazyNext, Unlazy, RcuFails, PathInit, NextComponent,
         LastComponent, Dots, Decide, PolicyFails, FailRef, ApplyRedirect, ApplyTarget,
         Component, CacheMiss, OpenSlash, OpenFound, Complete, Stale, Terminate
    <3>2. CASE ~nd.created
      BY <1>2, <3>1, <3>2 DEF NoFresh, TidyInv
    <3>3. CASE nd.created
      <4>1. nd.pc \in {"complete", "end"} /\ nd.err \notin {"ECHILD", "ESTALE"} /\ ~nd.rcu
        <5>1. nd.pc # "done"
          BY DEF WalkStep, TryToUnlazy, TryToUnlazyNext, LookupFast, RcuFails, PathInit, NextComponent,
             LastComponent, Dots, Decide, PolicyFails, Deciding, FailRef, ApplyRedirect, ApplyTarget,
             Component, LookingUp, CacheMiss, OpenSlash, OpenFound, OpenCreates, Complete, Completing,
             Stale, Terminate
        <5> QED
          BY <1>2, <3>3, <5>1 DEF Tidy, Made
      <4>2. Complete \/ Terminate
        BY <3>3, <4>1 DEF WalkStep, TryToUnlazy, TryToUnlazyNext, LookupFast, RcuFails, PathInit, NextComponent,
             LastComponent, Dots, Decide, PolicyFails, Deciding, FailRef, ApplyRedirect, ApplyTarget,
             Component, LookingUp, CacheMiss, OpenSlash, OpenFound, OpenCreates, Completing, Stale
      <4>3. nd'.created = nd.created
        <5>1. CASE Complete
          BY <1>2, <5>1, CompleteEffect DEF Keeps, Fields
        <5>2. CASE Terminate
          BY <1>2, <5>2, TerminateEffect DEF Keeps, Fields, Ended
        <5> QED
          BY <4>2, <5>1, <5>2
      <4>4. nd' # Idle
        BY <1>2, WalkFields DEF Idle, Fields
      <4> QED
        BY <3>3, <4>3, <4>4 DEF NoFresh
    <3> QED
      BY <3>2, <3>3
  <2> QED
    BY <2>1, <2>2
<1> QED
  BY <1>3, <1>4 DEF TidyInv

\* A step of another task.
LEMMA TidyDisturb ==
    ASSUME TreeOK, nd \in Walks, Tidy(nd), Disturb, nd' \in Walks
    PROVE  Tidy(nd') /\ nd' # Idle /\ nd'.created = nd.created
<1>1. Keeps(nd', nd, {"quiet"})
  BY DisturbEffect
<1>2. /\ nd'.rcu = nd.rcu /\ nd'.attempt = nd.attempt /\ nd'.call = nd.call /\ nd'.root = nd.root /\ nd'.pc = nd.pc
      /\ nd'.trailing = nd.trailing /\ nd'.intent = nd.intent /\ nd'.links = nd.links /\ nd'.err = nd.err
      /\ nd'.created = nd.created /\ nd'.path = nd.path
  BY <1>1 DEF Keeps, Fields
<1>3. Modes(nd')
  BY <1>2 DEF Tidy, Modes
<1>4. Counted(nd')
  BY <1>2 DEF Tidy, Counted
<1>5. Made(nd')
  BY <1>2 DEF Tidy, Made
<1>6. nd' # Idle
  BY WalkFields DEF Idle, Fields
<1> QED
  BY <1>2, <1>3, <1>4, <1>5, <1>6 DEF Tidy

\* Every step.
LEMMA TidyStep == OpenInv /\ TidyInv /\ [Next]_vars => TidyInv'
<1> SUFFICES ASSUME OpenInv, TidyInv, [Next]_vars PROVE TidyInv'
  OBVIOUS
<1>1. ASSUME NEW c \in Calls, Start(c) PROVE TidyInv'
  <2>1. nd = Idle /\ nd' = SetNameidata(c) /\ fs' = fs
    BY <1>1 DEF Start, Walk
  <2>2. /\ nd'.pc = "init" /\ nd'.attempt = 1 /\ nd'.links = 0 /\ ~nd'.created /\ nd'.root = Nil /\ ~nd'.intent
    BY <2>1, SetNameidataFields
  <2>3. Modes(nd')
    BY <2>1, <2>2 DEF Modes, InComponent
  <2>4. Counted(nd') /\ Made(nd')
    BY <2>2, OpenConstants DEF Counted, Made
  <2>5. NoFresh'
    BY <2>1, <2>2 DEF NoFresh, TidyInv
  <2> QED
    BY <2>3, <2>4, <2>5 DEF TidyInv, Tidy
<1>2. CASE WalkStep
  BY <1>2, TidyWalkStep
<1>3. CASE Returned \/ UNCHANGED vars
  BY <1>3 DEF Returned, vars, TidyInv, NoFresh
<1>4. ASSUME Disturb PROVE /\ nd \in Walks /\ Tidy(nd') /\ nd' # Idle /\ nd'.created = nd.created
                           /\ nd # Idle
  <2>1. nd # Idle
    BY <1>4 DEF Disturb, Idle
  <2>2. nd' \in Walks
    BY <1>4, DisturbOK DEF Kept
  <2> QED
    BY <1>4, <2>1, <2>2, TidyDisturb DEF OpenInv, TidyInv
<1>5. ASSUME NEW d \in Managed, NEW n \in Names, NEW o \in (Files \ {Fresh}) \cup Links \cup {Nil},
             SetEntry(d, n, o)
      PROVE  TidyInv'
  <2>1. Disturb /\ fs' = [fs EXCEPT ![d][n] = o]
    BY <1>5 DEF SetEntry
  <2>2. o # Fresh
    BY OpenConstants DEF Objects
  <2>3. NoFresh'
    <3> SUFFICES ASSUME ~nd'.created, NEW e \in Dirs, NEW x \in Names PROVE fs'[e][x] # Fresh
      BY <1>4, <2>1 DEF NoFresh
    <3>1. fs[e][x] # Fresh
      BY <1>4, <2>1 DEF NoFresh, TidyInv
    <3>2. fs \in [Dirs -> [Names -> Objects \cup {Nil}]]
      BY DEF OpenInv, TreeOK, Layout
    <3> QED
      BY <2>1, <2>2, <3>1, <3>2
  <2> QED
    BY <1>4, <2>1, <2>3 DEF TidyInv
<1>6. ASSUME NEW p \in Policies, SetPolicy(p) PROVE TidyInv'
  <2>1. Disturb /\ fs' = fs
    BY <1>6 DEF SetPolicy
  <2>2. NoFresh'
    BY <1>4, <2>1 DEF NoFresh, TidyInv
  <2> QED
    BY <1>4, <2>1, <2>2 DEF TidyInv
<1> QED
  BY <1>1, <1>2, <1>3, <1>5, <1>6 DEF Next

\* Modes, links and creations of every call: ref-walk after the first attempt, one link more
\* than the limit only with ELOOP, no restart after O_CREAT has created (path_openat).
THEOREM OpenTidy == Spec => []TidyInv
<1>1. Init => TidyInv
  BY FreshIsNew DEF Init, TidyInv, NoFresh
<1> QED
  BY <1>1, TidyStep, OpenInvariant, PTL DEF Spec

-----------------------------------------------------------------------------
(* Every step leaves the call less to do.                                  *)

Rank(w) ==
    LET rank == [init |-> 0, walk |-> IF w.text.comps = <<>> THEN 18 ELSE 5, last |-> 17, decide |-> 16,
                 redirect |-> 15, lookup |-> 14, slow |-> 13, fail |-> 4, complete |-> 3, end |-> 2, done |-> 1]
    IN  rank[w.pc]

\* The steps of a component, in the order in which they come.
LEMMA Ranks ==
    ASSUME NEW w, w.pc \in Steps
    PROVE  /\ Rank(w) \in Nat
           /\ w.pc = "init" => Rank(w) = 0
           /\ w.pc = "walk" => Rank(w) = IF w.text.comps = <<>> THEN 18 ELSE 5
           /\ w.pc = "last" => Rank(w) = 17
           /\ w.pc = "decide" => Rank(w) = 16
           /\ w.pc = "redirect" => Rank(w) = 15
           /\ w.pc = "lookup" => Rank(w) = 14
           /\ w.pc = "slow" => Rank(w) = 13
           /\ w.pc = "fail" => Rank(w) = 4
           /\ w.pc = "complete" => Rank(w) = 3
           /\ w.pc = "end" => Rank(w) = 2
           /\ w.pc = "done" => Rank(w) = 1
  BY DEF Rank, Steps

Attempts(w) == 2 * (3 - w.attempt) + (IF w.pc = "init" THEN 1 ELSE 0)
Lazy(w) == IF w.rcu THEN 1 ELSE 0

\* The parts of the measure.
LEMMA MeasureParts ==
    ASSUME NEW w \in Walks, w.links <= MaxSymlinks + 1
    PROVE  /\ StepsLeft(w) \in Measures
           /\ StepsLeft(w)[1] = Attempts(w) /\ StepsLeft(w)[2] = MaxSymlinks + 1 - w.links
           /\ StepsLeft(w)[3] = Len(w.names) /\ StepsLeft(w)[4] = Len(w.text.comps)
           /\ StepsLeft(w)[5] = 2 * Rank(w) + Lazy(w)
<1> DEFINE b == MaxSymlinks + 1 - w.links
           n == Len(w.names)
           m == Len(w.text.comps)
           r == 2 * Rank(w) + Lazy(w)
           a == Attempts(w)
<1>1. StepsLeft(w) = <<a, b, n, m, r>>
  BY Zenon DEF StepsLeft, Rank, Lazy, Attempts
<1>2. a \in Nat /\ b \in Nat /\ n \in Nat /\ m \in Nat /\ r \in Nat
  <2>1. w.attempt \in 1..3 /\ w.links \in Nat /\ w.pc \in Steps
    BY DEF Walks
  <2>2. w.names \in Seq(TextType) /\ w.text.comps \in Seq(Names \cup {".."})
    BY DEF Walks, TextType
  <2>3. n \in Nat /\ m \in Nat
    BY <2>2
  <2>4. a \in Nat
    BY <2>1 DEF Attempts
  <2>5. b \in Nat
    BY <2>1, OpenConstants
  <2>6. r \in Nat
    BY <2>1, Ranks DEF Lazy
  <2> QED
    BY <2>3, <2>4, <2>5, <2>6
<1> HIDE DEF a, b, n, m, r
<1>3. StepsLeft(w) \in Measures
  BY <1>1, <1>2 DEF Measures
<1> QED
  BY <1>1, <1>3 DEF a, b, n, m, r

Shrinks(v, w) == StepsLeft(v) \in Measures /\ Fewer(StepsLeft(v), StepsLeft(w))

\* A decrease at one place is one of the measure.
LEMMA FewerAt ==
    ASSUME NEW s, NEW t,
           \/ s[1] < t[1]
           \/ s[1] = t[1] /\ s[2] < t[2]
           \/ s[1] = t[1] /\ s[2] = t[2] /\ s[3] < t[3]
           \/ s[1] = t[1] /\ s[2] = t[2] /\ s[3] = t[3] /\ s[4] < t[4]
           \/ s[1] = t[1] /\ s[2] = t[2] /\ s[3] = t[3] /\ s[4] = t[4] /\ s[5] < t[5]
    PROVE  Fewer(s, t)
<1>1. ASSUME s[1] < t[1] PROVE Fewer(s, t)
  <2>1. \A i \in 1..(1 - 1) : s[i] = t[i]
    OBVIOUS
  <2> QED
    BY <1>1, <2>1 DEF Fewer
<1>2. ASSUME s[1] = t[1], s[2] < t[2] PROVE Fewer(s, t)
  <2>1. \A i \in 1..(2 - 1) : s[i] = t[i]
    BY <1>2
  <2> QED
    BY <1>2, <2>1 DEF Fewer
<1>3. ASSUME s[1] = t[1], s[2] = t[2], s[3] < t[3] PROVE Fewer(s, t)
  <2>1. \A i \in 1..(3 - 1) : s[i] = t[i]
    BY <1>3
  <2> QED
    BY <1>3, <2>1 DEF Fewer
<1>4. ASSUME s[1] = t[1], s[2] = t[2], s[3] = t[3], s[4] < t[4] PROVE Fewer(s, t)
  <2>1. \A i \in 1..(4 - 1) : s[i] = t[i]
    BY <1>4
  <2> QED
    BY <1>4, <2>1 DEF Fewer
<1>5. ASSUME s[1] = t[1], s[2] = t[2], s[3] = t[3], s[4] = t[4], s[5] < t[5] PROVE Fewer(s, t)
  <2>1. \A i \in 1..(5 - 1) : s[i] = t[i]
    BY <1>5
  <2> QED
    BY <1>5, <2>1 DEF Fewer
<1> QED
  BY <1>1, <1>2, <1>3, <1>4, <1>5

\* Another attempt, or the beginning of this one.
LEMMA AttemptShrinks ==
    ASSUME NEW w \in Walks, w.links <= MaxSymlinks + 1, NEW v \in Walks, v.links <= MaxSymlinks + 1,
           \/ v.attempt > w.attempt
           \/ v.attempt = w.attempt /\ w.pc = "init" /\ v.pc # "init"
    PROVE  Shrinks(v, w)
<1>1. Attempts(v) < Attempts(w)
  BY DEF Attempts, Walks
<1> QED
  BY <1>1, MeasureParts, FewerAt DEF Shrinks

\* A link has been met.
LEMMA LinkShrinks ==
    ASSUME NEW w \in Walks, w.links <= MaxSymlinks + 1, NEW v \in Walks, v.links <= MaxSymlinks + 1,
           v.attempt = w.attempt, v.pc # "init", w.pc # "init", v.links = w.links + 1
    PROVE  Shrinks(v, w)
<1>1. Attempts(v) = Attempts(w)
  BY DEF Attempts
<1>2. MaxSymlinks + 1 - v.links < MaxSymlinks + 1 - w.links
  BY OpenConstants DEF Walks
<1> QED
  BY <1>1, <1>2, MeasureParts, FewerAt DEF Shrinks

Reads(w) == Len(w.text.comps)

\* A text has ended, a component has been taken, or the walk is at a later step of it.
LEMMA StepShrinks ==
    ASSUME NEW w \in Walks, w.links <= MaxSymlinks + 1, NEW v \in Walks, v.links <= MaxSymlinks + 1,
           v.attempt = w.attempt, v.pc # "init", w.pc # "init", v.links = w.links,
           \/ Len(v.names) < Len(w.names)
           \/ Len(v.names) = Len(w.names) /\ Reads(v) < Reads(w)
           \/ Len(v.names) = Len(w.names) /\ Reads(v) = Reads(w) /\ Rank(v) < Rank(w)
           \/ /\ Len(v.names) = Len(w.names) /\ Reads(v) = Reads(w) /\ Rank(v) = Rank(w)
              /\ w.rcu /\ ~v.rcu
    PROVE  Shrinks(v, w)
<1>1. Attempts(v) = Attempts(w)
  BY DEF Attempts
<1>2. MaxSymlinks + 1 - v.links = MaxSymlinks + 1 - w.links
  OBVIOUS
<1>3. Rank(v) \in Nat /\ Rank(w) \in Nat
  BY Ranks DEF Walks
<1>4. \/ Rank(v) < Rank(w)
      \/ Rank(v) = Rank(w) /\ w.rcu /\ ~v.rcu
      => 2 * Rank(v) + Lazy(v) < 2 * Rank(w) + Lazy(w)
  BY <1>3 DEF Lazy
<1> QED
  BY <1>1, <1>2, <1>4, MeasureParts, FewerAt DEF Shrinks, Reads

\* What a later step of the same component keeps.
LEMMA LaterShrinks ==
    ASSUME NEW w \in Walks, Tidy(w), NEW v \in Walks, NEW some, Keeps(v, w, some),
           some \cap {"attempt", "links", "names", "text"} = {}, v.pc # "init", w.pc # "init",
           Rank(v) < Rank(w) \/ (Rank(v) = Rank(w) /\ w.rcu /\ ~v.rcu)
    PROVE  Shrinks(v, w)
<1>1. v.attempt = w.attempt /\ v.links = w.links /\ v.names = w.names /\ v.text = w.text
  BY DEF Keeps, Fields
<1>2. w.links <= MaxSymlinks + 1
  BY DEF Tidy, Counted
<1> QED
  BY <1>1, <1>2, StepShrinks DEF Reads

\* A component that leads somewhere ends.
LEMMA LandsShrinks ==
    ASSUME NEW w \in Walks, WalkOK(w), Tidy(w), w.pc \in InComponent, NEW v \in Walks, NEW some, Keeps(v, w, some),
           some \cap {"attempt", "links", "names", "text"} = {}, v.pc = "end" \/ Lands(v, w)
    PROVE  Shrinks(v, w)
<1>1. v.text = w.text /\ w.trailing \in BOOLEAN /\ v.pc \in Steps /\ w.pc \in Steps
  BY DEF Keeps, Fields, Walks
<1>2. ~w.trailing => w.text.comps # <<>>
  BY DEF WalkOK, NestOK, Reading
<1>3. v.pc \in {"end", "complete", "fail"} \/ (v.pc = "walk" /\ ~w.trailing)
  BY <1>1 DEF Lands
<1>4. Rank(v) <= 5 /\ v.pc # "init"
  <2>1. CASE v.pc \in {"end", "complete", "fail"}
    BY <1>1, <2>1, Ranks
  <2>2. CASE v.pc = "walk" /\ ~w.trailing
    <3>1. Rank(v) = 5
      BY <1>1, <1>2, <2>2, Ranks
    <3> QED
      BY <2>2, <3>1
  <2> QED
    BY <1>3, <2>1, <2>2
<1>5. Rank(w) >= 13 /\ w.pc # "init"
  BY <1>1, Ranks DEF InComponent
<1>6. Rank(v) < Rank(w)
  BY <1>1, <1>4, <1>5, Ranks
<1> QED
  BY <1>4, <1>5, <1>6, LaterShrinks

\* A component that is looked up: it ends, or a link has been met.
LEMMA EntersShrinks ==
    ASSUME NEW w \in Walks, WalkOK(w), Tidy(w), w.pc \in InComponent, NEW o \in Objects \cup {Nil},
           NEW u, Keeps(u, w, {"directory", "follow"}), NEW s, Enters(s, u, o),
           NEW v \in Walks, Tidy(v), Keeps(v, s, {"intent"})
    PROVE  Shrinks(v, w)
<1>1. /\ u.attempt = w.attempt /\ u.links = w.links /\ u.names = w.names /\ u.text = w.text /\ u.trailing = w.trailing
      /\ u.err = w.err /\ u.pc = w.pc
  BY DEF Keeps, Fields
<1>2. /\ v.attempt = s.attempt /\ v.links = s.links /\ v.names = s.names /\ v.text = s.text /\ v.pc = s.pc /\ v.err = s.err
      /\ v.path = s.path
  BY DEF Keeps, Fields
<1>3. s.attempt = u.attempt
  BY DEF Enters, Keeps, Fields, Picks
<1>4. w.links <= MaxSymlinks + 1 /\ v.links <= MaxSymlinks + 1
  BY DEF Tidy, Counted
<1>5. CASE ~EntersLink(u, o)
  <2>1. s.links = u.links /\ s.text = u.text /\ s.names = u.names
    BY <1>5 DEF Enters
  <2>2. s.pc = "end" \/ Lands(s, u)
    BY <1>5 DEF Enters
  <2>3. v.pc = "end" \/ Lands(v, w)
    BY <1>1, <1>2, <2>2 DEF Lands
  <2> DEFINE some == Fields \ {"attempt", "links", "names", "text"}
  <2>4. Keeps(v, w, some)
    BY <1>1, <1>2, <1>3, <2>1 DEF Keeps, Fields
  <2>5. some \cap {"attempt", "links", "names", "text"} = {}
    OBVIOUS
  <2> HIDE DEF some
  <2> QED
    BY <2>3, <2>4, <2>5, LandsShrinks
<1>6. CASE EntersLink(u, o)
  <2>1. v.links = w.links + 1
    BY <1>1, <1>2, <1>6 DEF Enters
  <2>2. v.pc # "init"
    <3>1. PickFails(s, u, Body[o]) /\ PickGoes(s, u, Body[o]) /\ u.trailing \in BOOLEAN
      BY <1>1, <1>6 DEF Enters, Walks
    <3>2. CASE LinkLimit(u) \/ (Body[o].abs /\ u.call.beneath)
      BY <1>2, <3>1, <3>2 DEF PickFails
    <3>3. CASE ~LinkLimit(u) /\ ~(Body[o].abs /\ u.call.beneath)
      BY <1>2, <3>1, <3>3 DEF PickGoes, Lands
    <3> QED
      BY <3>2, <3>3
  <2>3. w.pc # "init"
    BY DEF InComponent
  <2> QED
    BY <1>1, <1>2, <1>3, <1>4, <2>1, <2>2, <2>3, LinkShrinks
<1> QED
  BY <1>5, <1>6

\* One attempt follows another, and the last one ends.
LEMMA AttemptsShrink ==
    ASSUME nd \in Walks, Tidy(nd), nd' \in Walks, Tidy(nd'), PathInit \/ Terminate
    PROVE  Shrinks(nd', nd)
<1>1. nd.links <= MaxSymlinks + 1 /\ nd'.links <= MaxSymlinks + 1
  BY DEF Tidy, Counted
<1>2. CASE PathInit
  <2>1. nd'.attempt = nd.attempt /\ nd.pc = "init" /\ nd'.pc # "init"
    <3>1. nd'.pc \in {"walk", "end"}
      BY <1>2, PathInitEffect
    <3> QED
      BY <1>2, <3>1, PathInitEffect
  <2> QED
    BY <1>1, <2>1, AttemptShrinks
<1>3. CASE Terminate
  <2>1. /\ nd.pc = "end" /\ Keeps(nd', nd, Ended)
        /\ NextAttempt(nd) # 0 => nd'.pc = "init" /\ nd'.attempt = NextAttempt(nd)
        /\ NextAttempt(nd) = 0 => nd'.pc = "done" /\ nd'.attempt = nd.attempt
    BY <1>3, TerminateEffect
  <2>2. NextAttempt(nd) # 0 => NextAttempt(nd) > nd.attempt
    BY DEF NextAttempt, Walks
  <2>3. CASE NextAttempt(nd) # 0
    BY <1>1, <2>1, <2>2, <2>3, AttemptShrinks
  <2>4. CASE NextAttempt(nd) = 0
    <3>1. Rank(nd') = 1 /\ Rank(nd) = 2
      BY <2>1, <2>4, Ranks DEF Walks
    <3>2. nd'.links = nd.links /\ nd'.names = nd.names /\ nd'.text = nd.text
      BY <2>1 DEF Keeps, Fields, Ended
    <3> QED
      BY <1>1, <2>1, <2>4, <3>1, <3>2, StepShrinks DEF Reads
  <2> QED
    BY <2>3, <2>4
<1> QED
  BY <1>2, <1>3

\* A component is taken from a text.
LEMMA NextShrinks ==
    ASSUME nd \in Walks, Tidy(nd), nd' \in Walks, NextComponent
    PROVE  Shrinks(nd', nd)
<1> DEFINE comps == nd.text.comps
           rest == Tail(comps)
           top == nd.names[Len(nd.names)]
           front == SubSeq(nd.names, 1, Len(nd.names) - 1)
<1>1. /\ nd.pc = "walk"
      /\ Keeps(nd', nd, {"last", "jumped", "text", "names", "pc", "more", "trailing"})
      /\ comps = <<>> => nd'.text = nd.text /\ nd'.names = nd.names /\ nd'.pc = "last"
      /\ comps # <<>> /\ rest # <<>> => nd'.text.comps = rest /\ nd'.names = nd.names /\ nd'.pc = "decide"
      /\ comps # <<>> /\ rest = <<>> /\ nd.names # <<>> => nd'.names = front /\ nd'.pc = "decide"
      /\ comps # <<>> /\ rest = <<>> /\ nd.names = <<>> =>
            nd'.text.comps = <<>> /\ nd'.names = nd.names /\ nd'.pc = "last"
  BY NextComponentEffect
<1>2. nd'.attempt = nd.attempt /\ nd'.links = nd.links
  BY <1>1 DEF Keeps, Fields
<1>3. nd.links <= MaxSymlinks + 1
  BY DEF Tidy, Counted
<1>4. comps \in Seq(Names \cup {".."}) /\ nd.names \in Seq(TextType)
  BY DEF Walks, TextType
<1>5. nd.names # <<>> => Len(front) < Len(nd.names)
  BY <1>4
<1>6. comps # <<>> => Len(rest) < Len(comps) /\ Len(comps) > 0
  BY <1>4
<1>7. CASE comps = <<>>
  <2>1. Rank(nd') = 17 /\ Rank(nd) = 18
    BY <1>1, <1>7, Ranks DEF Walks
  <2>2. Rank(nd') < Rank(nd)
    BY <2>1
  <2> QED
    BY <1>1, <1>2, <1>3, <1>7, <2>2, StepShrinks DEF Reads
<1>8. CASE comps # <<>>
  <2>1. Len(nd'.names) < Len(nd.names) \/ (nd'.names = nd.names /\ Reads(nd') < Reads(nd))
    <3> HIDE DEF front
    <3>1. CASE rest = <<>>
      <4>1. Len(<<>>) = 0
        OBVIOUS
      <4> QED
        BY <1>1, <1>5, <1>6, <1>8, <3>1, <4>1 DEF Reads
    <3>2. CASE rest # <<>>
      <4> HIDE DEF rest
      <4> QED
        BY <1>1, <1>6, <1>8, <3>2 DEF Reads
    <3> QED
      BY <3>1, <3>2
  <2>2. nd'.pc # "init" /\ nd.pc # "init"
    BY <1>1, <1>8
  <2> QED
    BY <1>2, <1>3, <2>1, <2>2, StepShrinks
<1> QED
  BY <1>7, <1>8

\* try_to_unlazy
LEMMA UnlazyShrinks ==
    ASSUME nd \in Walks, Tidy(nd), nd' \in Walks, TryToUnlazy \/ TryToUnlazyNext
    PROVE  Shrinks(nd', nd)
<1>1. nd.pc \in {"walk", "slow", "redirect", "fail", "complete", "lookup"} /\ nd.rcu /\ Unlazy
  BY DEF TryToUnlazy, TryToUnlazyNext, LookupFast
<1>2. CASE Keeps(nd', nd, {"rcu", "root", "grabbed", "refs"})
  <2>1. nd'.pc = nd.pc /\ nd'.text = nd.text
    BY <1>2 DEF Keeps, Fields
  <2>2. Rank(nd') = Rank(nd)
    BY <2>1 DEF Rank
  <2>3. ~nd'.rcu
    BY <1>1, UnlazyEffect
  <2>4. {"rcu", "root", "grabbed", "refs"} \cap {"attempt", "links", "names", "text"} = {}
    OBVIOUS
  <2> QED
    BY <1>1, <1>2, <2>1, <2>2, <2>3, <2>4, LaterShrinks
<1>3. CASE Keeps(nd', nd, Unlazies) /\ nd'.pc = "end"
  <2>1. Rank(nd') = 2
    BY <1>3, Ranks DEF Walks
  <2>2. Rank(nd) > 2
    <3>1. nd.pc \in Steps
      BY DEF Walks
    <3>2. Rank(nd) \in {5, 18, 13, 15, 4, 3, 14}
      BY <1>1, <3>1, Ranks
    <3> QED
      BY <3>2
  <2>3. Unlazies \cap {"attempt", "links", "names", "text"} = {}
    BY DEF Unlazies
  <2> QED
    BY <1>1, <1>3, <2>1, <2>2, <2>3, LaterShrinks
<1> QED
  BY <1>1, <1>2, <1>3, UnlazyEffect

\* A later step of a component, or the end of the attempt.
LEMMA LaterStepShrinks ==
    ASSUME nd \in Walks, Tidy(nd), nd' \in Walks,
           \/ RcuFails \/ OpenSlash \/ Decide \/ PolicyFails \/ FailRef \/ ApplyRedirect \/ CacheMiss
           \/ LastComponent \/ OpenCreates \/ Complete \/ Stale
    PROVE  Shrinks(nd', nd)
<1> DEFINE fixed == {"attempt", "links", "names", "text"}
<1> SUFFICES \E some : Keeps(nd', nd, some) /\ some \cap fixed = {} /\ nd'.pc # "init" /\ nd.pc # "init"
                        /\ Rank(nd') < Rank(nd)
  BY LaterShrinks
<1>0. nd.pc \in Steps /\ nd'.pc \in Steps
  BY DEF Walks
<1>1. CASE RcuFails \/ OpenSlash
  <2>1. \E e : nd' = Fail(nd, e)
    BY <1>1 DEF RcuFails, OpenSlash, Walk
  <2>2. nd.pc \in {"lookup", "decide"}
    BY <1>1 DEF RcuFails, OpenSlash, LookupFast
  <2>3. Keeps(nd', nd, {"pc", "err"}) /\ nd'.pc = "end"
    BY <2>1, FailsEffect
  <2>4. {"pc", "err"} \cap fixed = {}
    OBVIOUS
  <2>5. Rank(nd') < Rank(nd)
    BY <1>0, <2>2, <2>3, Ranks
  <2> QED
    BY <2>2, <2>3, <2>4, <2>5
<1>2. CASE Decide
  <2>1. nd.pc = "decide" /\ Keeps(nd', nd, {"decision", "pc"}) /\ nd'.pc \in {"redirect", "lookup"}
    BY <1>2, DecideEffect
  <2>2. {"decision", "pc"} \cap fixed = {} /\ Rank(nd') < Rank(nd)
    BY <1>0, <2>1, Ranks
  <2> QED
    BY <2>1, <2>2
<1>3. CASE PolicyFails
  <2>1. nd.pc = "decide" /\ Keeps(nd', nd, {"decision", "pc", "err"}) /\ nd'.pc = "fail"
    BY <1>3, PolicyFailsEffect
  <2>2. {"decision", "pc", "err"} \cap fixed = {} /\ Rank(nd') < Rank(nd)
    BY <1>0, <2>1, Ranks
  <2> QED
    BY <2>1, <2>2
<1>4. CASE FailRef
  <2>1. nd.pc = "fail" /\ Keeps(nd', nd, {"pc"}) /\ nd'.pc = "end"
    BY <1>4, FailRefEffect
  <2>2. {"pc"} \cap fixed = {} /\ Rank(nd') < Rank(nd)
    BY <1>0, <2>1, Ranks
  <2> QED
    BY <2>1, <2>2
<1>5. CASE ApplyRedirect
  <2>1. nd.pc = "redirect" /\ Keeps(nd', nd, {"pc", "last"}) /\ nd'.pc = "lookup"
    BY <1>5, ApplyRedirectEffect
  <2>2. {"pc", "last"} \cap fixed = {} /\ Rank(nd') < Rank(nd)
    BY <1>0, <2>1, Ranks
  <2> QED
    BY <2>1, <2>2
<1>6. CASE CacheMiss
  <2>1. nd.pc = "lookup" /\ Keeps(nd', nd, {"pc", "directory", "follow"}) /\ nd'.pc = "slow"
    BY <1>6, CacheMissEffect
  <2>2. {"pc", "directory", "follow"} \cap fixed = {} /\ Rank(nd') < Rank(nd)
    BY <1>0, <2>1, Ranks
  <2> QED
    BY <2>1, <2>2
<1>7. CASE LastComponent
  <2>1. /\ nd.pc = "last" /\ Keeps(nd', nd, {"pc", "trailing", "more", "directory", "follow", "intent"})
        /\ nd'.pc = "decide"
    BY <1>7, LastComponentEffect
  <2>2. {"pc", "trailing", "more", "directory", "follow", "intent"} \cap fixed = {} /\ Rank(nd') < Rank(nd)
    BY <1>0, <2>1, Ranks
  <2> QED
    BY <2>1, <2>2
<1>8. CASE OpenCreates
  <2>1. nd.pc = "slow" /\ Keeps(nd', nd, {"created", "path", "pc", "refs"}) /\ nd'.pc = "complete"
    BY <1>8, OpenCreatesEffect
  <2>2. {"created", "path", "pc", "refs"} \cap fixed = {} /\ Rank(nd') < Rank(nd)
    BY <1>0, <2>1, Ranks
  <2> QED
    BY <2>1, <2>2
<1>9. CASE Complete \/ Stale
  <2>1. nd.pc = "complete" /\ Keeps(nd', nd, {"pc", "err"}) /\ nd'.pc = "end"
    BY <1>9, CompleteEffect, StaleEffect
  <2>2. {"pc", "err"} \cap fixed = {} /\ Rank(nd') < Rank(nd)
    BY <1>0, <2>1, Ranks
  <2> QED
    BY <2>1, <2>2
<1> QED
  BY <1>1, <1>2, <1>3, <1>4, <1>5, <1>6, <1>7, <1>8, <1>9

\* A component that leads somewhere.
LEMMA ComponentShrinks ==
    ASSUME TreeOK, nd \in Walks, WalkOK(nd), Tidy(nd), nd' \in Walks, Tidy(nd'),
           Dots \/ ApplyTarget \/ Component \/ OpenFound
    PROVE  Shrinks(nd', nd)
<1> DEFINE fixed == {"attempt", "links", "names", "text"}
<1>1. CASE Dots
  <2>1. nd.pc = "decide" /\ Keeps(nd', nd, Moved) /\ (nd'.pc = "end" \/ Lands(nd', nd))
    BY <1>1, DotsEffect
  <2>2. Moved \cap fixed = {} /\ nd.pc \in InComponent
    BY <2>1 DEF Moved, InComponent
  <2> QED
    BY <2>1, <2>2, LandsShrinks
<1>2. CASE ApplyTarget
  <2>1. /\ nd.pc = "decide" /\ (nd'.pc = "end" \/ Lands(nd', nd))
        /\ Keeps(nd', nd, {"decision", "refs", "path", "jumped", "stack", "bodies", "pc", "err"})
    BY <1>2, ApplyTargetEffect
  <2>2. /\ {"decision", "refs", "path", "jumped", "stack", "bodies", "pc", "err"} \cap fixed = {}
        /\ nd.pc \in InComponent
    BY <2>1 DEF InComponent
  <2> QED
    BY <2>1, <2>2, LandsShrinks
<1>3. CASE Component
  <2>1. nd.pc \in {"lookup", "slow"} /\ Enters(nd', nd, Found)
    BY <1>3, ComponentEffect
  <2>2. Found \in Objects \cup {Nil}
    BY <2>1, FoundType
  <2>3. Keeps(nd, nd, {"directory", "follow"}) /\ Keeps(nd', nd', {"intent"})
    BY WalkFields DEF Keeps
  <2> QED
    BY <2>1, <2>2, <2>3, EntersShrinks DEF InComponent
<1>4. CASE OpenFound
  <2>1. PICK s : Enters(s, OpenFlags(nd), Found) /\ Keeps(nd', s, {"intent"})
    BY <1>4, OpenFoundEffect
  <2>2. nd.pc \in {"lookup", "slow"}
    BY <1>4, OpenFoundEffect
  <2>3. Found \in Objects \cup {Nil}
    BY <2>2, FoundType
  <2>4. Keeps(OpenFlags(nd), nd, {"directory", "follow"})
    BY WalkFields, OpenFlagsKeeps
  <2> QED
    BY <2>1, <2>2, <2>3, <2>4, EntersShrinks DEF InComponent
<1> QED
  BY <1>1, <1>2, <1>3, <1>4

\* Every step of a call leaves it less to do, in an order without endless descent
\* (CallIsFinite): links, failures of try_to_unlazy and restarts come to an end, for
\* every tree, pathname, policy and limit (filename_lookup, do_file_open, reserve_stack).
THEOREM OpenCallAdvances == Spec => CallAdvances
<1> DEFINE advances == nd # Idle /\ nd' # nd /\ changes' = changes => Shrinks(nd', nd)
<1>1. OpenInv /\ TidyInv /\ TidyInv' /\ [Next]_vars => advances
  <2> SUFFICES ASSUME OpenInv, TidyInv, TidyInv', Next, nd # Idle, nd' # nd, changes' = changes
               PROVE  Shrinks(nd', nd)
    BY DEF vars
  <2>1. TreeOK /\ nd \in Walks /\ WalkOK(nd) /\ Tidy(nd)
    BY DEF OpenInv, TidyInv
  <2>2. ~Disturb
    BY <2>1, DisturbEffect
  <2>3. WalkStep
    BY <2>2 DEF Next, Start, Returned, vars, SetEntry, SetPolicy
  <2>4. nd' \in Walks
    BY <2>3, WalkStepOK DEF Kept
  <2>5. Tidy(nd')
    BY <2>4, WalkFields DEF TidyInv, Idle, Fields
  <2>6. CASE TryToUnlazy \/ TryToUnlazyNext
    BY <2>1, <2>4, <2>6, UnlazyShrinks
  <2>7. CASE \/ RcuFails \/ OpenSlash \/ Decide \/ PolicyFails \/ FailRef \/ ApplyRedirect \/ CacheMiss
             \/ LastComponent \/ OpenCreates \/ Complete \/ Stale
    BY <2>1, <2>4, <2>7, LaterStepShrinks
  <2>8. CASE Dots \/ ApplyTarget \/ Component \/ OpenFound
    BY <2>1, <2>4, <2>5, <2>8, ComponentShrinks
  <2>9. CASE PathInit \/ Terminate
    BY <2>1, <2>4, <2>5, <2>9, AttemptsShrink
  <2>10. CASE NextComponent
    BY <2>1, <2>4, <2>10, NextShrinks
  <2> QED
    BY <2>3, <2>6, <2>7, <2>8, <2>9, <2>10 DEF WalkStep
<1>2. OpenInv /\ TidyInv /\ TidyInv' /\ [Next]_vars =>
        [nd # Idle /\ nd' # nd /\ changes' = changes =>
            StepsLeft(nd') \in Measures /\ Fewer(StepsLeft(nd'), StepsLeft(nd))]_vars
  BY <1>1 DEF Shrinks
<1> QED
  BY <1>2, OpenInvariant, OpenTidy, PTL DEF Spec, CallAdvances

-----------------------------------------------------------------------------
(* The text that is left: of the link in hand, then of the ones around it. *)

Flattens(f, ns) ==
    /\ f \in [0..Len(ns) -> Comps] /\ f[0] = <<>>
    /\ \A i \in 1..Len(ns) : f[i] = ns[i].comps \o f[i - 1]

Behind(w, rest) == \E f : Flattens(f, w.names) /\ rest = w.text.comps \o f[Len(w.names)]

\* The first component of what is put together.
LEMMA Joined ==
    ASSUME NEW s \in Comps, NEW t \in Comps
    PROVE  /\ s \o t \in Comps
           /\ s # <<>> => s \o t # <<>> /\ Head(s \o t) = Head(s) /\ Tail(s \o t) = Tail(s) \o t /\ Tail(s) \in Comps
           /\ s = <<>> => s \o t = t
           /\ t = <<>> => s \o t = s
<1>1. s \o t \in Comps
  BY DEF Comps
<1>2. ASSUME s # <<>>
      PROVE  s \o t # <<>> /\ Head(s \o t) = Head(s) /\ Tail(s \o t) = Tail(s) \o t /\ Tail(s) \in Comps
  <2>1. Len(s) > 0 /\ Len(s \o t) = Len(s) + Len(t) /\ Len(t) >= 0
    BY <1>2 DEF Comps
  <2>2. s \o t # <<>> /\ Head(s \o t) = Head(s) /\ Tail(s) \in Comps
    BY <1>2, <2>1 DEF Comps
  <2>3. Tail(s \o t) = Tail(s) \o t
    <3>1. Len(Tail(s)) = Len(s) - 1 /\ \A i \in 1..(Len(s) - 1) : Tail(s)[i] = s[i + 1]
      BY <1>2 DEF Comps
    <3>2. Len(Tail(s \o t)) = Len(s) + Len(t) - 1 /\ \A i \in 1..(Len(s) + Len(t) - 1) : Tail(s \o t)[i] = (s \o t)[i + 1]
      BY <1>1, <2>1, <2>2 DEF Comps
    <3>3. Tail(s \o t) \in Comps /\ Tail(s) \o t \in Comps
      BY <1>1, <2>2 DEF Comps
    <3>4. Len(Tail(s) \o t) = Len(s) + Len(t) - 1
      BY <2>2, <3>1 DEF Comps
    <3>5. ASSUME NEW i \in 1..(Len(s) + Len(t) - 1) PROVE Tail(s \o t)[i] = (Tail(s) \o t)[i]
      BY <2>1, <2>2, <3>1, <3>2 DEF Comps
    <3> QED
      BY <3>2, <3>3, <3>4, <3>5 DEF Comps
  <2> QED
    BY <2>2, <2>3
<1>3. (s = <<>> => s \o t = t) /\ (t = <<>> => s \o t = s)
  BY DEF Comps
<1> QED
  BY <1>1, <1>2, <1>3

\* What is behind the text in hand.
LEMMA BehindType ==
    ASSUME NEW w \in Walks, NEW rest, Behind(w, rest)
    PROVE  /\ rest \in Comps /\ w.text.comps \in Comps
           /\ w.text.comps # <<>> => rest # <<>> /\ Head(rest) = Head(w.text.comps)
<1>1. w.text.comps \in Comps /\ w.names \in Seq(TextType)
  BY DEF Walks, TextType, Comps
<1>2. PICK f : Flattens(f, w.names) /\ rest = w.text.comps \o f[Len(w.names)]
  BY DEF Behind
<1>3. f[Len(w.names)] \in Comps
  <2>1. Len(w.names) \in 0..Len(w.names)
    BY <1>1
  <2> QED
    BY <1>2, <2>1 DEF Flattens
<1> QED
  BY <1>1, <1>2, <1>3, Joined

\* Nothing around it.
LEMMA BehindAlone ==
    ASSUME NEW w, w.text.comps \in Comps, w.names = <<>>, NEW rest
    PROVE  Behind(w, rest) <=> rest = w.text.comps
<1>1. Len(w.names) = 0
  OBVIOUS
<1>2. ASSUME NEW f, Flattens(f, w.names) PROVE w.text.comps \o f[Len(w.names)] = w.text.comps
  BY <1>1, <1>2, Joined DEF Flattens, Comps
<1>3. \E f : Flattens(f, w.names)
  <2> DEFINE f == [i \in 0..0 |-> <<>>]
  <2>1. Flattens(f, w.names)
    BY <1>1 DEF Flattens, Comps
  <2> QED
    BY <2>1
<1> QED
  BY <1>2, <1>3 DEF Behind

\* The next component of the same text.
LEMMA BehindNext ==
    ASSUME NEW w \in Walks, NEW rest, Behind(w, rest), w.text.comps # <<>>, NEW v,
           v.names = w.names, v.text.comps = Tail(w.text.comps)
    PROVE  Behind(v, Tail(rest))
<1>1. w.text.comps \in Comps /\ w.names \in Seq(TextType)
  BY DEF Walks, TextType, Comps
<1>2. PICK f : Flattens(f, w.names) /\ rest = w.text.comps \o f[Len(w.names)]
  BY DEF Behind
<1>3. f[Len(w.names)] \in Comps
  <2>1. Len(w.names) \in 0..Len(w.names)
    BY <1>1
  <2> QED
    BY <1>2, <2>1 DEF Flattens
<1>4. Tail(rest) = Tail(w.text.comps) \o f[Len(w.names)]
  BY <1>1, <1>2, <1>3, Joined
<1> QED
  BY <1>2, <1>4 DEF Behind

\* The last component of a nested link.
LEMMA BehindPop ==
    ASSUME NEW w \in Walks, NEW rest, Behind(w, rest), w.text.comps # <<>>, Tail(w.text.comps) = <<>>,
           w.names # <<>>, NEW v,
           v.names = SubSeq(w.names, 1, Len(w.names) - 1), v.text = w.names[Len(w.names)]
    PROVE  Behind(v, Tail(rest))
<1> DEFINE n == Len(w.names)
<1>1. w.text.comps \in Comps /\ w.names \in Seq(TextType)
  BY DEF Walks, TextType, Comps
<1>2. PICK f : Flattens(f, w.names) /\ rest = w.text.comps \o f[n]
  BY DEF Behind
<1>3. n \in Nat /\ n > 0 /\ n \in 0..n /\ n \in 1..n /\ n - 1 \in 0..n
  BY <1>1
<1>4. Len(v.names) = n - 1 /\ \A i \in 1..(n - 1) : v.names[i] = w.names[i]
  BY <1>1, <1>3
<1> HIDE DEF n
<1>5. /\ f \in [0..n -> Comps] /\ f[0] = <<>>
      /\ \A i \in 1..n : f[i] = w.names[i].comps \o f[i - 1]
  BY <1>2 DEF Flattens, n
<1>6. Tail(rest) = f[n]
  <2>1. f[n] \in Comps
    BY <1>3, <1>5
  <2>2. Tail(rest) = Tail(w.text.comps) \o f[n]
    BY <1>1, <1>2, <2>1, Joined
  <2>3. <<>> \in Comps
    BY DEF Comps
  <2> QED
    BY <2>1, <2>2, <2>3, Joined
<1>7. f[n] = v.text.comps \o f[n - 1]
  BY <1>3, <1>5 DEF n
<1> DEFINE g == [i \in 0..(n - 1) |-> f[i]]
<1>8. Flattens(g, v.names)
  <2>1. \A i \in 0..(n - 1) : i \in 0..n
    BY <1>3
  <2>2. g \in [0..(n - 1) -> Comps] /\ g[0] = <<>>
    BY <1>3, <1>5, <2>1
  <2>3. ASSUME NEW i \in 1..(n - 1) PROVE g[i] = v.names[i].comps \o g[i - 1]
    <3>1. i \in 1..n /\ i \in 0..(n - 1) /\ i - 1 \in 0..(n - 1)
      BY <1>3
    <3>2. g[i] = f[i] /\ g[i - 1] = f[i - 1]
      BY <3>1
    <3>3. f[i] = w.names[i].comps \o f[i - 1]
      BY <1>5, <3>1
    <3>4. v.names[i] = w.names[i]
      BY <1>4
    <3> HIDE DEF g
    <3> QED
      BY <3>2, <3>3, <3>4
  <2> HIDE DEF g
  <2> QED
    BY <1>4, <2>2, <2>3 DEF Flattens
<1>9. Tail(rest) = v.text.comps \o g[Len(v.names)]
  <2>1. g[n - 1] = f[n - 1]
    BY <1>3
  <2> QED
    BY <1>4, <1>6, <1>7, <2>1
<1> HIDE DEF g
<1> QED
  BY <1>8, <1>9 DEF Behind

\* A nested link.
LEMMA BehindPush ==
    ASSUME NEW w \in Walks, NEW rest, Behind(w, rest), NEW v, v.names = Append(w.names, w.text)
    PROVE  Behind(v, v.text.comps \o rest)
<1> DEFINE n == Len(w.names)
<1>1. w.text.comps \in Comps /\ w.names \in Seq(TextType) /\ w.text \in TextType
  BY DEF Walks, TextType, Comps
<1>2. PICK f : Flattens(f, w.names) /\ rest = w.text.comps \o f[n]
  BY DEF Behind
<1>3. n \in Nat /\ n \in 0..n
  BY <1>1
<1>4. Len(v.names) = n + 1 /\ v.names[n + 1] = w.text /\ \A i \in 1..n : v.names[i] = w.names[i]
  BY <1>1, <1>3
<1> HIDE DEF n
<1>5. /\ f \in [0..n -> Comps] /\ f[0] = <<>>
      /\ \A i \in 1..n : f[i] = w.names[i].comps \o f[i - 1]
  BY <1>2 DEF Flattens, n
<1>6. rest \in Comps
  <2>1. f[n] \in Comps
    BY <1>3, <1>5
  <2> QED
    BY <1>1, <1>2, <2>1, Joined
<1> DEFINE g == [i \in 0..(n + 1) |-> IF i = n + 1 THEN rest ELSE f[i]]
<1>7. g \in [0..(n + 1) -> Comps] /\ g[0] = <<>> /\ g[n + 1] = rest /\ \A i \in 0..n : g[i] = f[i]
  <2>1. \A i \in 0..(n + 1) : i = n + 1 \/ i \in 0..n
    BY <1>3
  <2>2. 0 # n + 1 /\ \A i \in 0..n : i # n + 1 /\ i \in 0..(n + 1)
    BY <1>3
  <2> QED
    BY <1>3, <1>5, <1>6, <2>1, <2>2
<1> HIDE DEF g
<1>8. ASSUME NEW i \in 1..(n + 1) PROVE g[i] = v.names[i].comps \o g[i - 1]
  <2>1. CASE i = n + 1
    <3>1. i - 1 = n
      BY <1>3, <2>1
    <3> QED
      BY <1>2, <1>3, <1>4, <1>7, <2>1, <3>1
  <2>2. CASE i # n + 1
    <3>1. i \in 1..n /\ i \in 0..n /\ i - 1 \in 0..n
      BY <1>3, <2>2
    <3>2. f[i] = w.names[i].comps \o f[i - 1]
      BY <1>5, <3>1
    <3> QED
      BY <1>4, <1>7, <3>1, <3>2
  <2> QED
    BY <2>1, <2>2
<1>9. Flattens(g, v.names)
  BY <1>4, <1>7, <1>8 DEF Flattens
<1> QED
  BY <1>4, <1>7, <1>9 DEF Behind

-----------------------------------------------------------------------------
(* The walk and the resolution go together: at every step of an            *)
(* undisturbed call the walk w stands at a position p of the reference A   *)
(* from which the answer is the one X that is expected of the call.        *)

BottomSlash(w) == IF w.names = <<>> THEN w.text.slash ELSE w.names[1].slash

\* The flags of the call, and a slash behind a path that led here.
Flags(w, slashed) ==
    (w.directory <=> w.call.directory \/ slashed) /\ (w.follow <=> w.call.follow \/ slashed)

Stands(p, w, A, X) ==
    /\ p \in Position /\ ~p.odd /\ A[p] = X /\ p.dir = w.path /\ p.slash = BottomSlash(w)
    /\ p.n <= w.links /\ (w.attempt = 1 => p.n = w.links)
    /\ w.call.creat => ~p.slashed

\* The component in hand, then what is behind it.
Ahead(p, w, name) == p.comps # <<>> /\ Head(p.comps) = name /\ Behind(w, Tail(p.comps))

AtWalk(p, w) == Behind(w, p.comps) /\ Flags(w, p.slashed)

AtLast(p, w) ==
    /\ IF w.last.name = Nil THEN p.comps = <<>> /\ ~w.last.slash
       ELSE Ahead(p, w, w.last.name) /\ w.last.slash = p.slash
    /\ Flags(w, p.slashed)

AtDecide(p, w) ==
    /\ IF w.last.name = Nil THEN p.comps = <<>> /\ w.trailing
       ELSE Ahead(p, w, w.last.name) /\ (w.trailing => w.last.slash = p.slash)
    /\ Flags(w, p.slashed \/ (w.trailing /\ w.call.kind = "lookup" /\ p.slash /\ w.last.name \in Names))

AtLookup(p, w, pol) ==
    LET name == Head(p.comps)
        redirected == w.decision.act = "redirect" /\ w.pc # "redirect"
    IN  /\ name \in Names /\ Ahead(p, w, name)
        /\ w.decision = DecisionAt(pol, p.dir, name)
        /\ w.last.name = IF redirected THEN w.decision.to ELSE name
        /\ w.trailing => w.last.slash = (p.slash /\ ~redirected)
        /\ Flags(w, p.slashed \/ (w.trailing /\ IF w.call.kind = "lookup" THEN p.slash
                                               ELSE w.pc = "slow" /\ w.last.slash))
        /\ w.trailing /\ w.pc = "slow" => ~(w.last.slash /\ w.call.creat)

AtComplete(w, X) ==
    /\ X = IF w.created THEN Answer("ok", Fresh, FALSE) ELSE LastObject(w.call, w.path, w.directory, FALSE)
    /\ w.created => w.call.creat
    /\ w.call.creat => ~w.directory

AtFail(w, X) == X.err = w.err /\ X.obj = Nil /\ w.err # "ok"

AtEnd(w, X, res) ==
    \/ w.err = "ok" /\ X.err = "ok" /\ res = [err |-> "ok", obj |-> X.obj]
    \/ AtFail(w, X)
    \/ w.err = "ELOOP" /\ w.attempt > 1
    \/ w.err = "ECHILD" /\ w.attempt = 1
    \/ w.err = "ESTALE"

AtDone(w, X, res) ==
    \/ res.err = X.err /\ res.obj = X.obj
    \/ res.err = "ELOOP" /\ w.attempt > 1
    \/ res.err = "ESTALE" /\ w.attempt = 3

Simulates(w, A, X, pol, res) ==
    \/ X.odd
    \/ /\ w.pc = "walk" => \E p : Stands(p, w, A, X) /\ AtWalk(p, w)
       /\ w.pc = "last" => \E p : Stands(p, w, A, X) /\ AtLast(p, w)
       /\ w.pc = "decide" => \E p : Stands(p, w, A, X) /\ AtDecide(p, w)
       /\ w.pc \in {"redirect", "lookup", "slow"} => \E p : Stands(p, w, A, X) /\ AtLookup(p, w, pol)
       /\ w.pc = "complete" => AtComplete(w, X)
       /\ w.pc = "fail" => AtFail(w, X)
       /\ w.pc = "end" => AtEnd(w, X, res)
       /\ w.pc = "done" => AtDone(w, X, res)

World(A, ents, pol, c) == ents \in Layout /\ pol \in Policies /\ c \in Calls /\ Resolves(A, ents, pol, c)

\* An answer that a step gives, or that it leaves to the next position.
LEMMA StepAnswer ==
    ASSUME NEW A, NEW ents, NEW pol, NEW c, World(A, ents, pol, c), NEW p \in Position, NEW s,
           Onward(ents, pol, c, p) = s
    PROVE  /\ \A a : s = Ends(a) => A[p] = a
           /\ \A q : s = Goes(q) => A[p] = A[q]
<1>1. A[p] = IF s.ends THEN s.ans ELSE A[s.to]
  BY Zenon DEF World, Resolves
<1> QED
  BY <1>1 DEF Ends, Goes

\* The walk's component is the last one of the call exactly where the position says so.
LEMMA FinalIff ==
    ASSUME NEW w \in Walks, WalkOK(w), w.pc \in InComponent, NEW p \in Position, NEW name, Ahead(p, w, name)
    PROVE  Final(p) <=> w.trailing
<1>1. Behind(w, Tail(p.comps))
  BY DEF Ahead
<1>2. w.trailing => w.names = <<>> /\ w.text.comps = <<>>
  BY DEF WalkOK, NestOK, Reading, InComponent
<1>3. ~w.trailing => w.text.comps # <<>>
  BY DEF WalkOK, NestOK, Reading
<1>4. w.text.comps \in Comps
  BY DEF Walks, TextType, Comps
<1>5. w.trailing => Tail(p.comps) = <<>>
  BY <1>1, <1>2, <1>4, BehindAlone
<1>6. ~w.trailing => Tail(p.comps) # <<>>
  BY <1>1, <1>3, BehindType
<1> QED
  BY <1>5, <1>6 DEF Final

\* A slash behind a redirected or selected last name excuses the answer.
LEMMA OddAnswer ==
    ASSUME NEW A, NEW ents, NEW pol, NEW c, World(A, ents, pol, c), NEW p \in Position,
           p.comps # <<>>, Head(p.comps) \in Names,
           OddAt(c, p, DecisionAt(pol, p.dir, Head(p.comps)))
    PROVE  A[p].odd
<1> DEFINE dec == DecisionAt(pol, p.dir, Head(p.comps))
           s == Onward(ents, pol, c, p)
<1>1. ents \in Layout /\ pol \in Policies /\ c \in Calls /\ Resolves(A, ents, pol, c)
  BY DEF World
<1>2. Head(p.comps) # ".."
  BY OpenConstants
<1>3. s = Named(ents, c, p, dec)
  BY <1>2, Zenon DEF Onward
<1>4. dec \in Decision
  BY <1>1, DecisionAtType
<1>5. OddAt(c, p, dec)
  OBVIOUS
<1> HIDE DEF dec, s
<1>6. Sound(s, p, OddAt(c, p, dec))
  BY <1>1, <1>3, <1>4, NamedSound
<1>7. (\A a : s = Ends(a) => A[p] = a) /\ \A q : s = Goes(q) => A[p] = A[q]
  <2>1. Onward(ents, pol, c, p) = s
    BY DEF s
  <2> QED
    BY <2>1, StepAnswer
<1>8. CASE \E e, o : s = Ends(Answer(e, o, OddAt(c, p, dec)))
  <2>1. PICK e, o : s = Ends(Answer(e, o, OddAt(c, p, dec)))
    BY <1>8
  <2>2. A[p] = Answer(e, o, OddAt(c, p, dec))
    BY <1>7, <2>1
  <2> QED
    BY <1>5, <2>2 DEF Answer
<1>9. CASE \E q \in Position : s = Goes(q) /\ Descends(q, p) /\ q.odd = OddAt(c, p, dec)
  <2>1. PICK q \in Position : s = Goes(q) /\ q.odd = OddAt(c, p, dec)
    BY <1>9
  <2>2. A[q].odd
    BY <1>1, <1>5, <2>1, OddStays
  <2> QED
    BY <1>7, <2>1, <2>2
<1> QED
  BY <1>6, <1>8, <1>9 DEF Sound

\* At a directory the flags of the last component make no difference.
LEMMA LastDirectory ==
    ASSUME NEW c, NEW o \in Dirs, NEW f, NEW g
    PROVE  LastObject(c, o, f, FALSE) = LastObject(c, o, g, FALSE)
<1>1. o # Nil /\ o \notin Files \cup Links
  BY OpenConstants DEF Objects
<1>2. o \notin Links
  BY <1>1
<1>3. CASE c.excl
  <2>1. LastObject(c, o, f, FALSE) = Answer("EEXIST", Nil, FALSE) /\ LastObject(c, o, g, FALSE) = Answer("EEXIST", Nil, FALSE)
    BY <1>1, <1>2, <1>3 DEF LastObject
  <2> QED
    BY <2>1
<1>4. CASE ~c.excl
  BY <1>1, <1>2, <1>4 DEF LastObject
<1> QED
  BY <1>3, <1>4

\* What the walk's mode, references and stack do not disturb.
Aside == {"rcu", "root", "grabbed", "refs", "intent", "stack", "bodies", "jumped", "more", "quiet"}

\* A step that changes only these keeps the walk where the resolution is.
LEMMA SimulatesKept ==
    ASSUME NEW A, NEW X, NEW pol, NEW res, NEW w, NEW v, Keeps(v, w, Aside), Simulates(w, A, X, pol, res)
    PROVE  Simulates(v, A, X, pol, res)
<1>1. /\ v.pc = w.pc /\ v.names = w.names /\ v.text = w.text /\ v.path = w.path /\ v.call = w.call
      /\ v.links = w.links /\ v.attempt = w.attempt /\ v.last = w.last /\ v.trailing = w.trailing
      /\ v.directory = w.directory /\ v.follow = w.follow /\ v.decision = w.decision
      /\ v.created = w.created /\ v.err = w.err
  BY DEF Keeps, Fields, Aside
<1>2. \A r : Behind(v, r) <=> Behind(w, r)
  BY <1>1 DEF Behind
<1>3. \A p : Stands(p, v, A, X) <=> Stands(p, w, A, X)
  BY <1>1 DEF Stands, BottomSlash
<1>4. \A s : Flags(v, s) <=> Flags(w, s)
  BY <1>1 DEF Flags
<1>5. \A p : AtWalk(p, v) <=> AtWalk(p, w)
  BY <1>2, <1>4 DEF AtWalk
<1>6. \A p, n : Ahead(p, v, n) <=> Ahead(p, w, n)
  BY <1>2 DEF Ahead
<1>7. \A p : AtLast(p, v) <=> AtLast(p, w)
  BY <1>1, <1>4, <1>6 DEF AtLast
<1>8. \A p : AtDecide(p, v) <=> AtDecide(p, w)
  BY <1>1, <1>4, <1>6 DEF AtDecide
<1>9. \A p : AtLookup(p, v, pol) <=> AtLookup(p, w, pol)
  BY <1>1, <1>4, <1>6 DEF AtLookup
<1>10. AtComplete(v, X) <=> AtComplete(w, X)
  BY <1>1 DEF AtComplete
<1>11. (AtFail(v, X) <=> AtFail(w, X)) /\ (AtEnd(v, X, res) <=> AtEnd(w, X, res)) /\ (AtDone(v, X, res) <=> AtDone(w, X, res))
  BY <1>1 DEF AtFail, AtEnd, AtDone
<1> QED
  BY <1>1, <1>3, <1>5, <1>7, <1>8, <1>9, <1>10, <1>11 DEF Simulates

\* A walk at a position from which it has been shown to go.
LEMMA WalksOn ==
    ASSUME NEW A, NEW X, NEW pol, NEW res, NEW v, v.pc = "walk", NEW q, Stands(q, v, A, X), AtWalk(q, v)
    PROVE  Simulates(v, A, X, pol, res)
  BY DEF Simulates

\* The position behind the first component, in o.
Further(p, o) == [p EXCEPT !.dir = o, !.comps = Tail(p.comps)]

\* The ways to arrive.
LEMMA ArriveCases ==
    ASSUME NEW c, NEW p, NEW o
    PROVE  /\ Final(p) => Arrive(c, p, o, FALSE) = Ends(LastObject(c, o, c.directory \/ Slashed(p), FALSE))
           /\ ~Final(p) /\ o \in Dirs =>
                Arrive(c, p, o, FALSE) = Goes(Further(p, o))
           /\ ~Final(p) /\ o = Nil => Arrive(c, p, o, FALSE) = Error("ENOENT", FALSE)
           /\ ~Final(p) /\ o \notin Dirs /\ o # Nil => Arrive(c, p, o, FALSE) = Error("ENOTDIR", FALSE)
<1>1. o = Nil => o \notin Dirs
  BY OpenConstants DEF Objects
<1> QED
  BY <1>1 DEF Arrive, Further

\* The component leads to an object that is no link to follow.
LEMMA ArriveLands ==
    ASSUME NEW A, NEW ents, NEW pol, NEW X, NEW res, NEW w \in Walks, WalkOK(w), Tidy(w), w.pc \in InComponent,
           World(A, ents, pol, w.call), NEW p, Stands(p, w, A, X), NEW name, Ahead(p, w, name),
           NEW o \in Objects, Onward(ents, pol, w.call, p) = Arrive(w.call, p, o, FALSE),
           Flags(w, Slashed(p)) \/ (o \in Dirs /\ (~w.trailing => Flags(w, p.slashed))),
           w.trailing /\ w.call.creat => ~w.directory,
           NEW v, v.call = w.call, v.attempt = w.attempt, v.links = w.links, v.names = w.names, v.text = w.text,
           v.directory = w.directory, v.follow = w.follow, v.created = w.created, v.path = o, Lands(v, w)
    PROVE  Simulates(v, A, X, pol, res)
<1> DEFINE c == w.call
           s == Arrive(c, p, o, FALSE)
<1>0. p \in Position /\ A[p] = X /\ ~p.odd /\ c \in Calls /\ p.comps # <<>>
  BY DEF Stands, Walks, Ahead
<1>1. (\A a : s = Ends(a) => X = a) /\ \A q : s = Goes(q) => X = A[q]
  <2>1. World(A, ents, pol, c) /\ Onward(ents, pol, c, p) = s
    OBVIOUS
  <2> HIDE DEF c, s
  <2>2. (\A a : s = Ends(a) => A[p] = a) /\ \A q : s = Goes(q) => A[p] = A[q]
    BY <1>0, <2>1, StepAnswer
  <2> QED
    BY <1>0, <2>2
<1>2. Final(p) <=> w.trailing
  BY <1>0, FinalIff
<1>3. ~w.created /\ w.trailing \in BOOLEAN /\ w.directory \in BOOLEAN
  BY NotCreated DEF InComponent, Walks
<1>4. o # Nil
  BY OpenConstants
<1>5. CASE w.trailing
  <2> DEFINE m == c.directory \/ Slashed(p)
  <2>1. s = Ends(LastObject(c, o, m, FALSE))
    BY <1>2, <1>5, Zenon DEF Arrive
  <2>2. X = LastObject(c, o, m, FALSE)
    BY <1>1, <2>1
  <2>3. LastObject(c, o, m, FALSE) = LastObject(c, o, v.directory, FALSE)
    <3>1. CASE o \in Dirs
      <4> HIDE DEF m, c
      <4> QED
        BY <3>1, LastDirectory, Zenon
    <3>2. CASE Flags(w, Slashed(p))
      <4>1. c.directory \in BOOLEAN
        BY <1>0, OpenConstants DEF Call
      <4>2. v.directory = m
        BY <1>3, <3>2, <4>1 DEF Flags
      <4> QED
        BY <4>2
    <3> QED
      BY <3>1, <3>2
  <2> HIDE DEF m
  <2>4. AtComplete(v, X)
    BY <1>3, <1>5, <2>2, <2>3 DEF AtComplete
  <2>5. v.pc = "complete"
    BY <1>5 DEF Lands
  <2> QED
    BY <2>4, <2>5 DEF Simulates
<1>6. CASE ~w.trailing /\ o \in Dirs
  <2> DEFINE t == Tail(p.comps)
             q == Further(p, o)
  <2>1. s = Goes(q)
    <3>1. ~Final(p) /\ o \in Dirs
      BY <1>2, <1>6
    <3>2. ~Final(p) /\ o \in Dirs => Arrive(c, p, o, FALSE) = Goes(Further(p, o))
      <4> HIDE DEF c
      <4> QED
        BY ONLY ArriveCases
    <3> QED
      BY <3>1, <3>2, Zenon
  <2>2. X = A[q]
    BY <1>1, <2>1
  <2>3. t \in Comps
    BY <1>0, FirstComponent
  <2>4. Behind(w, t)
    BY DEF Ahead
  <2> HIDE DEF t
  <2>5. /\ q \in Position /\ q.dir = o /\ q.comps = t /\ q.slash = p.slash /\ q.slashed = p.slashed /\ q.n = p.n
        /\ q.odd = p.odd
    BY <1>0, <1>6, <2>3 DEF Position, Comps, Further, t
  <2> HIDE DEF q
  <2>6. Stands(q, v, A, X)
    BY <1>0, <2>2, <2>5 DEF Stands, BottomSlash
  <2>7. Flags(w, p.slashed)
    BY <1>2, <1>6 DEF Slashed, Flags
  <2>8. AtWalk(q, v)
    BY <2>4, <2>5, <2>7 DEF AtWalk, Behind, Flags
  <2>9. v.pc = "walk"
    BY <1>6 DEF Lands
  <2> QED
    BY <2>6, <2>8, <2>9, WalksOn
<1>7. CASE ~w.trailing /\ o \notin Dirs
  <2>1. s = Error("ENOTDIR", FALSE)
    <3>1. ~Final(p) /\ o \notin Dirs /\ o # Nil
      BY <1>2, <1>4, <1>7
    <3> QED
      BY <3>1, ArriveCases
  <2>2. X = Answer("ENOTDIR", Nil, FALSE)
    BY <1>1, <2>1 DEF Error
  <2>3. v.pc = "fail" /\ v.err = "ENOTDIR"
    BY <1>7 DEF Lands
  <2> QED
    BY <2>2, <2>3 DEF Simulates, AtFail, Answer
<1> QED
  BY <1>5, <1>6, <1>7

\* The position at the beginning of a link's body.
Replaced(p, b) ==
    [dir |-> IF b.abs THEN Root ELSE p.dir, comps |-> b.comps \o Tail(p.comps),
     slash |-> IF Final(p) THEN b.slash ELSE p.slash, slashed |-> Slashed(p), n |-> p.n + 1, odd |-> FALSE]

\* A link is one too many, leads out of a scoped lookup, or is followed.
LEMMA SubstituteCases ==
    ASSUME NEW c, NEW p \in Position, NEW b
    PROVE  /\ p.n >= MaxSymlinks => Substitute(c, p, b, FALSE) = Error("ELOOP", FALSE)
           /\ p.n < MaxSymlinks /\ b.abs /\ c.beneath => Substitute(c, p, b, FALSE) = Error("EXDEV", FALSE)
           /\ p.n < MaxSymlinks /\ ~(b.abs /\ c.beneath) => Substitute(c, p, b, FALSE) = Goes(Replaced(p, b))
<1>1. p.n >= MaxSymlinks <=> ~(p.n < MaxSymlinks)
  BY OpenConstants DEF Position
<1> QED
  BY <1>1, Zenon DEF Substitute, Replaced

\* Its fields.
LEMMA ReplacedFields ==
    ASSUME NEW p \in Position, p.comps # <<>>, NEW b \in Pathname, p.n < MaxSymlinks, NEW q, q = Replaced(p, b)
    PROVE  /\ q \in Position /\ q.dir = (IF b.abs THEN Root ELSE p.dir) /\ q.comps = b.comps \o Tail(p.comps)
           /\ q.slash = (IF Final(p) THEN b.slash ELSE p.slash) /\ q.slashed = Slashed(p) /\ q.n = p.n + 1 /\ ~q.odd
<1> DEFINE t == b.comps \o Tail(p.comps)
           d == IF b.abs THEN Root ELSE p.dir
           sl == IF Final(p) THEN b.slash ELSE p.slash
           n == p.n + 1
           sd == Slashed(p)
<1>1. b.comps \in Comps /\ Tail(p.comps) \in Comps
  BY FirstComponent DEF Pathname, Comps
<1>2. t \in Comps
  BY <1>1 DEF Comps
<1>3. d \in Dirs /\ sl \in BOOLEAN
  BY OpenConstants DEF Position, Pathname
<1>4. p.slashed \in BOOLEAN /\ p.slash \in BOOLEAN
  BY DEF Position
<1>5. sd \in BOOLEAN
  BY <1>4 DEF Slashed
<1>6. n \in 0..MaxSymlinks
  BY OpenConstants DEF Position
<1>7. q = [dir |-> d, comps |-> t, slash |-> sl, slashed |-> sd, n |-> n, odd |-> FALSE]
  BY Zenon DEF Replaced
<1> HIDE DEF t, d, sl, n, sd
<1>8. q \in Position /\ q.dir = d /\ q.comps = t /\ q.slash = sl /\ q.slashed = sd /\ q.n = n /\ ~q.odd
  BY <1>2, <1>3, <1>5, <1>6, <1>7 DEF Position, Comps
<1> QED
  BY <1>8 DEF t, d, sl, n, sd

\* The walk follows a link, and the position its body.
LEMMA FollowsBody ==
    ASSUME NEW A, NEW X, NEW pol, NEW res, NEW w \in Walks, WalkOK(w), w.pc \in InComponent,
           NEW p \in Position, NEW name, Ahead(p, w, name), NEW b \in Pathname, p.slash = BottomSlash(w),
           NEW q \in Position, q.comps = b.comps \o Tail(p.comps), b.comps # <<>>,
           q.slash = (IF Final(p) THEN b.slash ELSE p.slash),
           NEW v, v.text.comps = b.comps, v.text.slash = b.slash,
           v.names = IF w.trailing THEN <<>> ELSE Append(w.names, w.text)
    PROVE  Behind(v, q.comps) /\ q.slash = BottomSlash(v)
<1> DEFINE t == Tail(p.comps)
<1>1. b.comps \in Comps /\ w.names \in Seq(TextType) /\ w.text \in TextType
  BY DEF Pathname, Comps, Walks
<1>2. Final(p) <=> w.trailing
  BY FinalIff
<1>3. CASE w.trailing
  <2>1. t = <<>> /\ v.names = <<>> /\ q.slash = b.slash
    BY <1>2, <1>3 DEF Final
  <2>2. q.comps = b.comps
    <3>1. <<>> \in Comps
      BY DEF Comps
    <3> QED
      BY <1>1, <2>1, <3>1, Joined
  <2>3. Behind(v, q.comps)
    BY <1>1, <2>1, <2>2, BehindAlone
  <2> QED
    BY <2>1, <2>3 DEF BottomSlash
<1>4. CASE ~w.trailing
  <2>1. v.names = Append(w.names, w.text) /\ q.slash = p.slash
    BY <1>2, <1>4
  <2>2. Behind(w, t)
    BY DEF Ahead
  <2> HIDE DEF t
  <2>3. Behind(v, v.text.comps \o t)
    BY <2>1, <2>2, BehindPush
  <2>4. Behind(v, q.comps)
    BY <2>3 DEF t
  <2>5. v.names # <<>> /\ v.names[1] = IF w.names = <<>> THEN w.text ELSE w.names[1]
    BY <1>1, <2>1
  <2> QED
    BY <2>1, <2>4, <2>5 DEF BottomSlash
<1> QED
  BY <1>3, <1>4

\* An answer that is the walk's error.
LEMMA FailsAsExpected ==
    ASSUME NEW A, NEW X, NEW pol, NEW res, NEW v, v.pc \in {"fail", "end"}, AtFail(v, X)
    PROVE  Simulates(v, A, X, pol, res)
  BY DEF Simulates, AtEnd

\* The walk completes where the position has nothing left.
LEMMA CompletesAt ==
    ASSUME NEW A, NEW ents, NEW pol, NEW X, NEW res, NEW w, NEW c, w.call = c, World(A, ents, pol, c), ~w.created,
           NEW q \in Position, ~q.odd, A[q] = X, q.comps = <<>>, w.call.creat => ~w.directory,
           w.path = q.dir, w.pc = "complete"
    PROVE  Simulates(w, A, X, pol, res)
<1> DEFINE s == Ends(LastObject(c, q.dir, FALSE, FALSE))
<1>1. q.odd = FALSE /\ q.dir \in Dirs
  BY DEF Position
<1>2. Onward(ents, pol, c, q) = s
  BY <1>1, Zenon DEF Onward
<1>3. \A a : s = Ends(a) => A[q] = a
  <2> HIDE DEF s
  <2> QED
    BY <1>2, StepAnswer
<1>4. X = LastObject(c, q.dir, FALSE, FALSE)
  BY <1>3
<1>5. LastObject(c, q.dir, FALSE, FALSE) = LastObject(c, q.dir, w.directory, FALSE)
  BY <1>1, LastDirectory
<1>6. AtComplete(w, X)
  BY <1>4, <1>5 DEF AtComplete
<1> QED
  BY <1>6 DEF Simulates

\* A link in the way, or at the end and followed.
LEMMA SubstituteGoes ==
    ASSUME NEW A, NEW ents, NEW pol, NEW X, NEW res, NEW w \in Walks, WalkOK(w), Tidy(w), w.pc \in InComponent,
           World(A, ents, pol, w.call), NEW p, Stands(p, w, A, X), NEW name, Ahead(p, w, name),
           NEW b \in Pathname, Onward(ents, pol, w.call, p) = Substitute(w.call, p, b, FALSE),
           Flags(w, Slashed(p)), w.call.creat => ~Slashed(p),
           NEW v, v.call = w.call, v.attempt = w.attempt, v.links = w.links + 1,
           v.directory = w.directory, v.follow = w.follow, v.created = w.created,
           PickFails(v, w, b), PickGoes(v, w, b)
    PROVE  Simulates(v, A, X, pol, res)
<1> DEFINE c == w.call
           s == Substitute(c, p, b, FALSE)
<1>0. /\ p \in Position /\ A[p] = X /\ ~p.odd /\ c \in Calls /\ p.comps # <<>> /\ p.dir = w.path /\ p.slash = BottomSlash(w)
      /\ p.n <= w.links /\ (w.attempt = 1 => p.n = w.links)
  BY DEF Stands, Walks, Ahead
<1>1. (\A a : s = Ends(a) => X = a) /\ \A q : s = Goes(q) => X = A[q]
  <2>1. World(A, ents, pol, c) /\ Onward(ents, pol, c, p) = s
    OBVIOUS
  <2> HIDE DEF c, s
  <2>2. (\A a : s = Ends(a) => A[p] = a) /\ \A q : s = Goes(q) => A[p] = A[q]
    BY <1>0, <2>1, StepAnswer
  <2> QED
    BY <1>0, <2>2
<1>2. Final(p) <=> w.trailing
  BY <1>0, FinalIff
<1>3. ~w.created /\ w.links <= MaxSymlinks
  BY NotCreated DEF InComponent
<1>4. w.links \in Nat /\ p.n \in Nat /\ MaxSymlinks \in Nat /\ w.attempt \in 1..3
  BY <1>0, OpenConstants DEF Walks, Position
<1>5. /\ p.n >= MaxSymlinks => s = Error("ELOOP", FALSE)
      /\ p.n < MaxSymlinks /\ b.abs /\ c.beneath => s = Error("EXDEV", FALSE)
      /\ p.n < MaxSymlinks /\ ~(b.abs /\ c.beneath) => s = Goes(Replaced(p, b))
  <2> HIDE DEF c
  <2> QED
    BY <1>0, SubstituteCases, Zenon
<1>6. \A e : s = Error(e, FALSE) => X = Answer(e, Nil, FALSE)
  BY <1>1 DEF Error
<1> HIDE DEF s
<1>7. CASE LinkLimit(w)
  <2>1. v.pc = "end" /\ v.err = "ELOOP"
    BY <1>7 DEF PickFails
  <2>2. CASE w.attempt = 1
    <3>1. p.n >= MaxSymlinks
      BY <1>0, <1>4, <1>7, <2>2 DEF LinkLimit
    <3>2. X = Answer("ELOOP", Nil, FALSE)
      BY <1>5, <1>6, <3>1
    <3>3. AtFail(v, X)
      BY <2>1, <3>2 DEF AtFail, Answer
    <3> QED
      BY <2>1, <3>3, FailsAsExpected
  <2>3. CASE w.attempt # 1
    <3>1. v.attempt > 1
      BY <1>4, <2>3
    <3> QED
      BY <2>1, <3>1 DEF Simulates, AtEnd
  <2> QED
    BY <2>2, <2>3
<1>8. ASSUME ~LinkLimit(w) PROVE p.n < MaxSymlinks
  BY <1>0, <1>4, <1>8 DEF LinkLimit
<1>9. CASE ~LinkLimit(w) /\ b.abs /\ c.beneath
  <2>1. v.pc = "end" /\ v.err = "EXDEV"
    BY <1>9 DEF PickFails
  <2>2. X = Answer("EXDEV", Nil, FALSE)
    BY <1>5, <1>6, <1>8, <1>9
  <2>3. AtFail(v, X)
    BY <2>1, <2>2 DEF AtFail, Answer
  <2> QED
    BY <2>1, <2>3, FailsAsExpected
<1>10. CASE ~LinkLimit(w) /\ ~(b.abs /\ c.beneath)
  <2>0. PICK q : q = Replaced(p, b)
    OBVIOUS
  <2>1. X = A[q]
    BY <1>1, <1>5, <1>8, <1>10, <2>0
  <2>2. /\ q \in Position /\ q.dir = (IF b.abs THEN Root ELSE p.dir) /\ q.comps = b.comps \o Tail(p.comps)
        /\ q.slash = (IF Final(p) THEN b.slash ELSE p.slash) /\ q.slashed = Slashed(p) /\ q.n = p.n + 1 /\ ~q.odd
    BY <1>0, <1>8, <1>10, <2>0, ReplacedFields
  <2>3. /\ v.path = IF b.abs THEN RootOf(w) ELSE w.path
        /\ b.comps = <<>> => v.text = w.text /\ v.names = w.names /\ Lands(v, w)
        /\ b.comps # <<>> => /\ v.pc = "walk" /\ v.err = w.err /\ v.text = Text(b, w.links + 1)
                             /\ v.names = IF w.trailing THEN <<>> ELSE Append(w.names, w.text)
    BY <1>10 DEF PickGoes
  <2>4. v.path = q.dir
    <3>1. b.abs => ~w.call.beneath
      BY <1>10
    <3>2. b.abs => RootOf(w) = Root
      BY <3>1 DEF Tidy, Modes, RootOf
    <3> QED
      BY <1>0, <2>2, <2>3, <3>2
  <2>5. q.slash = BottomSlash(v) => Stands(q, v, A, X)
    <3>1. q.n <= v.links /\ (v.attempt = 1 => q.n = v.links)
      BY <1>0, <1>4, <2>2
    <3>2. v.call.creat => ~q.slashed
      BY <2>2
    <3> QED
      BY <2>1, <2>2, <2>4, <3>1, <3>2 DEF Stands
  <2>6. Flags(v, q.slashed)
    <3>1. Flags(w, q.slashed)
      BY <2>2
    <3> QED
      BY <3>1 DEF Flags
  <2>7. w.call.creat => ~w.directory
    BY <1>0, CallFlags DEF Flags
  <2>8. CASE b.comps = <<>>
    <3>1. q.comps = Tail(p.comps)
      <4>1. <<>> \in Comps
        BY DEF Comps
      <4>2. Tail(p.comps) \in Comps
        BY <1>0, FirstComponent
      <4> QED
        BY <2>2, <2>8, <4>1, <4>2, Joined
    <3>2. v.text = w.text /\ v.names = w.names /\ Lands(v, w)
      BY <2>3, <2>8
    <3>3. CASE w.trailing
      <4>1. v.pc = "complete" /\ q.comps = <<>>
        BY <1>2, <3>1, <3>2, <3>3 DEF Lands, Final
      <4>2. World(A, ents, pol, c) /\ v.call = c /\ ~v.created /\ (v.call.creat => ~v.directory)
        BY <1>3, <2>7
      <4> HIDE DEF c
      <4> QED
        BY <2>1, <2>2, <2>4, <4>1, <4>2, CompletesAt
    <3>4. CASE ~w.trailing
      <4>1. q.dir \in Dirs
        BY <2>2 DEF Position
      <4>2. v.pc = "walk"
        BY <2>4, <3>2, <3>4, <4>1 DEF Lands
      <4>3. q.slash = BottomSlash(v)
        BY <1>0, <1>2, <2>2, <3>2, <3>4 DEF BottomSlash
      <4>4. Behind(v, q.comps)
        BY <3>1, <3>2 DEF Ahead, Behind
      <4>5. AtWalk(q, v)
        BY <2>6, <4>4 DEF AtWalk
      <4> QED
        BY <2>5, <4>2, <4>3, <4>5, WalksOn
    <3> QED
      BY <3>3, <3>4
  <2>9. CASE b.comps # <<>>
    <3>1. v.text.comps = b.comps /\ v.text.slash = b.slash /\ v.pc = "walk"
      BY <2>3, <2>9 DEF Text
    <3>2. v.names = IF w.trailing THEN <<>> ELSE Append(w.names, w.text)
      BY <2>3, <2>9
    <3>3. Behind(v, q.comps) /\ q.slash = BottomSlash(v)
      BY <1>0, <2>2, <2>9, <3>1, <3>2, FollowsBody
    <3>4. AtWalk(q, v)
      BY <2>6, <3>3 DEF AtWalk
    <3> QED
      BY <2>5, <3>1, <3>3, <3>4, WalksOn
  <2> QED
    BY <2>8, <2>9
<1> QED
  BY <1>7, <1>9, <1>10

\* An entry is a link to follow or not.
LEMMA EnterCases ==
    ASSUME NEW c, NEW p, NEW o, ~(Opens(c, p) /\ c.creat /\ p.slash)
    PROVE  /\ o \in Links /\ (~Final(p) \/ c.follow \/ Slashed(p)) =>
                Enter(c, p, o, FALSE) = Substitute(c, p, Body[o], FALSE)
           /\ ~(o \in Links /\ (~Final(p) \/ c.follow \/ Slashed(p))) =>
                Enter(c, p, o, FALSE) = Arrive(c, p, o, FALSE)
  BY Zenon DEF Enter

\* There is no last component.
LEMMA LastMissing ==
    ASSUME NEW c, ~c.creat, NEW f
    PROVE  LastObject(c, Nil, f, FALSE) = Answer("ENOENT", Nil, FALSE)
<1>1. Nil \notin Dirs /\ Nil \notin Files \cup Links /\ Nil \notin Links
  BY OpenConstants DEF Objects
<1> QED
  BY <1>1 DEF LastObject

\* The walk and the position enter the same object.
LEMMA EntersAsNamed ==
    ASSUME NEW A, NEW ents, NEW pol, NEW X, NEW res, NEW w \in Walks, WalkOK(w), Tidy(w), w.pc \in InComponent,
           World(A, ents, pol, w.call), NEW p, Stands(p, w, A, X), NEW name, Ahead(p, w, name),
           NEW o \in Objects \cup {Nil}, Onward(ents, pol, w.call, p) = Enter(w.call, p, o, FALSE),
           ~(Opens(w.call, p) /\ w.call.creat /\ p.slash), Flags(w, Slashed(p)),
           o = Nil /\ w.trailing => ~w.call.creat, NEW v, Enters(v, w, o)
    PROVE  Simulates(v, A, X, pol, res)
<1> DEFINE c == w.call
           s == Arrive(c, p, o, FALSE)
<1>0. p \in Position /\ A[p] = X /\ c \in Calls /\ p.comps # <<>> /\ (c.creat => ~p.slashed)
  BY DEF Stands, Walks, Ahead
<1>1. v.call = w.call /\ v.attempt = w.attempt /\ v.directory = w.directory /\ v.follow = w.follow /\ v.created = w.created
  BY DEF Enters, Keeps, Picks, Fields
<1>2. Final(p) <=> w.trailing
  BY <1>0, FinalIff
<1>3. c.creat => ~Slashed(p)
  <2>1. c.creat => c.kind = "open"
    BY <1>0, CallFlags
  <2>2. c.creat /\ Final(p) => ~p.slash
    BY <2>1 DEF Opens
  <2> QED
    BY <1>0, <2>2 DEF Slashed
<1>4. w.follow <=> c.follow \/ Slashed(p)
  BY DEF Flags
<1>5. EntersLink(w, o) <=> o \in Links /\ (~Final(p) \/ c.follow \/ Slashed(p))
  BY <1>2, <1>4 DEF EntersLink
<1>6. CASE EntersLink(w, o)
  <2>1. Onward(ents, pol, w.call, p) = Substitute(w.call, p, Body[o], FALSE)
    BY <1>5, <1>6, EnterCases, Zenon
  <2>2. Body[o] \in Pathname
    BY <1>6, OpenConstants DEF EntersLink
  <2>3. v.links = w.links + 1 /\ PickFails(v, w, Body[o]) /\ PickGoes(v, w, Body[o])
    BY <1>6 DEF Enters
  <2> QED
    BY <1>1, <1>3, <2>1, <2>2, <2>3, SubstituteGoes
<1>7. CASE ~EntersLink(w, o)
  <2>1. Onward(ents, pol, w.call, p) = Arrive(w.call, p, o, FALSE)
    BY <1>5, <1>7, EnterCases, Zenon
  <2>2. v.links = w.links /\ v.text = w.text /\ v.names = w.names
    BY <1>7 DEF Enters
  <2>3. CASE o \in Objects
    <3>1. v.path = o /\ Lands(v, w)
      BY <1>7, <2>3 DEF Enters
    <3>2. w.trailing /\ w.call.creat => ~w.directory
      BY <1>0, <1>3, CallFlags DEF Flags
    <3> QED
      BY <1>1, <2>1, <2>2, <2>3, <3>1, <3>2, ArriveLands
  <2>4. CASE o = Nil
    <3>1. v.pc = "end" /\ v.err = "ENOENT"
      BY <2>4 DEF Enters
    <3>2. (\A a : s = Ends(a) => X = a)
      <4>1. World(A, ents, pol, c) /\ Onward(ents, pol, c, p) = s
        BY <2>1
      <4> HIDE DEF c, s
      <4>2. (\A a : s = Ends(a) => A[p] = a)
        BY <1>0, <4>1, StepAnswer
      <4> QED
        BY <1>0, <4>2
    <3>3. s = Ends(Answer("ENOENT", Nil, FALSE))
      <4>1. CASE w.trailing
        <5>1. s = Ends(LastObject(c, o, c.directory \/ Slashed(p), FALSE))
          <6> HIDE DEF c
          <6> QED
            BY <1>2, <4>1, ArriveCases, Zenon DEF s
        <5>2. ~c.creat
          BY <2>4, <4>1
        <5> HIDE DEF s, c
        <5>3. LastObject(c, Nil, c.directory \/ Slashed(p), FALSE) = Answer("ENOENT", Nil, FALSE)
          BY <5>2, LastMissing, Zenon
        <5> QED
          BY <2>4, <5>1, <5>3, Zenon
      <4>2. CASE ~w.trailing
        <5>1. s = Error("ENOENT", FALSE)
          <6> HIDE DEF c
          <6> QED
            BY <1>2, <2>4, <4>2, ArriveCases, Zenon DEF s
        <5> QED
          BY <5>1 DEF Error
      <4> QED
        BY <4>1, <4>2
    <3>4. X = Answer("ENOENT", Nil, FALSE)
      BY <3>2, <3>3
    <3>5. AtFail(v, X)
      BY <3>1, <3>4 DEF AtFail, Answer
    <3> QED
      BY <3>1, <3>5, FailsAsExpected
  <2> QED
    BY <2>3, <2>4
<1> QED
  BY <1>6, <1>7

-----------------------------------------------------------------------------
(* The simulation, action by action.  A is the resolution, ents the        *)
(* entries it is of, and X what it expects of the call.                    *)

Begins(A, X, c) ==
    X = IF c.path.abs /\ c.beneath THEN Answer("EXDEV", Nil, FALSE) ELSE A[Outset(c)]

Meets(A, ents, X) ==
    /\ TreeOK /\ nd \in Walks /\ WalkOK(nd) /\ Tidy(nd) /\ World(A, ents, policy, nd.call)
    /\ ~nd.created => \A d \in Dirs, x \in Names : ents[d][x] = fs[d][x]
    /\ Begins(A, X, nd.call) /\ ~X.odd /\ Simulates(nd, A, X, policy, result)

\* Where a call begins is a position.
LEMMA OutsetFields ==
    ASSUME NEW c \in Calls, NEW p, p = Outset(c)
    PROVE  /\ p \in Position /\ p.dir = (IF c.path.abs THEN Root ELSE Cwd) /\ p.comps = c.path.comps
           /\ p.slash = c.path.slash /\ ~p.slashed /\ p.n = 0 /\ ~p.odd
<1> DEFINE d == IF c.path.abs THEN Root ELSE Cwd
           t == c.path.comps
           sl == c.path.slash
<1>1. c.path \in Pathname
  BY OpenConstants DEF Call
<1>2. d \in Dirs /\ t \in Comps /\ sl \in BOOLEAN /\ 0 \in 0..MaxSymlinks
  BY <1>1, OpenConstants DEF Pathname, Comps
<1>3. p = [dir |-> d, comps |-> t, slash |-> sl, slashed |-> FALSE, n |-> 0, odd |-> FALSE]
  BY Zenon DEF Outset
<1> HIDE DEF d, t, sl
<1>4. p \in Position /\ p.dir = d /\ p.comps = t /\ p.slash = sl /\ ~p.slashed /\ p.n = 0 /\ ~p.odd
  BY <1>2, <1>3 DEF Position, Comps
<1> QED
  BY <1>4 DEF d, t, sl

\* path_init
LEMMA PathInitSimulates ==
    ASSUME NEW A, NEW ents, NEW X, Meets(A, ents, X), PathInit
    PROVE  Simulates(nd', A, X, policy, result')
<1>0. PICK c : c = nd.call
  OBVIOUS
<1>1. nd \in Walks /\ Tidy(nd) /\ c \in Calls /\ Begins(A, X, c)
  BY <1>0 DEF Meets, Walks
<1>2. /\ nd.pc = "init" /\ nd'.call = c /\ nd'.attempt = nd.attempt /\ nd'.links = nd.links
      /\ nd'.text = Text(c.path, 0) /\ nd'.names = <<>>
      /\ nd'.directory = c.directory /\ nd'.follow = c.follow /\ ~nd'.created
      /\ c.path.abs /\ c.beneath => nd'.pc = "end" /\ nd'.err = "EXDEV"
      /\ ~(c.path.abs /\ c.beneath) => /\ nd'.pc = "walk" /\ nd'.err = "ok"
                                       /\ nd'.path = IF c.path.abs THEN Root ELSE Cwd
  BY <1>0, <1>1, PathInitEffect
<1>3. CASE c.path.abs /\ c.beneath
  <2>1. nd'.pc = "end" /\ nd'.err = "EXDEV"
    BY <1>2, <1>3
  <2>2. X = Answer("EXDEV", Nil, FALSE)
    BY <1>1, <1>3 DEF Begins
  <2>3. AtFail(nd', X)
    BY <2>1, <2>2 DEF AtFail, Answer
  <2> QED
    BY <2>1, <2>3, FailsAsExpected
<1>4. CASE ~(c.path.abs /\ c.beneath)
  <2>0. PICK p : p = Outset(c)
    OBVIOUS
  <2>1. nd'.pc = "walk" /\ nd'.path = IF c.path.abs THEN Root ELSE Cwd
    BY <1>2, <1>4
  <2>2. X = A[p]
    BY <1>1, <1>4, <2>0 DEF Begins
  <2>3. /\ p \in Position /\ p.dir = (IF c.path.abs THEN Root ELSE Cwd) /\ p.comps = c.path.comps
        /\ p.slash = c.path.slash /\ ~p.slashed /\ p.n = 0 /\ ~p.odd
    BY <1>1, <2>0, OutsetFields
  <2>4. p.n <= nd'.links /\ (nd'.attempt = 1 => p.n = nd'.links)
    BY <1>1, <1>2, <2>3 DEF Walks, Tidy, Counted
  <2>5. nd'.text.comps = c.path.comps /\ nd'.text.slash = c.path.slash
    BY <1>2 DEF Text
  <2>6. Stands(p, nd', A, X)
    BY <1>2, <2>1, <2>2, <2>3, <2>4, <2>5 DEF Stands, BottomSlash
  <2>7. nd'.text.comps \in Comps
    BY <2>3, <2>5 DEF Position, Comps
  <2>8. Behind(nd', p.comps)
    BY <1>2, <2>3, <2>5, <2>7, BehindAlone
  <2>9. c.directory \in BOOLEAN /\ c.follow \in BOOLEAN
    BY <1>1, OpenConstants DEF Call
  <2>10. Flags(nd', p.slashed)
    BY <1>2, <2>3, <2>9 DEF Flags
  <2>11. AtWalk(p, nd')
    BY <2>8, <2>10 DEF AtWalk
  <2> QED
    BY <2>1, <2>6, <2>11, WalksOn
<1> QED
  BY <1>3, <1>4

\* An attempt is given up: the walk was lazy, or its object stale.
LEMMA GivesUp ==
    ASSUME NEW A, NEW X, NEW pol, NEW res, NEW v, v.pc = "end", (v.err = "ECHILD" /\ v.attempt = 1) \/ v.err = "ESTALE"
    PROVE  Simulates(v, A, X, pol, res)
  BY DEF Simulates, AtEnd

\* try_to_unlazy, sequence counters and stale objects.
LEMMA GivingUpSimulates ==
    ASSUME NEW A, NEW ents, NEW X, Meets(A, ents, X), TryToUnlazy \/ TryToUnlazyNext \/ RcuFails \/ Stale
    PROVE  Simulates(nd', A, X, policy, result')
<1>1. nd \in Walks /\ Tidy(nd) /\ Simulates(nd, A, X, policy, result)
  BY DEF Meets
<1>2. nd.rcu => nd.attempt = 1
  BY <1>1 DEF Tidy, Modes
<1>3. CASE Unlazy /\ nd.rcu
  <2>1. result' = result
    BY <1>3 DEF Unlazy, Walk
  <2>2. CASE Keeps(nd', nd, {"rcu", "root", "grabbed", "refs"})
    <3>1. Keeps(nd', nd, Aside)
      BY <2>2 DEF Keeps, Aside
    <3> QED
      BY <1>1, <2>1, <3>1, SimulatesKept
  <2>3. CASE Keeps(nd', nd, Unlazies) /\ nd'.pc = "end" /\ nd'.err = "ECHILD"
    <3>1. nd'.attempt = 1
      BY <1>2, <1>3, <2>3 DEF Keeps, Unlazies, Fields
    <3> QED
      BY <2>3, <3>1, GivesUp
  <2> QED
    BY <1>1, <1>3, <2>2, <2>3, UnlazyEffect
<1>4. CASE RcuFails
  <2>1. nd' = Fail(nd, "ECHILD") /\ nd.rcu
    BY <1>4 DEF RcuFails, Walk
  <2>2. Keeps(nd', nd, {"pc", "err"}) /\ nd'.pc = "end" /\ nd'.err = "ECHILD"
    BY <1>1, <2>1, FailsEffect
  <2>3. nd'.attempt = 1
    BY <1>2, <2>1, <2>2 DEF Keeps, Fields
  <2> QED
    BY <2>2, <2>3, GivesUp
<1>5. CASE Stale
  <2>1. /\ Keeps(nd', nd, {"pc", "err"}) /\ nd'.pc = "end"
        /\ nd'.err = "ESTALE" \/ (nd'.err = "ECHILD" /\ nd.attempt = 1)
    BY <1>1, <1>5, StaleEffect
  <2>2. nd'.attempt = nd.attempt
    BY <2>1 DEF Keeps, Fields
  <2> QED
    BY <2>1, <2>2, GivesUp
<1> QED
  BY <1>3, <1>4, <1>5 DEF TryToUnlazy, TryToUnlazyNext

\* terminate_walk
LEMMA TerminateSimulates ==
    ASSUME NEW A, NEW ents, NEW X, Meets(A, ents, X), Terminate
    PROVE  Simulates(nd', A, X, policy, result')
<1>1. nd \in Walks /\ ~X.odd /\ Simulates(nd, A, X, policy, result)
  BY DEF Meets
<1>2. /\ nd.pc = "end" /\ Keeps(nd', nd, Ended)
      /\ NextAttempt(nd) # 0 => nd'.pc = "init" /\ nd'.attempt = NextAttempt(nd)
      /\ NextAttempt(nd) = 0 => nd'.pc = "done" /\ nd'.attempt = nd.attempt
      /\ result' = IF nd.err = "ok" THEN result ELSE [err |-> nd.err, obj |-> Nil]
  BY <1>1, TerminateEffect
<1>3. AtEnd(nd, X, result)
  BY <1>1, <1>2 DEF Simulates
<1>4. CASE NextAttempt(nd) # 0
  BY <1>2, <1>4 DEF Simulates
<1>5. CASE NextAttempt(nd) = 0
  <2>1. nd.attempt \in 1..3
    BY <1>1 DEF Walks
  <2>2. ~(nd.err = "ECHILD" /\ nd.attempt = 1)
    BY <1>5 DEF NextAttempt
  <2>3. nd.err = "ESTALE" => ~(nd.attempt < 3)
    BY <1>5 DEF NextAttempt
  <2>4. nd.err = "ESTALE" => nd.attempt = 3
    BY <2>1, <2>3
  <2>5. AtDone(nd', X, result')
    BY <1>2, <1>3, <1>5, <2>2, <2>4 DEF AtEnd, AtDone, AtFail
  <2> QED
    BY <1>2, <1>5, <2>5 DEF Simulates
<1> QED
  BY <1>4, <1>5

\* link_path_walk
LEMMA NextComponentSimulates ==
    ASSUME NEW A, NEW ents, NEW X, Meets(A, ents, X), NextComponent
    PROVE  Simulates(nd', A, X, policy, result')
<1> DEFINE comps == nd.text.comps
           rest == Tail(comps)
<1>1. nd \in Walks /\ WalkOK(nd) /\ ~X.odd /\ Simulates(nd, A, X, policy, result)
  BY DEF Meets
<1>2. /\ nd.pc = "walk"
      /\ Keeps(nd', nd, {"last", "jumped", "text", "names", "pc", "more", "trailing"})
      /\ nd'.last.name = IF comps = <<>> THEN Nil ELSE Head(comps)
      /\ comps # <<>> => nd'.last.slash = (rest # <<>> \/ nd.text.slash)
      /\ comps = <<>> => /\ nd'.text = nd.text /\ nd'.names = nd.names /\ nd'.pc = "last"
                         /\ ~nd'.last.slash
      /\ comps # <<>> /\ rest # <<>> =>
           /\ nd'.text.comps = rest /\ nd'.text.slash = nd.text.slash /\ nd'.names = nd.names
           /\ nd'.pc = "decide" /\ ~nd'.trailing
      /\ comps # <<>> /\ rest = <<>> /\ nd.names # <<>> =>
           /\ nd'.text = nd.names[Len(nd.names)] /\ nd'.names = SubSeq(nd.names, 1, Len(nd.names) - 1)
           /\ nd'.pc = "decide" /\ ~nd'.trailing
      /\ comps # <<>> /\ rest = <<>> /\ nd.names = <<>> =>
           /\ nd'.text.comps = <<>> /\ nd'.text.slash = nd.text.slash /\ nd'.names = nd.names
           /\ nd'.pc = "last"
  BY <1>1, NextComponentEffect
<1>3. PICK p : Stands(p, nd, A, X) /\ AtWalk(p, nd)
  BY <1>1, <1>2 DEF Simulates
<1>4. p \in Position /\ Behind(nd, p.comps) /\ Flags(nd, p.slashed) /\ p.slash = BottomSlash(nd)
  BY <1>3 DEF Stands, AtWalk
<1>5. /\ nd'.path = nd.path /\ nd'.call = nd.call /\ nd'.links = nd.links /\ nd'.attempt = nd.attempt
      /\ nd'.directory = nd.directory /\ nd'.follow = nd.follow
  BY <1>2 DEF Keeps, Fields
<1>6. BottomSlash(nd') = BottomSlash(nd) => Stands(p, nd', A, X)
  BY <1>3, <1>5 DEF Stands
<1>7. Flags(nd', p.slashed)
  BY <1>4, <1>5 DEF Flags
<1>8. comps \in Comps /\ nd.names \in Seq(TextType)
  BY <1>1 DEF Walks, TextType, Comps
<1>9. ASSUME comps # <<>>
      PROVE  /\ p.comps # <<>> /\ Head(p.comps) = nd'.last.name /\ nd'.last.name # Nil
  <2>1. p.comps # <<>> /\ Head(p.comps) = Head(comps)
    BY <1>1, <1>4, <1>9, BehindType
  <2>2. Head(comps) \in Names \cup {".."}
    BY <1>8, <1>9 DEF Comps
  <2> QED
    BY <1>2, <1>9, <2>1, <2>2, OpenConstants
<1>10. CASE comps = <<>>
  <2>1. nd'.text = nd.text /\ nd'.names = nd.names /\ nd'.pc = "last" /\ ~nd'.last.slash /\ nd'.last.name = Nil
    BY <1>2, <1>10
  <2>2. nd.names = <<>>
    BY <1>1, <1>2, <1>10 DEF WalkOK, NestOK, Reading
  <2>3. p.comps = <<>>
    BY <1>4, <1>8, <1>10, <2>2, BehindAlone
  <2>4. Stands(p, nd', A, X)
    BY <1>6, <2>1 DEF BottomSlash
  <2>5. AtLast(p, nd')
    BY <1>7, <2>1, <2>3 DEF AtLast
  <2> QED
    BY <2>1, <2>4, <2>5 DEF Simulates
<1>11. ASSUME nd'.pc = "decide", ~nd'.trailing, BottomSlash(nd') = BottomSlash(nd), comps # <<>>,
              Behind(nd', Tail(p.comps))
       PROVE  Simulates(nd', A, X, policy, result')
  <2>1. Ahead(p, nd', nd'.last.name) /\ nd'.last.name # Nil
    BY <1>9, <1>11 DEF Ahead
  <2>2. Flags(nd', p.slashed \/ (nd'.trailing /\ nd'.call.kind = "lookup" /\ p.slash /\ nd'.last.name \in Names))
    BY <1>7, <1>11 DEF Flags
  <2>3. AtDecide(p, nd')
    BY <1>11, <2>1, <2>2 DEF AtDecide
  <2>4. Stands(p, nd', A, X)
    BY <1>6, <1>11
  <2> QED
    BY <1>11, <2>3, <2>4 DEF Simulates
<1>12. CASE comps # <<>> /\ rest # <<>>
  <2>1. /\ nd'.text.comps = Tail(comps) /\ nd'.text.slash = nd.text.slash /\ nd'.names = nd.names
        /\ nd'.pc = "decide" /\ ~nd'.trailing
    BY <1>2, <1>12
  <2>2. Behind(nd', Tail(p.comps))
    BY <1>1, <1>4, <1>12, <2>1, BehindNext
  <2>3. BottomSlash(nd') = BottomSlash(nd)
    BY <2>1 DEF BottomSlash
  <2> QED
    BY <1>11, <1>12, <2>1, <2>2, <2>3
<1>13. CASE comps # <<>> /\ rest = <<>> /\ nd.names # <<>>
  <2>1. /\ nd'.text = nd.names[Len(nd.names)] /\ nd'.names = SubSeq(nd.names, 1, Len(nd.names) - 1)
        /\ nd'.pc = "decide" /\ ~nd'.trailing
    BY <1>2, <1>13
  <2>2. Behind(nd', Tail(p.comps))
    BY <1>1, <1>4, <1>13, <2>1, BehindPop
  <2>3. BottomSlash(nd') = BottomSlash(nd)
    <3>0. PICK ns, n : ns = nd.names /\ n = Len(ns)
      OBVIOUS
    <3>1. ns \in Seq(TextType) /\ n \in Nat /\ n > 0 /\ ns # <<>> /\ nd'.names = SubSeq(ns, 1, n - 1)
      BY <1>8, <1>13, <2>1, <3>0
    <3>2. CASE n = 1
      <4>1. nd'.names = <<>>
        BY <3>1, <3>2
      <4> QED
        BY <1>13, <2>1, <3>0, <3>2, <4>1 DEF BottomSlash
    <3>3. CASE n > 1
      <4>1. Len(nd'.names) = n - 1 /\ nd'.names[1] = ns[1]
        BY <3>0, <3>1, <3>3
      <4>2. n - 1 # 0
        BY <3>1, <3>3
      <4>3. nd'.names # <<>>
        BY <4>1, <4>2
      <4> QED
        BY <1>13, <3>0, <4>1, <4>3 DEF BottomSlash
    <3>4. n = 1 \/ n > 1
      BY ONLY <3>1
    <3> QED
      BY <3>2, <3>3, <3>4
  <2> QED
    BY <1>11, <1>13, <2>1, <2>2, <2>3
<1>14. CASE comps # <<>> /\ rest = <<>> /\ nd.names = <<>>
  <2>1. /\ nd'.text.comps = <<>> /\ nd'.text.slash = nd.text.slash /\ nd'.names = <<>>
        /\ nd'.pc = "last"
    BY <1>2, <1>14
  <2>2. p.comps = comps
    BY <1>4, <1>8, <1>14, BehindAlone
  <2>3. <<>> \in Comps
    BY DEF Comps
  <2>4. Behind(nd', Tail(p.comps))
    BY <1>14, <2>1, <2>2, <2>3, BehindAlone
  <2>5. BottomSlash(nd') = BottomSlash(nd) /\ BottomSlash(nd) = nd.text.slash
    BY <1>14, <2>1 DEF BottomSlash
  <2>6. nd.text.slash \in BOOLEAN
    BY <1>1 DEF Walks, TextType
  <2>7. nd'.last.slash = p.slash
    BY <1>2, <1>4, <1>14, <2>5, <2>6
  <2>8. AtLast(p, nd')
    BY <1>7, <1>9, <1>14, <2>4, <2>7 DEF AtLast, Ahead
  <2>9. Stands(p, nd', A, X)
    BY <1>6, <2>5
  <2> QED
    BY <2>1, <2>8, <2>9 DEF Simulates
<1> QED
  BY <1>10, <1>12, <1>13, <1>14

\* lookup_last and the beginning of open_last_lookups.
LEMMA LastComponentSimulates ==
    ASSUME NEW A, NEW ents, NEW X, Meets(A, ents, X), LastComponent
    PROVE  Simulates(nd', A, X, policy, result')
<1> DEFINE slash == nd.call.kind = "lookup" /\ nd.last.slash /\ nd.last.name # ".."
<1>1. nd \in Walks /\ ~X.odd /\ Simulates(nd, A, X, policy, result)
  BY DEF Meets
<1>2. /\ nd.pc = "last" /\ nd'.pc = "decide" /\ nd'.trailing
      /\ Keeps(nd', nd, {"pc", "trailing", "more", "directory", "follow", "intent"})
      /\ nd'.directory = (nd.directory \/ slash) /\ nd'.follow = (nd.follow \/ slash)
  BY <1>1, LastComponentEffect
<1>3. PICK p : Stands(p, nd, A, X) /\ AtLast(p, nd)
  BY <1>1, <1>2 DEF Simulates
<1>4. /\ nd'.path = nd.path /\ nd'.call = nd.call /\ nd'.links = nd.links /\ nd'.attempt = nd.attempt
      /\ nd'.text = nd.text /\ nd'.names = nd.names /\ nd'.last = nd.last
  BY <1>2 DEF Keeps, Fields
<1>5. Stands(p, nd', A, X)
  BY <1>3, <1>4 DEF Stands, BottomSlash
<1>6. nd.last.name \in Names \cup {"..", Nil} /\ ".." \notin Names /\ Nil \notin Names /\ Nil # ".."
  BY <1>1, OpenConstants DEF Walks
<1>7. slash <=> nd.call.kind = "lookup" /\ p.slash /\ nd.last.name \in Names
  <2>1. nd.last.name = Nil => ~nd.last.slash
    BY <1>3 DEF AtLast
  <2>2. nd.last.name # Nil => nd.last.slash = p.slash
    BY <1>3 DEF AtLast
  <2> QED
    BY <1>6, <2>1, <2>2
<1>8. Flags(nd, p.slashed)
  BY <1>3 DEF AtLast
<1> HIDE DEF slash
<1>9. Flags(nd', p.slashed \/ (nd'.trailing /\ nd'.call.kind = "lookup" /\ p.slash /\ nd'.last.name \in Names))
  BY <1>2, <1>4, <1>7, <1>8 DEF Flags
<1>10. AtDecide(p, nd')
  <2>1. \A r : Behind(nd', r) <=> Behind(nd, r)
    BY <1>4 DEF Behind
  <2> QED
    BY <1>2, <1>3, <1>4, <1>9, <2>1 DEF AtLast, AtDecide, Ahead
<1> QED
  BY <1>2, <1>5, <1>10 DEF Simulates

\* The ways up.
LEMMA UpwardsCases ==
    ASSUME NEW ents, NEW pol, NEW c, NEW p \in Position, p.comps # <<>>, Head(p.comps) = "..", ~p.odd,
           NEW s, Onward(ents, pol, c, p) = s
    PROVE  /\ ~c.beneath /\ p.dir = Root => s = Arrive(c, p, Root, FALSE)
           /\ ~(c.beneath /\ p.dir = Cwd) /\ ~(~c.beneath /\ p.dir = Root) => s = Arrive(c, p, ParentOf[p.dir], FALSE)
<1>1. p.odd = FALSE
  BY DEF Position
<1>2. s = Upwards(c, p)
  BY Zenon DEF Onward
<1>4. ~c.beneath /\ p.dir = Root => Upwards(c, p) = Arrive(c, p, Root, FALSE)
  BY <1>1, Zenon DEF Upwards
<1>5. ~(c.beneath /\ p.dir = Cwd) /\ ~(~c.beneath /\ p.dir = Root) => Upwards(c, p) = Arrive(c, p, ParentOf[p.dir], FALSE)
  BY <1>1, Zenon DEF Upwards
<1> QED
  BY <1>2, <1>4, <1>5, Zenon

\* What the walk is about to step from has no flags that an O_CREAT excludes.
LEMMA CreatFlags ==
    ASSUME NEW w, w.call \in Calls, NEW f, Flags(w, f), w.call.creat => ~f
    PROVE  w.call.creat => ~w.directory
<1>1. w.call.creat => ~w.call.directory
  BY CallFlags
<1> QED
  BY <1>1 DEF Flags

\* handle_dots
LEMMA DotsSimulates ==
    ASSUME NEW A, NEW ents, NEW X, Meets(A, ents, X), Dots
    PROVE  Simulates(nd', A, X, policy, result')
<1>1. nd \in Walks /\ WalkOK(nd) /\ Tidy(nd) /\ ~X.odd /\ Simulates(nd, A, X, policy, result)
      /\ World(A, ents, policy, nd.call)
  BY DEF Meets
<1>2. /\ nd.pc = "decide" /\ nd.last.name \in {"..", Nil}
      /\ Keeps(nd', nd, Moved)
      /\ nd.last.name = Nil => nd'.path = nd.path /\ Lands(nd', nd)
      /\ nd.last.name = ".." /\ nd.path = RootOf(nd) =>
           /\ ~nd.call.beneath => nd'.path = nd.path /\ Lands(nd', nd)
           /\ nd.call.beneath => nd'.pc = "end" /\ nd'.err = IF nd.rcu THEN "ECHILD" ELSE "EXDEV"
      /\ nd.last.name = ".." /\ nd.path # RootOf(nd) => nd'.path = ParentOf[nd.path] /\ Lands(nd', nd)
  BY <1>1, DotsEffect
<1>3. PICK p : Stands(p, nd, A, X) /\ AtDecide(p, nd)
  BY <1>1, <1>2 DEF Simulates
<1>4. /\ nd'.call = nd.call /\ nd'.links = nd.links /\ nd'.attempt = nd.attempt /\ nd'.text = nd.text
      /\ nd'.names = nd.names /\ nd'.directory = nd.directory /\ nd'.follow = nd.follow /\ nd'.created = nd.created
  BY <1>2 DEF Keeps, Fields, Moved
<1>5. /\ p \in Position /\ p.dir = nd.path /\ ~p.odd /\ A[p] = X /\ nd.path \in Dirs
      /\ nd.call \in Calls /\ (nd.call.creat => ~p.slashed)
  BY <1>1, <1>3 DEF Stands, Position, Walks
<1>6. Flags(nd, p.slashed)
  <2>1. nd.last.name \notin Names
    BY <1>2, OpenConstants
  <2> QED
    BY <1>3, <2>1 DEF AtDecide, Flags
<1>7. nd.call.creat => ~nd.directory
  BY <1>5, <1>6, CreatFlags
<1>8. nd.pc \in InComponent /\ ~nd.created
  BY <1>1, <1>2, NotCreated DEF InComponent
<1>9. CASE nd.last.name = Nil
  <2>1. p.comps = <<>> /\ nd.trailing
    BY <1>3, <1>9 DEF AtDecide
  <2>2. nd'.path = nd.path /\ nd'.pc = "complete"
    BY <1>2, <1>9, <2>1 DEF Lands
  <2>3. nd'.path = p.dir /\ ~nd'.created /\ (nd'.call.creat => ~nd'.directory) /\ nd'.call = nd.call
    BY <1>4, <1>5, <1>7, <1>8, <2>2
  <2> QED
    BY <1>1, <1>5, <2>1, <2>2, <2>3, CompletesAt
<1>10. ASSUME nd.last.name = "..", NEW o \in Dirs, nd'.path = o, Lands(nd', nd),
              Onward(ents, policy, nd.call, p) = Arrive(nd.call, p, o, FALSE)
       PROVE  Simulates(nd', A, X, policy, result')
  <2>1. Ahead(p, nd, nd.last.name)
    BY <1>3, <1>10, OpenConstants DEF AtDecide
  <2>2. o \in Objects
    BY DEF Objects
  <2> QED
    BY <1>1, <1>3, <1>4, <1>6, <1>7, <1>8, <1>10, <2>1, <2>2, ArriveLands
<1>11. CASE nd.last.name = ".."
  <2>1. p.comps # <<>> /\ Head(p.comps) = ".."
    BY <1>3, <1>11, OpenConstants DEF AtDecide, Ahead
  <2>2. PICK s : Onward(ents, policy, nd.call, p) = s
    OBVIOUS
  <2>3. /\ nd.call.beneath /\ p.dir = Cwd => s = Error("EXDEV", FALSE)
        /\ ~nd.call.beneath /\ p.dir = Root => s = Arrive(nd.call, p, Root, FALSE)
        /\ ~(nd.call.beneath /\ p.dir = Cwd) /\ ~(~nd.call.beneath /\ p.dir = Root) =>
              s = Arrive(nd.call, p, ParentOf[p.dir], FALSE)
    <3>0. PICK c : c = nd.call
      OBVIOUS
    <3>1. /\ p \in Position /\ p.comps # <<>> /\ Head(p.comps) = ".." /\ ~p.odd
          /\ Onward(ents, policy, c, p) = s
      BY <1>5, <2>1, <2>2, <3>0
    <3>2. c.beneath /\ p.dir = Cwd => s = Error("EXDEV", FALSE)
      <4>1. p.odd = FALSE
        BY <3>1 DEF Position
      <4>2. Upwards(c, p) = s
        BY <2>1, <3>1, Zenon DEF Onward
      <4> QED
        BY <4>1, <4>2, Zenon DEF Upwards
    <3>3. ~c.beneath /\ p.dir = Root => s = Arrive(c, p, Root, FALSE)
      BY ONLY <3>1, UpwardsCases
    <3>4. ~(c.beneath /\ p.dir = Cwd) /\ ~(~c.beneath /\ p.dir = Root) => s = Arrive(c, p, ParentOf[p.dir], FALSE)
      BY ONLY <3>1, UpwardsCases
    <3> QED
      BY <3>0, <3>2, <3>3, <3>4
  <2>4. nd.call.beneath => RootOf(nd) = Cwd
    <3>1. nd.call.beneath => nd.root = Cwd
      BY <1>1, <1>2 DEF WalkOK, PlaceOK, Reading, InComponent
    <3> QED
      BY <3>1, OpenConstants DEF RootOf, Objects
  <2>5. ~nd.call.beneath => RootOf(nd) = Root
    BY <1>1 DEF Tidy, Modes, RootOf
  <2>6. ParentOf[nd.path] \in Dirs /\ Root \in Dirs
    BY <1>5, OpenConstants
  <2>7. CASE nd.call.beneath /\ nd.path = Cwd
    <3>1. nd'.pc = "end" /\ nd'.err = IF nd.rcu THEN "ECHILD" ELSE "EXDEV"
      BY <1>2, <1>11, <2>4, <2>7
    <3>2. CASE nd.rcu
      <4>1. nd'.attempt = 1 /\ nd'.err = "ECHILD"
        BY <1>1, <1>4, <3>1, <3>2 DEF Tidy, Modes
      <4> QED
        BY <3>1, <4>1, GivesUp
    <3>3. CASE ~nd.rcu
      <4>1. s = Ends(Answer("EXDEV", Nil, FALSE))
        BY <1>5, <2>3, <2>7 DEF Error
      <4>2. \A a : s = Ends(a) => A[p] = a
        <5>1. World(A, ents, policy, nd.call) /\ p \in Position /\ Onward(ents, policy, nd.call, p) = s
          BY <1>1, <1>5, <2>2
        <5> QED
          BY ONLY <5>1, StepAnswer
      <4>3. X = Answer("EXDEV", Nil, FALSE)
        BY <1>5, <4>1, <4>2
      <4>4. nd'.err = "EXDEV"
        BY <3>1, <3>3
      <4>5. AtFail(nd', X)
        BY <4>3, <4>4 DEF AtFail, Answer
      <4> QED
        BY <3>1, <4>5, FailsAsExpected
    <3> QED
      BY <3>2, <3>3
  <2>8. CASE ~nd.call.beneath /\ nd.path = Root
    <3>1. nd'.path = Root /\ Lands(nd', nd)
      BY <1>2, <1>11, <2>5, <2>8
    <3>2. Onward(ents, policy, nd.call, p) = Arrive(nd.call, p, Root, FALSE)
      BY <1>5, <2>2, <2>3, <2>8, Zenon
    <3> QED
      BY <1>10, <1>11, <2>6, <3>1, <3>2
  <2>9. CASE ~(nd.call.beneath /\ nd.path = Cwd) /\ ~(~nd.call.beneath /\ nd.path = Root)
    <3>1. nd'.path = ParentOf[nd.path] /\ Lands(nd', nd)
      BY <1>2, <1>11, <2>4, <2>5, <2>9
    <3>2. Onward(ents, policy, nd.call, p) = Arrive(nd.call, p, ParentOf[nd.path], FALSE)
      BY <1>5, <2>2, <2>3, <2>9, Zenon
    <3> QED
      BY <1>10, <1>11, <2>6, <3>1, <3>2
  <2> QED
    BY <2>7, <2>8, <2>9
<1> QED
  BY <1>2, <1>9, <1>11

\* A step of the resolution is an error.
Refuses(s, e) == s.ends /\ s.ans.err = e /\ s.ans.obj = Nil

\* Error makes a refusal.
LEMMA ErrorRefuses == ASSUME NEW e PROVE Refuses(Error(e, FALSE), e)
  BY DEF Refuses, Error, Ends, Answer

\* What the policy's decision makes of a component.
LEMMA NamedCases ==
    ASSUME NEW ents, NEW pol \in Policies, NEW c \in Calls, NEW p \in Position, p.comps # <<>>,
           NEW n \in Names, n = Head(p.comps),
           NEW d, d = DecisionAt(pol, p.dir, n), ~OddAt(c, p, d), NEW s, Onward(ents, pol, c, p) = s
    PROVE  /\ d.act = "hide" => Refuses(s, "ENOENT")
           /\ d.act = "invalid" => Refuses(s, "EINVAL")
           /\ d.act \in {"redirect", "select"} /\ Opens(c, p) /\ c.creat => Refuses(s, "EOPNOTSUPP")
           /\ d.act = "select" /\ ~(Opens(c, p) /\ c.creat) => s = Select(c, p, d.to, FALSE)
           /\ d.act = "redirect" /\ ~(Opens(c, p) /\ c.creat) => s = Enter(c, p, ents[p.dir][d.to], FALSE)
           /\ d.act = "pass" => s = Enter(c, p, ents[p.dir][n], FALSE)
<1>1. Head(p.comps) # ".."
  BY OpenConstants
<1>2. s = Named(ents, c, p, d)
  BY <1>1, Zenon DEF Onward
<1>3. OddAt(c, p, d) = FALSE
  BY DEF OddAt
<1> DEFINE odd == OddAt(c, p, d)
           creating == Opens(c, p) /\ c.creat
<1>4. s = CASE d.act = "hide" -> Error("ENOENT", odd)
            [] d.act = "invalid" -> Error("EINVAL", odd)
            [] d.act \in {"redirect", "select"} /\ creating -> Error("EOPNOTSUPP", odd)
            [] d.act = "select" /\ ~creating -> Select(c, p, d.to, odd)
            [] d.act = "redirect" /\ ~creating -> Enter(c, p, ents[p.dir][d.to], odd)
            [] d.act = "pass" -> Enter(c, p, ents[p.dir][n], odd)
  BY <1>2, Zenon DEF Named, OddAt
<1>5. odd = FALSE
  BY <1>3
<1> HIDE DEF odd, creating
<1>6. d.act = "hide" => s = Error("ENOENT", odd)
  BY <1>4
<1>7. d.act = "invalid" => s = Error("EINVAL", odd)
  BY <1>4
<1>8. d.act \in {"redirect", "select"} /\ creating => s = Error("EOPNOTSUPP", odd)
  BY <1>4
<1>9. d.act = "select" /\ ~creating => s = Select(c, p, d.to, odd)
  BY <1>4
<1>10. d.act = "redirect" /\ ~creating => s = Enter(c, p, ents[p.dir][d.to], odd)
  BY <1>4
<1>11. d.act = "pass" => s = Enter(c, p, ents[p.dir][n], odd)
  BY <1>4
<1>12. \A e : s = Error(e, odd) => Refuses(s, e)
  BY <1>5, ErrorRefuses, Zenon
<1>13. d.act = "hide" => Refuses(s, "ENOENT")
  BY <1>6, <1>12, Zenon
<1>14. d.act = "invalid" => Refuses(s, "EINVAL")
  BY <1>7, <1>12, Zenon
<1>15. d.act \in {"redirect", "select"} /\ creating => Refuses(s, "EOPNOTSUPP")
  BY <1>8, <1>12, Zenon
<1>16. /\ d.act = "select" /\ ~creating => s = Select(c, p, d.to, FALSE)
       /\ d.act = "redirect" /\ ~creating => s = Enter(c, p, ents[p.dir][d.to], FALSE)
       /\ d.act = "pass" => s = Enter(c, p, ents[p.dir][n], FALSE)
  BY <1>5, <1>9, <1>10, <1>11, Zenon
<1> QED
  BY <1>13, <1>14, <1>15, <1>16, Zenon DEF creating

\* An open that may not be answered by a selection.
OpensFile(c, p) == Opens(c, p) /\ ~(c.directory \/ p.slashed)

Scoped(c) == c.beneath

\* The ways a selection goes.
LEMMA SelectCases ==
    ASSUME NEW c, NEW p, NEW o, NEW s, s = Select(c, p, o, FALSE)
    PROVE  /\ OpensFile(c, p) => Refuses(s, "EOPNOTSUPP")
           /\ ~OpensFile(c, p) /\ o = Nil => Refuses(s, "ENOENT")
           /\ ~OpensFile(c, p) /\ o # Nil /\ Scoped(c) => Refuses(s, "EXDEV")
           /\ ~OpensFile(c, p) /\ o # Nil /\ ~Scoped(c) /\ o \notin Dirs => Refuses(s, "ENOTDIR")
           /\ ~OpensFile(c, p) /\ ~Scoped(c) /\ o \in Dirs => s = Arrive(c, p, o, FALSE)
<1>1. o \in Dirs => o # Nil
  BY OpenConstants DEF Objects
<1>2. OpensFile(c, p) <=> Opens(c, p) /\ ~(c.directory \/ p.slashed)
  BY DEF OpensFile
<1>3. \A e : s = Error(e, FALSE) => Refuses(s, e)
  BY ErrorRefuses, Zenon
<1>4. OpensFile(c, p) => s = Error("EOPNOTSUPP", FALSE)
  BY <1>2, Zenon DEF Select
<1>5. ~OpensFile(c, p) /\ o = Nil => s = Error("ENOENT", FALSE)
  BY <1>2, Zenon DEF Select
<1>6. ~OpensFile(c, p) /\ o # Nil /\ c.beneath => s = Error("EXDEV", FALSE)
  BY <1>2, Zenon DEF Select
<1>7. ~OpensFile(c, p) /\ o # Nil /\ ~c.beneath /\ o \notin Dirs => s = Error("ENOTDIR", FALSE)
  BY <1>2, Zenon DEF Select
<1>8. ~OpensFile(c, p) /\ ~c.beneath /\ o \in Dirs => s = Arrive(c, p, o, FALSE)
  BY <1>1, <1>2, Zenon DEF Select
<1> QED
  BY <1>3, <1>4, <1>5, <1>6, <1>7, <1>8, Zenon DEF Scoped

\* A refusal is the answer.
LEMMA RefusalAnswer ==
    ASSUME NEW A, NEW ents, NEW pol, NEW c, World(A, ents, pol, c), NEW p \in Position, NEW s,
           Onward(ents, pol, c, p) = s, NEW e, Refuses(s, e)
    PROVE  A[p].err = e /\ A[p].obj = Nil
<1>1. A[p] = IF s.ends THEN s.ans ELSE A[s.to]
  BY Zenon DEF World, Resolves
<1> QED
  BY <1>1 DEF Refuses

\* The walk and a position ask the policy about the same name.
Asks(p, A, X) ==
    /\ Stands(p, nd, A, X) /\ p \in Position /\ p.comps # <<>> /\ Head(p.comps) \in Names
    /\ Head(p.comps) = nd.last.name /\ Ahead(p, nd, nd.last.name) /\ A[p] = X
    /\ DecisionFor(nd) = DecisionAt(policy, p.dir, Head(p.comps)) /\ ~OddAt(nd.call, p, DecisionFor(nd))
    /\ Final(p) <=> nd.trailing
    /\ nd.intent <=> Opens(nd.call, p)
    /\ nd.trailing => nd.last.slash = p.slash
    /\ Flags(nd, p.slashed \/ (nd.trailing /\ nd.call.kind = "lookup" /\ p.slash))

\* Before the policy is asked there is such a position.
LEMMA AsksPolicy ==
    ASSUME NEW A, NEW ents, NEW X, Meets(A, ents, X), nd.pc = "decide", nd.last.name \in Names
    PROVE  \E p : Asks(p, A, X)
<1>1. /\ nd \in Walks /\ WalkOK(nd) /\ Tidy(nd) /\ ~X.odd /\ Simulates(nd, A, X, policy, result)
      /\ World(A, ents, policy, nd.call)
  BY DEF Meets
<1>2. PICK p : Stands(p, nd, A, X) /\ AtDecide(p, nd)
  BY <1>1 DEF Simulates
<1>3. nd.last.name # Nil
  BY OpenConstants
<1>4. Ahead(p, nd, nd.last.name) /\ (nd.trailing => nd.last.slash = p.slash)
  BY <1>2, <1>3 DEF AtDecide
<1>5. p \in Position /\ p.dir = nd.path /\ A[p] = X
  BY <1>2 DEF Stands
<1>6. p.comps # <<>> /\ Head(p.comps) = nd.last.name
  BY <1>4 DEF Ahead
<1>7. DecisionFor(nd) = DecisionAt(policy, p.dir, Head(p.comps))
  BY <1>5, <1>6 DEF DecisionFor, DecisionAt
<1>8. ~OddAt(nd.call, p, DecisionFor(nd))
  <2> SUFFICES ASSUME OddAt(nd.call, p, DecisionAt(policy, p.dir, Head(p.comps))) PROVE FALSE
    BY <1>7
  <2>1. A[p].odd
    BY <1>1, <1>5, <1>6, OddAnswer
  <2> QED
    BY <1>1, <1>5, <2>1
<1>9. Final(p) <=> nd.trailing
  <2>1. nd.pc \in InComponent
    BY DEF InComponent
  <2> QED
    BY <1>1, <1>4, <1>5, <2>1, FinalIff
<1>10. nd.intent <=> Opens(nd.call, p)
  <2>1. nd.trailing => (nd.intent <=> nd.call.kind = "open")
    BY <1>1 DEF WalkOK, DecideOK, InComponent
  <2>2. ~nd.trailing => ~nd.intent
    BY <1>1 DEF Tidy, Modes, InComponent
  <2> QED
    BY <1>9, <2>1, <2>2 DEF Opens
<1>11. Flags(nd, p.slashed \/ (nd.trailing /\ nd.call.kind = "lookup" /\ p.slash))
  BY <1>2 DEF AtDecide, Flags
<1> QED
  BY <1>2, <1>4, <1>5, <1>6, <1>7, <1>8, <1>9, <1>10, <1>11 DEF Asks

\* The policy passes or redirects.
LEMMA DecideSimulates ==
    ASSUME NEW A, NEW ents, NEW X, Meets(A, ents, X), Decide
    PROVE  Simulates(nd', A, X, policy, result')
<1>1. nd \in Walks
  BY DEF Meets
<1>2. /\ nd.pc = "decide" /\ nd.last.name \in Names /\ Keeps(nd', nd, {"decision", "pc"})
      /\ nd'.decision = DecisionFor(nd)
      /\ nd'.pc = IF nd'.decision.act = "redirect" THEN "redirect" ELSE "lookup"
  BY <1>1, DecideEffect
<1>3. PICK p : Asks(p, A, X)
  BY <1>2, AsksPolicy
<1>4. /\ nd'.path = nd.path /\ nd'.call = nd.call /\ nd'.links = nd.links /\ nd'.attempt = nd.attempt
      /\ nd'.text = nd.text /\ nd'.names = nd.names /\ nd'.last = nd.last /\ nd'.trailing = nd.trailing
      /\ nd'.directory = nd.directory /\ nd'.follow = nd.follow
  BY <1>2 DEF Keeps, Fields
<1>5. Stands(p, nd', A, X)
  BY <1>3, <1>4 DEF Asks, Stands, BottomSlash
<1>6. Ahead(p, nd', Head(p.comps)) /\ Head(p.comps) \in Names
  BY <1>3, <1>4 DEF Asks, Ahead, Behind
<1>7. nd'.decision = DecisionAt(policy, p.dir, Head(p.comps))
  BY <1>2, <1>3 DEF Asks
<1>8. ~(nd'.decision.act = "redirect" /\ nd'.pc # "redirect") /\ nd'.pc # "slow"
  BY <1>2
<1>9. nd'.last.name = Head(p.comps) /\ (nd'.trailing => nd'.last.slash = p.slash) /\ p.slash \in BOOLEAN
  BY <1>3, <1>4 DEF Asks, Position
<1>10. Flags(nd', p.slashed \/ (nd'.trailing /\ IF nd'.call.kind = "lookup" THEN p.slash
                                               ELSE nd'.pc = "slow" /\ nd'.last.slash))
  BY <1>3, <1>4, <1>8 DEF Asks, Flags
<1>11. AtLookup(p, nd', policy)
  BY <1>6, <1>7, <1>8, <1>9, <1>10 DEF AtLookup
<1>12. nd'.pc \in {"redirect", "lookup"}
  BY <1>2
<1> QED
  BY <1>5, <1>11, <1>12 DEF Simulates

\* It refuses.
LEMMA PolicyFailsSimulates ==
    ASSUME NEW A, NEW ents, NEW X, Meets(A, ents, X), PolicyFails
    PROVE  Simulates(nd', A, X, policy, result')
<1>1. nd \in Walks /\ World(A, ents, policy, nd.call) /\ policy \in Policies /\ nd.call \in Calls
  BY DEF Meets, World
<1>2. PICK d : d = DecisionFor(nd)
  OBVIOUS
<1>3. /\ nd.pc = "decide" /\ nd.last.name \in Names
      /\ nd'.pc = "fail" /\ nd'.err = PolicyError(nd, d) /\ nd'.err # "ok"
  BY <1>1, <1>2, PolicyFailsEffect
<1>4. PICK p : Asks(p, A, X)
  BY <1>3, AsksPolicy
<1>5. PICK s : Onward(ents, policy, nd.call, p) = s
  OBVIOUS
<1>6. /\ p \in Position /\ p.comps # <<>> /\ Head(p.comps) \in Names /\ A[p] = X
      /\ d = DecisionAt(policy, p.dir, Head(p.comps)) /\ ~OddAt(nd.call, p, d)
  BY <1>2, <1>4 DEF Asks
<1>7. /\ d.act = "hide" => Refuses(s, "ENOENT")
      /\ d.act = "invalid" => Refuses(s, "EINVAL")
      /\ d.act \in {"redirect", "select"} /\ Opens(nd.call, p) /\ nd.call.creat => Refuses(s, "EOPNOTSUPP")
      /\ d.act = "select" /\ ~(Opens(nd.call, p) /\ nd.call.creat) => s = Select(nd.call, p, d.to, FALSE)
  BY <1>1, <1>5, <1>6, NamedCases
<1>8. Creating(nd) <=> Opens(nd.call, p) /\ nd.call.creat
  BY <1>4 DEF Asks, Creating
<1>9. Opening(nd) <=> Opens(nd.call, p) /\ ~(nd.call.directory \/ p.slashed)
  <2>1. nd.intent <=> Opens(nd.call, p)
    BY <1>4 DEF Asks
  <2>2. Opens(nd.call, p) => (nd.directory <=> nd.call.directory \/ p.slashed)
    BY <1>4 DEF Asks, Flags, Opens
  <2> QED
    BY <2>1, <2>2 DEF Opening
<1>10. Refuses(s, nd'.err)
  <2>1. CASE d.act = "hide"
    <3>1. nd'.err = "ENOENT"
      BY <1>3, <2>1 DEF PolicyError
    <3> QED
      BY <1>7, <2>1, <3>1
  <2>2. CASE d.act = "invalid"
    <3>1. nd'.err = "EINVAL"
      BY <1>3, <2>2 DEF PolicyError
    <3> QED
      BY <1>7, <2>2, <3>1
  <2>3. CASE d.act = "redirect"
    <3>1. Creating(nd) /\ nd'.err = "EOPNOTSUPP"
      BY <1>3, <2>3 DEF PolicyError
    <3> QED
      BY <1>7, <1>8, <2>3, <3>1
  <2>4. CASE d.act = "select" /\ Creating(nd)
    <3>1. nd'.err = "EOPNOTSUPP"
      BY <1>3, <2>4 DEF PolicyError
    <3> QED
      BY <1>7, <1>8, <2>4, <3>1
  <2>5. CASE d.act = "select" /\ ~Creating(nd)
    <3>1. s = Select(nd.call, p, d.to, FALSE)
      BY <1>7, <1>8, <2>5
    <3>2. /\ OpensFile(nd.call, p) => Refuses(s, "EOPNOTSUPP")
          /\ ~OpensFile(nd.call, p) /\ d.to = Nil => Refuses(s, "ENOENT")
      BY <3>1, SelectCases, Zenon
    <3>3. OpensFile(nd.call, p) <=> Opening(nd)
      BY <1>9 DEF OpensFile
    <3>4. CASE Opening(nd)
      <4>1. nd'.err = "EOPNOTSUPP"
        BY <1>3, <2>5, <3>4 DEF PolicyError
      <4> QED
        BY <3>2, <3>3, <3>4, <4>1
    <3>5. CASE ~Opening(nd)
      <4>1. d.to = Nil /\ nd'.err = "ENOENT"
        BY <1>3, <2>5, <3>5 DEF PolicyError
      <4> QED
        BY <3>2, <3>3, <3>5, <4>1
    <3> QED
      BY <3>4, <3>5
  <2>6. CASE d.act \notin {"hide", "invalid", "redirect", "select"}
    <3>1. nd'.err = "ok"
      BY <1>3, <2>6 DEF PolicyError
    <3> QED
      BY <1>3, <3>1
  <2> QED
    BY <2>1, <2>2, <2>3, <2>4, <2>5, <2>6
<1>11. A[p].err = nd'.err /\ A[p].obj = Nil
  BY <1>1, <1>5, <1>6, <1>10, RefusalAnswer
<1>12. AtFail(nd', X)
  BY <1>3, <1>6, <1>11 DEF AtFail
<1> QED
  BY <1>3, <1>12, FailsAsExpected

\* An error in ref-walk.
LEMMA FailRefSimulates ==
    ASSUME NEW A, NEW ents, NEW X, Meets(A, ents, X), FailRef
    PROVE  Simulates(nd', A, X, policy, result')
<1>1. nd \in Walks /\ ~X.odd /\ Simulates(nd, A, X, policy, result)
  BY DEF Meets
<1>2. nd.pc = "fail" /\ Keeps(nd', nd, {"pc"}) /\ nd'.pc = "end"
  BY <1>1, FailRefEffect
<1>3. AtFail(nd, X) /\ nd'.err = nd.err
  BY <1>1, <1>2 DEF Simulates, Keeps, Fields
<1>4. AtFail(nd', X)
  BY <1>3 DEF AtFail
<1> QED
  BY <1>2, <1>4, FailsAsExpected

\* namei_ext_apply_target
LEMMA ApplyTargetSimulates ==
    ASSUME NEW A, NEW ents, NEW X, Meets(A, ents, X), ApplyTarget
    PROVE  Simulates(nd', A, X, policy, result')
<1>1. /\ nd \in Walks /\ WalkOK(nd) /\ Tidy(nd) /\ World(A, ents, policy, nd.call)
      /\ policy \in Policies /\ nd.call \in Calls
  BY DEF Meets, World
<1>2. PICK d, e : d = DecisionFor(nd) /\ e = ApplyTargetError(nd, d.to)
  OBVIOUS
<1>3. /\ nd.pc = "decide" /\ nd.last.name \in Names /\ d.act = "select" /\ PolicyError(nd, d) = "ok"
      /\ Keeps(nd', nd, {"decision", "refs", "path", "jumped", "stack", "bodies", "pc", "err"})
      /\ e # "ok" => nd'.pc = "end" /\ nd'.err = e
      /\ e = "ok" => nd'.path = d.to /\ Lands(nd', nd)
  BY <1>1, <1>2, ApplyTargetEffect
<1>4. PICK p : Asks(p, A, X)
  BY <1>3, AsksPolicy
<1>5. PICK s : Onward(ents, policy, nd.call, p) = s
  OBVIOUS
<1>6. /\ p \in Position /\ p.comps # <<>> /\ Head(p.comps) \in Names /\ A[p] = X
      /\ d = DecisionAt(policy, p.dir, Head(p.comps)) /\ ~OddAt(nd.call, p, d)
  BY <1>2, <1>4 DEF Asks
<1>7. ~Creating(nd) /\ ~Opening(nd) /\ d.to # Nil
  BY <1>3 DEF PolicyError
<1>8. ~(Opens(nd.call, p) /\ nd.call.creat)
  BY <1>4, <1>7 DEF Asks, Creating
<1>9. ~(Opens(nd.call, p) /\ ~(nd.call.directory \/ p.slashed))
  <2>1. nd.intent <=> Opens(nd.call, p)
    BY <1>4 DEF Asks
  <2>2. Opens(nd.call, p) => (nd.directory <=> nd.call.directory \/ p.slashed)
    BY <1>4 DEF Asks, Flags, Opens
  <2> QED
    BY <1>7, <2>1, <2>2 DEF Opening
<1>10. s = Select(nd.call, p, d.to, FALSE)
  BY <1>1, <1>3, <1>5, <1>6, <1>8, NamedCases
<1>11. ~OpensFile(nd.call, p)
  BY <1>9 DEF OpensFile
<1>12. /\ nd.call.beneath => Refuses(s, "EXDEV")
       /\ ~nd.call.beneath /\ d.to \notin Dirs => Refuses(s, "ENOTDIR")
       /\ ~nd.call.beneath /\ d.to \in Dirs => s = Arrive(nd.call, p, d.to, FALSE)
  <2>1. ~OpensFile(nd.call, p) /\ d.to # Nil /\ Scoped(nd.call) => Refuses(s, "EXDEV")
    <3>1. Scoped(nd.call) /\ ~OpensFile(nd.call, p) /\ d.to # Nil => s = Error("EXDEV", FALSE)
      BY <1>10, Zenon DEF Select, Scoped, OpensFile
    <3> QED
      BY <3>1, ErrorRefuses, Zenon
  <2>2. ~OpensFile(nd.call, p) /\ d.to # Nil /\ ~Scoped(nd.call) /\ d.to \notin Dirs => Refuses(s, "ENOTDIR")
    BY ONLY <1>10, SelectCases, Zenon
  <2>3. ~OpensFile(nd.call, p) /\ ~Scoped(nd.call) /\ d.to \in Dirs => s = Arrive(nd.call, p, d.to, FALSE)
    BY ONLY <1>10, SelectCases, Zenon
  <2> QED
    BY <1>7, <1>11, <2>1, <2>2, <2>3, Zenon DEF Scoped
<1>13. CASE e # "ok"
  <2>1. nd'.pc = "end" /\ nd'.err = e
    BY <1>3, <1>13
  <2>2. Refuses(s, e)
    <3>1. CASE nd.call.beneath
      <4>1. e = "EXDEV"
        BY <1>2, <3>1 DEF ApplyTargetError
      <4> QED
        BY <1>12, <3>1, <4>1
    <3>2. CASE ~nd.call.beneath
      <4>1. e = "ENOTDIR" /\ d.to \notin Dirs
        BY <1>2, <1>13, <3>2 DEF ApplyTargetError
      <4> QED
        BY <1>12, <3>2, <4>1
    <3> QED
      BY <3>1, <3>2
  <2>3. A[p].err = e /\ A[p].obj = Nil
    BY <1>1, <1>5, <1>6, <2>2, RefusalAnswer
  <2>4. AtFail(nd', X)
    BY <1>6, <1>13, <2>1, <2>3 DEF AtFail
  <2> QED
    BY <2>1, <2>4, FailsAsExpected
<1>14. CASE e = "ok"
  <2>1. ~nd.call.beneath /\ d.to \in Dirs
    BY <1>2, <1>14 DEF ApplyTargetError
  <2>2. Onward(ents, policy, nd.call, p) = Arrive(nd.call, p, d.to, FALSE)
    BY <1>5, <1>12, <2>1
  <2>3. nd'.path = d.to /\ Lands(nd', nd)
    BY <1>3, <1>14
  <2>4. /\ nd'.call = nd.call /\ nd'.links = nd.links /\ nd'.attempt = nd.attempt /\ nd'.text = nd.text
        /\ nd'.names = nd.names /\ nd'.directory = nd.directory /\ nd'.follow = nd.follow /\ nd'.created = nd.created
    BY <1>3 DEF Keeps, Fields
  <2>5. ~nd.trailing => Flags(nd, p.slashed)
    BY <1>4 DEF Asks, Flags
  <2>6. nd.trailing /\ nd.call.creat => ~nd.directory
    <3>1. nd.call.creat => nd.call.kind = "open"
      BY <1>1, CallFlags
    <3> QED
      BY <1>4, <1>8, <3>1 DEF Asks, Opens
  <2>7. Stands(p, nd, A, X) /\ Ahead(p, nd, nd.last.name) /\ nd.pc \in InComponent /\ d.to \in Objects
    BY <1>3, <1>4, <2>1 DEF Asks, InComponent, Objects
  <2> QED
    BY <1>1, <2>1, <2>2, <2>3, <2>4, <2>5, <2>6, <2>7, ArriveLands
<1> QED
  BY <1>13, <1>14

\* The walk and a position look the same name up.
Seeks(p, A, ents, X) ==
    /\ Stands(p, nd, A, X) /\ p \in Position /\ p.comps # <<>> /\ AtLookup(p, nd, policy)
    /\ Ahead(p, nd, Head(p.comps)) /\ A[p] = X
    /\ nd.decision.act \in {"pass", "redirect"} /\ ~OddAt(nd.call, p, nd.decision)
    /\ nd.decision.act = "redirect" => ~(Opens(nd.call, p) /\ nd.call.creat)
    /\ Final(p) <=> nd.trailing

\* Behind the policy there is such a position.
LEMMA SeeksName ==
    ASSUME NEW A, NEW ents, NEW X, Meets(A, ents, X), nd.pc \in {"redirect", "lookup", "slow"}
    PROVE  \E p : Seeks(p, A, ents, X)
<1>1. /\ nd \in Walks /\ WalkOK(nd) /\ Tidy(nd) /\ ~X.odd /\ Simulates(nd, A, X, policy, result)
      /\ World(A, ents, policy, nd.call)
  BY DEF Meets
<1>2. PICK p : Stands(p, nd, A, X) /\ AtLookup(p, nd, policy)
  BY <1>1 DEF Simulates
<1>3. p \in Position /\ A[p] = X
  BY <1>2 DEF Stands
<1>4. /\ Head(p.comps) \in Names /\ Ahead(p, nd, Head(p.comps))
      /\ nd.decision = DecisionAt(policy, p.dir, Head(p.comps))
  BY <1>2 DEF AtLookup
<1>5. p.comps # <<>>
  BY <1>4 DEF Ahead
<1>6. Final(p) <=> nd.trailing
  <2>1. nd.pc \in InComponent
    BY DEF InComponent
  <2> QED
    BY <1>1, <1>3, <1>4, <2>1, FinalIff
<1>7. ~OddAt(nd.call, p, nd.decision)
  <2> SUFFICES ASSUME OddAt(nd.call, p, DecisionAt(policy, p.dir, Head(p.comps))) PROVE FALSE
    BY <1>4
  <2>1. A[p].odd
    BY <1>1, <1>3, <1>4, <1>5, OddAnswer
  <2> QED
    BY <1>1, <1>3, <2>1
<1>8. nd.decision.act \in {"pass", "redirect"}
  BY <1>1 DEF WalkOK, DecideOK
<1>9. nd.trailing /\ nd.call.kind = "open" /\ nd.call.creat => nd.decision.act = "pass"
  BY <1>1 DEF WalkOK, DecideOK
<1>10. nd.decision.act = "redirect" => ~(Opens(nd.call, p) /\ nd.call.creat)
  BY <1>6, <1>9 DEF Opens
<1> QED
  BY <1>2, <1>3, <1>4, <1>5, <1>6, <1>7, <1>8, <1>10 DEF Seeks

\* The position enters what the walk finds.
Finds(ents, p) == Onward(ents, policy, nd.call, p) = Enter(nd.call, p, Found, FALSE)

\* The component that the walk looks up is entered, whether the policy passed or redirected it.
LEMMA SeeksFound ==
    ASSUME NEW A, NEW ents, NEW X, Meets(A, ents, X), nd.pc \in {"lookup", "slow"}, NEW p, Seeks(p, A, ents, X)
    PROVE  Finds(ents, p)
<1>1. /\ nd \in Walks /\ WalkOK(nd) /\ Tidy(nd) /\ World(A, ents, policy, nd.call)
      /\ policy \in Policies /\ nd.call \in Calls /\ TreeOK
      /\ ~nd.created => \A d \in Dirs, x \in Names : ents[d][x] = fs[d][x]
  BY DEF Meets, World
<1>2. ~nd.created
  BY <1>1, NotCreated
<1>3. nd.path \in Dirs /\ nd.last.name \in Names
  BY <1>1, FoundType
<1>4. /\ p \in Position /\ p.comps # <<>> /\ p.dir = nd.path /\ Head(p.comps) \in Names
      /\ nd.decision = DecisionAt(policy, p.dir, Head(p.comps)) /\ ~OddAt(nd.call, p, nd.decision)
  BY DEF Seeks, Stands, AtLookup
<1>5. PICK d, n, c, x : /\ d = nd.decision /\ n = Head(p.comps)
                        /\ c = nd.call /\ x = nd.last.name
  OBVIOUS
<1>6. p.comps # <<>> /\ n \in Names /\ n = Head(p.comps) /\ d = DecisionAt(policy, p.dir, n)
  BY <1>4, <1>5
<1>7. d.act \in {"pass", "redirect"} /\ (d.act = "redirect" => ~(Opens(c, p) /\ c.creat)) /\ ~OddAt(c, p, d)
  BY <1>5 DEF Seeks
<1>8. x = IF d.act = "redirect" THEN d.to ELSE n
  BY <1>5 DEF Seeks, AtLookup
<1>9. Onward(ents, policy, c, p) = Enter(c, p, ents[p.dir][x], FALSE)
  <2> DEFINE s == Onward(ents, policy, c, p)
             odd == OddAt(c, p, d)
             creating == Opens(c, p) /\ c.creat
  <2>1. s = Named(ents, c, p, d)
    <3>1. Head(p.comps) # ".."
      BY <1>6, OpenConstants
    <3> QED
      BY <1>6, <3>1, Zenon DEF Onward
  <2>2. s = CASE d.act = "hide" -> Error("ENOENT", odd)
              [] d.act = "invalid" -> Error("EINVAL", odd)
              [] d.act \in {"redirect", "select"} /\ creating -> Error("EOPNOTSUPP", odd)
              [] d.act = "select" /\ ~creating -> Select(c, p, d.to, odd)
              [] d.act = "redirect" /\ ~creating -> Enter(c, p, ents[p.dir][d.to], odd)
              [] d.act = "pass" -> Enter(c, p, ents[p.dir][n], odd)
    BY <1>6, <2>1, Zenon DEF Named, OddAt
  <2>3. odd = FALSE /\ (d.act = "redirect" => ~creating)
    BY <1>7 DEF OddAt
  <2> HIDE DEF s, odd, creating
  <2>4. d.act = "redirect" => s = Enter(c, p, ents[p.dir][d.to], odd)
    BY <2>2, <2>3
  <2>5. d.act = "pass" => s = Enter(c, p, ents[p.dir][n], odd)
    BY <2>2
  <2>6. CASE d.act = "redirect"
    <3>1. x = d.to
      BY <1>8, <2>6
    <3> QED
      BY <2>3, <2>4, <2>6, <3>1, Zenon DEF s
  <2>7. CASE d.act = "pass"
    <3>1. x = n
      BY <1>8, <2>7
    <3> QED
      BY <2>3, <2>5, <2>7, <3>1, Zenon DEF s
  <2> QED
    BY <1>7, <2>6, <2>7
<1>10. Found = ents[p.dir][nd.last.name]
  BY <1>1, <1>2, <1>3, <1>4 DEF Found
<1> QED
  BY <1>5, <1>9, <1>10, Zenon DEF Finds

\* namei_ext_apply_redirect
LEMMA ApplyRedirectSimulates ==
    ASSUME NEW A, NEW ents, NEW X, Meets(A, ents, X), ApplyRedirect
    PROVE  Simulates(nd', A, X, policy, result')
<1>1. nd \in Walks /\ WalkOK(nd)
  BY DEF Meets
<1>2. /\ nd.pc = "redirect" /\ Keeps(nd', nd, {"pc", "last"}) /\ nd'.pc = "lookup"
      /\ nd'.last.name = nd.decision.to /\ nd'.last.slash = FALSE
  BY <1>1, ApplyRedirectEffect
<1>3. PICK p : Seeks(p, A, ents, X)
  BY <1>2, SeeksName
<1>4. /\ nd'.path = nd.path /\ nd'.call = nd.call /\ nd'.links = nd.links /\ nd'.attempt = nd.attempt
      /\ nd'.text = nd.text /\ nd'.names = nd.names /\ nd'.decision = nd.decision /\ nd'.trailing = nd.trailing
      /\ nd'.directory = nd.directory /\ nd'.follow = nd.follow
  BY <1>2 DEF Keeps, Fields
<1>5. nd'.decision.act = "redirect"
  BY <1>1, <1>2, <1>4 DEF WalkOK, DecideOK
<1>6. Stands(p, nd', A, X)
  BY <1>3, <1>4 DEF Seeks, Stands, BottomSlash
<1>7. Ahead(p, nd', Head(p.comps)) /\ Head(p.comps) \in Names
  BY <1>3, <1>4 DEF Seeks, AtLookup, Ahead, Behind
<1>8. nd'.decision = DecisionAt(policy, p.dir, Head(p.comps))
  BY <1>3, <1>4 DEF Seeks, AtLookup
<1>9. Flags(nd', p.slashed \/ (nd'.trailing /\ IF nd'.call.kind = "lookup" THEN p.slash
                                              ELSE nd'.pc = "slow" /\ nd'.last.slash))
  <2>1. Flags(nd, p.slashed \/ (nd.trailing /\ nd.call.kind = "lookup" /\ p.slash))
    BY <1>2, <1>3 DEF Seeks, AtLookup, Flags
  <2> QED
    BY <1>2, <1>4, <2>1 DEF Flags
<1>10. nd'.last.name = nd'.decision.to /\ ~nd'.last.slash /\ nd'.pc # "redirect" /\ nd'.pc # "slow"
  BY <1>2, <1>4
<1>11. nd'.last.slash = (p.slash /\ ~(nd'.decision.act = "redirect" /\ nd'.pc # "redirect"))
  BY <1>2, <1>5
<1>12. AtLookup(p, nd', policy)
  BY <1>5, <1>7, <1>8, <1>9, <1>10, <1>11 DEF AtLookup
<1> QED
  BY <1>2, <1>6, <1>12 DEF Simulates

\* walk_component_common
LEMMA ComponentSimulates ==
    ASSUME NEW A, NEW ents, NEW X, Meets(A, ents, X), Component
    PROVE  Simulates(nd', A, X, policy, result')
<1>1. /\ TreeOK /\ nd \in Walks /\ WalkOK(nd) /\ Tidy(nd) /\ World(A, ents, policy, nd.call) /\ nd.call \in Calls
  BY DEF Meets, World
<1>2. nd.pc \in {"lookup", "slow"} /\ ~LastOfOpen /\ Enters(nd', nd, Found)
  BY <1>1, ComponentEffect
<1>3. PICK p : Seeks(p, A, ents, X)
  BY <1>2, SeeksName
<1>4. Finds(ents, p)
  BY <1>2, <1>3, SeeksFound
<1>5. Final(p) <=> nd.trailing
  BY <1>3 DEF Seeks
<1>6. nd.trailing => nd.call.kind = "lookup"
  BY <1>1, <1>2, OpenConstants DEF LastOfOpen, Call
<1>7. ~Opens(nd.call, p) /\ (nd.trailing => ~nd.call.creat)
  BY <1>1, <1>2, <1>5, <1>6, CallFlags DEF Opens, LastOfOpen
<1>8. Flags(nd, Slashed(p))
  BY <1>3, <1>5, <1>6 DEF Seeks, AtLookup, Flags, Slashed
<1>9. Stands(p, nd, A, X) /\ Ahead(p, nd, Head(p.comps)) /\ nd.pc \in InComponent /\ Found \in Objects \cup {Nil}
  BY <1>1, <1>2, <1>3, FoundType DEF Seeks, InComponent
<1> QED
  BY <1>1, <1>2, <1>4, <1>7, <1>8, <1>9, EntersAsNamed DEF Finds

\* A miss in the cache.
LEMMA CacheMissSimulates ==
    ASSUME NEW A, NEW ents, NEW X, Meets(A, ents, X), CacheMiss
    PROVE  Simulates(nd', A, X, policy, result')
<1>1. nd \in Walks /\ nd.call \in Calls
  BY DEF Meets, World
<1>2. /\ nd.pc = "lookup" /\ nd'.pc = "slow" /\ Keeps(nd', nd, {"pc", "directory", "follow"})
      /\ ~(LastOfOpen /\ nd.call.creat /\ nd.last.slash)
      /\ LastOfOpen => /\ nd'.directory = (nd.directory \/ nd.last.slash)
                       /\ nd'.follow = (nd.follow \/ nd.last.slash)
      /\ ~LastOfOpen => nd'.directory = nd.directory /\ nd'.follow = nd.follow
  BY <1>1, CacheMissEffect
<1>3. PICK p : Seeks(p, A, ents, X)
  BY <1>2, SeeksName
<1>4. /\ nd'.path = nd.path /\ nd'.call = nd.call /\ nd'.links = nd.links /\ nd'.attempt = nd.attempt
      /\ nd'.text = nd.text /\ nd'.names = nd.names /\ nd'.decision = nd.decision /\ nd'.trailing = nd.trailing
      /\ nd'.last = nd.last
  BY <1>2 DEF Keeps, Fields
<1>5. Stands(p, nd', A, X)
  BY <1>3, <1>4 DEF Seeks, Stands, BottomSlash
<1>6. Ahead(p, nd', Head(p.comps)) /\ Head(p.comps) \in Names
  BY <1>3, <1>4 DEF Seeks, AtLookup, Ahead, Behind
<1>7. /\ nd'.decision = DecisionAt(policy, p.dir, Head(p.comps))
      /\ nd'.last.name = IF nd'.decision.act = "redirect" /\ nd'.pc # "redirect" THEN nd'.decision.to ELSE Head(p.comps)
      /\ nd'.trailing => nd'.last.slash = (p.slash /\ ~(nd'.decision.act = "redirect" /\ nd'.pc # "redirect"))
  BY <1>2, <1>3, <1>4 DEF Seeks, AtLookup
<1>8. nd.call.kind \in {"lookup", "open"} /\ (nd.call.creat => nd.call.kind = "open")
  BY <1>1, OpenConstants, CallFlags DEF Call
<1>9. Flags(nd', p.slashed \/ (nd'.trailing /\ IF nd'.call.kind = "lookup" THEN p.slash
                                              ELSE nd'.pc = "slow" /\ nd'.last.slash))
  <2>1. Flags(nd, p.slashed \/ (nd.trailing /\ nd.call.kind = "lookup" /\ p.slash))
    BY <1>2, <1>3 DEF Seeks, AtLookup, Flags
  <2>2. CASE LastOfOpen
    <3>1. nd.trailing /\ nd.call.kind = "open"
      BY <2>2 DEF LastOfOpen
    <3>2. (nd'.directory <=> nd.directory \/ nd.last.slash) /\ (nd'.follow <=> nd.follow \/ nd.last.slash)
      BY <1>2, <2>2
    <3> QED
      BY <1>2, <1>4, <2>1, <3>1, <3>2 DEF Flags
  <2>3. CASE ~LastOfOpen
    <3>1. nd.trailing => nd.call.kind = "lookup"
      BY <1>8, <2>3 DEF LastOfOpen
    <3>2. nd'.directory = nd.directory /\ nd'.follow = nd.follow
      BY <1>2, <2>3
    <3> QED
      BY <1>2, <1>4, <2>1, <3>1, <3>2 DEF Flags
  <2> QED
    BY <2>2, <2>3
<1>10. nd'.trailing => ~(nd'.last.slash /\ nd'.call.creat)
  BY <1>2, <1>4, <1>8 DEF LastOfOpen
<1>11. AtLookup(p, nd', policy)
  BY <1>2, <1>6, <1>7, <1>9, <1>10 DEF AtLookup
<1> QED
  BY <1>2, <1>5, <1>11 DEF Simulates

\* A trailing slash and O_CREAT.
LEMMA OpenSlashSimulates ==
    ASSUME NEW A, NEW ents, NEW X, Meets(A, ents, X), OpenSlash
    PROVE  Simulates(nd', A, X, policy, result')
<1>1. nd \in Walks /\ World(A, ents, policy, nd.call)
  BY DEF Meets
<1>2. nd.pc = "lookup" /\ LastOfOpen /\ nd.call.creat /\ nd.last.slash /\ nd' = Fail(nd, "EISDIR")
  BY DEF OpenSlash, Walk
<1>3. nd'.pc = "end" /\ nd'.err = "EISDIR"
  BY <1>1, <1>2, WalkFields, FailKeeps
<1>4. PICK p : Seeks(p, A, ents, X)
  BY <1>2, SeeksName
<1>5. Finds(ents, p)
  BY <1>2, <1>4, SeeksFound
<1>6. Opens(nd.call, p) /\ nd.call.creat /\ p.slash /\ p \in Position /\ A[p] = X
  BY <1>2, <1>4 DEF Seeks, AtLookup, Opens, LastOfOpen
<1>7. PICK s : Onward(ents, policy, nd.call, p) = s
  OBVIOUS
<1>8. s = Error("EISDIR", FALSE)
  BY <1>5, <1>6, <1>7, Zenon DEF Finds, Enter
<1>9. Refuses(s, "EISDIR")
  BY <1>8, ErrorRefuses, Zenon
<1>10. A[p].err = "EISDIR" /\ A[p].obj = Nil
  BY <1>1, <1>6, <1>7, <1>9, RefusalAnswer
<1>11. AtFail(nd', X)
  BY <1>3, <1>6, <1>10 DEF AtFail
<1> QED
  BY <1>3, <1>11, FailsAsExpected

\* open_last_lookups finds the last component.
LEMMA OpenFoundSimulates ==
    ASSUME NEW A, NEW ents, NEW X, Meets(A, ents, X), OpenFound
    PROVE  Simulates(nd', A, X, policy, result')
<1>1. /\ TreeOK /\ nd \in Walks /\ WalkOK(nd) /\ Tidy(nd) /\ World(A, ents, policy, nd.call) /\ nd.call \in Calls
  BY DEF Meets, World
<1>2. /\ nd.pc \in {"lookup", "slow"} /\ LastOfOpen
      /\ nd.pc = "lookup" => ~nd.call.excl /\ ~(nd.call.creat /\ (nd.last.slash \/ Found = Nil))
      /\ nd.pc = "slow" => Found # Nil \/ ~nd.call.creat
      /\ \E s : /\ Enters(s, OpenFlags(nd), Found)
                /\ Keeps(nd', s, {"intent"}) /\ nd'.intent = (s.pc # "walk")
  BY <1>1, OpenFoundEffect
<1>3. PICK w : w = OpenFlags(nd)
  OBVIOUS
<1>4. PICK s : Enters(s, w, Found) /\ Keeps(nd', s, {"intent"})
  BY <1>2, <1>3
<1>5. /\ Keeps(w, nd, {"directory", "follow"}) /\ (w.directory <=> nd.directory \/ nd.last.slash)
      /\ (w.follow <=> nd.follow \/ nd.last.slash)
  BY <1>1, <1>3, WalkFields, OpenFlagsKeeps
<1>6. w \in Walks /\ WalkOK(w) /\ w.pc = nd.pc
  BY <1>1, <1>3, OpenFlagsEffect, FlagsKept
<1>7. /\ w.path = nd.path /\ w.call = nd.call /\ w.links = nd.links /\ w.attempt = nd.attempt
      /\ w.text = nd.text /\ w.names = nd.names /\ w.trailing = nd.trailing /\ w.intent = nd.intent
  BY <1>5 DEF Keeps, Fields
<1>8. Tidy(w)
  <2>1. nd.pc \in Reading /\ w.pc \in Reading
    BY <1>2, <1>6 DEF Reading, InComponent
  <2>2. w.pc \in {"lookup", "slow"} /\ w.trailing
    BY <1>2, <1>6, <1>7 DEF LastOfOpen
  <2>3. Keeps(w, nd, {"pc", "err", "decision", "last", "jumped", "text", "names", "more", "trailing",
                       "directory", "follow", "intent"})
    BY <1>5 DEF Keeps
  <2> QED
    BY <1>1, <1>6, <2>1, <2>2, <2>3, TidyFlags
<1>9. PICK p : Seeks(p, A, ents, X)
  BY <1>2, SeeksName
<1>10. Finds(ents, p)
  BY <1>2, <1>9, SeeksFound
<1>11. nd.trailing /\ nd.call.kind = "open" /\ Opens(nd.call, p) /\ Final(p)
  BY <1>2, <1>9 DEF LastOfOpen, Seeks, Opens
<1>12. nd.last.slash <=> p.slash
  <2>1. nd.decision.act = "redirect" => ~p.slash
    BY <1>9, <1>11 DEF Seeks, OddAt
  <2>2. nd.last.slash = (p.slash /\ ~(nd.decision.act = "redirect" /\ nd.pc # "redirect"))
    BY <1>9, <1>11 DEF Seeks, AtLookup
  <2> QED
    BY <2>1, <2>2
<1>13. ~(nd.call.creat /\ p.slash)
  <2>1. nd.pc = "slow" => ~(nd.last.slash /\ nd.call.creat)
    BY <1>9, <1>11 DEF Seeks, AtLookup
  <2> QED
    BY <1>2, <1>12, <2>1
<1>14. Flags(w, Slashed(p))
  <2>1. Flags(nd, p.slashed \/ (nd.pc = "slow" /\ nd.last.slash))
    BY <1>9, <1>11 DEF Seeks, AtLookup, Flags
  <2> QED
    BY <1>5, <1>7, <1>11, <1>12, <2>1 DEF Flags, Slashed
<1>15. Stands(p, w, A, X)
  BY <1>7, <1>9 DEF Seeks, Stands, BottomSlash
<1>16. Ahead(p, w, Head(p.comps))
  BY <1>7, <1>9 DEF Seeks, AtLookup, Ahead, Behind
<1>17. World(A, ents, policy, w.call) /\ Onward(ents, policy, w.call, p) = Enter(w.call, p, Found, FALSE)
  BY <1>1, <1>7, <1>10 DEF Finds
<1>18. /\ w.pc \in InComponent /\ Found \in Objects \cup {Nil} /\ (Found = Nil => ~w.call.creat)
       /\ ~(Opens(w.call, p) /\ w.call.creat /\ p.slash)
  BY <1>1, <1>2, <1>6, <1>7, <1>13, FoundType DEF InComponent
<1>19. Simulates(s, A, X, policy, result')
  BY <1>4, <1>6, <1>8, <1>14, <1>15, <1>16, <1>17, <1>18, EntersAsNamed
<1>20. Keeps(nd', s, Aside)
  BY <1>4 DEF Keeps, Aside
<1> QED
  BY <1>19, <1>20, SimulatesKept

\* O_CREAT creates the last component.
LEMMA OpenCreatesSimulates ==
    ASSUME NEW A, NEW ents, NEW X, Meets(A, ents, X), OpenCreates
    PROVE  Simulates(nd', A, X, policy, result')
<1>1. nd \in Walks /\ World(A, ents, policy, nd.call) /\ nd.call \in Calls
  BY DEF Meets, World
<1>2. /\ nd.pc = "slow" /\ LastOfOpen /\ nd.call.creat /\ Found = Nil
      /\ Keeps(nd', nd, {"created", "path", "pc", "refs"})
      /\ nd'.created /\ nd'.path = Fresh /\ nd'.pc = "complete"
  BY <1>1, OpenCreatesEffect
<1>3. PICK p : Seeks(p, A, ents, X)
  BY <1>2, SeeksName
<1>4. Finds(ents, p)
  BY <1>2, <1>3, SeeksFound
<1>5. nd.trailing /\ nd.call.kind = "open" /\ Opens(nd.call, p) /\ Final(p) /\ p \in Position /\ A[p] = X
  BY <1>2, <1>3 DEF LastOfOpen, Seeks, Opens
<1>6. ~nd.last.slash /\ ~p.slash
  <2>1. nd.decision.act # "redirect"
    BY <1>2, <1>3, <1>5 DEF Seeks
  <2> QED
    BY <1>2, <1>3, <1>5, <2>1 DEF Seeks, AtLookup, Position
<1>7. ~nd.directory /\ nd'.directory = nd.directory /\ nd'.call = nd.call
  <2>1. ~p.slashed
    BY <1>2, <1>3 DEF Seeks, Stands
  <2>2. ~nd.call.directory
    BY <1>1, <1>2, CallFlags
  <2>3. nd.directory <=> nd.call.directory \/ p.slashed \/ nd.last.slash
    BY <1>2, <1>3, <1>5 DEF Seeks, AtLookup, Flags
  <2> QED
    BY <1>2, <1>6, <2>1, <2>2, <2>3 DEF Keeps, Fields
<1>8. PICK c, s : c = nd.call /\ Onward(ents, policy, c, p) = s
  OBVIOUS
<1>9. s = Arrive(c, p, Nil, FALSE)
  <2>1. Nil \notin Links /\ ~(Opens(c, p) /\ c.creat /\ p.slash)
    BY <1>6, OpenConstants DEF Objects
  <2>2. Enter(c, p, Nil, FALSE) = Arrive(c, p, Nil, FALSE)
    BY <2>1, Zenon DEF Enter
  <2> QED
    BY <1>2, <1>4, <1>8, <2>2, Zenon DEF Finds
<1>10. s = Ends(LastObject(c, Nil, c.directory \/ Slashed(p), FALSE))
  BY <1>5, <1>9, Zenon DEF Arrive
<1>11. LastObject(c, Nil, c.directory \/ Slashed(p), FALSE) = Answer("ok", Fresh, FALSE)
  <2>1. c.creat /\ Nil \notin Dirs /\ Nil \notin Files \cup Links /\ Nil \notin Links
    BY <1>2, <1>8, OpenConstants DEF Objects
  <2> QED
    BY <2>1, Zenon DEF LastObject
<1>12. A[p] = Answer("ok", Fresh, FALSE)
  <2>1. World(A, ents, policy, c) /\ p \in Position
    BY <1>1, <1>5, <1>8
  <2>2. \A a : s = Ends(a) => A[p] = a
    BY <1>8, <2>1, StepAnswer
  <2> QED
    BY <1>10, <1>11, <2>2, Zenon
<1>13. AtComplete(nd', X)
  BY <1>2, <1>5, <1>7, <1>12 DEF AtComplete
<1> QED
  BY <1>2, <1>13 DEF Simulates

\* do_open of what was not created.
OpenError(c, o, dir) ==
    IF c.creat /\ c.excl THEN "EEXIST"
    ELSE IF c.creat /\ o \in Dirs THEN "EISDIR"
    ELSE IF dir /\ o \notin Dirs THEN "ENOTDIR"
    ELSE IF o \in Links THEN "ELOOP"
    ELSE "ok"

LastIs(l, c, o, dir) == l = LastObject(c, o, dir, FALSE)

\* The answer at the last component is what do_open or path_lookupat makes of it.
LEMMA LastErrors ==
    ASSUME NEW c \in Calls, NEW o \in Objects, NEW dir \in BOOLEAN, c.creat => ~dir, NEW e,
           e = IF c.kind = "open" THEN OpenError(c, o, dir) ELSE IF dir /\ o \notin Dirs THEN "ENOTDIR" ELSE "ok",
           NEW l, LastIs(l, c, o, dir)
    PROVE  l.err = e /\ l.obj = IF e = "ok" THEN o ELSE Nil
<1> USE DEF OpenError
<1>1. /\ o # Nil /\ (c.excl => c.creat) /\ (c.creat => c.kind = "open")
  BY CallFlags, OpenConstants DEF Objects
<1>2. /\ o \in Dirs => o \notin Files /\ o \notin Links
      /\ o \in Files => o \notin Dirs /\ o \notin Links
      /\ o \in Links => o \notin Dirs /\ o \notin Files
      /\ o \in Dirs \/ o \in Files \/ o \in Links
  BY OpenConstants DEF Objects
<1>3. CASE c.excl
  <2>1. e = "EEXIST"
    BY <1>1, <1>3
  <2>2. l = Answer("EEXIST", Nil, FALSE)
    BY <1>1, <1>2, <1>3, Zenon DEF LastIs, LastObject
  <2> QED
    BY ONLY <2>1, <2>2 DEF Answer
<1>4. CASE ~c.excl /\ o \in Dirs
  <2>1. CASE c.creat
    <3>1. e = "EISDIR"
      BY <1>1, <1>4, <2>1
    <3>2. l = Answer("EISDIR", Nil, FALSE)
      BY <1>1, <1>2, <1>4, <2>1, Zenon DEF LastIs, LastObject
    <3> QED
      BY ONLY <3>1, <3>2 DEF Answer
  <2>2. CASE ~c.creat
    <3>1. e = "ok"
      BY <1>2, <1>4, <2>2
    <3>2. l = Answer("ok", o, FALSE)
      BY <1>1, <1>2, <1>4, <2>2, Zenon DEF LastIs, LastObject
    <3> QED
      BY ONLY <3>1, <3>2 DEF Answer
  <2> QED
    BY <1>4, <2>1, <2>2
<1>5. CASE ~c.excl /\ o \notin Dirs /\ dir
  <2>1. ~c.creat
    BY <1>5
  <2>2. e = "ENOTDIR"
    BY <1>5, <2>1
  <2>3. l = Answer("ENOTDIR", Nil, FALSE)
    BY <1>1, <1>2, <1>5, <2>1, Zenon DEF LastIs, LastObject
  <2> QED
    BY ONLY <2>2, <2>3 DEF Answer
<1>6. CASE ~c.excl /\ o \notin Dirs /\ ~dir /\ c.kind = "open" /\ o \in Links
  <2>1. e = "ELOOP"
    BY <1>6
  <2>2. l = Answer("ELOOP", Nil, FALSE)
    BY <1>1, <1>2, <1>6, Zenon DEF LastIs, LastObject
  <2> QED
    BY ONLY <2>1, <2>2 DEF Answer
<1>7. CASE ~c.excl /\ o \notin Dirs /\ ~dir /\ ~(c.kind = "open" /\ o \in Links)
  <2>1. e = "ok"
    BY <1>7
  <2>2. l = Answer("ok", o, FALSE)
    BY <1>1, <1>2, <1>7, Zenon DEF LastIs, LastObject
  <2> QED
    BY ONLY <2>1, <2>2 DEF Answer
<1> QED
  BY <1>3, <1>4, <1>5, <1>6, <1>7

\* complete_walk, then do_open or path_lookupat.
LEMMA CompleteSimulates ==
    ASSUME NEW A, NEW ents, NEW X, Meets(A, ents, X), Complete
    PROVE  Simulates(nd', A, X, policy, result')
<1>1. /\ nd \in Walks /\ WalkOK(nd) /\ Tidy(nd) /\ nd.call \in Calls /\ ~X.odd /\ Simulates(nd, A, X, policy, result)
  BY DEF Meets, World
<1>2. PICK e : e = CompleteError(nd)
  OBVIOUS
<1>3. /\ nd.pc = "complete" /\ nd'.pc = "end" /\ nd'.err = e
      /\ result' = [err |-> e, obj |-> IF e = "ok" THEN nd.path ELSE Nil]
  BY <1>1, <1>2, CompleteEffect
<1>4. AtComplete(nd, X)
  BY <1>1, <1>3 DEF Simulates
<1>5. nd.path \in Objects /\ nd.directory \in BOOLEAN /\ nd.created \in BOOLEAN
  BY <1>1, <1>3 DEF Tidy, Made, Walks
<1>6. CompleteWalkError(nd) = "ok"
  <2>1. nd.call.beneath /\ nd.path \in Dirs => nd.path \in UnderCwd
    BY <1>1 DEF WalkOK, PlaceOK
  <2> QED
    BY <2>1, Zenon DEF CompleteWalkError
<1>7. e = IF nd.call.kind = "open" THEN DoOpenError(nd) ELSE LookupError(nd)
  BY <1>2, <1>6 DEF CompleteError
<1>8. X.err = e /\ X.obj = IF e = "ok" THEN nd.path ELSE Nil
  <2>1. CASE nd.created
    <3>1. X = Answer("ok", Fresh, FALSE) /\ nd.call.creat /\ ~nd.directory
      BY <1>4, <2>1 DEF AtComplete
    <3>2. nd.path = Fresh /\ nd.call.kind = "open"
      BY <1>1, <1>3, <2>1, <3>1, CallFlags DEF Tidy, Made
    <3>3. Fresh \notin Dirs /\ Fresh \notin Links
      BY OpenConstants
    <3>4. e = "ok"
      BY <1>7, <2>1, <3>1, <3>2, <3>3 DEF DoOpenError
    <3> QED
      BY <3>1, <3>2, <3>4 DEF Answer
  <2>2. CASE ~nd.created
    <3>1. PICK c, o, dir : c = nd.call /\ o = nd.path /\ dir = nd.directory
      OBVIOUS
    <3>2. LastIs(X, c, o, dir) /\ (c.creat => ~dir)
      BY <1>4, <2>2, <3>1 DEF AtComplete, LastIs
    <3>3. e = IF c.kind = "open" THEN OpenError(c, o, dir) ELSE IF dir /\ o \notin Dirs THEN "ENOTDIR" ELSE "ok"
      <4>1. DoOpenError(nd) = OpenError(c, o, dir)
        BY <2>2, <3>1 DEF DoOpenError, OpenError
      <4>2. LookupError(nd) = IF dir /\ o \notin Dirs THEN "ENOTDIR" ELSE "ok"
        BY <3>1 DEF LookupError
      <4> QED
        BY <1>7, <3>1, <4>1, <4>2, Zenon
    <3>4. c \in Calls /\ o \in Objects /\ dir \in BOOLEAN
      BY <1>1, <1>5, <3>1
    <3>5. X.err = e /\ X.obj = IF e = "ok" THEN o ELSE Nil
      BY ONLY <3>2, <3>3, <3>4, LastErrors
    <3> QED
      BY <3>1, <3>5
  <2> QED
    BY <1>5, <2>1, <2>2
<1>9. AtEnd(nd', X, result')
  <2>1. CASE e = "ok"
    BY <1>3, <1>8, <2>1 DEF AtEnd
  <2>2. CASE e # "ok"
    BY <1>3, <1>8, <2>2 DEF AtEnd, AtFail
  <2> QED
    BY <2>1, <2>2
<1> QED
  BY <1>3, <1>9 DEF Simulates

\* A step of the call goes on as the resolution does.
LEMMA WalkStepSimulates ==
    ASSUME NEW A, NEW ents, NEW X, Meets(A, ents, X), WalkStep
    PROVE  Simulates(nd', A, X, policy, result')
<1>1. CASE TryToUnlazy \/ TryToUnlazyNext \/ RcuFails \/ Stale
  BY <1>1, GivingUpSimulates
<1>2. CASE PathInit
  BY <1>2, PathInitSimulates
<1>3. CASE NextComponent
  BY <1>3, NextComponentSimulates
<1>4. CASE LastComponent
  BY <1>4, LastComponentSimulates
<1>5. CASE Dots
  BY <1>5, DotsSimulates
<1>6. CASE Decide
  BY <1>6, DecideSimulates
<1>7. CASE PolicyFails
  BY <1>7, PolicyFailsSimulates
<1>8. CASE FailRef
  BY <1>8, FailRefSimulates
<1>9. CASE ApplyRedirect
  BY <1>9, ApplyRedirectSimulates
<1>10. CASE ApplyTarget
  BY <1>10, ApplyTargetSimulates
<1>11. CASE Component
  BY <1>11, ComponentSimulates
<1>12. CASE CacheMiss
  BY <1>12, CacheMissSimulates
<1>13. CASE OpenSlash
  BY <1>13, OpenSlashSimulates
<1>14. CASE OpenFound
  BY <1>14, OpenFoundSimulates
<1>15. CASE OpenCreates
  BY <1>15, OpenCreatesSimulates
<1>16. CASE Complete
  BY <1>16, CompleteSimulates
<1>17. CASE Terminate
  BY <1>17, TerminateSimulates
<1> QED
  BY <1>1, <1>2, <1>3, <1>4, <1>5, <1>6, <1>7, <1>8, <1>9, <1>10, <1>11, <1>12, <1>13, <1>14, <1>15, <1>16, <1>17
     DEF WalkStep

\* The call and whether it is disturbed are the same in all its steps.
LEMMA SameCall ==
    ASSUME TreeOK, nd \in Walks, WalkOK(nd), WalkStep
    PROVE  nd'.call = nd.call /\ nd'.quiet = nd.quiet
<1>1. CASE TryToUnlazy \/ TryToUnlazyNext
  BY <1>1, UnlazyEffect DEF TryToUnlazy, TryToUnlazyNext, Keeps, Fields, Unlazies
<1>2. CASE RcuFails \/ OpenSlash
  BY <1>2, FailsEffect DEF RcuFails, OpenSlash, Walk, Keeps, Fields
<1>3. CASE PathInit
  BY <1>3, PathInitEffect
<1>4. CASE NextComponent
  BY <1>4, NextComponentEffect DEF Keeps, Fields
<1>5. CASE LastComponent
  BY <1>5, LastComponentEffect DEF Keeps, Fields
<1>6. CASE Dots
  BY <1>6, DotsEffect DEF Keeps, Fields, Moved
<1>7. CASE Decide
  BY <1>7, DecideEffect DEF Keeps, Fields
<1>8. CASE PolicyFails
  BY <1>8, PolicyFailsEffect DEF Keeps, Fields
<1>9. CASE FailRef
  BY <1>9, FailRefEffect DEF Keeps, Fields
<1>10. CASE ApplyRedirect
  BY <1>10, ApplyRedirectEffect DEF Keeps, Fields
<1>11. CASE ApplyTarget
  BY <1>11, ApplyTargetEffect DEF Keeps, Fields
<1>12. CASE Component
  <2>1. Keeps(nd', nd, Picks)
    BY <1>12, ComponentEffect DEF Enters
  <2> QED
    BY <2>1 DEF Keeps, Fields, Picks
<1>13. CASE CacheMiss
  BY <1>13, CacheMissEffect DEF Keeps, Fields
<1>14. CASE OpenFound
  <2>1. PICK s : Enters(s, OpenFlags(nd), Found) /\ Keeps(nd', s, {"intent"})
    BY <1>14, OpenFoundEffect
  <2>2. PICK w : w = OpenFlags(nd)
    OBVIOUS
  <2>3. Keeps(w, nd, {"directory", "follow"})
    BY <2>2, WalkFields, OpenFlagsKeeps
  <2>4. Keeps(s, w, Picks)
    BY <2>1, <2>2 DEF Enters
  <2> QED
    BY <2>1, <2>3, <2>4 DEF Keeps, Fields, Picks
<1>15. CASE OpenCreates
  BY <1>15, OpenCreatesEffect DEF Keeps, Fields
<1>16. CASE Complete
  BY <1>16, CompleteEffect DEF Keeps, Fields
<1>17. CASE Stale
  BY <1>17, StaleEffect DEF Keeps, Fields
<1>18. CASE Terminate
  BY <1>18, TerminateEffect DEF Keeps, Fields, Ended
<1> QED
  BY <1>1, <1>2, <1>3, <1>4, <1>5, <1>6, <1>7, <1>8, <1>9, <1>10, <1>11, <1>12, <1>13, <1>14, <1>15, <1>16, <1>17, <1>18
     DEF WalkStep

\* What the call creates does not change what was there before.
LEMMA SameBefore ==
    ASSUME TreeOK, nd \in Walks, WalkOK(nd), WalkStep
    PROVE  Before' = Before /\ policy' = policy
<1>1. CASE OpenCreates
  <2>1. PICK d, x : d = nd.path /\ x = nd.last.name
    OBVIOUS
  <2>2. fs' = [fs EXCEPT ![d][x] = Fresh] /\ fs[d][x] = Nil /\ policy' = policy
    BY <1>1, <2>1 DEF OpenCreates, Found
  <2>3. d \in Dirs /\ x \in Names
    BY <1>1, <2>1, FoundType DEF OpenCreates
  <2>4. fs \in [Dirs -> [Names -> Objects \cup {Nil}]] /\ Fresh # Nil
    BY OpenConstants DEF TreeOK, Layout, Objects
  <2>5. ASSUME NEW e \in Dirs, NEW y \in Names
        PROVE  (IF fs'[e][y] = Fresh THEN Nil ELSE fs'[e][y]) = (IF fs[e][y] = Fresh THEN Nil ELSE fs[e][y])
    <3>1. CASE e = d /\ y = x
      <4>1. fs'[e][y] = Fresh
        BY <2>2, <2>3, <2>4, <3>1
      <4> QED
        BY <2>2, <3>1, <4>1
    <3>2. CASE ~(e = d /\ y = x)
      <4>1. fs'[e][y] = fs[e][y]
        BY <2>2, <2>3, <2>4, <3>2
      <4> QED
        BY <4>1
    <3> QED
      BY <3>1, <3>2
  <2> QED
    BY <2>2, <2>5 DEF Before
<1>2. CASE ~OpenCreates
  <2>1. fs' = fs /\ policy' = policy
    BY <1>2 DEF WalkStep, Walk, TryToUnlazy, TryToUnlazyNext, Unlazy, RcuFails, PathInit, NextComponent,
       LastComponent, Dots, Decide, PolicyFails, FailRef, ApplyRedirect, ApplyTarget,
       Component, CacheMiss, OpenSlash, OpenFound, Complete, Stale, Terminate
  <2> QED
    BY <2>1 DEF Before
<1> QED
  BY <1>1, <1>2

\* The resolution the call is compared with.
Reference == Resolution(Before, policy, nd.call)

\* The walk of a call that nobody disturbs is where the resolution is.
FollowsReference == nd # Idle /\ nd.quiet => Simulates(nd, Reference, Expected, policy, result)

\* A call in progress meets the premises of the simulation.
LEMMA CallMeets ==
    ASSUME OpenInv, TidyInv, FollowsReference, nd # Idle, nd.quiet, ~Expected.odd
    PROVE  Meets(Reference, Before, Expected)
<1>1. TreeOK /\ nd \in Walks /\ WalkOK(nd) /\ Tidy(nd)
  BY DEF OpenInv, TidyInv
<1>2. nd.call \in Calls /\ policy \in Policies /\ fs \in [Dirs -> [Names -> Objects \cup {Nil}]]
  BY <1>1 DEF Walks, TreeOK, Layout
<1>3. Before \in Layout
  BY <1>2 DEF Before, Layout
<1>4. Resolves(Reference, Before, policy, nd.call)
  BY <1>2, <1>3, ResolutionDefined DEF Reference
<1>5. World(Reference, Before, policy, nd.call)
  BY <1>2, <1>3, <1>4 DEF World
<1>6. ~nd.created => \A d \in Dirs, x \in Names : Before[d][x] = fs[d][x]
  BY DEF TidyInv, NoFresh, Before
<1>7. Begins(Reference, Expected, nd.call)
  BY Zenon DEF Begins, Expected, Reference
<1>8. Simulates(nd, Reference, Expected, policy, result)
  BY DEF FollowsReference
<1> QED
  BY <1>1, <1>5, <1>6, <1>7, <1>8 DEF Meets

\* Every step.
LEMMA FollowsStep == OpenInv /\ TidyInv /\ FollowsReference /\ [Next]_vars => FollowsReference'
<1> SUFFICES ASSUME OpenInv, TidyInv, FollowsReference, [Next]_vars PROVE FollowsReference'
  OBVIOUS
<1>1. ASSUME NEW c \in Calls, Start(c) PROVE FollowsReference'
  <2>1. nd'.pc = "init"
    BY <1>1, SetNameidataFields DEF Start, Walk
  <2> QED
    BY <2>1 DEF FollowsReference, Simulates
<1>2. CASE WalkStep
  <2>1. nd.pc # "idle"
    BY <1>2 DEF WalkStep, TryToUnlazy, TryToUnlazyNext, LookupFast, RcuFails, PathInit, NextComponent,
           LastComponent, Dots, Decide, PolicyFails, Deciding, FailRef, ApplyRedirect, ApplyTarget,
           Component, LookingUp, CacheMiss, OpenSlash, OpenFound, OpenCreates, Complete, Completing,
           Stale, Terminate
  <2>2. nd # Idle /\ TreeOK /\ nd \in Walks /\ WalkOK(nd)
    BY <2>1 DEF OpenInv, Idle
  <2>3. nd'.call = nd.call /\ nd'.quiet = nd.quiet
    BY <1>2, <2>2, SameCall
  <2>4. Before' = Before /\ policy' = policy
    BY <1>2, <2>2, SameBefore
  <2>5. Reference' = Reference
    BY <2>3, <2>4 DEF Reference
  <2>6. Expected' = Expected
    BY <2>3, <2>4, Zenon DEF Expected
  <2>7. CASE ~nd.quiet
    BY <2>3, <2>7 DEF FollowsReference
  <2>8. CASE nd.quiet /\ Expected.odd
    BY <2>6, <2>8 DEF FollowsReference, Simulates
  <2>9. CASE nd.quiet /\ ~Expected.odd
    <3>1. Meets(Reference, Before, Expected)
      BY <2>2, <2>9, CallMeets
    <3>2. Simulates(nd', Reference, Expected, policy, result')
      BY <1>2, <3>1, WalkStepSimulates
    <3> QED
      BY <2>4, <2>5, <2>6, <3>2, Zenon DEF FollowsReference
  <2> QED
    BY <2>7, <2>8, <2>9
<1>3. CASE Returned \/ UNCHANGED vars
  <2>1. UNCHANGED vars
    BY <1>3 DEF Returned
  <2> QED
    BY <2>1 DEF vars, FollowsReference, Reference, Expected, Before
<1>4. ASSUME Disturb PROVE FollowsReference'
  <2>1. nd # Idle
    BY <1>4 DEF Disturb, Idle
  <2>2. ~nd'.quiet
    BY <1>4, <2>1, DisturbEffect DEF OpenInv
  <2> QED
    BY <2>2 DEF FollowsReference
<1> QED
  BY <1>1, <1>2, <1>3, <1>4 DEF Next, SetEntry, SetPolicy

\* A call that nobody disturbs returns, for every tree, policy, pathname and number of links,
\* what resolution by substitution returns: the stack of links, the walk's modes, the flags and
\* the restarts of path_lookupat and path_openat make no difference to the answer.
THEOREM OpenResolvesAsNamed == Spec => []ResolvesAsNamed
<1>1. Init => FollowsReference
  BY DEF Init, FollowsReference
<1>2. FollowsReference => ResolvesAsNamed
  <2> SUFFICES ASSUME FollowsReference, nd.pc = "done", nd.quiet PROVE Matches \/ LimitsOfRestart \/ Expected.odd
    BY DEF ResolvesAsNamed
  <2>1. nd # Idle
    BY DEF Idle
  <2>2. Simulates(nd, Reference, Expected, policy, result)
    BY <2>1 DEF FollowsReference
  <2>3. Expected.odd \/ AtDone(nd, Expected, result)
    BY <2>2 DEF Simulates
  <2> QED
    BY <2>3 DEF AtDone, Matches, LimitsOfRestart
<1> QED
  BY <1>1, <1>2, FollowsStep, OpenInvariant, OpenTidy, PTL DEF Spec
=============================================================================
