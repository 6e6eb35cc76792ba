-------------------------- MODULE AttachTree_proofs -------------------------
(***************************************************************************)
(* The safety properties of NameiExtAttach, proved for every cgroup tree,  *)
(* every set of programs, links, directories and tasks, every choice of    *)
(* attach flags, and with allocation failures.                             *)
(*                                                                         *)
(* A dispatch that takes no reference never reads a cgroup that is being   *)
(* released (AliveInv); the prefilter covers every owner that still has a  *)
(* policy attached (CoverInv); and whenever no update runs, owners, arrays *)
(* and the static key are what the program lists call for (ListsInv,       *)
(* KeyInv, SettledInv).  The last needs to know what FlattenSeq returns.   *)
(* That is proved by taking the least index for which it would be wrong.   *)
(***************************************************************************)
EXTENDS NameiExtAttach, TLAPS, WellFoundedInduction, FiniteSetTheorems

Lives == {"absent", "live", "dead", "zero", "dropped", "released"}

-----------------------------------------------------------------------------
(* Least elements, and sequences of sequences.                             *)

\* A set of natural numbers that is not empty has a least element.
LEMMA MinFacts ==
    ASSUME NEW S \in SUBSET Nat, S # {}
    PROVE  Min(S) \in S /\ \A y \in S : Min(S) <= y
<1> DEFINE R == OpToRel(<, Nat)
<1>0. IsWellFoundedOn(R, Nat)
  BY NatLessThanWellFounded
<1>1. \E x \in S : \A y \in S : ~(<<y, x>> \in R)
  <2> HIDE DEF R
  <2> QED  BY <1>0, WFMin
<1>2. \E x \in S : \A y \in S : x <= y
  <2>1. PICK x \in S : \A y \in S : ~(<<y, x>> \in R)
    BY <1>1
  <2>2. ASSUME NEW y \in S  PROVE x <= y
    <3>1. ~(<<y, x>> \in {ss \in Nat \X Nat : ss[1] < ss[2]})
      BY <2>1 DEF OpToRel
    <3> QED  BY <3>1
  <2> QED  BY <2>2
<1> QED  BY <1>2 DEF Min

\* Induction up to a number, for a set of indices.
LEMMA Upto ==
    ASSUME NEW N \in Nat, NEW P, 1 \in P, \A i \in 1..N : i \in P /\ i + 1 \in 1..N => i + 1 \in P
    PROVE  \A i \in 1..N : i \in P
<1> DEFINE S == {i \in 1..N : i \notin P}
<1> SUFFICES ASSUME S # {} PROVE FALSE
  OBVIOUS
<1>1. S \in SUBSET Nat
  OBVIOUS
<1>2. Min(S) \in S /\ \A y \in S : Min(S) <= y
  BY <1>1, MinFacts
<1>3. PICK m \in S : \A y \in S : m <= y
  BY <1>2
<1>4. m \in 1..N /\ m \notin P /\ m # 1
  OBVIOUS
<1>5. m - 1 \in 1..N /\ m - 1 \notin S /\ (m - 1) + 1 = m
  BY <1>3, <1>4
<1> QED  BY <1>4, <1>5

\* What FlattenSeq returns, prefix by prefix.
LEMMA FlattenPrefixes ==
    ASSUME NEW T, NEW s \in Seq(Seq(T)), Len(s) # 0
    PROVE  \E f \in [1..Len(s) -> Seq(T)] :
                /\ f[1] = s[1] /\ FlattenSeq(s) = f[Len(s)]
                /\ \A i \in 1..Len(s) : i + 1 \in 1..Len(s) => f[i + 1] = f[i] \o s[i + 1]
<1> DEFINE N == Len(s)
           Good(g, n) == g[1] = s[1] /\ \A i \in 1..n : i + 1 \in 1..n => g[i + 1] = g[i] \o s[i + 1]
           Body(g, i) == IF i = 1 THEN s[i] ELSE g[i - 1] \o s[i]
           P == {n \in 1..N : \E g \in [1..n -> Seq(T)] : Good(g, n)}
<1>0. N \in Nat /\ N >= 1 /\ \A i \in 1..N : s[i] \in Seq(T)
  OBVIOUS
<1> HIDE DEF N
<1>1. 1 \in P
  <2> DEFINE g == [i \in 1..1 |-> s[1]]
  <2>1. g \in [1..1 -> Seq(T)] /\ Good(g, 1)
    BY <1>0
  <2>2. 1 \in 1..N
    BY <1>0
  <2> HIDE DEF g, Good
  <2> QED  BY <2>1, <2>2
<1>2. ASSUME NEW n \in 1..N, n \in P, n + 1 \in 1..N PROVE n + 1 \in P
  <2>1. PICK g \in [1..n -> Seq(T)] : Good(g, n)
    BY <1>2
  <2> DEFINE h == [i \in 1..(n + 1) |-> IF i = n + 1 THEN g[n] \o s[n + 1] ELSE g[i]]
  <2>0. n \in Nat /\ n + 1 \in 1..(n + 1) /\ \A i \in 1..n : i \in 1..(n + 1) /\ i # n + 1
    BY <1>0
  <2>2. g[n] \in Seq(T) /\ s[n + 1] \in Seq(T)
    BY <1>0, <1>2
  <2>3. h \in [1..(n + 1) -> Seq(T)]
    <3>1. g[n] \o s[n + 1] \in Seq(T)
      BY <2>2
    <3> QED  BY <3>1
  <2>4. h[n + 1] = g[n] \o s[n + 1] /\ \A i \in 1..n : h[i] = g[i]
    BY <2>0
  <2> HIDE DEF h
  <2>5. \A i \in 1..(n + 1) : i + 1 \in 1..(n + 1) => i = n \/ (i \in 1..n /\ i + 1 \in 1..n)
    OBVIOUS
  <2>6. n \in 1..n /\ 1 \in 1..n
    OBVIOUS
  <2>7. Good(h, n + 1)
    <3>1. h[1] = s[1]
      BY <2>1, <2>4, <2>6
    <3>2. ASSUME NEW i \in 1..(n + 1), i + 1 \in 1..(n + 1) PROVE h[i + 1] = h[i] \o s[i + 1]
      <4>1. CASE i = n
        BY <2>4, <2>6, <4>1
      <4>2. CASE i \in 1..n /\ i + 1 \in 1..n
        <5>1. h[i + 1] = g[i + 1] /\ h[i] = g[i]
          BY <2>4, <4>2, Zenon
        <5>2. g[i + 1] = g[i] \o s[i + 1]
          BY <2>1, <4>2, Zenon
        <5> QED  BY <5>1, <5>2, Zenon
      <4> QED  BY <2>5, <3>2, <4>1, <4>2
    <3> QED  BY <3>1, <3>2, Zenon
  <2> QED  BY <1>2, <2>3, <2>7
<1>3. PICK k \in [1..N -> Seq(T)] : Good(k, N)
  <2>1. N \in P
    <3> HIDE DEF P
    <3>1. 1 \in P /\ \A n \in 1..N : n \in P /\ n + 1 \in 1..N => n + 1 \in P
      BY <1>1, <1>2
    <3>2. \A n \in 1..N : n \in P
      BY <1>0, <3>1, Upto
    <3> QED  BY <1>0, <3>2
  <2> QED  BY <2>1
<1> DEFINE f == CHOOSE g : g = [i \in 1..N |-> Body(g, i)]
<1>4. f = [i \in 1..N |-> Body(f, i)]
  <2>1. ASSUME NEW i \in 1..N PROVE k[i] = Body(k, i)
    <3>1. CASE i = 1
      BY <1>3, <3>1
    <3>2. CASE i # 1
      <4>1. i - 1 \in 1..N /\ (i - 1) + 1 \in 1..N /\ (i - 1) + 1 = i
        BY <1>0, <3>2
      <4> QED  BY <1>3, <3>2, <4>1
    <3> QED  BY <3>1, <3>2
  <2>2. k = [i \in 1..N |-> Body(k, i)]
    BY <2>1
  <2> QED  BY <2>2
<1>5. FlattenSeq(s) = f[N]
  BY <1>0 DEF FlattenSeq, N
<1> HIDE DEF f
<1>6. f[1] = s[1] /\ \A i \in 1..N : i + 1 \in 1..N => f[i + 1] = f[i] \o s[i + 1]
  <2>1. \A i \in 1..N : f[i] = Body(f, i)
    BY <1>4
  <2>2. f[1] = s[1]
    BY <1>0, <2>1
  <2>3. ASSUME NEW i \in 1..N, i + 1 \in 1..N PROVE f[i + 1] = f[i] \o s[i + 1]
    <3>1. f[i + 1] = Body(f, i + 1) /\ i + 1 # 1 /\ (i + 1) - 1 = i
      BY <1>0, <2>1, <2>3
    <3> QED  BY <3>1
  <2> QED  BY <2>2, <2>3
<1> DEFINE Q == {i \in 1..N : f[i] \in Seq(T)}
<1>7. \A i \in 1..N : i \in Q /\ i + 1 \in 1..N => i + 1 \in Q
  <2> SUFFICES ASSUME NEW i \in 1..N, i \in Q, i + 1 \in 1..N PROVE f[i + 1] \in Seq(T)
    OBVIOUS
  <2>1. f[i] \in Seq(T) /\ s[i + 1] \in Seq(T) /\ f[i + 1] = f[i] \o s[i + 1]
    BY <1>0, <1>6
  <2> QED  BY <2>1
<1>8. \A i \in 1..N : i \in Q
  <2>1. 1 \in Q
    BY <1>0, <1>6
  <2> HIDE DEF Q
  <2> QED  BY <1>0, <1>7, <2>1, Upto
<1>9. f \in [1..N -> Seq(T)]
  BY <1>4, <1>8
<1> QED  BY <1>5, <1>6, <1>9 DEF N

\* q has the element y, none of the elements of B, exactly one entry from B; p and
\* q are related entry by entry.
Has(q, y) == \E k \in 1..Len(q) : q[k] = y
None(q, B) == \A k \in 1..Len(q) : q[k] \notin B
Once(q, B) == \E k \in 1..Len(q) : q[k] \in B /\ \A m \in 1..Len(q) : q[m] \in B => m = k
Related(p, q, R) == Len(p) = Len(q) /\ \A k \in 1..Len(p) : <<p[k], q[k]>> \in R

\* The elements of a concatenation, by position.
LEMMA ConcatAt ==
    ASSUME NEW T, NEW a \in Seq(T), NEW b \in Seq(T)
    PROVE  /\ a \o b \in Seq(T) /\ Len(a) \in Nat /\ Len(b) \in Nat /\ Len(a \o b) = Len(a) + Len(b)
           /\ \A k \in 1..Len(a) : (a \o b)[k] = a[k] /\ k \in 1..Len(a \o b)
           /\ \A k \in 1..Len(b) : (a \o b)[Len(a) + k] = b[k] /\ Len(a) + k \in 1..Len(a \o b)
           /\ \A k \in 1..Len(a \o b) : k \in 1..Len(a) \/ \E m \in 1..Len(b) : k = Len(a) + m
<1>1. a \o b \in Seq(T) /\ Len(a) \in Nat /\ Len(b) \in Nat /\ Len(a \o b) = Len(a) + Len(b)
  OBVIOUS
<1>2. \A k \in 1..Len(a) : (a \o b)[k] = a[k] /\ k \in 1..Len(a \o b)
  OBVIOUS
<1>3. \A k \in 1..Len(b) : (a \o b)[Len(a) + k] = b[k] /\ Len(a) + k \in 1..Len(a \o b)
  OBVIOUS
<1>4. ASSUME NEW k \in 1..Len(a \o b), k \notin 1..Len(a) PROVE \E m \in 1..Len(b) : k = Len(a) + m
  <2>1. k - Len(a) \in 1..Len(b) /\ k = Len(a) + (k - Len(a))
    BY <1>1, <1>4
  <2> QED  BY <2>1
<1> QED  BY <1>1, <1>2, <1>3, <1>4

\* A concatenation has the elements of both parts ...
LEMMA HasConcat ==
    ASSUME NEW T, NEW a \in Seq(T), NEW b \in Seq(T), NEW y
    PROVE  Has(a \o b, y) <=> Has(a, y) \/ Has(b, y)
<1> DEFINE c == a \o b
<1>1. /\ Len(a) \in Nat /\ Len(b) \in Nat
      /\ \A k \in 1..Len(a) : c[k] = a[k] /\ k \in 1..Len(c)
      /\ \A k \in 1..Len(b) : c[Len(a) + k] = b[k] /\ Len(a) + k \in 1..Len(c)
      /\ \A k \in 1..Len(c) : k \in 1..Len(a) \/ \E m \in 1..Len(b) : k = Len(a) + m
  BY ConcatAt
<1> HIDE DEF c
<1>2. Has(c, y) <=> Has(a, y) \/ Has(b, y)
  BY <1>1 DEF Has
<1> QED  BY <1>2 DEF c

\* ... has once what one part has once and the other has not ...
LEMMA OnceConcat ==
    ASSUME NEW T, NEW a \in Seq(T), NEW b \in Seq(T), NEW B
    PROVE  /\ None(a, B) /\ None(b, B) => None(a \o b, B)
           /\ Once(a, B) /\ None(b, B) => Once(a \o b, B)
           /\ None(a, B) /\ Once(b, B) => Once(a \o b, B)
<1> DEFINE c == a \o b
<1>1. /\ Len(a) \in Nat /\ Len(b) \in Nat
      /\ \A k \in 1..Len(a) : c[k] = a[k] /\ k \in 1..Len(c)
      /\ \A k \in 1..Len(b) : c[Len(a) + k] = b[k] /\ Len(a) + k \in 1..Len(c)
      /\ \A k \in 1..Len(c) : k \in 1..Len(a) \/ \E m \in 1..Len(b) : k = Len(a) + m
  BY ConcatAt
<1> HIDE DEF c
<1>2. None(a, B) /\ None(b, B) => None(c, B)
  BY <1>1 DEF None
<1>3. ASSUME Once(a, B), None(b, B) PROVE Once(c, B)
  <2>1. PICK k \in 1..Len(a) : a[k] \in B /\ \A m \in 1..Len(a) : a[m] \in B => m = k
    BY <1>3 DEF Once
  <2>2. \A m \in 1..Len(c) : c[m] \in B => m = k
    BY <1>1, <1>3, <2>1 DEF None
  <2> QED  BY <1>1, <2>1, <2>2 DEF Once
<1>4. ASSUME None(a, B), Once(b, B) PROVE Once(c, B)
  <2>1. PICK k \in 1..Len(b) : b[k] \in B /\ \A m \in 1..Len(b) : b[m] \in B => m = k
    BY <1>4 DEF Once
  <2>2. \A m \in 1..Len(c) : c[m] \in B => m = Len(a) + k
    BY <1>1, <1>4, <2>1 DEF None
  <2> QED  BY <1>1, <2>1, <2>2 DEF Once
<1> QED  BY <1>2, <1>3, <1>4 DEF c

\* ... and is related to another one when their parts are.
LEMMA RelatedConcat ==
    ASSUME NEW T, NEW a \in Seq(T), NEW b \in Seq(T), NEW d \in Seq(T), NEW e \in Seq(T), NEW R,
           Related(a, d, R), Related(b, e, R)
    PROVE  Related(a \o b, d \o e, R)
<1> DEFINE c == a \o b
           g == d \o e
<1>1. /\ Len(a) \in Nat /\ Len(b) \in Nat /\ Len(c) = Len(a) + Len(b)
      /\ \A k \in 1..Len(a) : c[k] = a[k] /\ k \in 1..Len(c)
      /\ \A k \in 1..Len(b) : c[Len(a) + k] = b[k] /\ Len(a) + k \in 1..Len(c)
      /\ \A k \in 1..Len(c) : k \in 1..Len(a) \/ \E m \in 1..Len(b) : k = Len(a) + m
  BY ConcatAt
<1>2. /\ Len(g) = Len(d) + Len(e)
      /\ \A k \in 1..Len(d) : g[k] = d[k]
      /\ \A k \in 1..Len(e) : g[Len(d) + k] = e[k]
  BY ConcatAt
<1> HIDE DEF c, g
<1>3. Len(c) = Len(g)
  BY <1>1, <1>2 DEF Related
<1>4. ASSUME NEW k \in 1..Len(c) PROVE <<c[k], g[k]>> \in R
  <2>1. CASE k \in 1..Len(a)
    BY <1>1, <1>2, <2>1 DEF Related
  <2>2. CASE \E m \in 1..Len(b) : k = Len(a) + m
    BY <1>1, <1>2, <2>2 DEF Related
  <2> QED  BY <1>1, <2>1, <2>2
<1> QED  BY <1>3, <1>4 DEF Related, c, g

\* An element of the flat sequence is one of a member, and conversely.
LEMMA FlattenHas ==
    ASSUME NEW T, NEW s \in Seq(Seq(T)), Len(s) # 0, NEW y
    PROVE  /\ FlattenSeq(s) \in Seq(T)
           /\ Has(FlattenSeq(s), y) <=> \E i \in 1..Len(s) : Has(s[i], y)
<1>1. PICK f \in [1..Len(s) -> Seq(T)] :
                /\ f[1] = s[1] /\ FlattenSeq(s) = f[Len(s)]
                /\ \A i \in 1..Len(s) : i + 1 \in 1..Len(s) => f[i + 1] = f[i] \o s[i + 1]
  BY FlattenPrefixes
<1>2. Len(s) \in Nat /\ Len(s) \in 1..Len(s) /\ 1 \in 1..Len(s) /\ \A i \in 1..Len(s) : s[i] \in Seq(T)
  OBVIOUS
<1> DEFINE P == {i \in 1..Len(s) : Has(f[i], y) <=> \E j \in 1..i : Has(s[j], y)}
<1>3. 1 \in P
  BY <1>1, <1>2
<1>4. ASSUME NEW i \in 1..Len(s), i \in P, i + 1 \in 1..Len(s) PROVE i + 1 \in P
  <2>1. Has(f[i + 1], y) <=> Has(f[i], y) \/ Has(s[i + 1], y)
    <3>1. f[i] \in Seq(T) /\ s[i + 1] \in Seq(T) /\ f[i + 1] = f[i] \o s[i + 1]
      BY <1>1, <1>2, <1>4
    <3> QED  BY <3>1, HasConcat
  <2>2. \A j \in 1..(i + 1) : j \in 1..i \/ j = i + 1
    BY <1>2
  <2>3. i + 1 \in 1..(i + 1) /\ \A j \in 1..i : j \in 1..(i + 1)
    BY <1>2
  <2> QED  BY <1>4, <2>1, <2>2, <2>3
<1>5. Len(s) \in P
  <2> HIDE DEF P
  <2> QED  BY <1>2, <1>3, <1>4, Upto
<1> QED  BY <1>1, <1>2, <1>5

\* Members related one by one give related sequences.
LEMMA FlattenRelated ==
    ASSUME NEW T, NEW s \in Seq(Seq(T)), NEW t \in Seq(Seq(T)), Len(s) # 0, Len(t) = Len(s), NEW R,
           \A i \in 1..Len(s) : Related(s[i], t[i], R)
    PROVE  Related(FlattenSeq(s), FlattenSeq(t), R)
<1>1. PICK f \in [1..Len(s) -> Seq(T)] :
                /\ f[1] = s[1] /\ FlattenSeq(s) = f[Len(s)]
                /\ \A i \in 1..Len(s) : i + 1 \in 1..Len(s) => f[i + 1] = f[i] \o s[i + 1]
  BY FlattenPrefixes
<1>2. PICK g \in [1..Len(s) -> Seq(T)] :
                /\ g[1] = t[1] /\ FlattenSeq(t) = g[Len(s)]
                /\ \A i \in 1..Len(s) : i + 1 \in 1..Len(s) => g[i + 1] = g[i] \o t[i + 1]
  <2>1. \E g \in [1..Len(t) -> Seq(T)] :
                /\ g[1] = t[1] /\ FlattenSeq(t) = g[Len(t)]
                /\ \A i \in 1..Len(t) : i + 1 \in 1..Len(t) => g[i + 1] = g[i] \o t[i + 1]
    <3>1. Len(t) # 0
      OBVIOUS
    <3> QED  BY <3>1, FlattenPrefixes
  <2> QED  BY <2>1, Zenon
<1>3. /\ Len(s) \in Nat /\ Len(s) \in 1..Len(s) /\ 1 \in 1..Len(s)
      /\ \A i \in 1..Len(s) : s[i] \in Seq(T) /\ t[i] \in Seq(T)
  OBVIOUS
<1> DEFINE P == {i \in 1..Len(s) : Related(f[i], g[i], R)}
<1>4. 1 \in P
  BY <1>1, <1>2, <1>3
<1>5. ASSUME NEW i \in 1..Len(s), i \in P, i + 1 \in 1..Len(s) PROVE i + 1 \in P
  <2>1. /\ f[i] \in Seq(T) /\ s[i + 1] \in Seq(T) /\ f[i + 1] = f[i] \o s[i + 1]
        /\ g[i] \in Seq(T) /\ t[i + 1] \in Seq(T) /\ g[i + 1] = g[i] \o t[i + 1]
    BY <1>1, <1>2, <1>3, <1>5
  <2>2. Related(f[i], g[i], R) /\ Related(s[i + 1], t[i + 1], R)
    BY <1>5
  <2>3. Related(f[i + 1], g[i + 1], R)
    BY <2>1, <2>2, RelatedConcat
  <2> QED  BY <1>5, <2>3
<1>6. Len(s) \in P
  <2> HIDE DEF P
  <2> QED  BY <1>3, <1>4, <1>5, Upto
<1> QED  BY <1>1, <1>2, <1>6

\* What one member has once, and the others have not, is once in the flat sequence.
LEMMA FlattenOnce ==
    ASSUME NEW T, NEW s \in Seq(Seq(T)), NEW B, NEW n \in 1..Len(s), Once(s[n], B),
           \A i \in 1..Len(s) : i # n => None(s[i], B)
    PROVE  Once(FlattenSeq(s), B)
<1>0. Len(s) # 0
  OBVIOUS
<1>1. PICK f \in [1..Len(s) -> Seq(T)] :
                /\ f[1] = s[1] /\ FlattenSeq(s) = f[Len(s)]
                /\ \A i \in 1..Len(s) : i + 1 \in 1..Len(s) => f[i + 1] = f[i] \o s[i + 1]
  BY <1>0, FlattenPrefixes
<1>2. /\ Len(s) \in Nat /\ Len(s) \in 1..Len(s) /\ 1 \in 1..Len(s) /\ n <= Len(s)
      /\ \A i \in 1..Len(s) : s[i] \in Seq(T)
  OBVIOUS
<1> DEFINE P == {i \in 1..Len(s) : IF i < n THEN None(f[i], B) ELSE Once(f[i], B)}
<1>3. 1 \in P
  BY <1>1, <1>2
<1>4. ASSUME NEW i \in 1..Len(s), i \in P, i + 1 \in 1..Len(s) PROVE i + 1 \in P
  <2>1. /\ None(f[i], B) /\ None(s[i + 1], B) => None(f[i + 1], B)
        /\ Once(f[i], B) /\ None(s[i + 1], B) => Once(f[i + 1], B)
        /\ None(f[i], B) /\ Once(s[i + 1], B) => Once(f[i + 1], B)
    <3>1. f[i] \in Seq(T) /\ s[i + 1] \in Seq(T) /\ f[i + 1] = f[i] \o s[i + 1]
      BY <1>1, <1>2, <1>4
    <3> QED  BY <3>1, OnceConcat
  <2>2. \/ i + 1 < n /\ i < n /\ i + 1 # n
        \/ i + 1 = n /\ i < n
        \/ ~(i + 1 < n) /\ ~(i < n) /\ i + 1 # n
    BY <1>2
  <2> QED  BY <1>4, <2>1, <2>2
<1>5. Len(s) \in P
  <2> HIDE DEF P
  <2> QED  BY <1>2, <1>3, <1>4, Upto
<1> QED  BY <1>1, <1>2, <1>5

\* With one member that is not empty the flat sequence is that member.
LEMMA FlattenAlone ==
    ASSUME NEW T, NEW s \in Seq(Seq(T)), NEW n \in 1..Len(s),
           \A i \in 1..Len(s) : i # n => s[i] = <<>>
    PROVE  FlattenSeq(s) = s[n]
<1>0. Len(s) # 0
  OBVIOUS
<1>1. PICK f \in [1..Len(s) -> Seq(T)] :
                /\ f[1] = s[1] /\ FlattenSeq(s) = f[Len(s)]
                /\ \A i \in 1..Len(s) : i + 1 \in 1..Len(s) => f[i + 1] = f[i] \o s[i + 1]
  BY <1>0, FlattenPrefixes
<1>2. /\ Len(s) \in Nat /\ Len(s) \in 1..Len(s) /\ 1 \in 1..Len(s) /\ n <= Len(s)
      /\ \A i \in 1..Len(s) : s[i] \in Seq(T)
  OBVIOUS
<1> DEFINE P == {i \in 1..Len(s) : f[i] = IF i < n THEN <<>> ELSE s[n]}
<1>3. 1 \in P
  BY <1>1, <1>2
<1>4. ASSUME NEW i \in 1..Len(s), i \in P, i + 1 \in 1..Len(s) PROVE i + 1 \in P
  <2>1. f[i + 1] = f[i] \o s[i + 1] /\ s[n] \o <<>> = s[n] /\ <<>> \o <<>> = <<>> /\ <<>> \o s[n] = s[n]
    BY <1>1, <1>2, <1>4
  <2>2. \/ i + 1 < n /\ i < n /\ i + 1 # n
        \/ i + 1 = n /\ i < n
        \/ ~(i + 1 < n) /\ ~(i < n) /\ i + 1 # n
    BY <1>2
  <2>3. f[i] = IF i < n THEN <<>> ELSE s[n]
    BY <1>4
  <2>4. i + 1 # n => s[i + 1] = <<>>
    BY <1>4
  <2>5. f[i + 1] = IF i + 1 < n THEN <<>> ELSE s[n]
    <3>1. CASE i + 1 < n /\ i < n /\ i + 1 # n
      <4>1. f[i] = <<>> /\ s[i + 1] = <<>>
        BY <2>3, <2>4, <3>1, Zenon
      <4> QED  BY <2>1, <3>1, <4>1, Zenon
    <3>2. CASE i + 1 = n /\ i < n
      <4>1. f[i] = <<>> /\ s[i + 1] = s[n] /\ ~(i + 1 < n)
        BY <2>3, <3>2
      <4> QED  BY <2>1, <4>1, Zenon
    <3>3. CASE ~(i + 1 < n) /\ ~(i < n) /\ i + 1 # n
      <4>1. f[i] = s[n] /\ s[i + 1] = <<>>
        BY <2>3, <2>4, <3>3, Zenon
      <4> QED  BY <2>1, <3>3, <4>1, Zenon
    <3> QED  BY <2>2, <3>1, <3>2, <3>3
  <2> QED  BY <1>4, <2>5
<1>5. Len(s) \in P
  <2> HIDE DEF P
  <2> QED  BY <1>2, <1>3, <1>4, Upto
<1> QED  BY <1>1, <1>2, <1>5

-----------------------------------------------------------------------------
(* The tree.                                                               *)

\* A cgroup is on its own path to the root, and so is the path of each of its
\* ancestors.
LEMMA ChainFacts ==
    ASSUME NEW c \in Cgroups
    PROVE  /\ Chain[c] \in Seq(Cgroups) /\ Len(Chain[c]) \in Nat /\ Len(Chain[c]) >= 1
           /\ DOMAIN Chain[c] = 1..Len(Chain[c])
           /\ c \in ToSet(Chain[c]) /\ ToSet(Chain[c]) \subseteq Cgroups
           /\ \A d \in ToSet(Chain[c]) : ToSet(Chain[d]) \subseteq ToSet(Chain[c])
<1>1. /\ Chain[c] \in Seq(Cgroups) /\ Len(Chain[c]) \in Nat /\ Len(Chain[c]) >= 1
      /\ DOMAIN Chain[c] = 1..Len(Chain[c]) /\ Chain[c][1] = c
  BY AttachConstants
<1>2. c \in ToSet(Chain[c]) /\ ToSet(Chain[c]) \subseteq Cgroups
  BY <1>1 DEF ToSet
<1>3. ASSUME NEW d \in ToSet(Chain[c])
      PROVE  ToSet(Chain[d]) \subseteq ToSet(Chain[c])
  <2>1. PICK i \in 1..Len(Chain[c]) : d = Chain[c][i]
    BY <1>1 DEF ToSet
  <2>2. Chain[d] = SubSeq(Chain[c], i, Len(Chain[c]))
    BY <1>1, <2>1, AttachConstants
  <2>3. \A j \in DOMAIN Chain[d] : Chain[d][j] = Chain[c][i + j - 1] /\ i + j - 1 \in DOMAIN Chain[c]
    BY <1>1, <2>1, <2>2
  <2> QED  BY <2>3 DEF ToSet
<1> QED  BY <1>1, <1>2, <1>3

\* What is above a cgroup other than itself is a proper ancestor.
LEMMA AboveOrSelf ==
    ASSUME NEW c \in Cgroups, NEW d \in ToSet(Chain[c]), d # c
    PROVE  d \in Ancestors(c)
<1>1. PICK i \in 1..Len(Chain[c]) : d = Chain[c][i]
  BY ChainFacts DEF ToSet
<1>2. i # 1
  BY <1>1, AttachConstants
<1>3. /\ Tail(Chain[c])[i - 1] = Chain[c][i] /\ i - 1 \in DOMAIN Tail(Chain[c])
  BY <1>1, <1>2, ChainFacts
<1> QED  BY <1>1, <1>3 DEF Ancestors, ToSet

\* The path of a cgroup that is not a root continues at its parent.
LEMMA ParentFacts ==
    ASSUME NEW c \in Cgroups, Len(Chain[c]) # 1
    PROVE  /\ Chain[c][2] \in Cgroups
           /\ ToSet(Chain[c]) = {c} \cup ToSet(Chain[Chain[c][2]])
<1>0. /\ Chain[c] \in Seq(Cgroups) /\ Len(Chain[c]) \in Nat /\ Len(Chain[c]) >= 1
      /\ DOMAIN Chain[c] = 1..Len(Chain[c]) /\ Chain[c][1] = c
  BY ChainFacts, AttachConstants, Zenon
<1>1. 2 \in DOMAIN Chain[c] /\ Chain[c] \in Seq(Cgroups) /\ Len(Chain[c]) \in Nat
  <2>1. \A n \in Nat : n >= 1 /\ n # 1 => 2 \in 1..n
    OBVIOUS
  <2>2. 2 \in 1..Len(Chain[c])
    BY <1>0, <2>1, Zenon
  <2> QED  BY <1>0, <2>2, Zenon
<1>2. Chain[Chain[c][2]] = SubSeq(Chain[c], 2, Len(Chain[c]))
  BY <1>1, AttachConstants
<1>3. /\ DOMAIN Chain[Chain[c][2]] = 1..(Len(Chain[c]) - 1)
      /\ \A j \in 1..(Len(Chain[c]) - 1) : Chain[Chain[c][2]][j] = Chain[c][j + 1]
  BY <1>1, <1>2
<1>4. ASSUME NEW d \in ToSet(Chain[c]), d # c
      PROVE  d \in ToSet(Chain[Chain[c][2]])
  <2>1. PICK i \in 1..Len(Chain[c]) : d = Chain[c][i]
    BY ChainFacts DEF ToSet
  <2>2. i # 1 /\ i - 1 \in 1..(Len(Chain[c]) - 1) /\ (i - 1) + 1 = i
    BY <1>0, <1>4, <2>1
  <2>3. Chain[Chain[c][2]][i - 1] = d
    BY <1>3, <2>1, <2>2
  <2> QED  BY <1>3, <2>2, <2>3 DEF ToSet
<1>5. Chain[c][2] \in Cgroups /\ Chain[c][2] \in ToSet(Chain[c])
  BY <1>1 DEF ToSet
<1> QED  BY <1>4, <1>5, ChainFacts

\* The nearest attachment lies on the path to the root and has a program; a
\* cgroup with a program is its own nearest attachment.
LEMMA NearestFacts ==
    ASSUME NEW c \in Cgroups
    PROVE  /\ Nearest(c) # Nobody => /\ Nearest(c) \in ToSet(Chain[c])
                                     /\ progs[Nearest(c)] # <<>>
           /\ progs[c] # <<>> => Nearest(c) = c
           /\ Nearest(c) \in Cgroups \cup {Nobody}
<1> DEFINE with == {i \in DOMAIN Chain[c] : progs[Chain[c][i]] # <<>>}
<1>1. with \in SUBSET Nat /\ \A i \in with : i >= 1
  BY ChainFacts
<1>2. CASE with = {}
  <2>1. 1 \notin with /\ 1 \in DOMAIN Chain[c] /\ Chain[c][1] = c
    BY <1>2, ChainFacts, AttachConstants
  <2>2. Nearest(c) = Nobody
    BY <1>2 DEF Nearest
  <2> QED  BY <2>1, <2>2
<1>3. CASE with # {}
  <2>1. Min(with) \in with /\ \A y \in with : Min(with) <= y
    BY <1>1, <1>3, MinFacts
  <2>2. Nearest(c) = Chain[c][Min(with)]
    BY <1>3 DEF Nearest
  <2>3. Nearest(c) \in ToSet(Chain[c]) /\ progs[Nearest(c)] # <<>>
    BY <2>1, <2>2 DEF ToSet
  <2>4. ASSUME progs[c] # <<>>  PROVE Nearest(c) = c
    <3>1. 1 \in with /\ Chain[c][1] = c
      BY <2>4, ChainFacts, AttachConstants
    <3>2. Min(with) \in Nat /\ Min(with) >= 1 /\ Min(with) <= 1
      <4> HIDE DEF with
      <4> QED  BY <1>1, <2>1, <3>1
    <3>3. Min(with) = 1
      BY <3>2
    <3> QED  BY <2>2, <3>1, <3>3
  <2> QED  BY <2>3, <2>4, ChainFacts
<1> QED  BY <1>2, <1>3

-----------------------------------------------------------------------------
(* A dispatch reads only cgroups that are there.                           *)

TreeTypes ==
    /\ life \in [Cgroups -> Lives]
    /\ owner \in [Cgroups -> Cgroups \cup {Nobody}]
    /\ task \in [Tasks -> Cgroups]
    /\ walk = [t \in Tasks |-> walk[t]]

\* An owner is the cgroup itself or above it.
OwnersAbove == \A c \in Cgroups : owner[c] # Nobody => owner[c] \in ToSet(Chain[c])

\* Release goes from the leaves to the root, and roots are never made.
TreeClosed ==
    /\ \A c \in Cgroups : Present(c) => \A d \in ToSet(Chain[c]) : Present(d)
    /\ \A c \in Cgroups : Len(Chain[c]) = 1 => life[c] # "absent"

TasksLive == \A t \in Tasks : life[task[t]] = "live"

\* What a dispatch has loaded.
WalksAlive ==
    \A t \in Tasks : walk[t].pc \in {"match", "run"} =>
        /\ walk[t] = [pc |-> walk[t].pc, path |-> walk[t].path, cgrp |-> walk[t].cgrp,
                      owner |-> walk[t].owner]
        /\ walk[t].cgrp \in Cgroups /\ walk[t].owner \in ToSet(Chain[walk[t].cgrp])
        /\ Present(walk[t].cgrp)

\* The inductive invariant of DispatchAlive.
AliveInv == TreeTypes /\ OwnersAbove /\ TreeClosed /\ TasksLive /\ WalksAlive

\* At the start only roots exist, and nothing is attached.
LEMMA AliveInit == Init => AliveInv
<1> SUFFICES ASSUME Init PROVE AliveInv
  OBVIOUS
<1>1. TreeTypes /\ OwnersAbove
  BY DEF Init, TreeTypes, OwnersAbove, Lives
<1>2. ASSUME NEW c \in Cgroups, Present(c), NEW d \in ToSet(Chain[c])
      PROVE  Present(d)
  <2>1. Len(Chain[c]) = 1
    BY <1>2 DEF Init, Present
  <2>2. d = c
    <3>1. PICK i \in DOMAIN Chain[c] : d = Chain[c][i]
      BY DEF ToSet
    <3>2. i = 1 /\ Chain[c][1] = c
      BY <2>1, ChainFacts, AttachConstants
    <3> QED  BY <3>1, <3>2
  <2> QED  BY <1>2, <2>2
<1>3. TreeClosed
  BY <1>2 DEF Init, TreeClosed
<1>4. TasksLive /\ WalksAlive
  BY DEF Init, TasksLive, WalksAlive
<1> QED  BY <1>1, <1>3, <1>4 DEF AliveInv

\* A step that takes no cgroup away and makes none disturbs only owners and walks.
LEMMA AliveFrame ==
    ASSUME AliveInv, UNCHANGED <<life, task, walk>>,
           owner' \in [Cgroups -> Cgroups \cup {Nobody}], OwnersAbove'
    PROVE  AliveInv'
BY DEF AliveInv, TreeTypes, OwnersAbove, TreeClosed, TasksLive, WalksAlive, Present

\* An update publishes nothing but the nearest attachment.
LEMMA AlivePublish ==
    ASSUME AliveInv, UNCHANGED <<life, task, walk>>, NEW d,
           owner' = [owner EXCEPT ![d] = Nearest(d)]
    PROVE  AliveInv'
<1>1. \A c \in Cgroups : owner'[c] = owner[c] \/ (c = d /\ owner'[c] = Nearest(c))
  BY DEF AliveInv, TreeTypes
<1>2. owner' = [c \in Cgroups |-> owner'[c]]
  BY DEF AliveInv, TreeTypes
<1>3. \A c \in Cgroups : /\ owner'[c] \in Cgroups \cup {Nobody}
                         /\ owner'[c] # Nobody => owner'[c] \in ToSet(Chain[c])
  BY <1>1, NearestFacts DEF AliveInv, TreeTypes, OwnersAbove
<1> QED  BY <1>2, <1>3, AliveFrame DEF OwnersAbove

\* A new cgroup hangs below a live one and inherits an owner from above.
LEMMA AliveMkdir ==
    ASSUME AliveInv, NEW c \in Cgroups, Mkdir(c)
    PROVE  AliveInv'
<1> USE DEF AliveInv, TreeTypes
<1>1. /\ Len(Chain[c]) # 1 /\ Chain[c][2] \in Cgroups
      /\ ToSet(Chain[c]) = {c} \cup ToSet(Chain[Chain[c][2]])
  BY ParentFacts DEF Mkdir, TreeClosed
<1>2. life' = [life EXCEPT ![c] = "live"] /\ life[c] = "absent" /\ UNCHANGED <<task, walk>>
  BY DEF Mkdir
<1>3. \A d \in Cgroups : Present(d) => Present(d)'
  BY <1>2 DEF Present, Lives
<1>4. \A d \in ToSet(Chain[c]) : Present(d)'
  <2>1. Present(Chain[c][2])
    BY DEF Mkdir, Present
  <2>2. \A d \in ToSet(Chain[Chain[c][2]]) : Present(d) /\ d \in Cgroups
    BY <1>1, <2>1, ChainFacts DEF TreeClosed
  <2>3. Present(c)'
    BY <1>2 DEF Present
  <2> QED  BY <1>1, <1>3, <2>2, <2>3
<1>5. \A d \in Cgroups : d # c => (Present(d)' <=> Present(d))
  BY <1>2 DEF Present
<1>6. \A d \in Cgroups : Present(d)' => \A e \in ToSet(Chain[d]) : Present(e)'
  BY <1>3, <1>4, <1>5, ChainFacts DEF TreeClosed
<1>7. TreeClosed'
  BY <1>2, <1>6 DEF TreeClosed
<1>8. owner' = [owner EXCEPT ![c] = Nearest(c)]
  BY DEF Mkdir
<1>9. OwnersAbove' /\ TreeTypes'
  BY <1>2, <1>8, NearestFacts DEF OwnersAbove, Lives
<1>10. TasksLive' /\ WalksAlive'
  BY <1>2, <1>3 DEF TasksLive, WalksAlive
<1> QED  BY <1>7, <1>9, <1>10

\* A removed cgroup is still there for the dispatches that have loaded it.
LEMMA AliveRmdir ==
    ASSUME AliveInv, NEW c \in Cgroups, Rmdir(c)
    PROVE  AliveInv'
<1> USE DEF AliveInv, TreeTypes
<1>1. /\ life' = [life EXCEPT ![c] = "dead"] /\ life[c] = "live"
      /\ \A t \in Tasks : task[t] # c
      /\ UNCHANGED <<owner, task, walk>>
  BY DEF Rmdir
<1>2. \A d \in Cgroups : Present(d)' <=> Present(d)
  BY <1>1 DEF Present
<1>3. TreeTypes' /\ OwnersAbove' /\ TasksLive'
  BY <1>1 DEF Lives, OwnersAbove, TasksLive
<1>4. TreeClosed'
  BY <1>1, <1>2, ChainFacts DEF TreeClosed
<1>5. WalksAlive'
  BY <1>1, <1>2 DEF WalksAlive
<1> QED  BY <1>3, <1>4, <1>5

\* Only then, and behind its descendants, its reference count reaches zero.
LEMMA AliveDropRefcnt ==
    ASSUME AliveInv, NEW c \in Cgroups, DropRefcnt(c)
    PROVE  AliveInv'
<1> USE DEF AliveInv, TreeTypes
<1>1. /\ life' = [life EXCEPT ![c] = "zero"] /\ life[c] = "dead" /\ NoDispatchIn(c)
      /\ \A d \in Subtree(c) \ {c} : life[d] \in {"absent", "released"}
      /\ UNCHANGED <<owner, task, walk>>
  BY DEF DropRefcnt
<1>2. \A d \in Cgroups : d # c => (Present(d)' <=> Present(d))
  BY <1>1 DEF Present
<1>3. ~Present(c)'
  BY <1>1 DEF Present
<1>4. \A d \in Cgroups : Present(d)' => c \notin ToSet(Chain[d])
  BY <1>1, <1>2, <1>3 DEF Subtree, Present
<1>5. TreeTypes' /\ OwnersAbove' /\ TasksLive'
  BY <1>1 DEF Lives, OwnersAbove, TasksLive
<1>6. TreeClosed'
  BY <1>1, <1>2, <1>3, <1>4, ChainFacts DEF TreeClosed
<1>7. WalksAlive'
  BY <1>1, <1>2 DEF WalksAlive, NoDispatchIn
<1> QED  BY <1>5, <1>6, <1>7

\* The release itself changes only cgroups that are gone.
LEMMA AliveRelease ==
    ASSUME AliveInv, NEW c \in Cgroups, ReleaseProgs(c) \/ ReleaseScope(c)
    PROVE  AliveInv'
<1> USE DEF AliveInv, TreeTypes
<1>1. PICK l \in {"dropped", "released"} : life' = [life EXCEPT ![c] = l]
  BY DEF ReleaseProgs, ReleaseScope
<1>2. life[c] \in {"zero", "dropped"} /\ UNCHANGED <<owner, task, walk>>
  BY DEF ReleaseProgs, ReleaseScope
<1>3. \A d \in Cgroups : Present(d)' <=> Present(d)
  BY <1>1, <1>2 DEF Present
<1>4. TreeTypes' /\ OwnersAbove' /\ TasksLive'
  BY <1>1, <1>2 DEF Lives, OwnersAbove, TasksLive
<1>5. TreeClosed'
  BY <1>1, <1>2, <1>3, ChainFacts DEF TreeClosed
<1>6. WalksAlive'
  BY <1>2, <1>3 DEF WalksAlive
<1> QED  BY <1>4, <1>5, <1>6

\* A dispatch loads its task's cgroup, which is live, and an owner above it.
LEMMA AliveWalk ==
    ASSUME AliveInv, NEW t \in Tasks,
           \/ \E p \in Paths : WalkGate(t, p)
           \/ WalkPrefilter(t) \/ WalkOwner(t) \/ WalkMatch(t) \/ WalkRun(t) \/ WalkEnd(t)
    PROVE  AliveInv'
<1> USE DEF AliveInv, TreeTypes
<1>1. /\ UNCHANGED <<life, owner, task>>
      /\ \E to : walk' = [walk EXCEPT ![t] = to]
  BY DEF WalkGate, WalkPrefilter, WalkOwner, WalkMatch, WalkRun, WalkEnd, WalkStep, treeVars
<1>2. walk' = [u \in Tasks |-> walk'[u]] /\ \A u \in Tasks : u # t => walk'[u] = walk[u]
  BY <1>1
<1>3. TreeTypes' /\ OwnersAbove' /\ TreeClosed' /\ TasksLive'
  BY <1>1, <1>2 DEF OwnersAbove, TreeClosed, TasksLive, Present
<1>4. walk'[t].pc \in {"match", "run"} =>
        /\ walk'[t] = [pc |-> walk'[t].pc, path |-> walk'[t].path, cgrp |-> walk'[t].cgrp,
                       owner |-> walk'[t].owner]
        /\ walk'[t].cgrp \in Cgroups /\ walk'[t].owner \in ToSet(Chain[walk'[t].cgrp])
        /\ Present(walk'[t].cgrp)
  <2>1. CASE WalkOwner(t)
    <3>1. life[task[t]] = "live" /\ task[t] \in Cgroups
      BY DEF TasksLive
    <3>2. CASE owner[task[t]] = Nobody
      BY <2>1, <3>2 DEF WalkOwner, WalkStep
    <3>3. CASE owner[task[t]] # Nobody
      <4>1. walk'[t] = [pc |-> "match", path |-> walk[t].path, cgrp |-> task[t],
                        owner |-> owner[task[t]]]
        BY <2>1, <3>3 DEF WalkOwner, WalkStep
      <4>2. owner[task[t]] \in ToSet(Chain[task[t]])
        BY <3>1, <3>3 DEF OwnersAbove
      <4> QED  BY <3>1, <4>1, <4>2 DEF Present
    <3> QED  BY <3>2, <3>3
  <2>2. CASE WalkMatch(t)
    <3>1. walk[t].pc = "match" /\ (walk'[t] = [walk[t] EXCEPT !.pc = "run"] \/ walk'[t] = [pc |-> "idle"])
      BY <2>2 DEF WalkMatch, WalkStep
    <3> QED  BY <3>1 DEF WalksAlive
  <2>3. CASE \E p \in Paths : WalkGate(t, p)
    BY <2>3 DEF WalkGate, WalkStep
  <2>4. CASE WalkPrefilter(t)
    BY <2>4 DEF WalkPrefilter, WalkStep
  <2>5. CASE WalkRun(t)
    BY <2>5 DEF WalkRun, WalkStep
  <2>6. CASE WalkEnd(t)
    BY <2>6 DEF WalkEnd, WalkStep
  <2> QED  BY <2>1, <2>2, <2>3, <2>4, <2>5, <2>6
<1>5. \A d \in Cgroups : Present(d)' <=> Present(d)
  BY <1>1 DEF Present
<1>6. WalksAlive'
  BY <1>2, <1>4, <1>5 DEF WalksAlive
<1> QED  BY <1>3, <1>6

\* Every step of Next keeps the invariant.
LEMMA AliveStep == AliveInv /\ [Next]_vars => AliveInv'
<1> SUFFICES ASSUME AliveInv, [Next]_vars PROVE AliveInv'
  OBVIOUS
<1> USE DEF AliveInv, TreeTypes
<1>1. ASSUME NEW c \in Cgroups, NEW x \in Attachable, NEW fl \in AttachFlags,
             AttachBegin(c, x, fl) \/ AttachFails(c, x, fl)
      PROVE  AliveInv'
  BY <1>1, AliveFrame DEF AttachBegin, AttachFails, OwnersAbove
<1>2. ASSUME NEW c \in Cgroups, NEW x \in Attachments, DetachBegin(c, x) \/ DetachPurges(c, x)
      PROVE  AliveInv'
  BY <1>2, AliveFrame DEF DetachBegin, DetachPurges, OwnersAbove
<1>3. ASSUME NEW d \in Cgroups, SkipZero(d) \/ PublishEffective(d) \/ PurgeOne(d) \/ ReplaceOne(d)
      PROVE  AliveInv'
  BY <1>3, AliveFrame DEF SkipZero, PublishEffective, PurgeOne, ReplaceOne, OwnersAbove
<1>4. CASE ActivateOrPublish
  <2>1. CASE owner' = [owner EXCEPT ![op.cur] = Nearest(op.cur)]
    BY <1>4, <2>1, AlivePublish DEF ActivateOrPublish
  <2>2. CASE UNCHANGED owner
    BY <1>4, <2>2, AliveFrame DEF ActivateOrPublish, OwnersAbove
  <2> QED  BY <1>4, <2>1, <2>2 DEF ActivateOrPublish
<1>5. CASE PublishOrDeactivate
  BY <1>5, AlivePublish DEF PublishOrDeactivate
<1>6. CASE AttachEnd \/ DetachEnd \/ ReplaceEnd \/ \E l \in Links, x \in Progs : ReplaceBegin(l, x)
  BY <1>6, AliveFrame DEF AttachEnd, DetachEnd, ReplaceEnd, ReplaceBegin, OwnersAbove
<1>7. ASSUME NEW c \in Cgroups, NEW new, SetScope(c, new)
      PROVE  AliveInv'
  BY <1>7, AliveFrame DEF SetScope, OwnersAbove
<1>8. ASSUME NEW c \in Cgroups,
             Mkdir(c) \/ Rmdir(c) \/ DropRefcnt(c) \/ ReleaseProgs(c) \/ ReleaseScope(c)
      PROVE  AliveInv'
  BY <1>8, AliveMkdir, AliveRmdir, AliveDropRefcnt, AliveRelease
<1>9. ASSUME NEW t \in Tasks, NEW c \in Cgroups, Migrate(t, c)
      PROVE  AliveInv'
  BY <1>9 DEF Migrate, treeVars, OwnersAbove, TreeClosed, TasksLive, WalksAlive, Present
<1>10. ASSUME NEW t \in Tasks,
              \/ \E p \in Paths : WalkGate(t, p)
              \/ WalkPrefilter(t) \/ WalkOwner(t) \/ WalkMatch(t) \/ WalkRun(t) \/ WalkEnd(t)
       PROVE  AliveInv'
  BY <1>10, AliveWalk
<1>11. CASE UNCHANGED vars
  BY <1>11, AliveFrame DEF vars, treeVars, OwnersAbove
<1> QED
  BY <1>1, <1>2, <1>3, <1>4, <1>5, <1>6, <1>7, <1>8, <1>9, <1>10, <1>11 DEF Next

\* In every tree: owners lie above, release goes from the leaves to the root, and
\* what a dispatch of __cgroup_bpf_run_namei_ext has loaded is there.
THEOREM DispatchTreeInvariant == Spec => []AliveInv
BY AliveInit, AliveStep, PTL DEF Spec

\* For every tree and every number of tasks: __cgroup_bpf_run_namei_ext takes no
\* reference, and neither the cgroup it started from nor the owner whose scope it
\* checks has begun to be released.
THEOREM DispatchNeverTooLate == Spec => []DispatchAlive
<1>1. AliveInv => DispatchAlive
  BY ChainFacts DEF AliveInv, WalksAlive, TreeClosed, DispatchAlive
<1> QED  BY <1>1, DispatchTreeInvariant, PTL

-----------------------------------------------------------------------------
(* The prefilter covers every owner that still has a policy.               *)

OpRecord ==
    /\ op.kind \in {"idle", "attach", "detach", "purge", "replace"}
    /\ op.kind = "idle" => op = Idle
    /\ op.kind = "attach" => op = [kind |-> "attach", cgrp |-> op.cgrp, key |-> op.key,
                                   todo |-> op.todo, cur |-> op.cur, step |-> op.step]
    /\ op.kind = "detach" => op = [kind |-> "detach", cgrp |-> op.cgrp, todo |-> op.todo,
                                   cur |-> op.cur, step |-> op.step]
    /\ op.kind \in {"purge", "replace"} =>
            op = [kind |-> op.kind, cgrp |-> op.cgrp, todo |-> op.todo, prog |-> op.prog,
                  cur |-> op.cur, step |-> op.step]

CoverTypes ==
    /\ progs = [c \in Cgroups |-> progs[c]]
    /\ active \in [Cgroups -> BOOLEAN]
    /\ OpRecord
    /\ \A c \in Cgroups : life[c] = "absent" => progs[c] = <<>>

\* What remains to be visited is closed downwards, the cgroup being visited is
\* topmost in it, and a purge is about a program that is in its list.
VisitOrder ==
    op.kind # "idle" =>
        /\ op.cgrp \in Cgroups
        /\ \A d \in op.todo, e \in Cgroups :
              d \in ToSet(Chain[e]) /\ life[e] # "absent" => e \in op.todo
        /\ op.cur # Nobody => /\ op.cur \in Cgroups /\ op.cur \in op.todo
                              /\ Ancestors(op.cur) \cap op.todo = {}
        /\ op.kind = "purge" => progs[op.cgrp] # <<>>

\* An owner a walk can load counts for the prefilter, unless it has lost its
\* policy and the update that took it has yet to visit the cgroup.
OwnersCount ==
    \A d \in Cgroups : Present(d) /\ owner[d] # Nobody =>
        \/ active[owner[d]]
        \/ Updating /\ d \in op.todo /\ progs[owner[d]] = <<>>

\* A cgroup with a policy counts, unless the attach has yet to visit it.
AttachedCount ==
    \A o \in Cgroups : Present(o) /\ progs[o] # <<>> =>
        \/ active[o]
        \/ op.kind = "attach" /\ op.cgrp = o /\ o \in op.todo

\* The inductive invariant of AttachedOwnerIsCovered.
CoverInv == CoverTypes /\ VisitOrder /\ OwnersCount /\ AttachedCount

\* Nothing is attached at the start.
LEMMA CoverInit == Init => CoverInv
BY DEF Init, CoverInv, CoverTypes, OpRecord, VisitOrder, OwnersCount, AttachedCount, Idle,
       Present

\* ToUpdate is what the tree walk of update_effective_progs starts with.
LEMMA ToUpdateFacts ==
    ASSUME NEW c \in Cgroups
    PROVE  /\ \A d \in ToUpdate(c), e \in Cgroups :
                d \in ToSet(Chain[e]) /\ life[e] # "absent" => e \in ToUpdate(c)
           /\ life[c] # "absent" => c \in ToUpdate(c)
BY ChainFacts DEF ToUpdate, Subtree

\* An attach or detach begins: every owner counts, and only the list of its own
\* cgroup changes.
LEMMA CoverBegin ==
    ASSUME AliveInv, CoverInv, NEW c \in Cgroups, NEW x,
           \/ \E fl : AttachBegin(c, x, fl)
           \/ DetachBegin(c, x) \/ DetachPurges(c, x)
    PROVE  CoverInv'
<1> USE DEF CoverInv
<1>0. op = Idle /\ UNCHANGED <<life, owner, active>> /\ life[c] # "absent"
  <2>1. CASE \E fl : AttachBegin(c, x, fl)
    BY <2>1 DEF AttachBegin, AttachAllowed
  <2>2. CASE DetachBegin(c, x) \/ DetachPurges(c, x)
    <3>1. progs[c] # <<>>
      BY <2>2 DEF DetachBegin, DetachPurges, Detachable, ToSet
    <3> QED  BY <2>2, <3>1 DEF DetachBegin, DetachPurges, CoverTypes
  <2> QED  BY <2>1, <2>2
<1>1. /\ op'.kind \in {"attach", "detach", "purge"} /\ op'.cgrp = c
      /\ op'.todo = ToUpdate(c) /\ op'.cur = Nobody
      /\ OpRecord'
  BY DEF AttachBegin, DetachBegin, DetachPurges, OpRecord
<1>2. /\ progs' = [d \in Cgroups |-> progs'[d]]
      /\ \A d \in Cgroups : d # c => progs'[d] = progs[d]
      /\ op'.kind # "attach" => progs[c] # <<>>
      /\ op'.kind = "purge" => progs'[c] # <<>>
  <2>1. CASE \E fl : AttachBegin(c, x, fl)
    BY <2>1 DEF AttachBegin, CoverTypes
  <2>2. CASE DetachBegin(c, x)
    <3>1. progs[c] # <<>>
      BY <2>2 DEF DetachBegin, Detachable, ToSet
    <3>2. progs' = [progs EXCEPT ![c] = RemoveFirst(@, x)] /\ op'.kind = "detach"
      BY <2>2 DEF DetachBegin
    <3> QED  BY <3>1, <3>2 DEF CoverTypes
  <2>3. CASE DetachPurges(c, x)
    BY <2>3 DEF DetachPurges, Detachable, ToSet, CoverTypes
  <2> QED  BY <2>1, <2>2, <2>3
<1>3. CoverTypes'
  BY <1>0, <1>1, <1>2 DEF CoverTypes
<1>4. VisitOrder'
  BY <1>0, <1>1, <1>2, ToUpdateFacts DEF VisitOrder
<1>5. OwnersCount'
  BY <1>0 DEF OwnersCount, Updating, Idle, Present
<1>6. AttachedCount'
  BY <1>0, <1>1, <1>2, ToUpdateFacts DEF AttachedCount, Idle, Present
<1> QED  BY <1>3, <1>4, <1>5, <1>6

\* The update of a link begins: no list becomes empty or ceases to be.
LEMMA CoverReplaceBegin ==
    ASSUME AliveInv, CoverInv, NEW l, NEW x, ReplaceBegin(l, x)
    PROVE  CoverInv'
<1> USE DEF CoverInv
<1>1. PICK c \in Cgroups :
         /\ \E i \in DOMAIN progs[c] : progs[c][i] \in {l} \X Progs
         /\ progs' = [progs EXCEPT ![c] =
                          [i \in DOMAIN @ |-> IF @[i] \in {l} \X Progs THEN <<l, x>> ELSE @[i]]]
         /\ op' = [kind |-> "replace", cgrp |-> c, todo |-> ToUpdate(c), prog |-> <<l, x>>,
                   cur |-> Nobody, step |-> 0]
  BY DEF ReplaceBegin, LinkedAt
<1>2. op = Idle /\ UNCHANGED <<life, owner, active>>
  BY DEF ReplaceBegin
<1>3. progs[c] # <<>> /\ life[c] # "absent"
  BY <1>1 DEF CoverTypes
<1>4. /\ progs' = [d \in Cgroups |-> progs'[d]]
      /\ \A d \in Cgroups : d # c => progs'[d] = progs[d]
  BY <1>1 DEF CoverTypes
<1>5. OpRecord' /\ op'.kind = "replace" /\ op'.cgrp = c /\ op'.todo = ToUpdate(c) /\ op'.cur = Nobody
  BY <1>1 DEF OpRecord
<1>6. CoverTypes'
  BY <1>2, <1>3, <1>4, <1>5 DEF CoverTypes
<1>7. VisitOrder'
  BY <1>2, <1>5, ToUpdateFacts DEF VisitOrder
<1>8. OwnersCount'
  BY <1>2 DEF OwnersCount, Updating, Idle, Present
<1>9. AttachedCount'
  BY <1>2, <1>3, <1>4 DEF AttachedCount, Idle, Present
<1> QED  BY <1>6, <1>7, <1>8, <1>9

\* The traversal leaves a cgroup that is not there, or one whose array alone changes.
LEMMA CoverLeave ==
    ASSUME AliveInv, CoverInv, NEW d \in Cgroups, NextInPreorder(d),
           ~Present(d) \/ op.kind \in {"purge", "replace"},
           op' = [op EXCEPT !.todo = @ \ {d}], UNCHANGED <<life, progs, owner, active>>
    PROVE  CoverInv'
<1> USE DEF CoverInv
<1>1. /\ OpRecord' /\ op'.kind = op.kind /\ op'.cgrp = op.cgrp /\ op'.cur = op.cur
      /\ op'.todo = op.todo \ {d} /\ op.kind # "idle" /\ op.cur = Nobody
  BY DEF CoverTypes, OpRecord, NextInPreorder, Idle
<1>2. CoverTypes'
  BY <1>1 DEF CoverTypes
<1>3. \A e \in ToSet(Chain[d]) : e \in op.todo => e = d
  BY AboveOrSelf DEF NextInPreorder
<1>4. VisitOrder'
  BY <1>1, <1>3 DEF VisitOrder
<1>5. OwnersCount'
  BY <1>1 DEF OwnersCount, Updating, Present
<1>6. AttachedCount'
  BY <1>1 DEF AttachedCount, Present
<1> QED  BY <1>2, <1>4, <1>5, <1>6

\* The array is published, and the cgroup is the one being visited.
LEMMA CoverPublishEffective ==
    ASSUME AliveInv, CoverInv, NEW d \in Cgroups, PublishEffective(d)
    PROVE  CoverInv'
<1> USE DEF CoverInv
<1>1. /\ OpRecord' /\ op'.kind = op.kind /\ op'.cgrp = op.cgrp /\ op'.cur = d
      /\ op'.todo = op.todo /\ d \in op.todo /\ Ancestors(d) \cap op.todo = {}
      /\ UNCHANGED <<life, progs, owner, active>>
  BY DEF CoverTypes, OpRecord, PublishEffective, NextInPreorder, Idle, Updating
<1> QED
  BY <1>1 DEF CoverTypes, VisitOrder, OwnersCount, AttachedCount, Updating, Present

\* The owner an update publishes counts, or is the visited cgroup itself.
LEMMA NearestCounts ==
    ASSUME AliveInv, CoverInv, Updating, op.cur # Nobody, Present(op.cur),
           Nearest(op.cur) # op.cur, Nearest(op.cur) # Nobody
    PROVE  active[Nearest(op.cur)]
<1> DEFINE o == Nearest(op.cur)
<1>1. op.cur \in Cgroups /\ Ancestors(op.cur) \cap op.todo = {}
  BY DEF CoverInv, VisitOrder, Updating
<1>2. o \in ToSet(Chain[op.cur]) /\ progs[o] # <<>> /\ o \in Cgroups
  BY <1>1, NearestFacts, ChainFacts
<1>3. Present(o) /\ o \notin op.todo
  BY <1>1, <1>2, AboveOrSelf DEF AliveInv, TreeClosed
<1> QED  BY <1>2, <1>3 DEF CoverInv, AttachedCount

\* Activation comes before the cgroup's own policy becomes its owner; an owner
\* further up counts already.
LEMMA CoverActivateOrPublish ==
    ASSUME AliveInv, CoverInv, ActivateOrPublish
    PROVE  CoverInv'
<1> USE DEF CoverInv
<1>1. /\ OpRecord' /\ op'.kind = op.kind /\ op'.cgrp = op.cgrp /\ op'.cur = op.cur
      /\ op'.todo = op.todo /\ Updating /\ op.cur # Nobody
      /\ UNCHANGED <<life, progs>>
  BY DEF CoverTypes, OpRecord, ActivateOrPublish, Idle, Updating
<1>2. VisitOrder'
  BY <1>1 DEF VisitOrder
<1>3. op.cur \in Cgroups
  BY <1>1 DEF VisitOrder, Updating
<1>4. CASE Nearest(op.cur) = op.cur
  <2>1. active' = [active EXCEPT ![op.cur] = TRUE] /\ UNCHANGED owner
    BY <1>4 DEF ActivateOrPublish
  <2> QED  BY <1>1, <1>2, <1>3, <2>1
           DEF CoverTypes, OwnersCount, AttachedCount, Updating, Present, AliveInv, TreeTypes
<1>5. CASE Nearest(op.cur) # op.cur
  <2>1. owner' = [owner EXCEPT ![op.cur] = Nearest(op.cur)] /\ UNCHANGED active
    BY <1>5 DEF ActivateOrPublish
  <2>2. \A d \in Cgroups : d # op.cur => owner'[d] = owner[d]
    BY <1>3, <2>1 DEF AliveInv, TreeTypes
  <2>3. owner'[op.cur] = Nearest(op.cur)
    BY <1>3, <2>1 DEF AliveInv, TreeTypes
  <2>4. Present(op.cur) /\ Nearest(op.cur) # Nobody => active[Nearest(op.cur)]
    BY <1>1, <1>5, NearestCounts
  <2>5. OwnersCount'
    BY <1>1, <2>1, <2>2, <2>3, <2>4 DEF OwnersCount, Updating, Present
  <2> QED  BY <1>1, <1>2, <2>1, <2>5 DEF CoverTypes, AttachedCount, Present
<1> QED  BY <1>4, <1>5

\* A scope stops to count only when its cgroup has lost its policy, and then its
\* descendants have yet to be visited.
LEMMA CoverPublishOrDeactivate ==
    ASSUME AliveInv, CoverInv, PublishOrDeactivate
    PROVE  CoverInv'
<1> USE DEF CoverInv
<1>1. /\ OpRecord' /\ op'.kind = op.kind /\ op'.cgrp = op.cgrp /\ op'.cur = Nobody
      /\ op'.todo = op.todo \ {op.cur} /\ Updating /\ op.cur # Nobody
      /\ UNCHANGED <<life, progs>>
  BY DEF CoverTypes, OpRecord, PublishOrDeactivate, Idle, Updating
<1>2. /\ op.cur \in Cgroups /\ op.cur \in op.todo /\ op.cgrp \in Cgroups
      /\ \A e \in ToSet(Chain[op.cur]) : e \in op.todo => e = op.cur
  BY <1>1, AboveOrSelf DEF VisitOrder, Updating
<1>3. VisitOrder'
  BY <1>1, <1>2 DEF VisitOrder, Updating
<1>4. /\ \A d \in Cgroups : d # op.cur => owner'[d] = owner[d] /\ active'[d] = active[d]
      /\ owner'[op.cur] = Nearest(op.cur)
      /\ active'[op.cur] = (Nearest(op.cur) = op.cur)
      /\ active' \in [Cgroups -> BOOLEAN]
  BY <1>2 DEF PublishOrDeactivate, AliveInv, TreeTypes, CoverTypes
<1>5. progs[op.cur] # <<>> => active'[op.cur]
  BY <1>2, <1>4, NearestFacts
<1>6. CoverTypes'
  BY <1>1, <1>4 DEF CoverTypes
<1>7. ASSUME NEW d \in Cgroups, Present(d)', owner'[d] # Nobody
      PROVE  active'[owner'[d]] \/ (Updating' /\ d \in op'.todo /\ progs'[owner'[d]] = <<>>)
  <2>1. Present(d)
    BY <1>1, <1>7 DEF Present
  <2>2. CASE d = op.cur
    <3>1. CASE Nearest(op.cur) = op.cur
      BY <1>4, <2>2, <3>1
    <3>2. CASE Nearest(op.cur) # op.cur
      <4>1. active[Nearest(op.cur)] /\ Nearest(op.cur) \in Cgroups
        BY <1>1, <1>2, <1>4, <1>7, <2>1, <2>2, <3>2, NearestCounts, NearestFacts
      <4> QED  BY <1>4, <2>2, <3>2, <4>1
    <3> QED  BY <3>1, <3>2
  <2>3. CASE d # op.cur
    <3>1. owner'[d] = owner[d] /\ owner[d] \in ToSet(Chain[d]) /\ owner[d] \in Cgroups
      BY <1>4, <1>7, <2>3, ChainFacts DEF AliveInv, OwnersAbove
    <3>2. CASE owner[d] = op.cur
      <4>1. d \in op'.todo
        BY <1>1, <1>2, <2>1, <2>3, <3>1, <3>2 DEF VisitOrder, Updating, Present
      <4> QED  BY <1>1, <1>5, <3>1, <3>2, <4>1 DEF Updating
    <3>3. CASE owner[d] # op.cur
      BY <1>1, <1>4, <1>7, <2>1, <2>3, <3>1, <3>3 DEF OwnersCount, Updating
    <3> QED  BY <3>2, <3>3
  <2> QED  BY <2>2, <2>3
<1>8. OwnersCount'
  BY <1>7 DEF OwnersCount
<1>9. AttachedCount'
  BY <1>1, <1>4, <1>5 DEF AttachedCount, Present
<1> QED  BY <1>3, <1>6, <1>8, <1>9

\* An update ends with nothing left to visit, so every owner counts.
LEMMA CoverEnd ==
    ASSUME AliveInv, CoverInv, AttachEnd \/ DetachEnd \/ ReplaceEnd
    PROVE  CoverInv'
<1> USE DEF CoverInv
<1>1. /\ op.kind # "idle" /\ op.todo = {} /\ op' = Idle
      /\ UNCHANGED <<life, owner, active>>
  BY DEF AttachEnd, DetachEnd, ReplaceEnd
<1>2. op.cgrp \in Cgroups
  BY <1>1 DEF VisitOrder
<1>3. /\ progs' = [c \in Cgroups |-> progs'[c]]
      /\ \A c \in Cgroups : progs'[c] # <<>> => progs[c] # <<>>
  <2>1. CASE AttachEnd \/ ReplaceEnd
    BY <2>1 DEF AttachEnd, ReplaceEnd, CoverTypes
  <2>2. CASE DetachEnd
    <3>1. op.kind # "purge" => ListAfterDetach = progs[op.cgrp]
      BY DEF ListAfterDetach
    <3>2. op.kind = "purge" => progs[op.cgrp] # <<>>
      BY DEF VisitOrder
    <3>3. progs' = [progs EXCEPT ![op.cgrp] = ListAfterDetach]
      BY <2>2 DEF DetachEnd
    <3> QED  BY <1>2, <3>1, <3>2, <3>3 DEF CoverTypes
  <2> QED  BY <2>1, <2>2
<1>4. CoverTypes' /\ VisitOrder'
  BY <1>1, <1>3 DEF CoverTypes, OpRecord, VisitOrder, Idle
<1>5. OwnersCount' /\ AttachedCount'
  BY <1>1, <1>3 DEF OwnersCount, AttachedCount, Present
<1> QED  BY <1>4, <1>5

\* A new cgroup inherits an owner that counts.
LEMMA CoverMkdir ==
    ASSUME AliveInv, CoverInv, NEW c \in Cgroups, Mkdir(c)
    PROVE  CoverInv'
<1> USE DEF CoverInv
<1>1. /\ op = Idle /\ life[c] = "absent" /\ life' = [life EXCEPT ![c] = "live"]
      /\ owner' = [owner EXCEPT ![c] = Nearest(c)] /\ UNCHANGED <<progs, active, op>>
  BY DEF Mkdir
<1>2. \A d \in Cgroups : d # c => owner'[d] = owner[d] /\ life'[d] = life[d]
  BY <1>1 DEF AliveInv, TreeTypes
<1>3. owner'[c] = Nearest(c) /\ life'[c] = "live"
  BY <1>1 DEF AliveInv, TreeTypes
<1>4. progs[c] = <<>>
  BY <1>1 DEF CoverTypes
<1>5. ASSUME Nearest(c) # Nobody  PROVE active[Nearest(c)]
  <2>1. PICK o \in Cgroups : o = Nearest(c) /\ o \in ToSet(Chain[c]) /\ progs[o] # <<>>
    BY <1>5, NearestFacts
  <2>2. o # c
    BY <1>4, <2>1
  <2>3. Present(c)' /\ AliveInv'
    BY <1>3, AliveMkdir DEF Present
  <2>4. Present(o)'
    BY <2>1, <2>3 DEF AliveInv, TreeClosed
  <2>5. Present(o)
    BY <1>2, <2>1, <2>2, <2>4 DEF Present
  <2> QED  BY <1>1, <2>1, <2>5 DEF AttachedCount, Idle
<1>6. CoverTypes' /\ VisitOrder'
  BY <1>1, <1>2, <1>3 DEF CoverTypes, OpRecord, VisitOrder, Idle
<1>7. OwnersCount'
  BY <1>1, <1>2, <1>3, <1>5 DEF OwnersCount, Updating, Idle, Present
<1>8. AttachedCount'
  BY <1>1, <1>2, <1>4 DEF AttachedCount, Present
<1> QED  BY <1>6, <1>7, <1>8

\* Removal takes away cgroups that own nothing any more.
LEMMA CoverRemove ==
    ASSUME AliveInv, CoverInv, NEW c \in Cgroups,
           Rmdir(c) \/ DropRefcnt(c) \/ ReleaseProgs(c) \/ ReleaseScope(c)
    PROVE  CoverInv'
<1> USE DEF CoverInv
<1>1. /\ \A d \in Cgroups : (life'[d] = "absent") <=> (life[d] = "absent")
      /\ \A d \in Cgroups : Present(d)' => Present(d)
      /\ UNCHANGED <<owner, op>>
  BY DEF Rmdir, DropRefcnt, ReleaseProgs, ReleaseScope, Present, AliveInv, TreeTypes
<1>2. CASE Rmdir(c) \/ DropRefcnt(c)
  <2>1. UNCHANGED <<progs, active>>
    BY <1>2 DEF Rmdir, DropRefcnt
  <2> QED  BY <1>1, <2>1 DEF CoverTypes, OpRecord, VisitOrder, OwnersCount, AttachedCount, Updating
<1>3. CASE ReleaseProgs(c)
  <2>1. op = Idle /\ progs' = [progs EXCEPT ![c] = <<>>] /\ UNCHANGED active
    BY <1>3 DEF ReleaseProgs
  <2>2. /\ progs' = [d \in Cgroups |-> progs'[d]]
        /\ \A d \in Cgroups : progs'[d] = progs[d] \/ progs'[d] = <<>>
    BY <2>1 DEF CoverTypes
  <2> QED  BY <1>1, <2>1, <2>2
           DEF CoverTypes, OpRecord, VisitOrder, OwnersCount, AttachedCount, Updating, Idle
<1>4. CASE ReleaseScope(c)
  <2>1. ~Present(c) /\ active' = [active EXCEPT ![c] = FALSE] /\ UNCHANGED progs
    BY <1>4 DEF ReleaseScope, Present
  <2>2. \A d \in Cgroups : Present(d) /\ owner[d] # Nobody => owner[d] # c /\ owner[d] \in Cgroups
    BY <2>1, ChainFacts DEF AliveInv, OwnersAbove, TreeClosed
  <2>3. active' \in [Cgroups -> BOOLEAN] /\ \A d \in Cgroups : d # c => active'[d] = active[d]
    BY <2>1 DEF CoverTypes
  <2>4. OwnersCount' /\ AttachedCount'
    BY <1>1, <2>1, <2>2, <2>3 DEF OwnersCount, AttachedCount, Updating
  <2> QED  BY <1>1, <2>1, <2>3, <2>4 DEF CoverTypes, OpRecord, VisitOrder
<1> QED  BY <1>2, <1>3, <1>4

\* Everything else leaves lists, owners, activation and the traversal alone.
LEMMA CoverFrame ==
    ASSUME CoverInv, UNCHANGED <<life, progs, owner, active, op>>
    PROVE  CoverInv'
BY DEF CoverInv, CoverTypes, OpRecord, VisitOrder, OwnersCount, AttachedCount, Updating, Present

\* Every step of Next keeps the invariant.
LEMMA CoverStep == AliveInv /\ CoverInv /\ [Next]_vars => CoverInv'
<1> SUFFICES ASSUME AliveInv, CoverInv, [Next]_vars PROVE CoverInv'
  OBVIOUS
<1>1. ASSUME NEW c \in Cgroups, NEW x \in Attachable, NEW fl \in AttachFlags,
             AttachBegin(c, x, fl)
      PROVE  CoverInv'
  BY <1>1, CoverBegin
<1>2. ASSUME NEW c \in Cgroups, NEW x \in Attachments, DetachBegin(c, x) \/ DetachPurges(c, x)
      PROVE  CoverInv'
  BY <1>2, CoverBegin
<1>3. ASSUME NEW c \in Cgroups, NEW x \in Attachable, NEW fl \in AttachFlags,
             AttachFails(c, x, fl)
      PROVE  CoverInv'
  BY <1>3, CoverFrame DEF AttachFails
<1>4. ASSUME NEW d \in Cgroups, SkipZero(d) \/ PurgeOne(d) \/ ReplaceOne(d)
      PROVE  CoverInv'
  BY <1>4, CoverLeave DEF SkipZero, PurgeOne, ReplaceOne
<1>5. ASSUME NEW d \in Cgroups, PublishEffective(d)
      PROVE  CoverInv'
  BY <1>5, CoverPublishEffective
<1>6. CASE ActivateOrPublish \/ PublishOrDeactivate \/ AttachEnd \/ DetachEnd \/ ReplaceEnd
  BY <1>6, CoverActivateOrPublish, CoverPublishOrDeactivate, CoverEnd
<1>7. ASSUME NEW c \in Cgroups, NEW new, SetScope(c, new)
      PROVE  CoverInv'
  BY <1>7, CoverFrame DEF SetScope
<1>8. ASSUME NEW c \in Cgroups,
             Mkdir(c) \/ Rmdir(c) \/ DropRefcnt(c) \/ ReleaseProgs(c) \/ ReleaseScope(c)
      PROVE  CoverInv'
  BY <1>8, CoverMkdir, CoverRemove
<1>9. CASE (\E t \in Tasks, c \in Cgroups : Migrate(t, c)) \/ UNCHANGED vars
  BY <1>9, CoverFrame DEF Migrate, vars, treeVars
<1>10. ASSUME NEW t \in Tasks,
              \/ \E p \in Paths : WalkGate(t, p)
              \/ WalkPrefilter(t) \/ WalkOwner(t) \/ WalkMatch(t) \/ WalkRun(t) \/ WalkEnd(t)
       PROVE  CoverInv'
  BY <1>10, CoverFrame
  DEF WalkGate, WalkPrefilter, WalkOwner, WalkMatch, WalkRun, WalkEnd, WalkStep, treeVars
<1>11. ASSUME NEW l \in Links, NEW x \in Progs, ReplaceBegin(l, x)
       PROVE  CoverInv'
  BY <1>11, CoverReplaceBegin
<1> QED
  BY <1>1, <1>2, <1>3, <1>4, <1>5, <1>6, <1>7, <1>8, <1>9, <1>10, <1>11 DEF Next

\* The invariant of the traversal holds always.
LEMMA CoverHolds == Spec => []CoverInv
BY DispatchTreeInvariant, CoverInit, CoverStep, PTL DEF Spec

\* For every tree, every order of attaches, detaches and removals, and also when
\* allocations fail: namei_ext_parent_maybe_managed admits every directory in the
\* scope of an owner that activate_effective_progs has published and whose policy
\* is still attached.
THEOREM PrefilterCoversAttached == Spec => []AttachedOwnerIsCovered
<1>1. AliveInv /\ CoverInv => AttachedOwnerIsCovered
  <2> SUFFICES ASSUME AliveInv, CoverInv, NEW c \in Cgroups, Present(c), owner[c] # Nobody,
                      progs[owner[c]] # <<>>, NEW p \in Paths, InScope(owner[c], p)
               PROVE  Managed(p)
    BY DEF AttachedOwnerIsCovered
  <2>1. owner[c] \in Cgroups /\ active[owner[c]]
    BY DEF AliveInv, TreeTypes, CoverInv, OwnersCount
  <2> QED  BY <2>1 DEF InScope, Managed
<1> QED  BY <1>1, CoverHolds, DispatchTreeInvariant, PTL

-----------------------------------------------------------------------------
(* The program lists.                                                      *)

\* The attachments of link l.
OfLink(l) == {l} \X Progs

ListTypes ==
    /\ progs \in [Cgroups -> Seq(Attachments)]
    /\ flags \in [Cgroups -> {"none", "override", "multi"}]

\* Several programs, or a link, only where several are allowed.
ManyOnlyMulti ==
    \A c \in Cgroups : \/ flags[c] = "multi"
                       \/ /\ Len(progs[c]) <= 1
                          /\ \A i \in 1..Len(progs[c]) : progs[c][i] \notin LinkAttachments

\* link->cgroup: a link is in one list, once.
LinksOnce ==
    \A l \in Links : \A c, d \in Cgroups : \A i \in 1..Len(progs[c]), j \in 1..Len(progs[d]) :
        progs[c][i] \in OfLink(l) /\ progs[d][j] \in OfLink(l) => c = d /\ i = j

\* What is purged or replaced is still in its list.
StillListed ==
    op.kind \in {"purge", "replace"} =>
        /\ op.prog \in Attachments /\ Has(progs[op.cgrp], op.prog)
        /\ op.kind = "replace" => op.prog \in LinkAttachments

\* The inductive invariant of the lists.
ListsInv == ListTypes /\ ManyOnlyMulti /\ LinksOnce /\ StillListed

\* What InsertAt returns.
LEMMA InsertFacts ==
    ASSUME NEW T, NEW s \in Seq(T), NEW x \in T, NEW i \in 1..(Len(s) + 1)
    PROVE  /\ InsertAt(s, i, x) \in Seq(T) /\ Len(InsertAt(s, i, x)) = Len(s) + 1
           /\ \A k \in 1..(Len(s) + 1) :
                 \/ k = i /\ InsertAt(s, i, x)[k] = x
                 \/ k < i /\ k \in 1..Len(s) /\ InsertAt(s, i, x)[k] = s[k]
                 \/ k > i /\ k - 1 \in 1..Len(s) /\ InsertAt(s, i, x)[k] = s[k - 1]
<1> DEFINE a == SubSeq(s, 1, i - 1)
           b == SubSeq(s, i, Len(s))
<1>1. /\ a \in Seq(T) /\ Len(a) = i - 1 /\ \A k \in 1..(i - 1) : a[k] = s[k]
      /\ b \in Seq(T) /\ Len(b) = Len(s) - i + 1
      /\ \A k \in 1..(Len(s) - i + 1) : b[k] = s[k + i - 1]
      /\ Len(s) \in Nat
  OBVIOUS
<1>2. InsertAt(s, i, x) = a \o <<x>> \o b
  BY DEF InsertAt
<1> HIDE DEF a, b
<1> DEFINE h == a \o <<x>>
<1>3. h \in Seq(T) /\ Len(h) = i /\ h[i] = x /\ \A k \in 1..(i - 1) : h[k] = s[k]
  <2>1. <<x>> \in Seq(T) /\ Len(<<x>>) = 1 /\ <<x>>[1] = x
    OBVIOUS
  <2>2. /\ h \in Seq(T) /\ Len(h) = Len(a) + Len(<<x>>)
        /\ \A k \in 1..Len(a) : h[k] = a[k]
        /\ \A k \in 1..Len(<<x>>) : h[Len(a) + k] = <<x>>[k]
    <3> HIDE DEF h
    <3>1. /\ a \o <<x>> \in Seq(T) /\ Len(a \o <<x>>) = Len(a) + Len(<<x>>)
          /\ \A k \in 1..Len(a) : (a \o <<x>>)[k] = a[k]
          /\ \A k \in 1..Len(<<x>>) : (a \o <<x>>)[Len(a) + k] = <<x>>[k]
      <4>1. a \in Seq(T) /\ <<x>> \in Seq(T)
        BY <1>1, <2>1
      <4> QED  BY <4>1, ConcatAt
    <3> QED  BY <3>1, Zenon DEF h
  <2>3. i \in Nat /\ (i - 1) + 1 = i /\ 1 \in 1..1
    BY <1>1
  <2>4. Len(h) = i /\ h[i] = x
    BY <1>1, <2>1, <2>2, <2>3
  <2> QED  BY <1>1, <2>2, <2>4
<1> HIDE DEF h
<1> DEFINE r == h \o b
<1>4. /\ r \in Seq(T) /\ Len(r) = Len(s) + 1
      /\ \A k \in 1..i : r[k] = h[k]
      /\ \A k \in (i + 1)..(Len(s) + 1) : r[k] = b[k - i]
  BY <1>1, <1>3
<1>5. InsertAt(s, i, x) = r
  BY <1>2 DEF h, r
<1> HIDE DEF r
<1>6. ASSUME NEW k \in 1..(Len(s) + 1)
      PROVE  \/ k = i /\ r[k] = x
             \/ k < i /\ k \in 1..Len(s) /\ r[k] = s[k]
             \/ k > i /\ k - 1 \in 1..Len(s) /\ r[k] = s[k - 1]
  <2>1. CASE k <= i
    <3>1. k \in 1..i /\ (k = i \/ (k < i /\ k \in 1..(i - 1) /\ k \in 1..Len(s)))
      BY <1>1, <2>1
    <3> QED  BY <1>3, <1>4, <3>1
  <2>2. CASE k > i
    <3>1. k - i \in 1..(Len(s) - i + 1) /\ k \in (i + 1)..(Len(s) + 1) /\ (k - i) + i - 1 = k - 1
      BY <1>1, <2>2
    <3>2. r[k] = s[k - 1]
      BY <1>1, <1>4, <3>1
    <3> QED  BY <1>1, <2>2, <3>2
  <2> QED  BY <1>1, <2>1, <2>2
<1> QED  BY <1>4, <1>5, <1>6

\* What RemoveFirst returns: the list without one entry.
LEMMA RemoveFacts ==
    ASSUME NEW T, NEW s \in Seq(T), NEW x, Has(s, x)
    PROVE  /\ RemoveFirst(s, x) \in Seq(T) /\ Len(RemoveFirst(s, x)) = Len(s) - 1
           /\ \E i \in 1..Len(s) : \A k \in 1..(Len(s) - 1) :
                 \/ k < i /\ k \in 1..Len(s) /\ RemoveFirst(s, x)[k] = s[k]
                 \/ k >= i /\ k + 1 \in 1..Len(s) /\ RemoveFirst(s, x)[k] = s[k + 1]
<1> DEFINE I == {i \in 1..Len(s) : s[i] = x}
           i == Min(I)
           a == SubSeq(s, 1, i - 1)
           b == SubSeq(s, i + 1, Len(s))
           r == a \o b
<1>1. I # {} /\ I \in SUBSET Nat /\ I \subseteq 1..Len(s)
  BY DEF Has
<1>2. i \in 1..Len(s) /\ Len(s) \in Nat
  <2> HIDE DEF I
  <2>1. i \in I
    BY <1>1, MinFacts
  <2>2. Len(s) \in Nat
    OBVIOUS
  <2> QED  BY <1>1, <2>1, <2>2, Zenon
<1>3. RemoveFirst(s, x) = r
  <2>1. SelectInSeq(s, LAMBDA v : v = x) = i
    BY <1>1 DEF SelectInSeq
  <2> QED  BY <1>1, <2>1 DEF RemoveFirst, RemoveAt, Has
<1> HIDE DEF i
<1>4. /\ a \in Seq(T) /\ Len(a) = i - 1 /\ \A k \in 1..(i - 1) : a[k] = s[k]
      /\ b \in Seq(T) /\ Len(b) = Len(s) - i
      /\ \A k \in 1..(Len(s) - i) : b[k] = s[k + i]
  BY <1>2
<1> HIDE DEF a, b
<1>5. /\ r \in Seq(T) /\ Len(r) = Len(s) - 1
      /\ \A k \in 1..(i - 1) : r[k] = a[k]
      /\ \A k \in i..(Len(s) - 1) : r[k] = b[k - i + 1]
  <2>1. /\ r \in Seq(T) /\ Len(r) = Len(a) + Len(b)
        /\ \A k \in 1..Len(a) : r[k] = a[k]
        /\ \A k \in 1..Len(b) : r[Len(a) + k] = b[k]
    <3>1. a \in Seq(T) /\ b \in Seq(T)
      BY <1>4
    <3> QED  BY <3>1, ConcatAt
  <2>2. ASSUME NEW k \in i..(Len(s) - 1)  PROVE r[k] = b[k - i + 1]
    <3>1. k - i + 1 \in 1..(Len(s) - i) /\ (i - 1) + (k - i + 1) = k
      BY <1>2
    <3>2. k - i + 1 \in 1..Len(b) /\ Len(a) + (k - i + 1) = k
      BY <1>4, <3>1
    <3>3. r[Len(a) + (k - i + 1)] = b[k - i + 1]
      BY <2>1, <3>2
    <3> QED  BY <3>2, <3>3
  <2> QED  BY <1>2, <1>4, <2>1, <2>2
<1> HIDE DEF r
<1>6. ASSUME NEW k \in 1..(Len(s) - 1)
      PROVE  \/ k < i /\ k \in 1..Len(s) /\ r[k] = s[k]
             \/ k >= i /\ k + 1 \in 1..Len(s) /\ r[k] = s[k + 1]
  <2>1. CASE k < i
    BY <1>2, <1>4, <1>5, <2>1
  <2>2. CASE k >= i
    <3>1. k - i + 1 \in 1..(Len(s) - i) /\ k \in i..(Len(s) - 1) /\ (k - i + 1) + i = k + 1
      BY <1>2, <2>2
    <3>2. r[k] = s[k + 1]
      BY <1>4, <1>5, <3>1
    <3> QED  BY <1>2, <2>2, <3>2
  <2> QED  BY <1>2, <2>1, <2>2
<1> QED  BY <1>2, <1>3, <1>5, <1>6

\* A list takes the place of another one, and its links are nowhere else.
LEMMA LinksChange ==
    ASSUME ListTypes, LinksOnce, NEW c \in Cgroups, NEW list \in Seq(Attachments),
           progs' = [progs EXCEPT ![c] = list],
           \A l \in Links : \A k, m \in 1..Len(list) :
                list[k] \in OfLink(l) /\ list[m] \in OfLink(l) => k = m,
           \A l \in Links : \A k \in 1..Len(list) : list[k] \in OfLink(l) => LinkedAt(l) \subseteq {c}
    PROVE  /\ progs' \in [Cgroups -> Seq(Attachments)] /\ LinksOnce'
           /\ progs'[c] = list /\ \A d \in Cgroups : d # c => progs'[d] = progs[d]
<1>1. /\ progs' \in [Cgroups -> Seq(Attachments)]
      /\ progs'[c] = list /\ \A d \in Cgroups : d # c => progs'[d] = progs[d]
  BY DEF ListTypes
<1>2. ASSUME NEW l \in Links, NEW d \in Cgroups, NEW e \in Cgroups,
             NEW i \in 1..Len(progs'[d]), NEW j \in 1..Len(progs'[e]),
             progs'[d][i] \in OfLink(l), progs'[e][j] \in OfLink(l)
      PROVE  d = e /\ i = j
  <2>1. ASSUME NEW b \in Cgroups, b # c, NEW n \in 1..Len(progs'[b]), progs'[b][n] \in OfLink(l)
        PROVE  b \in LinkedAt(l) /\ progs[b][n] \in OfLink(l) /\ n \in 1..Len(progs[b])
    <3>1. progs'[b] = progs[b] /\ DOMAIN progs[b] = 1..Len(progs[b])
      BY <1>1, <2>1 DEF ListTypes
    <3> QED  BY <2>1, <3>1 DEF LinkedAt, OfLink
  <2>2. CASE d = c /\ e = c
    BY <1>1, <1>2, <2>2
  <2>3. CASE d = c /\ e # c
    BY <1>1, <1>2, <2>1, <2>3
  <2>4. CASE d # c /\ e = c
    BY <1>1, <1>2, <2>1, <2>4
  <2>5. CASE d # c /\ e # c
    BY <1>2, <2>1, <2>5 DEF LinksOnce
  <2> QED  BY <2>2, <2>3, <2>4, <2>5
<1>3. LinksOnce'
  BY <1>2 DEF LinksOnce, OfLink
<1> QED  BY <1>1, <1>3

\* A link that is in the list of c is nowhere else.
LEMMA LinkedHere ==
    ASSUME ListTypes, LinksOnce, NEW c \in Cgroups, NEW l \in Links,
           NEW i \in 1..Len(progs[c]), progs[c][i] \in OfLink(l)
    PROVE  LinkedAt(l) \subseteq {c}
<1> SUFFICES ASSUME NEW d \in LinkedAt(l) PROVE d = c
  OBVIOUS
<1>1. d \in Cgroups /\ DOMAIN progs[d] = 1..Len(progs[d])
  BY DEF LinkedAt, ListTypes
<1>2. PICK j \in 1..Len(progs[d]) : progs[d][j] \in OfLink(l)
  BY <1>1 DEF LinkedAt, OfLink
<1> QED  BY <1>1, <1>2 DEF LinksOnce

\* The list an attach leaves behind: at most one entry longer, and a link is in it
\* once and nowhere else.
LEMMA AttachList ==
    ASSUME ListsInv, NEW c \in Cgroups, NEW x \in Attachable, NEW fl \in AttachFlags,
           AttachAllowed(c, x, fl), NEW list \in ListsWith(c, x, fl)
    PROVE  /\ list \in Seq(Attachments) /\ Len(list) # 0 /\ Len(list) - Len(progs[c]) \in {0, 1}
           /\ fl # "multi" => Len(list) = 1 /\ list[1] \notin LinkAttachments
           /\ \A l \in Links : \A k, m \in 1..Len(list) :
                list[k] \in OfLink(l) /\ list[m] \in OfLink(l) => k = m
           /\ \A l \in Links : \A k \in 1..Len(list) : list[k] \in OfLink(l) => LinkedAt(l) \subseteq {c}
<1> DEFINE s == progs[c]
<1>1. /\ s \in Seq(Attachments) /\ Len(s) \in Nat /\ DOMAIN s = 1..Len(s)
      /\ x \in Attachments /\ fl \in {"none", "override", "multi"}
  <2>1. s \in Seq(Attachments)
    BY DEF ListsInv, ListTypes
  <2>2. x \in Attachments /\ fl \in {"none", "override", "multi"}
    BY AttachConstants, Zenon DEF Attachments, LinkAttachments
  <2> HIDE DEF s
  <2>3. Len(s) \in Nat /\ DOMAIN s = 1..Len(s)
    BY <2>1
  <2> QED  BY <2>1, <2>2, <2>3
<1>2. \A l \in Links : OfLink(l) \subseteq LinkAttachments /\ OfLink(l) \cap Progs = {}
  BY AttachConstants DEF OfLink, LinkAttachments
<1>3. \A l \in Links : x \in OfLink(l) => LinkedAt(l) = {} /\ fl = "multi"
  <2> SUFFICES ASSUME NEW l \in Links, x \in OfLink(l) PROVE LinkedAt(l) = {} /\ fl = "multi"
    OBVIOUS
  <2>1. x \in LinkAttachments /\ x[1] = l
    BY <1>2 DEF OfLink
  <2> QED  BY <2>1, Zenon DEF AttachAllowed, LinkAllows
<1>3a. x \in LinkAttachments => fl = "multi"
  BY DEF AttachAllowed, LinkAllows
<1>4. \A l \in Links : \A i \in 1..Len(s) : s[i] \in OfLink(l) => LinkedAt(l) \subseteq {c} /\ x \notin OfLink(l)
  <2> SUFFICES ASSUME NEW l \in Links, NEW i \in 1..Len(s), s[i] \in OfLink(l)
               PROVE  LinkedAt(l) \subseteq {c} /\ x \notin OfLink(l)
    OBVIOUS
  <2>1. c \in LinkedAt(l)
    BY <1>1 DEF LinkedAt, OfLink
  <2> QED  BY <1>3, <2>1, LinkedHere DEF ListsInv
<1>5. \A l \in Links : \A i, j \in 1..Len(s) : s[i] \in OfLink(l) /\ s[j] \in OfLink(l) => i = j
  BY DEF ListsInv, LinksOnce
<1>6. CASE fl # "multi"
  <2>1. list = <<x>>
    BY <1>6 DEF ListsWith
  <2>2. list \in Seq(Attachments) /\ Len(list) = 1 /\ list[1] = x
    BY <1>1, <2>1
  <2>3. Len(s) \in {0, 1}
    <3>1. Len(s) <= 1 \/ flags[c] = "multi"
      BY DEF ListsInv, ManyOnlyMulti
    <3>2. s # <<>> => flags[c] = fl
      BY DEF AttachAllowed
    <3>3. s = <<>> => Len(s) = 0
      BY <1>1
    <3>4. Len(s) <= 1 \/ s = <<>>
      BY <1>6, <3>1, <3>2, Zenon
    <3> HIDE DEF s
    <3> QED  BY <1>1, <3>3, <3>4
  <2>4. x \notin LinkAttachments /\ \A l \in Links : x \notin OfLink(l)
    BY <1>3, <1>3a, <1>6
  <2>5. Len(list) # 0 /\ Len(list) - Len(s) \in {0, 1} /\ \A k \in 1..Len(list) : k = 1
    BY <2>2, <2>3
  <2> QED  BY <2>2, <2>4, <2>5
<1>7. CASE fl = "multi" /\ \E i \in 1..(Len(s) + 1) : list = InsertAt(s, i, x)
  <2>1. PICK i \in 1..(Len(s) + 1) : list = InsertAt(s, i, x)
    BY <1>7
  <2>2. /\ list \in Seq(Attachments) /\ Len(list) = Len(s) + 1
        /\ \A k \in 1..(Len(s) + 1) :
              \/ k = i /\ list[k] = x
              \/ k < i /\ k \in 1..Len(s) /\ list[k] = s[k]
              \/ k > i /\ k - 1 \in 1..Len(s) /\ list[k] = s[k - 1]
    <3>1. s \in Seq(Attachments) /\ x \in Attachments
      BY <1>1
    <3> HIDE DEF s
    <3>2. /\ InsertAt(s, i, x) \in Seq(Attachments) /\ Len(InsertAt(s, i, x)) = Len(s) + 1
          /\ \A k \in 1..(Len(s) + 1) :
                \/ k = i /\ InsertAt(s, i, x)[k] = x
                \/ k < i /\ k \in 1..Len(s) /\ InsertAt(s, i, x)[k] = s[k]
                \/ k > i /\ k - 1 \in 1..Len(s) /\ InsertAt(s, i, x)[k] = s[k - 1]
      BY <3>1, InsertFacts
    <3> QED  BY <2>1, <3>2, Zenon
  <2>3. ASSUME NEW l \in Links, NEW k \in 1..(Len(s) + 1), list[k] \in OfLink(l)
        PROVE  LinkedAt(l) \subseteq {c}
    BY <1>3, <1>4, <2>2, <2>3
  <2>4. ASSUME NEW l \in Links, NEW k \in 1..(Len(s) + 1), NEW m \in 1..(Len(s) + 1),
               list[k] \in OfLink(l), list[m] \in OfLink(l)
        PROVE  k = m
    <3>1. CASE x \in OfLink(l)
      <4>1. \A n \in 1..Len(s) : s[n] \notin OfLink(l)
        BY <1>4, <3>1
      <4> QED  BY <2>2, <2>4, <4>1
    <3>2. CASE x \notin OfLink(l)
      <4> DEFINE f(n) == IF n < i THEN n ELSE n - 1
      <4>1. \A n \in 1..(Len(s) + 1) : list[n] \in OfLink(l) =>
                n # i /\ f(n) \in 1..Len(s) /\ s[f(n)] \in OfLink(l)
        BY <2>2, <3>2
      <4>2. f(k) = f(m) /\ k # i /\ m # i
        BY <1>5, <2>4, <4>1
      <4> QED  BY <1>1, <4>2
    <3> QED  BY <3>1, <3>2
  <2>5. Len(list) # 0 /\ Len(list) - Len(s) \in {0, 1}
    BY <1>1, <2>2
  <2> QED  BY <1>7, <2>2, <2>3, <2>4, <2>5
<1>8. CASE fl = "multi" /\ \E i \in 1..Len(s) : {x, s[i]} \subseteq Progs /\ list = ReplaceAt(s, i, x)
  <2>1. PICK i \in 1..Len(s) : {x, s[i]} \subseteq Progs /\ list = [s EXCEPT ![i] = x]
    BY <1>8 DEF ReplaceAt
  <2>2. /\ list \in Seq(Attachments) /\ Len(list) = Len(s)
        /\ \A k \in 1..Len(s) : list[k] = s[k] \/ list[k] \in Progs
    BY <1>1, <2>1
  <2>3. \A l \in Links : \A k \in 1..Len(s) : list[k] \in OfLink(l) => s[k] \in OfLink(l)
    BY <1>2, <2>2
  <2>4. Len(list) # 0 /\ Len(list) - Len(s) \in {0, 1}
    BY <1>1, <2>2
  <2> QED  BY <1>4, <1>5, <1>8, <2>2, <2>3, <2>4
<1>9. fl = "multi" => \/ \E i \in 1..(Len(s) + 1) : list = InsertAt(s, i, x)
                      \/ \E i \in 1..Len(s) : {x, s[i]} \subseteq Progs /\ list = ReplaceAt(s, i, x)
  <2> DEFINE J == {j \in DOMAIN s : /\ {x, s[j]} \subseteq Progs
                                    /\ x \in ToSet(s) => s[j] = x}
  <2>1. fl = "multi" =>
            \/ list \in {InsertAt(s, i, x) : i \in {j \in 1..(Len(s) + 1) : x \notin ToSet(s)}}
            \/ list \in {ReplaceAt(s, i, x) : i \in J}
    BY DEF ListsWith
  <2> HIDE DEF s
  <2>2. \A i \in J : i \in 1..Len(s) /\ {x, s[i]} \subseteq Progs
    <3> SUFFICES ASSUME NEW i \in J PROVE i \in 1..Len(s) /\ {x, s[i]} \subseteq Progs
      OBVIOUS
    <3>1. i \in DOMAIN s /\ {x, s[i]} \subseteq Progs
      BY Zenon
    <3> QED  BY <1>1, <3>1, Zenon
  <2> HIDE DEF J
  <2>3. ASSUME list \in {InsertAt(s, i, x) : i \in {j \in 1..(Len(s) + 1) : x \notin ToSet(s)}}
        PROVE  \E i \in 1..(Len(s) + 1) : list = InsertAt(s, i, x)
    BY <2>3
  <2>4. ASSUME list \in {ReplaceAt(s, i, x) : i \in J}
        PROVE  \E i \in 1..Len(s) : {x, s[i]} \subseteq Progs /\ list = ReplaceAt(s, i, x)
    BY <2>2, <2>4
  <2> QED  BY <2>1, <2>3, <2>4
<1> QED  BY <1>6, <1>7, <1>8, <1>9

\* Nothing is attached at the start.
LEMMA ListsInit == Init => ListsInv
<1> SUFFICES ASSUME Init PROVE ListsInv
  OBVIOUS
<1>1. \A c \in Cgroups : progs[c] = <<>> /\ Len(progs[c]) = 0
  BY DEF Init
<1>2. ListTypes
  BY DEF Init, ListTypes
<1>3. ManyOnlyMulti /\ LinksOnce /\ StillListed
  BY <1>1 DEF Init, ManyOnlyMulti, LinksOnce, StillListed, Idle
<1> QED  BY <1>2, <1>3 DEF ListsInv

\* An attach changes one list, as AttachList says.
LEMMA ListsAttach ==
    ASSUME ListsInv, NEW c \in Cgroups, NEW x \in Attachable, NEW fl \in AttachFlags,
           AttachBegin(c, x, fl)
    PROVE  ListsInv'
<1>1. PICK list \in ListsWith(c, x, fl) : progs' = [progs EXCEPT ![c] = list]
  BY DEF AttachBegin
<1>2. AttachAllowed(c, x, fl) /\ op'.kind = "attach" /\ flags' = [flags EXCEPT ![c] = fl]
  BY DEF AttachBegin
<1>3. /\ list \in Seq(Attachments) /\ Len(list) # 0
      /\ fl # "multi" => Len(list) = 1 /\ list[1] \notin LinkAttachments
      /\ \A l \in Links : \A k, m \in 1..Len(list) :
            list[k] \in OfLink(l) /\ list[m] \in OfLink(l) => k = m
      /\ \A l \in Links : \A k \in 1..Len(list) : list[k] \in OfLink(l) => LinkedAt(l) \subseteq {c}
  BY <1>2, AttachList
<1>4. /\ progs' \in [Cgroups -> Seq(Attachments)] /\ LinksOnce'
      /\ progs'[c] = list /\ \A d \in Cgroups : d # c => progs'[d] = progs[d]
  BY <1>1, <1>3, LinksChange DEF ListsInv
<1>5. flags' \in [Cgroups -> {"none", "override", "multi"}] /\ fl \in {"none", "override", "multi"}
  BY <1>2, AttachConstants DEF ListsInv, ListTypes
<1>6. flags'[c] = fl /\ \A d \in Cgroups : d # c => flags'[d] = flags[d]
  BY <1>2 DEF ListsInv, ListTypes
<1>7. ASSUME NEW d \in Cgroups
      PROVE  \/ flags'[d] = "multi"
             \/ /\ Len(progs'[d]) <= 1
                /\ \A i \in 1..Len(progs'[d]) : progs'[d][i] \notin LinkAttachments
  <2>1. CASE d = c
    <3>1. CASE fl = "multi"
      BY <1>6, <2>1, <3>1
    <3>2. CASE fl # "multi"
      <4>1. progs'[d] = list /\ Len(list) = 1 /\ list[1] \notin LinkAttachments
        BY <1>3, <1>4, <2>1, <3>2
      <4>2. \A i \in 1..1 : i = 1
        OBVIOUS
      <4> QED  BY <4>1, <4>2
    <3> QED  BY <3>1, <3>2
  <2>2. CASE d # c
    BY <1>4, <1>6, <2>2 DEF ListsInv, ManyOnlyMulti
  <2> QED  BY <2>1, <2>2
<1>8. ManyOnlyMulti' /\ StillListed'
  BY <1>2, <1>7 DEF ManyOnlyMulti, StillListed, LinkAttachments
<1> QED  BY <1>4, <1>5, <1>8 DEF ListsInv, ListTypes, Attachments, LinkAttachments

\* A detach takes one entry out of a list, whichever flags it leaves behind.
LEMMA ListsRemove ==
    ASSUME ListsInv, NEW c \in Cgroups, NEW x, Has(progs[c], x),
           progs' = [progs EXCEPT ![c] = RemoveFirst(progs[c], x)],
           flags' = IF RemoveFirst(progs[c], x) = <<>> /\ op.kind = "purge"
                    THEN [flags EXCEPT ![c] = "none"] ELSE flags,
           op'.kind \notin {"purge", "replace"}
    PROVE  ListsInv'
<1> DEFINE s == progs[c]
           list == RemoveFirst(s, x)
<1>1. s \in Seq(Attachments)
  BY DEF ListsInv, ListTypes
<1>2. /\ list \in Seq(Attachments) /\ Len(list) = Len(s) - 1
      /\ \E i \in 1..Len(s) : \A k \in 1..(Len(s) - 1) :
             \/ k < i /\ k \in 1..Len(s) /\ list[k] = s[k]
             \/ k >= i /\ k + 1 \in 1..Len(s) /\ list[k] = s[k + 1]
  <2>1. Has(s, x)
    OBVIOUS
  <2> HIDE DEF s
  <2> QED  BY <1>1, <2>1, RemoveFacts
<1>3. PICK i \in 1..Len(s) : \A k \in 1..(Len(s) - 1) :
             \/ k < i /\ k \in 1..Len(s) /\ list[k] = s[k]
             \/ k >= i /\ k + 1 \in 1..Len(s) /\ list[k] = s[k + 1]
  BY <1>2
<1> HIDE DEF list
<1>4. ASSUME NEW l \in Links, NEW k \in 1..Len(list), list[k] \in OfLink(l)
      PROVE  LinkedAt(l) \subseteq {c}
  <2>1. \E n \in 1..Len(s) : s[n] \in OfLink(l)
    BY <1>2, <1>3, <1>4
  <2> QED  BY <2>1, LinkedHere DEF ListsInv
<1>5. ASSUME NEW l \in Links, NEW k \in 1..Len(list), NEW m \in 1..Len(list),
             list[k] \in OfLink(l), list[m] \in OfLink(l)
      PROVE  k = m
  <2> DEFINE f(n) == IF n < i THEN n ELSE n + 1
  <2>1. \A n \in 1..Len(list) : f(n) \in 1..Len(s) /\ list[n] = s[f(n)]
    BY <1>2, <1>3
  <2>2. f(k) = f(m)
    BY <1>5, <2>1 DEF ListsInv, LinksOnce
  <2> QED  BY <1>1, <1>2, <2>2
<1>6. /\ progs' \in [Cgroups -> Seq(Attachments)] /\ LinksOnce'
      /\ progs'[c] = list /\ \A d \in Cgroups : d # c => progs'[d] = progs[d]
  <2>1. progs' = [progs EXCEPT ![c] = list]
    BY DEF list
  <2> QED  BY <1>2, <1>4, <1>5, <2>1, LinksChange DEF ListsInv
<1>7. /\ flags' \in [Cgroups -> {"none", "override", "multi"}]
      /\ \A d \in Cgroups : flags'[d] = flags[d] \/ (d = c /\ list = <<>>)
  <2>1. CASE list = <<>> /\ op.kind = "purge"
    <3>1. flags' = [flags EXCEPT ![c] = "none"]
      BY <2>1 DEF list
    <3> QED  BY <2>1, <3>1 DEF ListsInv, ListTypes
  <2>2. CASE ~(list = <<>> /\ op.kind = "purge")
    <3>1. flags' = flags
      BY <2>2 DEF list
    <3> QED  BY <3>1 DEF ListsInv, ListTypes
  <2> QED  BY <2>1, <2>2
<1>8. ASSUME NEW d \in Cgroups
      PROVE  \/ flags'[d] = "multi"
             \/ /\ Len(progs'[d]) <= 1
                /\ \A n \in 1..Len(progs'[d]) : progs'[d][n] \notin LinkAttachments
  <2>1. CASE d = c
    <3>1. CASE list = <<>>
      BY <1>6, <2>1, <3>1
    <3>2. CASE list # <<>> /\ flags[c] # "multi"
      <4>1. Len(s) <= 1
        BY <3>2 DEF ListsInv, ManyOnlyMulti
      <4>2. Len(list) = 0
        <5> HIDE DEF s
        <5>1. Len(s) \in Nat /\ i \in 1..Len(s) /\ Len(list) = Len(s) - 1
          BY <1>1, <1>2
        <5> QED  BY <4>1, <5>1
      <4> QED  BY <1>2, <3>2, <4>2
    <3> QED  BY <1>7, <2>1, <3>1, <3>2
  <2>2. CASE d # c
    BY <1>6, <1>7, <2>2 DEF ListsInv, ManyOnlyMulti
  <2> QED  BY <2>1, <2>2
<1>9. ManyOnlyMulti' /\ StillListed'
  BY <1>8 DEF ManyOnlyMulti, StillListed, LinkAttachments
<1> QED  BY <1>6, <1>7, <1>9 DEF ListsInv, ListTypes, Attachments, LinkAttachments

\* A link gets another program at the place where it is.
LEMMA ListsReplace ==
    ASSUME ListsInv, NEW l \in Links, NEW x \in Progs, ReplaceBegin(l, x)
    PROVE  /\ ListsInv' /\ op'.kind = "replace" /\ op'.prog = <<l, x>> /\ UNCHANGED flags
           /\ \E c \in Cgroups :
                /\ op'.cgrp = c /\ op'.todo = ToUpdate(c) /\ op'.cur = Nobody
                /\ \E i \in 1..Len(progs[c]) : progs[c][i] \in OfLink(l)
                /\ \A d \in Cgroups : d # c => progs'[d] = progs[d]
                /\ Len(progs'[c]) = Len(progs[c])
                /\ \A i \in 1..Len(progs[c]) :
                      \/ progs'[c][i] = progs[c][i]
                      \/ progs'[c][i] = <<l, x>> /\ progs[c][i] \in OfLink(l)
<1>1. PICK c \in Cgroups :
         /\ \E i \in DOMAIN progs[c] : progs[c][i] \in {l} \X Progs
         /\ progs' = [progs EXCEPT ![c] =
                          [i \in DOMAIN @ |-> IF @[i] \in {l} \X Progs THEN <<l, x>> ELSE @[i]]]
         /\ op' = [kind |-> "replace", cgrp |-> c, todo |-> ToUpdate(c), prog |-> <<l, x>>,
                   cur |-> Nobody, step |-> 0]
  BY DEF ReplaceBegin, LinkedAt
<1> DEFINE s == progs[c]
           list == [i \in 1..Len(s) |-> IF s[i] \in OfLink(l) THEN <<l, x>> ELSE s[i]]
<1>2. s \in Seq(Attachments) /\ Len(s) \in Nat /\ DOMAIN s = 1..Len(s)
  BY DEF ListsInv, ListTypes
<1>3. progs' = [progs EXCEPT ![c] = list] /\ \E i \in 1..Len(s) : s[i] \in OfLink(l)
  BY <1>1, <1>2 DEF OfLink
<1>4. <<l, x>> \in OfLink(l) /\ <<l, x>> \in LinkAttachments /\ <<l, x>> \in Attachments
  BY DEF OfLink, LinkAttachments, Attachments
<1>5. /\ list \in Seq(Attachments) /\ Len(list) = Len(s)
      /\ \A i \in 1..Len(s) : list[i] = s[i] \/ (list[i] = <<l, x>> /\ s[i] \in OfLink(l))
      /\ \A i \in 1..Len(s) : s[i] \in OfLink(l) => list[i] = <<l, x>>
  <2> HIDE DEF s
  <2>1. /\ DOMAIN list = 1..Len(s)
        /\ \A i \in 1..Len(s) : list[i] = s[i] \/ (list[i] = <<l, x>> /\ s[i] \in OfLink(l))
        /\ \A i \in 1..Len(s) : s[i] \in OfLink(l) => list[i] = <<l, x>>
    OBVIOUS
  <2>2. \A i \in 1..Len(s) : list[i] \in Attachments
    BY <1>2, <1>4, <2>1
  <2>3. list \in [1..Len(s) -> Attachments]
    BY <2>1, <2>2
  <2> HIDE DEF list
  <2>4. list \in Seq(Attachments) /\ Len(list) = Len(s)
    BY <1>2, <2>3
  <2> QED  BY <2>1, <2>4
<1> HIDE DEF list
<1>6. \A k \in Links : <<l, x>> \in OfLink(k) => k = l
  BY DEF OfLink
<1>7. ASSUME NEW k \in Links, NEW i \in 1..Len(list), list[i] \in OfLink(k)
      PROVE  s[i] \in OfLink(k) /\ i \in 1..Len(s)
  BY <1>5, <1>6, <1>7
<1>8. ASSUME NEW k \in Links, NEW i \in 1..Len(list), list[i] \in OfLink(k)
      PROVE  LinkedAt(k) \subseteq {c}
  BY <1>7, <1>8, LinkedHere DEF ListsInv
<1>9. ASSUME NEW k \in Links, NEW i \in 1..Len(list), NEW j \in 1..Len(list),
             list[i] \in OfLink(k), list[j] \in OfLink(k)
      PROVE  i = j
  BY <1>7, <1>9 DEF ListsInv, LinksOnce
<1>10. /\ progs' \in [Cgroups -> Seq(Attachments)] /\ LinksOnce'
       /\ progs'[c] = list /\ \A d \in Cgroups : d # c => progs'[d] = progs[d]
  BY <1>3, <1>5, <1>8, <1>9, LinksChange DEF ListsInv
<1>11. /\ op'.kind = "replace" /\ op'.cgrp = c /\ op'.prog = <<l, x>> /\ UNCHANGED flags
       /\ op'.todo = ToUpdate(c) /\ op'.cur = Nobody
  BY <1>1 DEF ReplaceBegin
<1>12. flags[c] = "multi"
  BY <1>3, <1>4 DEF ListsInv, ManyOnlyMulti, OfLink, LinkAttachments
<1>13. ManyOnlyMulti'
  BY <1>10, <1>11, <1>12 DEF ListsInv, ManyOnlyMulti, LinkAttachments
<1>14. StillListed'
  <2>1. Has(list, <<l, x>>)
    BY <1>3, <1>5 DEF Has
  <2> QED  BY <1>4, <1>10, <1>11, <2>1 DEF StillListed, Has, Attachments, LinkAttachments
<1>15. ListTypes'
  BY <1>10, <1>11 DEF ListsInv, ListTypes, Attachments, LinkAttachments
<1>16. ListsInv'
  BY <1>10, <1>13, <1>14, <1>15 DEF ListsInv
<1> QED  BY <1>3, <1>5, <1>10, <1>11, <1>16

\* Flags change under a list that is empty; everything else leaves lists alone.
LEMMA ListsFrame ==
    ASSUME ListsInv, UNCHANGED progs, flags' \in [Cgroups -> {"none", "override", "multi"}],
           \A c \in Cgroups : progs[c] # <<>> => flags'[c] = flags[c], StillListed'
    PROVE  ListsInv'
<1>1. ListTypes' /\ LinksOnce'
  BY DEF ListsInv, ListTypes, LinksOnce, Attachments, LinkAttachments, OfLink
<1>2. ASSUME NEW c \in Cgroups
      PROVE  \/ flags'[c] = "multi"
             \/ /\ Len(progs'[c]) <= 1
                /\ \A i \in 1..Len(progs'[c]) : progs'[c][i] \notin LinkAttachments
  <2>1. CASE progs[c] = <<>>
    BY <2>1
  <2>2. CASE progs[c] # <<>>
    BY <2>2 DEF ListsInv, ManyOnlyMulti
  <2> QED  BY <2>1, <2>2
<1>3. ManyOnlyMulti'
  BY <1>2 DEF ManyOnlyMulti, LinkAttachments
<1> QED  BY <1>1, <1>3 DEF ListsInv

\* The lists of a cgroup that is released are dropped.
LEMMA ListsRelease ==
    ASSUME ListsInv, NEW c \in Cgroups, ReleaseProgs(c)
    PROVE  ListsInv'
<1>1. progs' = [progs EXCEPT ![c] = <<>>] /\ UNCHANGED <<flags, op>> /\ op = Idle
  BY DEF ReleaseProgs
<1>2. /\ progs' \in [Cgroups -> Seq(Attachments)] /\ LinksOnce'
      /\ progs'[c] = <<>> /\ \A d \in Cgroups : d # c => progs'[d] = progs[d]
  <2>1. <<>> \in Seq(Attachments) /\ \A k \in 1..Len(<<>>) : FALSE
    OBVIOUS
  <2>2. /\ \A l \in Links : \A k, m \in 1..Len(<<>>) :
              <<>>[k] \in OfLink(l) /\ <<>>[m] \in OfLink(l) => k = m
        /\ \A l \in Links : \A k \in 1..Len(<<>>) : <<>>[k] \in OfLink(l) => LinkedAt(l) \subseteq {c}
    BY <2>1, Zenon
  <2> QED  BY <1>1, <2>1, <2>2, LinksChange DEF ListsInv
<1>3. ManyOnlyMulti' /\ StillListed'
  BY <1>1, <1>2 DEF ListsInv, ManyOnlyMulti, LinkAttachments, StillListed, Idle
<1> QED  BY <1>1, <1>2, <1>3 DEF ListsInv, ListTypes, Attachments, LinkAttachments

\* Every step of Next keeps the lists in order.
LEMMA ListsStep == CoverInv /\ ListsInv /\ [Next]_vars => ListsInv'
<1> SUFFICES ASSUME CoverInv, ListsInv, [Next]_vars PROVE ListsInv'
  OBVIOUS
<1>0. OpRecord /\ (op.kind # "idle" => op.cgrp \in Cgroups) /\ ListTypes
  BY DEF CoverInv, CoverTypes, VisitOrder, ListsInv
<1>1. ASSUME NEW c \in Cgroups, NEW x \in Attachable, NEW fl \in AttachFlags, AttachBegin(c, x, fl)
      PROVE  ListsInv'
  BY <1>1, ListsAttach
<1>2. ASSUME NEW c \in Cgroups, NEW x \in Attachable, NEW fl \in AttachFlags, AttachFails(c, x, fl)
      PROVE  ListsInv'
  <2>1. /\ UNCHANGED <<progs, op>> /\ flags' = [flags EXCEPT ![c] = fl] /\ op = Idle
        /\ progs[c] # <<>> => flags[c] = fl
    BY <1>2 DEF AttachFails, AttachAllowed
  <2>2. /\ flags' \in [Cgroups -> {"none", "override", "multi"}]
        /\ \A d \in Cgroups : progs[d] # <<>> => flags'[d] = flags[d]
    BY <1>0, <2>1, AttachConstants DEF ListTypes
  <2>3. StillListed'
    BY <2>1 DEF StillListed, Idle
  <2> QED  BY <2>1, <2>2, <2>3, ListsFrame
<1>3. ASSUME NEW c \in Cgroups, NEW x \in Attachments, DetachBegin(c, x)
      PROVE  ListsInv'
  <2>1. Has(progs[c], x)
    BY <1>0, <1>3 DEF DetachBegin, Detachable, ToSet, Has, ListTypes
  <2>2. /\ progs' = [progs EXCEPT ![c] = RemoveFirst(progs[c], x)] /\ UNCHANGED flags
        /\ op.kind # "purge" /\ op'.kind \notin {"purge", "replace"}
    BY <1>3 DEF DetachBegin, Idle
  <2> QED  BY <2>1, <2>2, ListsRemove
<1>4. ASSUME NEW c \in Cgroups, NEW x \in Attachments, DetachPurges(c, x)
      PROVE  ListsInv'
  <2>1. Has(progs[c], x)
    BY <1>0, <1>4 DEF DetachPurges, Detachable, ToSet, Has, ListTypes
  <2>2. op'.kind = "purge" /\ op'.cgrp = c /\ op'.prog = x /\ UNCHANGED <<progs, flags>>
    BY <1>4 DEF DetachPurges
  <2>3. StillListed'
    BY <2>1, <2>2 DEF StillListed, Has, Attachments, LinkAttachments
  <2> QED  BY <1>0, <2>2, <2>3, ListsFrame DEF ListTypes
<1>5. ASSUME NEW l \in Links, NEW x \in Progs, ReplaceBegin(l, x)
      PROVE  ListsInv'
  BY <1>5, ListsReplace
<1>6. CASE DetachEnd
  <2>1. /\ op.kind \in {"detach", "purge"} /\ op' = Idle
        /\ progs' = [progs EXCEPT ![op.cgrp] = ListAfterDetach]
        /\ flags' = IF ListAfterDetach = <<>> THEN [flags EXCEPT ![op.cgrp] = "none"] ELSE flags
    BY <1>6 DEF DetachEnd
  <2>2. CASE op.kind = "purge"
    <3>1. ListAfterDetach = RemoveFirst(progs[op.cgrp], op.prog) /\ Has(progs[op.cgrp], op.prog)
      BY <2>2 DEF ListAfterDetach, ListsInv, StillListed
    <3> QED  BY <1>0, <2>1, <2>2, <3>1, ListsRemove DEF Idle
  <2>3. CASE op.kind = "detach"
    <3>1. ListAfterDetach = progs[op.cgrp]
      BY <2>3 DEF ListAfterDetach
    <3>2. UNCHANGED progs
      BY <1>0, <2>1, <3>1 DEF ListTypes
    <3>3. /\ flags' \in [Cgroups -> {"none", "override", "multi"}]
          /\ \A d \in Cgroups : progs[d] # <<>> => flags'[d] = flags[d]
      BY <1>0, <2>1, <3>1 DEF ListTypes
    <3> QED  BY <2>1, <3>2, <3>3, ListsFrame DEF StillListed, Idle
  <2> QED  BY <2>1, <2>2, <2>3
<1>7. ASSUME NEW c \in Cgroups, ReleaseProgs(c)
      PROVE  ListsInv'
  BY <1>7, ListsRelease
<1>8. CASE /\ UNCHANGED <<progs, flags>>
           /\ op'.kind \in {"purge", "replace"} =>
                 op.kind = op'.kind /\ op.cgrp = op'.cgrp /\ op.prog = op'.prog
  <2>1. StillListed'
    BY <1>8 DEF ListsInv, StillListed, Has, Attachments, LinkAttachments
  <2> QED  BY <1>0, <1>8, <2>1, ListsFrame DEF ListTypes
<1>9. ASSUME NEW d \in Cgroups, SkipZero(d) \/ PublishEffective(d) \/ PurgeOne(d) \/ ReplaceOne(d)
      PROVE  ListsInv'
  <2>1. /\ UNCHANGED <<progs, flags>> /\ op.kind # "idle"
        /\ op' = [op EXCEPT !.todo = @ \ {d}] \/ op' = [op EXCEPT !.cur = d, !.step = 1]
    BY <1>9 DEF SkipZero, PublishEffective, PurgeOne, ReplaceOne, NextInPreorder
  <2>2. op'.kind \in {"purge", "replace"} =>
            op.kind = op'.kind /\ op.cgrp = op'.cgrp /\ op.prog = op'.prog
    BY <1>0, <2>1 DEF OpRecord
  <2> QED  BY <1>8, <2>1, <2>2
<1>10. CASE ActivateOrPublish \/ PublishOrDeactivate
  <2>1. UNCHANGED <<progs, flags>> /\ op'.kind \in {"attach", "detach"}
    BY <1>0, <1>10 DEF ActivateOrPublish, PublishOrDeactivate, Updating, OpRecord
  <2> QED  BY <1>8, <2>1
<1>11. CASE AttachEnd \/ ReplaceEnd
  BY <1>8, <1>11 DEF AttachEnd, ReplaceEnd, Idle
<1>12. ASSUME NEW c \in Cgroups, NEW new,
              SetScope(c, new) \/ Mkdir(c) \/ Rmdir(c) \/ DropRefcnt(c) \/ ReleaseScope(c)
       PROVE  ListsInv'
  BY <1>8, <1>12 DEF SetScope, Mkdir, Rmdir, DropRefcnt, ReleaseScope
<1>13. CASE (\E t \in Tasks, c \in Cgroups : Migrate(t, c)) \/ UNCHANGED vars
  BY <1>8, <1>13 DEF Migrate, vars, treeVars
<1>14. ASSUME NEW t \in Tasks,
              \/ \E p \in Paths : WalkGate(t, p)
              \/ WalkPrefilter(t) \/ WalkOwner(t) \/ WalkMatch(t) \/ WalkRun(t) \/ WalkEnd(t)
       PROVE  ListsInv'
  BY <1>8, <1>14
  DEF WalkGate, WalkPrefilter, WalkOwner, WalkMatch, WalkRun, WalkEnd, WalkStep, treeVars
<1> QED
  BY <1>1, <1>2, <1>3, <1>4, <1>5, <1>6, <1>7, <1>9, <1>10, <1>11, <1>12, <1>13, <1>14 DEF Next

-----------------------------------------------------------------------------
(* The static key counts the entries of all lists.                         *)

Entries == UNION {{c} \X (1..Len(progs[c])) : c \in Cgroups}

\* The inductive invariant of the static key: while an attach or detach is under
\* way it has yet to follow the list.
KeyInv ==
    /\ IsFiniteSet(Entries) /\ enabled \in Nat
    /\ op.kind \in {"idle", "purge", "replace"} => enabled = Cardinality(Entries)
    /\ op.kind = "attach" => op.key \in {0, 1} /\ enabled + op.key = Cardinality(Entries)
    /\ op.kind = "detach" => enabled = Cardinality(Entries) + 1

\* The entries of one list are as many as the list is long.
LEMMA CountList ==
    ASSUME NEW c, NEW n \in Nat
    PROVE  IsFiniteSet({c} \X (1..n)) /\ Cardinality({c} \X (1..n)) = n
<1> DEFINE S == 1..n
           T == {c} \X S
           f == [i \in S |-> <<c, i>>]
<1>1. IsFiniteSet(S) /\ Cardinality(S) = n
  <2>1. IsFiniteSet(1..n) /\ Cardinality(1..n) = IF 1 > n THEN 0 ELSE n - 1 + 1
    BY FS_Interval
  <2> QED  BY <2>1
<1>2. f \in Bijection(S, T)
  <2> HIDE DEF S
  <2>1. f \in [S -> T] /\ \A i, j \in S : f[i] = f[j] => i = j
    OBVIOUS
  <2>2. \A e \in T : \E i \in S : f[i] = e
    OBVIOUS
  <2> QED  BY <2>1, <2>2 DEF Bijection, Injection, Surjection, IsInjective
<1>3. ExistsBijection(S, T)
  <2> HIDE DEF S, T, f
  <2> QED  BY <1>2 DEF ExistsBijection
<1> HIDE DEF S, T
<1>4. IsFiniteSet(T) /\ Cardinality(T) = n
  BY <1>1, <1>3, FS_Bijection
<1> QED  BY <1>4 DEF S, T

\* One list changes: the number of entries changes by as much.
LEMMA CountChange ==
    ASSUME IsFiniteSet(Entries), progs \in [Cgroups -> Seq(Attachments)],
           progs' \in [Cgroups -> Seq(Attachments)], NEW c \in Cgroups,
           \A d \in Cgroups : d # c => progs'[d] = progs[d]
    PROVE  /\ IsFiniteSet(Entries') /\ Cardinality(Entries) \in Nat /\ Cardinality(Entries') \in Nat
           /\ Len(progs[c]) <= Cardinality(Entries)
           /\ Cardinality(Entries') = Cardinality(Entries) - Len(progs[c]) + Len(progs'[c])
<1> DEFINE A == {c} \X (1..Len(progs[c]))
           B == {c} \X (1..Len(progs'[c]))
           R == UNION {{d} \X (1..Len(progs[d])) : d \in Cgroups \ {c}}
<1>1. Len(progs[c]) \in Nat /\ Len(progs'[c]) \in Nat
  OBVIOUS
<1>2. Entries = R \cup A
  BY DEF Entries
<1>3. Entries' = R \cup B
  BY DEF Entries
<1>4. R \cap A = {} /\ R \cap B = {}
  OBVIOUS
<1>5. /\ IsFiniteSet(A) /\ Cardinality(A) = Len(progs[c])
      /\ IsFiniteSet(B) /\ Cardinality(B) = Len(progs'[c])
  BY <1>1, CountList
<1> HIDE DEF A, B, R
<1>6. IsFiniteSet(R)
  <2>1. R \subseteq Entries
    BY <1>2
  <2> QED  BY <2>1, FS_Subset
<1>7. /\ Cardinality(R) \in Nat
      /\ IsFiniteSet(R \cup A) /\ Cardinality(R \cup A) = Cardinality(R) + Cardinality(A) - 0
      /\ IsFiniteSet(R \cup B) /\ Cardinality(R \cup B) = Cardinality(R) + Cardinality(B) - 0
  <2>1. Cardinality(R) \in Nat /\ Cardinality({}) = 0
    BY <1>6, FS_EmptySet, FS_CardinalityType
  <2>2. /\ IsFiniteSet(R \cup A)
        /\ Cardinality(R \cup A) = Cardinality(R) + Cardinality(A) - Cardinality(R \cap A)
    BY <1>5, <1>6, FS_Union
  <2>3. /\ IsFiniteSet(R \cup B)
        /\ Cardinality(R \cup B) = Cardinality(R) + Cardinality(B) - Cardinality(R \cap B)
    BY <1>5, <1>6, FS_Union
  <2> QED  BY <1>4, <2>1, <2>2, <2>3, Zenon
<1> QED  BY <1>1, <1>2, <1>3, <1>5, <1>7

\* No step but these changes a list.
LEMMA KeyFrame ==
    ASSUME KeyInv, ListTypes, UNCHANGED <<progs, enabled>>,
           \/ op'.kind = op.kind /\ (op.kind = "attach" => op'.key = op.key)
           \/ {op.kind, op'.kind} \subseteq {"idle", "purge", "replace"}
    PROVE  KeyInv'
<1>1. Entries' = Entries
  BY DEF Entries
<1> QED  BY <1>1 DEF KeyInv

\* An attach or a detach changes one list and then the key, and a release both.
LEMMA KeyLists ==
    ASSUME CoverInv, ListsInv, ListsInv', KeyInv,
           \/ \E c \in Cgroups, x \in Attachable, fl \in AttachFlags : AttachBegin(c, x, fl)
           \/ \E c \in Cgroups, x \in Attachments : DetachBegin(c, x)
           \/ \E l \in Links, x \in Progs : ReplaceBegin(l, x)
           \/ AttachEnd \/ DetachEnd
           \/ \E c \in Cgroups : ReleaseProgs(c)
    PROVE  KeyInv'
<1>0. /\ progs \in [Cgroups -> Seq(Attachments)] /\ progs' \in [Cgroups -> Seq(Attachments)]
      /\ IsFiniteSet(Entries) /\ enabled \in Nat /\ Cardinality(Entries) \in Nat
      /\ OpRecord
  <2>1. Attachments' = Attachments
    BY DEF Attachments, LinkAttachments
  <2> QED  BY <2>1, FS_CardinalityType DEF ListsInv, ListTypes, KeyInv, CoverInv, CoverTypes
<1>1. ASSUME NEW c \in Cgroups, NEW x \in Attachable, NEW fl \in AttachFlags, AttachBegin(c, x, fl)
      PROVE  KeyInv'
  <2>1. PICK list \in ListsWith(c, x, fl) :
            /\ progs' = [progs EXCEPT ![c] = list]
            /\ op' = [kind |-> "attach", cgrp |-> c, key |-> Len(list) - Len(progs[c]),
                      todo |-> ToUpdate(c), cur |-> Nobody, step |-> 0]
    BY <1>1 DEF AttachBegin
  <2>2. op = Idle /\ UNCHANGED enabled /\ AttachAllowed(c, x, fl)
    BY <1>1 DEF AttachBegin
  <2>3. list \in Seq(Attachments) /\ Len(list) - Len(progs[c]) \in {0, 1}
    BY <2>2, AttachList
  <2>4. progs'[c] = list /\ \A d \in Cgroups : d # c => progs'[d] = progs[d]
    BY <1>0, <2>1
  <2>5. /\ IsFiniteSet(Entries')
        /\ Cardinality(Entries') = Cardinality(Entries) - Len(progs[c]) + Len(list)
    BY <1>0, <2>4, CountChange
  <2>6. enabled = Cardinality(Entries)
    BY <2>2 DEF KeyInv, Idle
  <2>7. Len(progs[c]) \in Nat /\ Len(list) \in Nat
    BY <1>0, <2>3
  <2>8. enabled + (Len(list) - Len(progs[c])) = Cardinality(Entries')
    BY <1>0, <2>5, <2>6, <2>7
  <2>9. op'.kind = "attach" /\ op'.key = Len(list) - Len(progs[c])
    BY <2>1
  <2> QED  BY <1>0, <2>2, <2>3, <2>5, <2>8, <2>9 DEF KeyInv
<1>2. ASSUME NEW c \in Cgroups, NEW x, Has(progs[c], x),
             progs' = [progs EXCEPT ![c] = RemoveFirst(progs[c], x)]
      PROVE  /\ IsFiniteSet(Entries') /\ Cardinality(Entries') \in Nat
             /\ Cardinality(Entries') + 1 = Cardinality(Entries)
  <2>1. Len(RemoveFirst(progs[c], x)) = Len(progs[c]) - 1 /\ Len(progs[c]) \in Nat
    <3>1. progs[c] \in Seq(Attachments)
      BY <1>0
    <3> QED  BY <1>2, <3>1, RemoveFacts
  <2>2. progs'[c] = RemoveFirst(progs[c], x) /\ \A d \in Cgroups : d # c => progs'[d] = progs[d]
    BY <1>0, <1>2
  <2>3. /\ IsFiniteSet(Entries') /\ Cardinality(Entries') \in Nat
        /\ Cardinality(Entries') = Cardinality(Entries) - Len(progs[c]) + Len(progs'[c])
    BY <1>0, <2>2, CountChange
  <2> QED  BY <1>0, <2>1, <2>2, <2>3
<1>3. ASSUME NEW c \in Cgroups, NEW x \in Attachments, DetachBegin(c, x)
      PROVE  KeyInv'
  <2>1. Has(progs[c], x)
    BY <1>0, <1>3 DEF DetachBegin, Detachable, ToSet, Has
  <2>2. progs' = [progs EXCEPT ![c] = RemoveFirst(progs[c], x)]
    BY <1>3 DEF DetachBegin
  <2>3. op = Idle /\ op'.kind = "detach" /\ UNCHANGED enabled
    BY <1>3 DEF DetachBegin
  <2>4. enabled = Cardinality(Entries)
    BY <2>3 DEF KeyInv, Idle
  <2>5. /\ IsFiniteSet(Entries') /\ Cardinality(Entries') \in Nat
        /\ Cardinality(Entries') + 1 = Cardinality(Entries)
    BY <1>2, <2>1, <2>2
  <2> QED  BY <1>0, <2>3, <2>4, <2>5 DEF KeyInv
<1>4. ASSUME NEW l \in Links, NEW x \in Progs, ReplaceBegin(l, x)
      PROVE  KeyInv'
  <2>1. PICK c \in Cgroups : /\ c = op'.cgrp /\ Len(progs'[c]) = Len(progs[c])
                             /\ \A d \in Cgroups : d # c => progs'[d] = progs[d]
    BY <1>4, ListsReplace
  <2>2. op = Idle /\ op'.kind = "replace" /\ UNCHANGED enabled
    BY <1>4, ListsReplace DEF ReplaceBegin
  <2>3. Len(progs[c]) \in Nat
    BY <1>0
  <2>4. /\ IsFiniteSet(Entries') /\ Cardinality(Entries') \in Nat
        /\ Cardinality(Entries') = Cardinality(Entries) - Len(progs[c]) + Len(progs'[c])
    BY <1>0, <2>1, CountChange
  <2>5. Cardinality(Entries') = Cardinality(Entries)
    BY <1>0, <2>1, <2>3, <2>4
  <2> QED  BY <1>0, <2>2, <2>4, <2>5 DEF KeyInv, Idle
<1>5. CASE AttachEnd
  <2>1. op.kind = "attach" /\ enabled' = enabled + op.key /\ op' = Idle /\ UNCHANGED progs
    BY <1>5 DEF AttachEnd
  <2>2. Entries' = Entries
    BY <2>1 DEF Entries
  <2>3. op.key \in {0, 1} /\ enabled + op.key = Cardinality(Entries)
    BY <2>1 DEF KeyInv
  <2> QED  BY <1>0, <2>1, <2>2, <2>3 DEF KeyInv, Idle
<1>6. CASE DetachEnd
  <2>1. /\ op.kind \in {"detach", "purge"} /\ op' = Idle /\ enabled' = enabled - 1
        /\ progs' = [progs EXCEPT ![op.cgrp] = ListAfterDetach] /\ op.cgrp \in Cgroups
    BY <1>6 DEF DetachEnd, CoverInv, VisitOrder
  <2>2. CASE op.kind = "detach"
    <3>1. UNCHANGED progs
      BY <1>0, <2>1, <2>2 DEF ListAfterDetach
    <3>2. Entries' = Entries
      BY <3>1 DEF Entries
    <3>3. enabled = Cardinality(Entries) + 1
      BY <2>2 DEF KeyInv
    <3> QED  BY <1>0, <2>1, <3>2, <3>3 DEF KeyInv, Idle
  <2>3. CASE op.kind = "purge"
    <3>1. Has(progs[op.cgrp], op.prog) /\ ListAfterDetach = RemoveFirst(progs[op.cgrp], op.prog)
      BY <2>3 DEF ListAfterDetach, ListsInv, StillListed
    <3>2. /\ IsFiniteSet(Entries') /\ Cardinality(Entries') \in Nat
          /\ Cardinality(Entries') + 1 = Cardinality(Entries)
      BY <1>2, <2>1, <3>1
    <3>3. enabled = Cardinality(Entries)
      BY <2>3 DEF KeyInv
    <3>4. enabled' = Cardinality(Entries')
      BY <1>0, <2>1, <3>2, <3>3
    <3> QED  BY <2>1, <3>2, <3>4 DEF KeyInv, Idle
  <2> QED  BY <2>1, <2>2, <2>3
<1>7. ASSUME NEW c \in Cgroups, ReleaseProgs(c)
      PROVE  KeyInv'
  <2>1. /\ progs' = [progs EXCEPT ![c] = <<>>] /\ op = Idle /\ op' = Idle
        /\ enabled' = enabled - Len(progs[c])
    BY <1>7 DEF ReleaseProgs
  <2>2. progs'[c] = <<>> /\ \A d \in Cgroups : d # c => progs'[d] = progs[d]
    BY <1>0, <2>1
  <2>3. /\ IsFiniteSet(Entries') /\ Cardinality(Entries') \in Nat
        /\ Cardinality(Entries') = Cardinality(Entries) - Len(progs[c]) + Len(progs'[c])
    BY <1>0, <2>2, CountChange
  <2>4. Len(progs'[c]) = 0 /\ Len(progs[c]) \in Nat
    BY <1>0, <2>2
  <2>5. enabled = Cardinality(Entries)
    BY <2>1 DEF KeyInv, Idle
  <2>6. enabled' = Cardinality(Entries')
    BY <1>0, <2>1, <2>3, <2>4, <2>5
  <2> QED  BY <2>1, <2>3, <2>6 DEF KeyInv, Idle
<1> QED  BY <1>1, <1>3, <1>4, <1>5, <1>6, <1>7

\* Nothing is attached at the start, and the key is down.
LEMMA KeyInit == Init => KeyInv
<1> SUFFICES ASSUME Init PROVE KeyInv
  OBVIOUS
<1>1. \A c \in Cgroups : 1..Len(progs[c]) = {}
  BY DEF Init
<1>2. Entries = {}
  BY <1>1 DEF Entries
<1> QED  BY <1>2, FS_EmptySet DEF Init, KeyInv, Idle

\* Every step of Next keeps the count.
LEMMA KeyStep == CoverInv /\ ListsInv /\ ListsInv' /\ KeyInv /\ [Next]_vars => KeyInv'
<1> SUFFICES ASSUME CoverInv, ListsInv, ListsInv', KeyInv, [Next]_vars PROVE KeyInv'
  OBVIOUS
<1>0. OpRecord /\ ListTypes
  BY DEF CoverInv, CoverTypes, ListsInv
<1>1. CASE \/ \E c \in Cgroups, x \in Attachable, fl \in AttachFlags : AttachBegin(c, x, fl)
           \/ \E c \in Cgroups, x \in Attachments : DetachBegin(c, x)
           \/ \E l \in Links, x \in Progs : ReplaceBegin(l, x)
           \/ AttachEnd \/ DetachEnd
           \/ \E c \in Cgroups : ReleaseProgs(c)
  BY <1>1, KeyLists
<1>2. CASE UNCHANGED <<progs, enabled, op>>
  BY <1>0, <1>2, KeyFrame
<1>3. ASSUME NEW c \in Cgroups, NEW x, NEW fl, AttachFails(c, x, fl)
      PROVE  KeyInv'
  BY <1>2, <1>3 DEF AttachFails
<1>4. CASE (\E c \in Cgroups, x \in Attachments : DetachPurges(c, x)) \/ ReplaceEnd
  <2>1. UNCHANGED <<progs, enabled>> /\ {op.kind, op'.kind} \subseteq {"idle", "purge", "replace"}
    BY <1>4 DEF DetachPurges, ReplaceEnd, Idle
  <2> QED  BY <1>0, <2>1, KeyFrame
<1>5. ASSUME NEW d \in Cgroups, SkipZero(d) \/ PublishEffective(d) \/ PurgeOne(d) \/ ReplaceOne(d)
      PROVE  KeyInv'
  <2>1. /\ UNCHANGED <<progs, enabled>> /\ op.kind # "idle"
        /\ op' = [op EXCEPT !.todo = @ \ {d}] \/ op' = [op EXCEPT !.cur = d, !.step = 1]
    BY <1>5 DEF SkipZero, PublishEffective, PurgeOne, ReplaceOne, NextInPreorder
  <2>2. op'.kind = op.kind /\ (op.kind = "attach" => op'.key = op.key)
    BY <1>0, <2>1 DEF OpRecord
  <2> QED  BY <1>0, <2>1, <2>2, KeyFrame
<1>6. CASE ActivateOrPublish \/ PublishOrDeactivate
  <2>1. UNCHANGED <<progs, enabled>> /\ op'.kind = op.kind /\ (op.kind = "attach" => op'.key = op.key)
    BY <1>0, <1>6 DEF ActivateOrPublish, PublishOrDeactivate, Updating, OpRecord
  <2> QED  BY <1>0, <2>1, KeyFrame
<1>7. ASSUME NEW c \in Cgroups, NEW new,
             SetScope(c, new) \/ Mkdir(c) \/ Rmdir(c) \/ DropRefcnt(c) \/ ReleaseScope(c)
      PROVE  KeyInv'
  BY <1>2, <1>7 DEF SetScope, Mkdir, Rmdir, DropRefcnt, ReleaseScope
<1>8. CASE (\E t \in Tasks, c \in Cgroups : Migrate(t, c)) \/ UNCHANGED vars
  BY <1>2, <1>8 DEF Migrate, vars, treeVars
<1>9. ASSUME NEW t \in Tasks,
              \/ \E p \in Paths : WalkGate(t, p)
              \/ WalkPrefilter(t) \/ WalkOwner(t) \/ WalkMatch(t) \/ WalkRun(t) \/ WalkEnd(t)
       PROVE  KeyInv'
  BY <1>2, <1>9
  DEF WalkGate, WalkPrefilter, WalkOwner, WalkMatch, WalkRun, WalkEnd, WalkStep, treeVars
<1> QED
  BY <1>1, <1>3, <1>4, <1>5, <1>6, <1>7, <1>8, <1>9 DEF Next

-----------------------------------------------------------------------------
(* What lists p and flags f call for.                                      *)

\* An entry of an effective array.
Slots == Instances \cup {Dummy}

AttachedOf(p, e) == [k \in 1..Len(p[e]) |-> <<e, p[e][k]>>]

TakenIn(p, f, c, i) == f[Chain[c][i]] = "multi" \/ \A j \in 1..(i - 1) : p[Chain[c][j]] = <<>>

LevelsOf(p, f, c) ==
    [i \in 1..Len(Chain[c]) |-> IF TakenIn(p, f, c, i) THEN AttachedOf(p, Chain[c][i]) ELSE <<>>]

ArrayOf(p, f, c) == FlattenSeq(LevelsOf(p, f, c))

OwnerOf(p, c) ==
    LET with == {i \in DOMAIN Chain[c] : p[Chain[c][i]] # <<>>}
    IN  IF with = {} THEN Nobody ELSE Chain[c][Min(with)]

\* They are the operators of the model, before and after a step.
LEMMA ArrayIs ==
    ASSUME NEW c
    PROVE  /\ Effective(c) = ArrayOf(progs, flags, c) /\ Effective(c)' = ArrayOf(progs', flags', c)
           /\ Nearest(c) = OwnerOf(progs, c) /\ Nearest(c)' = OwnerOf(progs', c)
<1>1. Effective(c) = ArrayOf(progs, flags, c)
  BY DEF Effective, ArrayOf, LevelsOf, TakenIn, AttachedOf, AttachedAt
<1>2. Effective(c)' = ArrayOf(progs', flags', c)
  BY DEF Effective, ArrayOf, LevelsOf, TakenIn, AttachedOf, AttachedAt
<1>3. Nearest(c) = OwnerOf(progs, c) /\ Nearest(c)' = OwnerOf(progs', c)
  BY DEF Nearest, OwnerOf
<1> QED  BY <1>1, <1>2, <1>3

\* A cgroup is on its path once.
LEMMA ChainOnce ==
    ASSUME NEW c \in Cgroups, NEW i \in 1..Len(Chain[c]), NEW j \in 1..Len(Chain[c]),
           Chain[c][i] = Chain[c][j]
    PROVE  i = j
<1> DEFINE up == Chain[c]
<1>1. up \in Seq(Cgroups) /\ Len(up) \in Nat /\ DOMAIN up = 1..Len(up)
  BY ChainFacts
<1>2. Chain[up[i]] = SubSeq(up, i, Len(up)) /\ Chain[up[j]] = SubSeq(up, j, Len(up))
  BY <1>1, AttachConstants
<1> HIDE DEF up
<1>3. i \in 1..Len(up) /\ j \in 1..Len(up) /\ up[i] = up[j]
  BY DEF up
<1>4. Len(SubSeq(up, i, Len(up))) = Len(up) - i + 1 /\ Len(SubSeq(up, j, Len(up))) = Len(up) - j + 1
  BY <1>1, <1>3
<1>5. Len(up) - i + 1 = Len(up) - j + 1
  BY <1>2, <1>3, <1>4, Zenon
<1> QED  BY <1>1, <1>3, <1>5

\* The entries of one level.
LEMMA AttachedFacts ==
    ASSUME NEW p \in [Cgroups -> Seq(Attachments)], NEW e \in Cgroups
    PROVE  /\ AttachedOf(p, e) \in Seq(Slots) /\ Len(AttachedOf(p, e)) = Len(p[e])
           /\ p[e] \in Seq(Attachments) /\ Len(p[e]) \in Nat
           /\ \A k \in 1..Len(p[e]) : AttachedOf(p, e)[k] = <<e, p[e][k]>>
           /\ p[e] = <<>> => AttachedOf(p, e) = <<>>
<1> DEFINE s == p[e]
           a == [k \in 1..Len(s) |-> <<e, s[k]>>]
<1>1. s \in Seq(Attachments) /\ Len(s) \in Nat
  OBVIOUS
<1>2. AttachedOf(p, e) = a
  BY DEF AttachedOf
<1> HIDE DEF s
<1>3. \A k \in 1..Len(s) : a[k] = <<e, s[k]>>
  OBVIOUS
<1>4. a \in [1..Len(s) -> Slots]
  <2>1. \A k \in 1..Len(s) : <<e, s[k]>> \in Slots
    BY <1>1 DEF Slots, Instances
  <2> QED  BY <2>1
<1>5. s = <<>> => a = <<>>
  OBVIOUS
<1> HIDE DEF a
<1>6. a \in Seq(Slots) /\ Len(a) = Len(s)
  BY <1>1, <1>4
<1> QED  BY <1>1, <1>2, <1>3, <1>5, <1>6 DEF s

\* The levels of c's path.
LEMMA LevelsFacts ==
    ASSUME NEW p \in [Cgroups -> Seq(Attachments)], NEW f, NEW c \in Cgroups
    PROVE  /\ LevelsOf(p, f, c) \in Seq(Seq(Slots))
           /\ Len(LevelsOf(p, f, c)) = Len(Chain[c]) /\ Len(Chain[c]) \in Nat /\ Len(Chain[c]) # 0
           /\ \A i \in 1..Len(Chain[c]) :
                /\ Chain[c][i] \in Cgroups
                /\ LevelsOf(p, f, c)[i] = IF TakenIn(p, f, c, i) THEN AttachedOf(p, Chain[c][i])
                                          ELSE <<>>
<1> DEFINE n == Len(Chain[c])
           L == LevelsOf(p, f, c)
<1>1. n \in Nat /\ n # 0 /\ \A i \in 1..n : Chain[c][i] \in Cgroups
  BY ChainFacts
<1>2. /\ L = [i \in 1..n |-> L[i]]
      /\ \A i \in 1..n : L[i] = IF TakenIn(p, f, c, i) THEN AttachedOf(p, Chain[c][i]) ELSE <<>>
  BY DEF LevelsOf
<1> HIDE DEF n, L
<1>3. \A i \in 1..n : L[i] \in Seq(Slots)
  <2>1. <<>> \in Seq(Slots)
    OBVIOUS
  <2>2. \A i \in 1..n : AttachedOf(p, Chain[c][i]) \in Seq(Slots)
    BY <1>1, AttachedFacts
  <2> QED  BY <1>2, <2>1, <2>2, Zenon
<1>4. L \in [1..n -> Seq(Slots)]
  BY <1>2, <1>3
<1>5. L \in Seq(Seq(Slots)) /\ Len(L) = n
  BY <1>1, <1>4
<1> QED  BY <1>1, <1>2, <1>5 DEF n, L

\* What is in the array is in the list of a level, and what a level that is taken
\* lists is in the array.
LEMMA ArrayFacts ==
    ASSUME NEW p \in [Cgroups -> Seq(Attachments)], NEW f, NEW c \in Cgroups
    PROVE  /\ ArrayOf(p, f, c) \in Seq(Slots)
           /\ \A y : Has(ArrayOf(p, f, c), y) =>
                 \E i \in 1..Len(Chain[c]) : \E k \in 1..Len(p[Chain[c][i]]) :
                     y = <<Chain[c][i], p[Chain[c][i]][k]>>
           /\ \A i \in 1..Len(Chain[c]) : TakenIn(p, f, c, i) =>
                 \A k \in 1..Len(p[Chain[c][i]]) :
                     Has(ArrayOf(p, f, c), <<Chain[c][i], p[Chain[c][i]][k]>>)
<1> DEFINE n == Len(Chain[c])
           L == LevelsOf(p, f, c)
<1>1. /\ L \in Seq(Seq(Slots)) /\ Len(L) = n /\ n \in Nat /\ n # 0
      /\ \A i \in 1..n : /\ Chain[c][i] \in Cgroups
                         /\ L[i] = IF TakenIn(p, f, c, i) THEN AttachedOf(p, Chain[c][i]) ELSE <<>>
  BY LevelsFacts
<1> HIDE DEF n, L
<1>2. FlattenSeq(L) \in Seq(Slots)
  BY <1>1, FlattenHas
<1>3. \A y : Has(FlattenSeq(L), y) <=> \E i \in 1..Len(L) : Has(L[i], y)
  BY <1>1, FlattenHas
<1>4. ASSUME NEW y, Has(FlattenSeq(L), y)
      PROVE  \E i \in 1..n : \E k \in 1..Len(p[Chain[c][i]]) : y = <<Chain[c][i], p[Chain[c][i]][k]>>
  <2>1. PICK i \in 1..n : Has(L[i], y)
    BY <1>1, <1>3, <1>4
  <2>2. PICK k \in 1..Len(L[i]) : L[i][k] = y
    BY <2>1 DEF Has
  <2>3. L[i] = AttachedOf(p, Chain[c][i])
    <3>1. L[i] # <<>>
      BY <2>2
    <3> QED  BY <1>1, <3>1
  <2>4. Len(L[i]) = Len(p[Chain[c][i]]) /\ y = <<Chain[c][i], p[Chain[c][i]][k]>>
    <3>1. Chain[c][i] \in Cgroups
      BY <1>1
    <3>2. /\ Len(AttachedOf(p, Chain[c][i])) = Len(p[Chain[c][i]])
          /\ \A m \in 1..Len(p[Chain[c][i]]) :
                AttachedOf(p, Chain[c][i])[m] = <<Chain[c][i], p[Chain[c][i]][m]>>
      BY <3>1, AttachedFacts
    <3> QED  BY <2>2, <2>3, <3>2
  <2> QED  BY <2>4
<1>5. ASSUME NEW i \in 1..n, TakenIn(p, f, c, i), NEW k \in 1..Len(p[Chain[c][i]])
      PROVE  Has(FlattenSeq(L), <<Chain[c][i], p[Chain[c][i]][k]>>)
  <2>1. L[i] = AttachedOf(p, Chain[c][i]) /\ Chain[c][i] \in Cgroups
    BY <1>1, <1>5
  <2>2. L[i][k] = <<Chain[c][i], p[Chain[c][i]][k]>> /\ k \in 1..Len(L[i])
    BY <2>1, AttachedFacts
  <2>3. Has(L[i], <<Chain[c][i], p[Chain[c][i]][k]>>)
    BY <2>2 DEF Has
  <2> QED  BY <1>1, <1>3, <2>3
<1>6. ArrayOf(p, f, c) = FlattenSeq(L)
  BY DEF ArrayOf, L
<1> QED  BY <1>2, <1>4, <1>5, <1>6 DEF n

\* An entry of the array is an entry of some list.
LEMMA FromLists ==
    ASSUME NEW p \in [Cgroups -> Seq(Attachments)], NEW f, NEW c \in Cgroups, NEW y,
           Has(ArrayOf(p, f, c), y)
    PROVE  \E e \in Cgroups : \E k \in 1..Len(p[e]) : y = <<e, p[e][k]>>
<1>1. PICK i \in 1..Len(Chain[c]) : \E k \in 1..Len(p[Chain[c][i]]) :
          y = <<Chain[c][i], p[Chain[c][i]][k]>>
  BY ArrayFacts
<1>2. Chain[c][i] \in Cgroups
  BY ChainFacts
<1> QED  BY <1>1, <1>2

\* The nearest level with a program is the owner.
LEMMA FirstLevel ==
    ASSUME NEW p, NEW c \in Cgroups
    PROVE  \/ /\ \A i \in 1..Len(Chain[c]) : p[Chain[c][i]] = <<>>
              /\ OwnerOf(p, c) = Nobody
           \/ \E m \in 1..Len(Chain[c]) :
                /\ p[Chain[c][m]] # <<>> /\ \A j \in 1..(m - 1) : p[Chain[c][j]] = <<>>
                /\ OwnerOf(p, c) = Chain[c][m]
<1> DEFINE with == {i \in DOMAIN Chain[c] : p[Chain[c][i]] # <<>>}
<1>1. with \in SUBSET Nat /\ DOMAIN Chain[c] = 1..Len(Chain[c]) /\ Len(Chain[c]) \in Nat
  BY ChainFacts
<1>2. CASE with = {}
  <2>1. \A i \in 1..Len(Chain[c]) : p[Chain[c][i]] = <<>>
    BY <1>1, <1>2
  <2> QED  BY <1>2, <2>1 DEF OwnerOf
<1>3. CASE with # {}
  <2>1. OwnerOf(p, c) = Chain[c][Min(with)]
    BY <1>3 DEF OwnerOf
  <2>2. Min(with) \in with /\ \A y \in with : Min(with) <= y
    <3> HIDE DEF with
    <3> QED  BY <1>1, <1>3, MinFacts
  <2>3. PICK m \in 1..Len(Chain[c]) : m = Min(with)
    BY <1>1, <2>2
  <2>4. p[Chain[c][m]] # <<>>
    BY <2>2, <2>3
  <2>5. ASSUME NEW j \in 1..(m - 1)  PROVE p[Chain[c][j]] = <<>>
    <3>1. j \in 1..Len(Chain[c]) /\ ~(m <= j)
      BY <1>1
    <3> QED  BY <1>1, <2>2, <2>3, <3>1
  <2> QED  BY <2>1, <2>3, <2>4, <2>5
<1> QED  BY <1>2, <1>3

\* Level m of c's path is the nearest one with a program.
FirstAt(p, c, m) == p[Chain[c][m]] # <<>> /\ \A j \in 1..(m - 1) : p[Chain[c][j]] = <<>>

\* A nearest level is the owner.
LEMMA FirstIsOwner ==
    ASSUME NEW p, NEW c \in Cgroups, NEW m \in 1..Len(Chain[c]), FirstAt(p, c, m)
    PROVE  OwnerOf(p, c) = Chain[c][m]
<1>1. Len(Chain[c]) \in Nat
  BY ChainFacts
<1>2. PICK n \in 1..Len(Chain[c]) :
                /\ p[Chain[c][n]] # <<>> /\ \A j \in 1..(n - 1) : p[Chain[c][j]] = <<>>
                /\ OwnerOf(p, c) = Chain[c][n]
  <2>1. ~\A i \in 1..Len(Chain[c]) : p[Chain[c][i]] = <<>>
    BY DEF FirstAt
  <2> QED  BY <2>1, FirstLevel, Zenon
<1>3. ~(m < n) /\ ~(n < m)
  BY <1>1, <1>2 DEF FirstAt
<1>4. m = n
  BY <1>1, <1>3
<1> QED  BY <1>2, <1>4

\* Lists and flags differ, on c's path, only in the flags of empty levels and in
\* levels that are not taken.
Indistinct(p, f, q, g, c) ==
    \A i \in 1..Len(Chain[c]) :
        \/ /\ q[Chain[c][i]] = p[Chain[c][i]]
           /\ p[Chain[c][i]] # <<>> => g[Chain[c][i]] = f[Chain[c][i]]
        \/ /\ f[Chain[c][i]] # "multi" /\ g[Chain[c][i]] # "multi"
           /\ \E j \in 1..(i - 1) : p[Chain[c][j]] # <<>>

\* Then they call for the same.
LEMMA SameArray ==
    ASSUME NEW p \in [Cgroups -> Seq(Attachments)], NEW q \in [Cgroups -> Seq(Attachments)],
           NEW f, NEW g, NEW c \in Cgroups, Indistinct(p, f, q, g, c)
    PROVE  ArrayOf(q, g, c) = ArrayOf(p, f, c) /\ OwnerOf(q, c) = OwnerOf(p, c)
<1> DEFINE up == Chain[c]
           n == Len(up)
<1> USE DEF Indistinct
<1>1. n \in Nat /\ \A i \in 1..n : up[i] \in Cgroups
  BY ChainFacts
<1>2. /\ \A e \in Cgroups : q[e] = p[e] => AttachedOf(q, e) = AttachedOf(p, e)
      /\ \A e \in Cgroups : p[e] = <<>> => AttachedOf(p, e) = <<>>
  BY AttachedFacts DEF AttachedOf
<1> SUFFICES /\ OwnerOf(q, c) = OwnerOf(p, c)
             /\ \A i \in 1..n : (IF TakenIn(q, g, c, i) THEN AttachedOf(q, up[i]) ELSE <<>>)
                                    = (IF TakenIn(p, f, c, i) THEN AttachedOf(p, up[i]) ELSE <<>>)
  <2>1. ASSUME \A i \in 1..n : (IF TakenIn(q, g, c, i) THEN AttachedOf(q, up[i]) ELSE <<>>)
                                    = (IF TakenIn(p, f, c, i) THEN AttachedOf(p, up[i]) ELSE <<>>)
        PROVE  LevelsOf(q, g, c) = LevelsOf(p, f, c)
    BY <2>1 DEF LevelsOf
  <2> QED  BY <2>1 DEF ArrayOf
<1>3. CASE /\ \A i \in 1..n : p[up[i]] = <<>>
           /\ OwnerOf(p, c) = Nobody
  <2>1. \A i \in 1..n : q[up[i]] = <<>> /\ p[up[i]] = <<>>
    <3> SUFFICES ASSUME NEW i \in 1..n PROVE q[up[i]] = <<>> /\ p[up[i]] = <<>>
      OBVIOUS
    <3>1. \A j \in 1..(i - 1) : j \in 1..n
      BY <1>1
    <3> QED  BY <1>3, <3>1
  <2>2. OwnerOf(q, c) = Nobody
    <3>1. ~\E m \in 1..Len(Chain[c]) :
                /\ q[Chain[c][m]] # <<>> /\ \A j \in 1..(m - 1) : q[Chain[c][j]] = <<>>
                /\ OwnerOf(q, c) = Chain[c][m]
      BY <2>1
    <3> QED  BY <3>1, FirstLevel, Zenon
  <2>3. \A i \in 1..n : AttachedOf(q, up[i]) = <<>> /\ AttachedOf(p, up[i]) = <<>>
    BY <1>1, <1>2, <2>1
  <2> QED  BY <1>3, <2>2, <2>3
<1>4. CASE \E m \in 1..n : /\ p[up[m]] # <<>> /\ \A j \in 1..(m - 1) : p[up[j]] = <<>>
                           /\ OwnerOf(p, c) = up[m]
  <2>1. PICK m \in 1..n : /\ p[up[m]] # <<>> /\ \A j \in 1..(m - 1) : p[up[j]] = <<>>
                          /\ OwnerOf(p, c) = up[m]
    BY <1>4
  <2>2. ASSUME NEW i \in 1..m
        PROVE  i \in 1..n /\ q[up[i]] = p[up[i]] /\ \A j \in 1..(i - 1) : p[up[j]] = <<>>
    <3>1. i \in 1..n /\ \A j \in 1..(i - 1) : j \in 1..(m - 1)
      BY <1>1
    <3> QED  BY <2>1, <3>1
  <2>3. ASSUME NEW i \in 1..m, NEW j \in 1..(i - 1)  PROVE q[up[j]] = <<>>
    <3>1. j \in 1..m
      BY <1>1
    <3> QED  BY <2>2, <3>1
  <2>4. OwnerOf(q, c) = up[m]
    <3>1. m \in 1..m
      BY <1>1
    <3>2. m \in 1..Len(Chain[c]) /\ FirstAt(q, c, m)
      BY <2>1, <2>2, <2>3, <3>1 DEF FirstAt
    <3> QED  BY <3>2, FirstIsOwner
  <2>5. ASSUME NEW i \in 1..n
        PROVE  (IF TakenIn(q, g, c, i) THEN AttachedOf(q, up[i]) ELSE <<>>)
                    = (IF TakenIn(p, f, c, i) THEN AttachedOf(p, up[i]) ELSE <<>>)
    <3>1. CASE i \in 1..m
      <4>1. TakenIn(q, g, c, i) /\ TakenIn(p, f, c, i)
        BY <2>2, <2>3, <3>1 DEF TakenIn
      <4> QED  BY <1>1, <1>2, <2>2, <3>1, <4>1
    <3>2. CASE i \notin 1..m
      <4>1. m \in 1..(i - 1) /\ m \in 1..m
        BY <1>1, <3>2
      <4>2. q[up[m]] # <<>> /\ p[up[m]] # <<>>
        BY <2>1, <2>2, <4>1
      <4>3. (TakenIn(p, f, c, i) <=> f[up[i]] = "multi") /\ (TakenIn(q, g, c, i) <=> g[up[i]] = "multi")
        BY <4>1, <4>2 DEF TakenIn
      <4> HIDE DEF up, n
      <4>4. CASE q[up[i]] = p[up[i]] /\ p[up[i]] = <<>>
        BY <1>1, <1>2, <4>4
      <4>5. CASE q[up[i]] = p[up[i]] /\ g[up[i]] = f[up[i]]
        BY <1>1, <1>2, <4>3, <4>5
      <4>6. CASE f[up[i]] # "multi" /\ g[up[i]] # "multi"
        BY <4>3, <4>6
      <4> QED  BY <4>4, <4>5, <4>6 DEF up, n
    <3> QED  BY <3>1, <3>2
  <2> QED  BY <2>1, <2>4, <2>5
<1> QED  BY <1>3, <1>4, FirstLevel, Zenon

\* On c's path lists are the same, and flags differ for empty lists only.
SamePath(p, f, q, g, c) == \A e \in ToSet(Chain[c]) : q[e] = p[e] /\ (p[e] # <<>> => g[e] = f[e])

\* When a list changes that is not on c's path, c's array and owner do not.
LEMMA OtherPath ==
    ASSUME NEW p \in [Cgroups -> Seq(Attachments)], NEW q \in [Cgroups -> Seq(Attachments)],
           NEW f, NEW g, NEW c \in Cgroups, SamePath(p, f, q, g, c)
    PROVE  ArrayOf(q, g, c) = ArrayOf(p, f, c) /\ OwnerOf(q, c) = OwnerOf(p, c)
<1>1. \A i \in 1..Len(Chain[c]) : Chain[c][i] \in ToSet(Chain[c])
  BY ChainFacts DEF ToSet
<1>2. \A i \in 1..Len(Chain[c]) :
          /\ q[Chain[c][i]] = p[Chain[c][i]]
          /\ p[Chain[c][i]] # <<>> => g[Chain[c][i]] = f[Chain[c][i]]
  BY <1>1, Zenon DEF SamePath
<1>3. Indistinct(p, f, q, g, c)
  BY <1>2 DEF Indistinct
<1> QED  BY <1>3, SameArray

\* Where no level allows several programs, the array is the owner's program.
LEMMA AloneArray ==
    ASSUME NEW p \in [Cgroups -> Seq(Attachments)], NEW f, NEW c \in Cgroups,
           \A e \in Cgroups : f[e] # "multi" /\ Len(p[e]) <= 1
    PROVE  \A i \in 1..Len(ArrayOf(p, f, c)) : i = 1 /\ ArrayOf(p, f, c)[i][1] = OwnerOf(p, c)
<1> DEFINE up == Chain[c]
           n == Len(up)
           L == LevelsOf(p, f, c)
<1>1. /\ L \in Seq(Seq(Slots)) /\ Len(L) = n /\ n \in Nat /\ n # 0
      /\ \A i \in 1..n : /\ up[i] \in Cgroups
                         /\ L[i] = IF TakenIn(p, f, c, i) THEN AttachedOf(p, up[i]) ELSE <<>>
  BY LevelsFacts
<1>2. ArrayOf(p, f, c) = FlattenSeq(L)
  BY DEF ArrayOf
<1> HIDE DEF L
<1>3. CASE \A i \in 1..n : p[up[i]] = <<>>
  <2>1. \A i \in 1..n : L[i] = <<>>
    BY <1>1, <1>3, AttachedFacts
  <2>2. 1 \in 1..Len(L)
    BY <1>1
  <2>3. FlattenSeq(L) = L[1]
    BY <1>1, <2>1, <2>2, FlattenAlone
  <2>4. Len(FlattenSeq(L)) = 0
    BY <1>1, <2>1, <2>2, <2>3
  <2> QED  BY <1>2, <2>4
<1>4. CASE \E m \in 1..n : /\ p[up[m]] # <<>> /\ \A j \in 1..(m - 1) : p[up[j]] = <<>>
                           /\ OwnerOf(p, c) = up[m]
  <2>1. PICK m \in 1..n : /\ p[up[m]] # <<>> /\ \A j \in 1..(m - 1) : p[up[j]] = <<>>
                          /\ OwnerOf(p, c) = up[m]
    BY <1>4
  <2>2. ASSUME NEW i \in 1..n, i # m  PROVE L[i] = <<>>
    <3>1. CASE i \in 1..(m - 1)
      BY <1>1, <2>1, <3>1, AttachedFacts
    <3>2. CASE i \notin 1..(m - 1)
      <4>1. m \in 1..(i - 1)
        BY <1>1, <2>2, <3>2
      <4>2. ~TakenIn(p, f, c, i)
        BY <1>1, <2>1, <4>1 DEF TakenIn
      <4> QED  BY <1>1, <4>2
    <3> QED  BY <3>1, <3>2
  <2>3. L[m] = AttachedOf(p, up[m])
    BY <1>1, <2>1 DEF TakenIn
  <2>4. FlattenSeq(L) = AttachedOf(p, up[m])
    BY <1>1, <2>2, <2>3, FlattenAlone
  <2>5. /\ Len(AttachedOf(p, up[m])) = Len(p[up[m]]) /\ Len(p[up[m]]) \in Nat
        /\ \A k \in 1..Len(p[up[m]]) : AttachedOf(p, up[m])[k] = <<up[m], p[up[m]][k]>>
    BY <1>1, AttachedFacts
  <2>6. \A k \in 1..Len(p[up[m]]) : k = 1
    BY <1>1, <2>5
  <2> QED  BY <1>2, <2>1, <2>4, <2>5, <2>6
<1> QED  BY <1>3, <1>4, FirstLevel

\* The entries of link l in effective arrays.
LinkEntries(l) == Cgroups \X OfLink(l)

\* Entries that are equal, or both of link l.
SameButLink(l) ==
    {e \in Slots \X Slots : e[1] = e[2] \/ (e[1] \in LinkEntries(l) /\ e[2] \in LinkEntries(l))}

\* Lists differ in programs of link l only.
LinkChanged(p, q, l) ==
    \A e \in Cgroups : /\ Len(q[e]) = Len(p[e])
                       /\ \A k \in 1..Len(p[e]) : \/ q[e][k] = p[e][k]
                                                  \/ q[e][k] \in OfLink(l) /\ p[e][k] \in OfLink(l)

\* Then the arrays do.
LEMMA RelatedArray ==
    ASSUME NEW p \in [Cgroups -> Seq(Attachments)], NEW q \in [Cgroups -> Seq(Attachments)],
           NEW f, NEW c \in Cgroups, NEW l \in Links, LinkChanged(p, q, l)
    PROVE  Related(ArrayOf(p, f, c), ArrayOf(q, f, c), SameButLink(l)) /\ OwnerOf(q, c) = OwnerOf(p, c)
<1> DEFINE up == Chain[c]
           n == Len(up)
           L == LevelsOf(p, f, c)
           M == LevelsOf(q, f, c)
<1>1. /\ L \in Seq(Seq(Slots)) /\ Len(L) = n /\ n \in Nat /\ n # 0
      /\ \A i \in 1..n : /\ up[i] \in Cgroups
                         /\ L[i] = IF TakenIn(p, f, c, i) THEN AttachedOf(p, up[i]) ELSE <<>>
  BY LevelsFacts
<1>2. /\ M \in Seq(Seq(Slots)) /\ Len(M) = n
      /\ \A i \in 1..n : M[i] = IF TakenIn(q, f, c, i) THEN AttachedOf(q, up[i]) ELSE <<>>
  BY LevelsFacts
<1>3. ArrayOf(p, f, c) = FlattenSeq(L) /\ ArrayOf(q, f, c) = FlattenSeq(M)
  BY DEF ArrayOf
<1> HIDE DEF L, M
<1>4. \A e \in Cgroups : p[e] = <<>> <=> q[e] = <<>>
  <2> SUFFICES ASSUME NEW e \in Cgroups PROVE p[e] = <<>> <=> q[e] = <<>>
    OBVIOUS
  <2>1. p[e] \in Seq(Attachments) /\ q[e] \in Seq(Attachments) /\ Len(q[e]) = Len(p[e])
    BY DEF LinkChanged
  <2> QED  BY <2>1
<1>5. \A i \in 1..n : TakenIn(p, f, c, i) <=> TakenIn(q, f, c, i)
  <2> SUFFICES ASSUME NEW i \in 1..n PROVE TakenIn(p, f, c, i) <=> TakenIn(q, f, c, i)
    OBVIOUS
  <2>1. \A j \in 1..(i - 1) : up[j] \in Cgroups
    BY <1>1
  <2> QED  BY <1>4, <2>1 DEF TakenIn
<1>6. ASSUME NEW e \in Cgroups  PROVE Related(AttachedOf(p, e), AttachedOf(q, e), SameButLink(l))
  <2>1. /\ Len(AttachedOf(p, e)) = Len(p[e]) /\ p[e] \in Seq(Attachments)
        /\ \A k \in 1..Len(p[e]) : AttachedOf(p, e)[k] = <<e, p[e][k]>>
    BY AttachedFacts
  <2>2. /\ Len(AttachedOf(q, e)) = Len(q[e]) /\ q[e] \in Seq(Attachments)
        /\ \A k \in 1..Len(q[e]) : AttachedOf(q, e)[k] = <<e, q[e][k]>>
    BY AttachedFacts
  <2>3. /\ Len(q[e]) = Len(p[e])
        /\ \A k \in 1..Len(p[e]) : \/ q[e][k] = p[e][k]
                                   \/ q[e][k] \in OfLink(l) /\ p[e][k] \in OfLink(l)
    BY DEF LinkChanged
  <2>4. ASSUME NEW k \in 1..Len(p[e])
        PROVE  << <<e, p[e][k]>>, <<e, q[e][k]>> >> \in SameButLink(l)
    <3>1. p[e][k] \in Attachments /\ q[e][k] \in Attachments
      BY <2>1, <2>2, <2>3
    <3>2. <<e, p[e][k]>> \in Slots /\ <<e, q[e][k]>> \in Slots
      BY <3>1 DEF Slots, Instances
    <3>3. \/ <<e, p[e][k]>> = <<e, q[e][k]>>
          \/ <<e, p[e][k]>> \in LinkEntries(l) /\ <<e, q[e][k]>> \in LinkEntries(l)
      BY <2>3 DEF LinkEntries
    <3> QED  BY <3>2, <3>3 DEF SameButLink
  <2> QED  BY <2>1, <2>2, <2>3, <2>4 DEF Related
<1>7. ASSUME NEW i \in 1..Len(L)  PROVE Related(L[i], M[i], SameButLink(l))
  <2>1. i \in 1..n /\ up[i] \in Cgroups
    BY <1>1
  <2>2. CASE TakenIn(p, f, c, i)
    BY <1>1, <1>2, <1>5, <1>6, <2>1, <2>2
  <2>3. CASE ~TakenIn(p, f, c, i)
    <3>1. L[i] = <<>> /\ M[i] = <<>>
      BY <1>1, <1>2, <1>5, <2>1, <2>3
    <3> QED  BY <3>1 DEF Related
  <2> QED  BY <2>2, <2>3
<1>8. Related(FlattenSeq(L), FlattenSeq(M), SameButLink(l))
  BY <1>1, <1>2, <1>7, FlattenRelated
<1>9. OwnerOf(q, c) = OwnerOf(p, c)
  <2>1. DOMAIN Chain[c] = 1..n
    BY ChainFacts
  <2>2. {i \in DOMAIN Chain[c] : p[Chain[c][i]] # <<>>} = {i \in DOMAIN Chain[c] : q[Chain[c][i]] # <<>>}
    BY <1>1, <1>4, <2>1
  <2> QED  BY <2>2 DEF OwnerOf
<1> QED  BY <1>3, <1>8, <1>9

\* Link l is the k-th entry of e's list and nowhere else.
OnlyAt(p, l, e, k) ==
    /\ k \in 1..Len(p[e]) /\ p[e][k] \in OfLink(l)
    /\ \A d \in Cgroups : \A j \in 1..Len(p[d]) : p[d][j] \in OfLink(l) => d = e /\ j = k

\* Then every array below e has it once.
LEMMA OnceArray ==
    ASSUME NEW p \in [Cgroups -> Seq(Attachments)], NEW f, NEW c \in Cgroups, NEW l,
           NEW e \in ToSet(Chain[c]), f[e] = "multi", NEW k, OnlyAt(p, l, e, k)
    PROVE  Once(ArrayOf(p, f, c), LinkEntries(l))
<1> DEFINE up == Chain[c]
           N == Len(up)
           L == LevelsOf(p, f, c)
           B == LinkEntries(l)
<1>1. /\ L \in Seq(Seq(Slots)) /\ Len(L) = N /\ N \in Nat /\ N # 0
      /\ \A i \in 1..N : /\ up[i] \in Cgroups
                         /\ L[i] = IF TakenIn(p, f, c, i) THEN AttachedOf(p, up[i]) ELSE <<>>
  BY LevelsFacts
<1>2. ArrayOf(p, f, c) = FlattenSeq(L)
  BY DEF ArrayOf
<1>3. PICK n \in 1..N : up[n] = e
  BY ChainFacts DEF ToSet
<1> HIDE DEF L, B
<1>4. e \in Cgroups /\ L[n] = AttachedOf(p, e)
  BY <1>1, <1>3 DEF TakenIn
<1>5. \A d \in Cgroups : \A j \in 1..Len(p[d]) : <<d, p[d][j]>> \in B <=> p[d][j] \in OfLink(l)
  BY DEF B, LinkEntries
<1>6. Once(L[n], B)
  <2>1. /\ Len(L[n]) = Len(p[e]) /\ \A m \in 1..Len(p[e]) : L[n][m] = <<e, p[e][m]>>
    BY <1>4, AttachedFacts
  <2>2. k \in 1..Len(p[e]) /\ p[e][k] \in OfLink(l) /\ \A j \in 1..Len(p[e]) : p[e][j] \in OfLink(l) => j = k
    BY <1>4 DEF OnlyAt
  <2>3. \A m \in 1..Len(p[e]) : L[n][m] \in B <=> p[e][m] \in OfLink(l)
    BY <1>4, <1>5, <2>1
  <2> QED  BY <2>1, <2>2, <2>3 DEF Once
<1>7. ASSUME NEW i \in 1..N, i # n  PROVE None(L[i], B)
  <2>1. CASE TakenIn(p, f, c, i)
    <3>1. up[i] \in Cgroups /\ L[i] = AttachedOf(p, up[i])
      BY <1>1, <2>1
    <3>2. /\ Len(L[i]) = Len(p[up[i]]) /\ \A m \in 1..Len(p[up[i]]) : L[i][m] = <<up[i], p[up[i]][m]>>
      BY <3>1, AttachedFacts
    <3>3. up[i] # e
      BY <1>3, <1>7, ChainOnce
    <3>4. \A m \in 1..Len(p[up[i]]) : p[up[i]][m] \notin OfLink(l)
      BY <3>1, <3>3 DEF OnlyAt
    <3>5. \A m \in 1..Len(p[up[i]]) : L[i][m] \notin B
      <4> SUFFICES ASSUME NEW m \in 1..Len(p[up[i]]) PROVE L[i][m] \notin B
        OBVIOUS
      <4> HIDE DEF up
      <4>1. L[i][m] = <<up[i], p[up[i]][m]>> /\ p[up[i]][m] \notin OfLink(l)
        BY <3>2, <3>4
      <4>2. <<up[i], p[up[i]][m]>> \notin B
        BY <1>5, <3>1, <4>1
      <4> QED  BY <4>1, <4>2
    <3> QED  BY <3>2, <3>5 DEF None
  <2>2. CASE ~TakenIn(p, f, c, i)
    <3>1. L[i] = <<>>
      BY <1>1, <2>2
    <3> QED  BY <3>1 DEF None
  <2> QED  BY <2>1, <2>2
<1>8. Once(FlattenSeq(L), B)
  BY <1>1, <1>6, <1>7, FlattenOnce
<1> QED  BY <1>2, <1>8 DEF B

-----------------------------------------------------------------------------
(* What is published is what the lists call for.                           *)

ArrayTypes ==
    /\ effective \in [Cgroups -> Seq(Slots)]
    /\ purged \subseteq Cgroups
    /\ \A c \in Cgroups : life[c] = "absent" => ~active[c]
    /\ op.kind # "idle" =>
          \A d \in op.todo : d \in Cgroups /\ op.cgrp \in ToSet(Chain[d]) /\ life[d] # "absent"
    /\ op.kind \in {"purge", "replace"} => op.cur = Nobody

\* An update has yet to visit d.
Ahead(d) == op.kind \in {"attach", "detach"} /\ d \in op.todo

\* Whatever an update has visited, and whatever it does not concern, has the owner
\* and the array the lists call for.  A replacement has yet to put its program in
\* place; a purge leaves arrays behind that are not what the lists call for.
SettledAt(d) ==
    /\ ~Ahead(d) => active[d] <=> owner[d] = d
    /\ ~Ahead(d) /\ d \notin purged => owner[d] = OwnerOf(progs, d)
    /\ ~Ahead(d) /\ d \notin purged /\ ~(op.kind = "replace" /\ d \in op.todo) =>
            effective[d] = ArrayOf(progs, flags, d)
    /\ op.kind \in {"attach", "detach"} /\ op.cur = d => effective[d] = ArrayOf(progs, flags, d)
    /\ op.kind = "replace" /\ d \in op.todo /\ d \notin purged =>
            Related(effective[d], ArrayOf(progs, flags, d), SameButLink(op.prog[1]))
    /\ op.kind = "purge" /\ op.cgrp \in ToSet(Chain[d]) /\ d \notin op.todo /\ d \notin purged =>
            \A i \in 1..Len(ArrayOf(progs, flags, d)) : ArrayOf(progs, flags, d)[i][2] # op.prog

\* The inductive invariant of SettledTree.
SettledInv == ArrayTypes /\ \A d \in Cgroups : Present(d) => SettledAt(d)

\* At the start nothing is attached and nothing published.
LEMMA SettledInit == Init => SettledInv
<1> SUFFICES ASSUME Init PROVE SettledInv
  OBVIOUS
<1>1. ArrayTypes
  BY DEF Init, ArrayTypes, Idle
<1>2. ASSUME NEW d \in Cgroups  PROVE SettledAt(d)
  <2>1. progs = [c \in Cgroups |-> <<>>] /\ progs \in [Cgroups -> Seq(Attachments)]
    BY DEF Init
  <2>2. \A i \in 1..Len(Chain[d]) : progs[Chain[d][i]] = <<>>
    BY <2>1, ChainFacts
  <2>3. OwnerOf(progs, d) = Nobody
    <3>1. ~\E m \in 1..Len(Chain[d]) :
                /\ progs[Chain[d][m]] # <<>> /\ \A j \in 1..(m - 1) : progs[Chain[d][j]] = <<>>
                /\ OwnerOf(progs, d) = Chain[d][m]
      BY <2>2
    <3> QED  BY <3>1, FirstLevel, Zenon
  <2>4. ArrayOf(progs, flags, d) = <<>>
    <3> DEFINE a == ArrayOf(progs, flags, d)
    <3>0. progs \in [Cgroups -> Seq(Attachments)]
      BY <2>1
    <3>1. a \in Seq(Slots)
      BY <3>0, ArrayFacts
    <3> HIDE DEF a
    <3>2. ASSUME NEW y, Has(a, y)  PROVE FALSE
      <4>1. Has(ArrayOf(progs, flags, d), y)
        BY <3>2 DEF a
      <4>2. PICK e \in Cgroups : \E k \in 1..Len(progs[e]) : y = <<e, progs[e][k]>>
        BY <3>0, <4>1, FromLists
      <4> QED  BY <2>1, <4>2
    <3>3. Len(a) = 0
      <4>1. Len(a) # 0 => 1 \in 1..Len(a)
        BY <3>1
      <4>2. 1 \in 1..Len(a) => Has(a, a[1])
        BY DEF Has
      <4> QED  BY <3>2, <4>1, <4>2
    <3>4. a = <<>>
      BY <3>1, <3>3
    <3> QED  BY <3>4 DEF a
  <2>5. /\ effective[d] = <<>> /\ owner[d] = Nobody /\ active[d] = FALSE /\ op.kind = "idle"
        /\ Nobody # d
    BY AttachConstants DEF Init, Idle
  <2> QED  BY <2>3, <2>4, <2>5 DEF SettledAt, Ahead
<1> QED  BY <1>1, <1>2 DEF SettledInv

\* A step that leaves alone what concerns the cgroups that are there.
LEMMA SettledSame ==
    ASSUME SettledInv, UNCHANGED <<op, purged>>, effective' \in [Cgroups -> Seq(Slots)],
           \A d \in Cgroups : life'[d] = "absent" => life[d] = "absent",
           \A d \in Cgroups : active'[d] = active[d] \/ active'[d] = FALSE,
           \A d \in Cgroups : Present(d)' =>
                /\ Present(d)
                /\ ArrayOf(progs', flags', d) = ArrayOf(progs, flags, d)
                /\ OwnerOf(progs', d) = OwnerOf(progs, d)
                /\ effective'[d] = effective[d] /\ owner'[d] = owner[d] /\ active'[d] = active[d]
    PROVE  SettledInv'
<1>1. ArrayTypes'
  <2>1. effective' \in [Cgroups -> Seq(Slots)]' /\ Slots' = Slots
    BY DEF Slots, Instances, Attachments, LinkAttachments
  <2>2. \A d \in Cgroups : life'[d] = "absent" => ~active'[d]
    BY DEF SettledInv, ArrayTypes
  <2>3. /\ purged' \subseteq Cgroups
        /\ op'.kind # "idle" =>
              \A d \in op'.todo : d \in Cgroups /\ op'.cgrp \in ToSet(Chain[d]) /\ life'[d] # "absent"
        /\ op'.kind \in {"purge", "replace"} => op'.cur = Nobody
    BY DEF SettledInv, ArrayTypes
  <2> QED  BY <2>1, <2>2, <2>3 DEF ArrayTypes
<1>2. ASSUME NEW d \in Cgroups, Present(d)'  PROVE SettledAt(d)'
  <2>1. /\ Present(d) /\ ArrayOf(progs', flags', d) = ArrayOf(progs, flags, d)
        /\ OwnerOf(progs', d) = OwnerOf(progs, d)
        /\ effective'[d] = effective[d] /\ owner'[d] = owner[d] /\ active'[d] = active[d]
    BY <1>2
  <2>2. SettledAt(d)
    BY <2>1 DEF SettledInv
  <2> QED  BY <2>1, <2>2 DEF SettledAt, Ahead
<1> QED  BY <1>1, <1>2 DEF SettledInv

\* What the traversal starts with.
LEMMA AheadFacts ==
    ASSUME NEW c \in Cgroups
    PROVE  /\ \A d \in ToUpdate(c) : d \in Cgroups /\ c \in ToSet(Chain[d]) /\ life[d] # "absent"
           /\ \A d \in Cgroups : Present(d) => (d \in ToUpdate(c) <=> c \in ToSet(Chain[d]))
BY DEF ToUpdate, Subtree, Present

\* An update begins: what it does not concern keeps what it has.
LEMMA SettledBegin ==
    ASSUME ListsInv, ListsInv', SettledInv, NEW c \in Cgroups,
           op = Idle, op'.kind \in {"attach", "detach"}, op'.cgrp = c, op'.todo = ToUpdate(c),
           op'.cur = Nobody, UNCHANGED <<life, effective, owner, active, purged>>,
           \A e \in Cgroups : e # c => progs'[e] = progs[e] /\ flags'[e] = flags[e]
    PROVE  SettledInv'
<1>0. progs \in [Cgroups -> Seq(Attachments)] /\ progs' \in [Cgroups -> Seq(Attachments)]
  <2>1. Attachments' = Attachments
    BY DEF Attachments, LinkAttachments
  <2> QED  BY <2>1 DEF ListsInv, ListTypes
<1>1. ArrayTypes'
  <2>1. \A d \in op'.todo : d \in Cgroups /\ op'.cgrp \in ToSet(Chain[d]) /\ life'[d] # "absent"
    BY AheadFacts
  <2>2. Slots' = Slots
    BY DEF Slots, Instances, Attachments, LinkAttachments
  <2> QED  BY <2>1, <2>2 DEF SettledInv, ArrayTypes
<1>2. ASSUME NEW d \in Cgroups, Present(d)'  PROVE SettledAt(d)'
  <2>1. Present(d) /\ Nobody # d
    BY <1>2, AttachConstants DEF Present
  <2>2. CASE c \in ToSet(Chain[d])
    <3>1. d \in ToUpdate(c)
      BY <2>1, <2>2, AheadFacts
    <3> QED  BY <2>1, <3>1 DEF SettledAt, Ahead
  <2>3. CASE c \notin ToSet(Chain[d])
    <3>1. ToSet(Chain[d]) \subseteq Cgroups
      BY ChainFacts
    <3>2. SamePath(progs, flags, progs', flags', d)
      BY <2>3, <3>1 DEF SamePath
    <3>3. ArrayOf(progs', flags', d) = ArrayOf(progs, flags, d) /\ OwnerOf(progs', d) = OwnerOf(progs, d)
      BY <1>0, <3>2, OtherPath
    <3>4. SettledAt(d) /\ op.kind = "idle"
      BY <2>1 DEF SettledInv, Idle
    <3>5. /\ active[d] <=> owner[d] = d
          /\ d \notin purged => owner[d] = OwnerOf(progs, d) /\ effective[d] = ArrayOf(progs, flags, d)
      BY <3>4 DEF SettledAt, Ahead
    <3> QED  BY <2>1, <3>3, <3>5 DEF SettledAt, Ahead
  <2> QED  BY <2>2, <2>3
<1> QED  BY <1>1, <1>2 DEF SettledInv

\* A purge begins: no list changes yet.
LEMMA SettledPurges ==
    ASSUME ListsInv, SettledInv, NEW c \in Cgroups, NEW x, DetachPurges(c, x)
    PROVE  SettledInv'
<1>0. /\ op = Idle /\ op'.kind = "purge" /\ op'.cgrp = c /\ op'.todo = ToUpdate(c) /\ op'.cur = Nobody
      /\ UNCHANGED <<life, progs, flags, effective, owner, active, purged>>
  BY DEF DetachPurges
<1>1. ArrayTypes'
  <2>1. \A d \in op'.todo : d \in Cgroups /\ op'.cgrp \in ToSet(Chain[d]) /\ life'[d] # "absent"
    BY <1>0, AheadFacts
  <2>2. Slots' = Slots
    BY DEF Slots, Instances, Attachments, LinkAttachments
  <2> QED  BY <1>0, <2>1, <2>2 DEF SettledInv, ArrayTypes
<1>2. ASSUME NEW d \in Cgroups, Present(d)'  PROVE SettledAt(d)'
  <2>1. Present(d) /\ (d \in ToUpdate(c) <=> c \in ToSet(Chain[d]))
    BY <1>0, <1>2, AheadFacts DEF Present
  <2>2. SettledAt(d) /\ op.kind = "idle"
    BY <1>0, <2>1 DEF SettledInv, Idle
  <2>3. /\ active[d] <=> owner[d] = d
        /\ d \notin purged => owner[d] = OwnerOf(progs, d) /\ effective[d] = ArrayOf(progs, flags, d)
    BY <2>2 DEF SettledAt, Ahead
  <2> QED  BY <1>0, <2>1, <2>3 DEF SettledAt, Ahead
<1> QED  BY <1>1, <1>2 DEF SettledInv

\* A replacement begins: the arrays below differ in the link's program only.
LEMMA SettledReplaces ==
    ASSUME ListsInv, ListsInv', SettledInv, NEW l \in Links, NEW x \in Progs, ReplaceBegin(l, x)
    PROVE  SettledInv'
<1>0. progs \in [Cgroups -> Seq(Attachments)] /\ progs' \in [Cgroups -> Seq(Attachments)]
  <2>1. Attachments' = Attachments
    BY DEF Attachments, LinkAttachments
  <2> QED  BY <2>1 DEF ListsInv, ListTypes
<1>1. PICK c \in Cgroups :
         /\ op'.cgrp = c /\ op'.todo = ToUpdate(c) /\ op'.cur = Nobody
         /\ \A d \in Cgroups : d # c => progs'[d] = progs[d]
         /\ Len(progs'[c]) = Len(progs[c])
         /\ \A i \in 1..Len(progs[c]) :
               \/ progs'[c][i] = progs[c][i]
               \/ progs'[c][i] = <<l, x>> /\ progs[c][i] \in OfLink(l)
  BY ListsReplace
<1>2. /\ op = Idle /\ op'.kind = "replace" /\ op'.prog = <<l, x>> /\ op'.prog[1] = l
      /\ UNCHANGED <<life, flags, effective, owner, active, purged>>
  BY ListsReplace DEF ReplaceBegin
<1>3. ArrayTypes'
  <2>1. \A d \in op'.todo : d \in Cgroups /\ op'.cgrp \in ToSet(Chain[d]) /\ life'[d] # "absent"
    BY <1>1, <1>2, AheadFacts
  <2>2. Slots' = Slots
    BY DEF Slots, Instances, Attachments, LinkAttachments
  <2> QED  BY <1>1, <1>2, <2>1, <2>2 DEF SettledInv, ArrayTypes
<1>4. LinkChanged(progs, progs', l)
  <2> SUFFICES ASSUME NEW e \in Cgroups
               PROVE  /\ Len(progs'[e]) = Len(progs[e])
                      /\ \A k \in 1..Len(progs[e]) :
                            \/ progs'[e][k] = progs[e][k]
                            \/ progs'[e][k] \in OfLink(l) /\ progs[e][k] \in OfLink(l)
    BY DEF LinkChanged
  <2>1. <<l, x>> \in OfLink(l)
    BY DEF OfLink
  <2> QED  BY <1>1, <2>1
<1>5. ASSUME NEW d \in Cgroups, Present(d)'  PROVE SettledAt(d)'
  <2>1. Present(d) /\ (d \in ToUpdate(c) <=> c \in ToSet(Chain[d]))
    BY <1>2, <1>5, AheadFacts DEF Present
  <2>2. SettledAt(d) /\ op.kind = "idle"
    BY <1>2, <2>1 DEF SettledInv, Idle
  <2>3. /\ active[d] <=> owner[d] = d
        /\ d \notin purged => owner[d] = OwnerOf(progs, d) /\ effective[d] = ArrayOf(progs, flags, d)
    BY <2>2 DEF SettledAt, Ahead
  <2>4. /\ Related(ArrayOf(progs, flags, d), ArrayOf(progs', flags, d), SameButLink(l))
        /\ OwnerOf(progs', d) = OwnerOf(progs, d)
    BY <1>0, <1>4, RelatedArray
  <2>5. c \notin ToSet(Chain[d]) => ArrayOf(progs', flags, d) = ArrayOf(progs, flags, d)
    <3> SUFFICES ASSUME c \notin ToSet(Chain[d]) PROVE ArrayOf(progs', flags, d) = ArrayOf(progs, flags, d)
      OBVIOUS
    <3>1. ToSet(Chain[d]) \subseteq Cgroups
      BY ChainFacts
    <3>2. SamePath(progs, flags, progs', flags, d)
      BY <1>1, <3>1 DEF SamePath
    <3>3. ArrayOf(progs', flags, d) = ArrayOf(progs, flags, d) /\ OwnerOf(progs', d) = OwnerOf(progs, d)
      BY <1>0, <3>2, OtherPath
    <3> QED  BY <3>3
  <2>6. active'[d] <=> owner'[d] = d
    BY <1>2, <2>3
  <2>7. d \notin purged' => owner'[d] = OwnerOf(progs', d)
    BY <1>2, <2>3, <2>4
  <2>8. d \notin purged' /\ d \notin op'.todo => effective'[d] = ArrayOf(progs', flags', d)
    BY <1>1, <1>2, <2>1, <2>3, <2>5
  <2>9. d \notin purged' => Related(effective'[d], ArrayOf(progs', flags', d), SameButLink(op'.prog[1]))
    BY <1>2, <2>3, <2>4
  <2> QED  BY <1>2, <2>6, <2>7, <2>8, <2>9 DEF SettledAt, Ahead
<1> QED  BY <1>3, <1>5 DEF SettledInv

\* A step of the traversal that concerns cgroup d.
OnlyVisits(d) ==
    /\ UNCHANGED <<life, progs, flags>>
    /\ op.kind # "idle" /\ op'.kind = op.kind /\ op'.cgrp = op.cgrp
    /\ op.kind \in {"purge", "replace"} => op'.prog = op.prog /\ op'.cur = Nobody
    /\ op'.todo \subseteq op.todo
    /\ \A e \in Cgroups : e # d =>
          /\ e \in op'.todo <=> e \in op.todo
          /\ op'.cur = e => op.cur = e
          /\ effective'[e] = effective[e] /\ owner'[e] = owner[e] /\ active'[e] = active[e]
          /\ e \in purged' <=> e \in purged

\* It leaves the others as they are.
LEMMA SettledVisit ==
    ASSUME SettledInv, NEW d \in Cgroups, OnlyVisits(d),
           effective' \in [Cgroups -> Seq(Slots)], purged' \subseteq Cgroups,
           life[d] = "absent" => ~active'[d],
           Present(d) => SettledAt(d)'
    PROVE  SettledInv'
<1>1. ArrayTypes'
  <2>1. Slots' = Slots
    BY DEF Slots, Instances, Attachments, LinkAttachments
  <2>2. ASSUME NEW c \in Cgroups, life'[c] = "absent"  PROVE ~active'[c]
    BY <2>2 DEF SettledInv, ArrayTypes, OnlyVisits
  <2>3. op'.kind # "idle" =>
           \A e \in op'.todo : e \in Cgroups /\ op'.cgrp \in ToSet(Chain[e]) /\ life'[e] # "absent"
    BY DEF SettledInv, ArrayTypes, OnlyVisits
  <2>4. op'.kind \in {"purge", "replace"} => op'.cur = Nobody
    BY DEF OnlyVisits
  <2> QED  BY <2>1, <2>2, <2>3, <2>4 DEF ArrayTypes
<1>2. ASSUME NEW e \in Cgroups, Present(e)'  PROVE SettledAt(e)'
  <2>1. Present(e)
    BY <1>2 DEF Present, OnlyVisits
  <2>2. CASE e = d
    BY <2>1, <2>2
  <2>3. CASE e # d
    <3>1. SettledAt(e)
      BY <2>1 DEF SettledInv
    <3>2. /\ e \in op'.todo <=> e \in op.todo
          /\ op'.cur = e => op.cur = e
          /\ effective'[e] = effective[e] /\ owner'[e] = owner[e] /\ active'[e] = active[e]
          /\ e \in purged' <=> e \in purged
          /\ op'.kind = op.kind /\ op'.cgrp = op.cgrp
          /\ op.kind \in {"purge", "replace"} => op'.prog = op.prog
          /\ UNCHANGED <<progs, flags>>
      BY <2>3 DEF OnlyVisits
    <3>3. ArrayOf(progs', flags', e) = ArrayOf(progs, flags, e) /\ OwnerOf(progs', e) = OwnerOf(progs, e)
      BY <3>2, Zenon
    <3>4. op.kind = "replace" => SameButLink(op'.prog[1]) = SameButLink(op.prog[1])
      BY <3>2
    <3> QED  BY <3>1, <3>2, <3>3, <3>4 DEF SettledAt, Ahead
  <2> QED  BY <2>2, <2>3
<1> QED  BY <1>1, <1>2 DEF SettledInv

\* A cgroup without references is skipped.
LEMMA SettledSkip ==
    ASSUME CoverInv, SettledInv, NEW d \in Cgroups, SkipZero(d)
    PROVE  SettledInv'
<1>1. /\ op'.kind = op.kind /\ op'.cgrp = op.cgrp /\ op'.cur = op.cur /\ op'.todo = op.todo \ {d}
      /\ op.kind # "idle" /\ op.cur = Nobody
      /\ op.kind \in {"purge", "replace"} => op'.prog = op.prog
  BY DEF CoverInv, CoverTypes, OpRecord, SkipZero, NextInPreorder, Idle
<1>2. OnlyVisits(d)
  BY <1>1 DEF OnlyVisits, SkipZero
<1>3. effective' \in [Cgroups -> Seq(Slots)] /\ purged' \subseteq Cgroups /\ (life[d] = "absent" => ~active'[d])
  BY DEF SettledInv, ArrayTypes, SkipZero
<1>4. ~Present(d)
  BY DEF SkipZero
<1> QED  BY <1>2, <1>3, <1>4, SettledVisit

\* The array is published: it is the one the lists call for.
LEMMA SettledPublish ==
    ASSUME CoverInv, ListsInv, SettledInv, NEW d \in Cgroups, PublishEffective(d)
    PROVE  SettledInv'
<1>0. progs \in [Cgroups -> Seq(Attachments)]
  BY DEF ListsInv, ListTypes
<1>1. /\ op'.kind = op.kind /\ op'.cgrp = op.cgrp /\ op'.cur = d /\ op'.todo = op.todo
      /\ op.kind \in {"attach", "detach"} /\ d \in op.todo
  BY DEF CoverInv, CoverTypes, OpRecord, PublishEffective, NextInPreorder, Idle, Updating
<1>2. /\ UNCHANGED <<life, progs, flags, owner, active, purged>>
      /\ effective' = [effective EXCEPT ![d] = ArrayOf(progs, flags, d)]
  BY ArrayIs DEF PublishEffective
<1>3. effective \in [Cgroups -> Seq(Slots)] /\ ArrayOf(progs, flags, d) \in Seq(Slots)
  BY <1>0, ArrayFacts DEF SettledInv, ArrayTypes
<1>4. /\ effective' \in [Cgroups -> Seq(Slots)] /\ effective'[d] = ArrayOf(progs, flags, d)
      /\ \A e \in Cgroups : e # d => effective'[e] = effective[e]
  BY <1>2, <1>3
<1>5. OnlyVisits(d)
  BY <1>1, <1>2, <1>4 DEF OnlyVisits
<1>6. SettledAt(d)'
  <2>1. effective'[d] = ArrayOf(progs', flags', d)
    BY <1>2, <1>4
  <2> QED  BY <1>1, <2>1 DEF SettledAt, Ahead
<1>7. purged' \subseteq Cgroups /\ (life[d] = "absent" => ~active'[d])
  BY <1>2 DEF SettledInv, ArrayTypes
<1> QED  BY <1>4, <1>5, <1>6, <1>7, SettledVisit

\* The first of the two stores after it does not touch the array.
LEMMA SettledActivate ==
    ASSUME AliveInv, CoverInv, SettledInv, ActivateOrPublish
    PROVE  SettledInv'
<1>1. /\ op'.kind = op.kind /\ op'.cgrp = op.cgrp /\ op'.cur = op.cur /\ op'.todo = op.todo
      /\ op.kind \in {"attach", "detach"} /\ op.cur # Nobody
  BY DEF CoverInv, CoverTypes, OpRecord, ActivateOrPublish, Idle, Updating
<1>2. PICK d \in Cgroups : d = op.cur /\ d \in op.todo
  BY <1>1 DEF CoverInv, VisitOrder
<1>3. /\ UNCHANGED <<life, progs, flags, effective, purged>>
      /\ \A e \in Cgroups : e # d => owner'[e] = owner[e] /\ active'[e] = active[e]
  BY <1>2 DEF ActivateOrPublish, AliveInv, TreeTypes, CoverInv, CoverTypes
<1>4. OnlyVisits(d)
  BY <1>1, <1>2, <1>3 DEF OnlyVisits
<1>5. Present(d) => SettledAt(d)'
  <2> SUFFICES ASSUME Present(d) PROVE SettledAt(d)'
    OBVIOUS
  <2>1. SettledAt(d)
    BY <1>2 DEF SettledInv
  <2>2. effective[d] = ArrayOf(progs, flags, d)
    BY <1>1, <1>2, <2>1 DEF SettledAt
  <2>3. effective'[d] = ArrayOf(progs', flags', d)
    BY <1>3, <2>2
  <2> QED  BY <1>1, <1>2, <2>3 DEF SettledAt, Ahead
<1>6. /\ effective' \in [Cgroups -> Seq(Slots)] /\ purged' \subseteq Cgroups
      /\ life[d] # "absent"
  BY <1>1, <1>2, <1>3 DEF SettledInv, ArrayTypes
<1> QED  BY <1>2, <1>4, <1>5, <1>6, SettledVisit

\* The second finishes the visit.
LEMMA SettledOwner ==
    ASSUME AliveInv, CoverInv, SettledInv, PublishOrDeactivate
    PROVE  SettledInv'
<1>1. /\ op'.kind = op.kind /\ op'.cgrp = op.cgrp /\ op'.cur = Nobody /\ op'.todo = op.todo \ {op.cur}
      /\ op.kind \in {"attach", "detach"} /\ op.cur # Nobody
  BY DEF CoverInv, CoverTypes, OpRecord, PublishOrDeactivate, Idle, Updating
<1>2. PICK d \in Cgroups : d = op.cur /\ d \in op.todo
  BY <1>1 DEF CoverInv, VisitOrder
<1>3. /\ UNCHANGED <<life, progs, flags, effective>> /\ purged' = purged \ {d}
      /\ owner' = [owner EXCEPT ![d] = Nearest(d)]
      /\ active' = [active EXCEPT ![d] = (Nearest(d) = d)]
  BY <1>2 DEF PublishOrDeactivate
<1>4. /\ \A e \in Cgroups : e # d => owner'[e] = owner[e] /\ active'[e] = active[e]
      /\ owner'[d] = OwnerOf(progs, d) /\ (active'[d] <=> owner'[d] = d)
  <2>1. owner \in [Cgroups -> Cgroups \cup {Nobody}] /\ active \in [Cgroups -> BOOLEAN]
    BY DEF AliveInv, TreeTypes, CoverInv, CoverTypes
  <2>2. Nearest(d) = OwnerOf(progs, d)
    BY ArrayIs
  <2> QED  BY <1>2, <1>3, <2>1, <2>2
<1>5. OnlyVisits(d)
  <2>1. Nobody \notin Cgroups
    BY AttachConstants
  <2> QED  BY <1>1, <1>2, <1>3, <1>4, <2>1 DEF OnlyVisits
<1>6. Present(d) => SettledAt(d)'
  <2> SUFFICES ASSUME Present(d) PROVE SettledAt(d)'
    OBVIOUS
  <2>1. SettledAt(d)
    BY <1>2 DEF SettledInv
  <2>2. effective[d] = ArrayOf(progs, flags, d)
    BY <1>1, <1>2, <2>1 DEF SettledAt
  <2>3. effective'[d] = ArrayOf(progs', flags', d) /\ owner'[d] = OwnerOf(progs', d)
    BY <1>3, <1>4, <2>2
  <2>4. Nobody # d
    BY AttachConstants
  <2> QED  BY <1>1, <1>2, <1>4, <2>3, <2>4 DEF SettledAt, Ahead
<1>7. /\ effective' \in [Cgroups -> Seq(Slots)] /\ purged' \subseteq Cgroups
      /\ life[d] # "absent"
  BY <1>1, <1>2, <1>3 DEF SettledInv, ArrayTypes
<1> QED  BY <1>2, <1>5, <1>6, <1>7, SettledVisit

\* An array in which the purge finds the program is no longer vouched for; in any
\* other the program is not.
LEMMA SettledPurgeOne ==
    ASSUME CoverInv, ListsInv, SettledInv, NEW d \in Cgroups, PurgeOne(d)
    PROVE  SettledInv'
<1> DEFINE A == ArrayOf(progs, flags, d)
           hits == {i \in DOMAIN A : A[i][2] = op.prog}
<1>0. A \in Seq(Slots) /\ effective \in [Cgroups -> Seq(Slots)]
  <2>1. progs \in [Cgroups -> Seq(Attachments)]
    BY DEF ListsInv, ListTypes
  <2> QED  BY <2>1, ArrayFacts DEF SettledInv, ArrayTypes
<1>1. /\ op'.kind = "purge" /\ op.kind = "purge" /\ op'.cgrp = op.cgrp /\ op'.cur = Nobody
      /\ op'.todo = op.todo \ {d} /\ op'.prog = op.prog
  BY DEF CoverInv, CoverTypes, OpRecord, PurgeOne, NextInPreorder
<1>2. /\ UNCHANGED <<life, progs, flags, owner, active>>
      /\ hits = {} => UNCHANGED <<effective, purged>>
      /\ hits # {} => /\ effective' = [effective EXCEPT ![d] = DeleteSafeAt(@, Min(hits))]
                      /\ purged' = purged \cup {d}
  <2>1. Effective(d) = A
    BY ArrayIs
  <2> HIDE DEF A
  <2> QED  BY <2>1 DEF PurgeOne
<1> HIDE DEF A, hits
<1>3. /\ effective' \in [Cgroups -> Seq(Slots)]
      /\ \A e \in Cgroups : e # d => effective'[e] = effective[e]
  <2>1. CASE hits = {}
    BY <1>0, <1>2, <2>1
  <2>2. CASE hits # {}
    <3>1. \A n : DeleteSafeAt(effective[d], n) \in Seq(Slots)
      <4> SUFFICES ASSUME NEW n PROVE DeleteSafeAt(effective[d], n) \in Seq(Slots)
        OBVIOUS
      <4>1. effective[d] \in Seq(Slots) /\ Dummy \in Slots
        BY <1>0 DEF Slots
      <4>2. Len(effective[d]) \in Nat /\ DOMAIN effective[d] = 1..Len(effective[d])
        BY <4>1
      <4>3. \A i \in 1..Len(effective[d]) : effective[d][i] \in Slots
        BY <4>1
      <4> QED  BY <4>1, <4>2, <4>3 DEF DeleteSafeAt
    <3> QED  BY <1>0, <1>2, <2>2, <3>1
  <2> QED  BY <2>1, <2>2
<1>4. purged' \subseteq Cgroups /\ \A e \in Cgroups : e # d => (e \in purged' <=> e \in purged)
  BY <1>2 DEF SettledInv, ArrayTypes
<1>5. OnlyVisits(d)
  BY <1>1, <1>2, <1>3, <1>4, AttachConstants DEF OnlyVisits
<1>6. Present(d) => SettledAt(d)'
  <2> SUFFICES ASSUME Present(d) PROVE SettledAt(d)'
    OBVIOUS
  <2>1. SettledAt(d)
    BY DEF SettledInv
  <2>2. active'[d] <=> owner'[d] = d
    BY <1>1, <1>2, <2>1 DEF SettledAt, Ahead
  <2>3. CASE hits # {}
    <3>1. d \in purged'
      BY <1>2, <2>3
    <3> QED  BY <1>1, <2>2, <3>1 DEF SettledAt, Ahead
  <2>4. CASE hits = {}
    <3>1. d \notin purged => owner[d] = OwnerOf(progs, d) /\ effective[d] = A
      BY <1>1, <2>1 DEF SettledAt, Ahead, A
    <3>2. \A i \in 1..Len(A) : A[i][2] # op.prog
      BY <1>0, <2>4 DEF hits
    <3>3. ArrayOf(progs', flags', d) = A /\ OwnerOf(progs', d) = OwnerOf(progs, d)
      BY <1>2 DEF A
    <3>4. d \notin purged' => owner'[d] = OwnerOf(progs', d) /\ effective'[d] = ArrayOf(progs', flags', d)
      BY <1>2, <2>4, <3>1, <3>3
    <3>5. \A i \in 1..Len(ArrayOf(progs', flags', d)) : ArrayOf(progs', flags', d)[i][2] # op'.prog
      BY <1>1, <3>2, <3>3
    <3> QED  BY <1>1, <2>2, <3>4, <3>5 DEF SettledAt, Ahead
  <2> QED  BY <2>3, <2>4
<1>7. life[d] = "absent" => ~active'[d]
  BY <1>2 DEF SettledInv, ArrayTypes
<1> QED  BY <1>3, <1>4, <1>5, <1>6, <1>7, SettledVisit

\* In the arrays below its cgroup the link that is replaced is found once, and
\* the entry found is the one the lists call for.
LEMMA ReplacedOnce ==
    ASSUME CoverInv, ListsInv, SettledInv, op.kind = "replace",
           NEW d \in Cgroups, op.cgrp \in ToSet(Chain[d])
    PROVE  /\ op.cgrp \in Cgroups /\ op.prog \in Attachments /\ op.prog[1] \in Links
           /\ Once(ArrayOf(progs, flags, d), LinkEntries(op.prog[1]))
           /\ ReplacePos(d, op.prog[1]) =
                 {i \in 1..Len(ArrayOf(progs, flags, d)) :
                     ArrayOf(progs, flags, d)[i] \in LinkEntries(op.prog[1])}
           /\ \A y : Has(ArrayOf(progs, flags, d), y) /\ y \in LinkEntries(op.prog[1]) =>
                 y = <<op.cgrp, op.prog>>
<1>0. progs \in [Cgroups -> Seq(Attachments)]
  BY DEF ListsInv, ListTypes
<1> DEFINE A == ArrayOf(progs, flags, d)
<1>1. A \in Seq(Slots)
  BY <1>0, ArrayFacts
<1>2. /\ op.cgrp \in Cgroups /\ op.prog \in Attachments /\ op.prog \in LinkAttachments
      /\ Has(progs[op.cgrp], op.prog)
  BY DEF CoverInv, VisitOrder, ListsInv, StillListed
<1>3. PICK c \in Cgroups, l \in Links, k \in 1..Len(progs[op.cgrp]) :
          c = op.cgrp /\ l = op.prog[1] /\ progs[c][k] = op.prog /\ op.prog \in OfLink(l)
  BY <1>2 DEF Has, LinkAttachments, OfLink
<1>4. \A e \in Cgroups : \A j \in 1..Len(progs[e]) : progs[e][j] \in OfLink(l) => e = c /\ j = k
  BY <1>3 DEF ListsInv, LinksOnce
<1>5. OnlyAt(progs, l, c, k)
  BY <1>3, <1>4 DEF OnlyAt
<1>6. flags[c] = "multi"
  BY <1>2, <1>3 DEF ListsInv, ManyOnlyMulti
<1>7. c \in ToSet(Chain[d])
  BY <1>3
<1>8. Once(ArrayOf(progs, flags, d), LinkEntries(l))
  BY <1>0, <1>5, <1>6, <1>7, OnceArray
<1>9. Effective(d) = A
  BY ArrayIs
<1> HIDE DEF A
<1>10. ASSUME NEW y, Has(A, y)
       PROVE  /\ y[2] \in OfLink(l) <=> y \in LinkEntries(l)
              /\ y \in LinkEntries(l) => y = <<op.cgrp, op.prog>>
  <2>1. Has(ArrayOf(progs, flags, d), y)
    BY <1>10 DEF A
  <2>2. PICK e \in Cgroups : \E m \in 1..Len(progs[e]) : y = <<e, progs[e][m]>>
    BY <1>0, <2>1, FromLists
  <2>3. PICK m \in 1..Len(progs[e]) : y = <<e, progs[e][m]>>
    BY <2>2
  <2>4. y[2] \in OfLink(l) <=> y \in LinkEntries(l)
    BY <2>3 DEF LinkEntries
  <2>5. y \in LinkEntries(l) => progs[e][m] \in OfLink(l)
    BY <2>3 DEF LinkEntries
  <2>6. y \in LinkEntries(l) => e = c /\ m = k
    BY <1>4, <2>3, <2>5
  <2> QED  BY <1>3, <2>3, <2>4, <2>6
<1>11. ReplacePos(d, l) = {i \in 1..Len(A) : A[i] \in LinkEntries(l)}
  <2>1. DOMAIN A = 1..Len(A)
    BY <1>1
  <2>2. \A i \in 1..Len(A) : Has(A, A[i])
    BY DEF Has
  <2>3. \A i \in 1..Len(A) : A[i][2] \in OfLink(l) <=> A[i] \in LinkEntries(l)
    BY <1>10, <2>2
  <2>4. ReplacePos(d, l) = {i \in DOMAIN A : A[i][2] \in OfLink(l)}
    BY <1>9 DEF ReplacePos, OfLink
  <2> QED  BY <2>1, <2>3, <2>4
<1> QED  BY <1>2, <1>3, <1>8, <1>10, <1>11 DEF A

\* One array gets the link's new program in place of the old one.
LEMMA SettledReplaceOne ==
    ASSUME CoverInv, ListsInv, SettledInv, NEW d \in Cgroups, ReplaceOne(d)
    PROVE  SettledInv'
<1> DEFINE A == ArrayOf(progs, flags, d)
           B == LinkEntries(op.prog[1])
           y == <<op.cgrp, op.prog>>
<1>0. A \in Seq(Slots) /\ effective \in [Cgroups -> Seq(Slots)]
  <2>1. progs \in [Cgroups -> Seq(Attachments)]
    BY DEF ListsInv, ListTypes
  <2> QED  BY <2>1, ArrayFacts DEF SettledInv, ArrayTypes
<1>1. /\ op'.kind = "replace" /\ op.kind = "replace" /\ op'.cgrp = op.cgrp /\ op'.cur = Nobody
      /\ op'.todo = op.todo \ {d} /\ op'.prog = op.prog /\ d \in op.todo
  BY DEF CoverInv, CoverTypes, OpRecord, ReplaceOne, NextInPreorder
<1>2. op.cgrp \in ToSet(Chain[d])
  BY <1>1 DEF SettledInv, ArrayTypes
<1>3. /\ op.cgrp \in Cgroups /\ op.prog \in Attachments /\ op.prog[1] \in Links
      /\ Once(A, B) /\ ReplacePos(d, op.prog[1]) = {i \in 1..Len(A) : A[i] \in B}
      /\ \A z : Has(A, z) /\ z \in B => z = y
  BY <1>1, <1>2, ReplacedOnce
<1> HIDE DEF A, B
<1>4. PICK pos \in 1..Len(A) :
          A[pos] \in B /\ effective' = [effective EXCEPT ![d] = [@ EXCEPT ![pos] = y]]
  BY <1>3 DEF ReplaceOne
<1>5. A[pos] = y /\ \A m \in 1..Len(A) : m # pos => A[m] \notin B
  <2>1. Has(A, A[pos])
    BY DEF Has
  <2> QED  BY <1>3, <1>4, <2>1 DEF Once
<1>6. y \in Slots
  BY <1>3 DEF Slots, Instances
<1> HIDE DEF y
<1>7. /\ effective' \in [Cgroups -> Seq(Slots)] /\ effective'[d] = [effective[d] EXCEPT ![pos] = y]
      /\ \A e \in Cgroups : e # d => effective'[e] = effective[e]
  <2>1. ASSUME NEW E \in Seq(Slots)  PROVE [E EXCEPT ![pos] = y] \in Seq(Slots)
    <3>1. Len(E) \in Nat /\ E \in [1..Len(E) -> Slots]
      OBVIOUS
    <3>2. [E EXCEPT ![pos] = y] \in [1..Len(E) -> Slots]
      BY <1>6, <3>1
    <3> QED  BY <3>1, <3>2
  <2> QED  BY <1>0, <1>4, <2>1
<1>8. /\ UNCHANGED <<life, progs, flags, owner, active, purged>>
  BY DEF ReplaceOne
<1>9. OnlyVisits(d)
  BY <1>1, <1>7, <1>8, AttachConstants DEF OnlyVisits
<1>10. Present(d) => SettledAt(d)'
  <2> SUFFICES ASSUME Present(d) PROVE SettledAt(d)'
    OBVIOUS
  <2>1. SettledAt(d)
    BY DEF SettledInv
  <2>2. /\ active[d] <=> owner[d] = d
        /\ d \notin purged => /\ owner[d] = OwnerOf(progs, d)
                              /\ Related(effective[d], A, SameButLink(op.prog[1]))
    BY <1>1, <2>1 DEF SettledAt, Ahead, A
  <2>3. d \notin purged => effective'[d] = A
    <3> SUFFICES ASSUME d \notin purged PROVE effective'[d] = A
      OBVIOUS
    <3> DEFINE E == effective[d]
    <3>1. /\ E \in Seq(Slots) /\ Len(E) = Len(A)
          /\ \A k \in 1..Len(E) : E[k] = A[k] \/ A[k] \in B
      BY <1>0, <2>2 DEF Related, SameButLink, B
    <3> HIDE DEF E
    <3>2. \A k \in 1..Len(A) : k # pos => E[k] = A[k]
      BY <1>5, <3>1
    <3>3. [E EXCEPT ![pos] = y] = A
      BY <1>0, <1>5, <3>1, <3>2
    <3> QED  BY <1>7, <3>3 DEF E
  <2>4. ArrayOf(progs', flags', d) = A /\ OwnerOf(progs', d) = OwnerOf(progs, d)
    BY <1>8 DEF A
  <2>5. active'[d] <=> owner'[d] = d
    BY <1>8, <2>2
  <2>6. d \notin purged' => owner'[d] = OwnerOf(progs', d) /\ effective'[d] = ArrayOf(progs', flags', d)
    BY <1>8, <2>2, <2>3, <2>4
  <2> QED  BY <1>1, <2>5, <2>6 DEF SettledAt, Ahead
<1>11. purged' \subseteq Cgroups /\ (life[d] = "absent" => ~active'[d])
  BY <1>8 DEF SettledInv, ArrayTypes
<1> QED  BY <1>7, <1>9, <1>10, <1>11, SettledVisit

\* An attach or a replacement that has visited every cgroup leaves all of them
\* settled.
LEMMA SettledEnd ==
    ASSUME SettledInv, AttachEnd \/ ReplaceEnd
    PROVE  SettledInv'
<1>1. /\ op.kind \in {"attach", "replace"} /\ op.todo = {} /\ op'.kind = "idle"
      /\ UNCHANGED <<life, progs, flags, effective, owner, active, purged>>
  BY DEF AttachEnd, ReplaceEnd, Idle
<1>2. ArrayTypes'
  <2>1. Slots' = Slots
    BY DEF Slots, Instances, Attachments, LinkAttachments
  <2> QED  BY <1>1, <2>1 DEF SettledInv, ArrayTypes
<1>3. ASSUME NEW d \in Cgroups, Present(d)'  PROVE SettledAt(d)'
  <2>1. SettledAt(d)
    BY <1>1, <1>3 DEF SettledInv, Present
  <2>2. /\ active[d] <=> owner[d] = d
        /\ d \notin purged => owner[d] = OwnerOf(progs, d) /\ effective[d] = ArrayOf(progs, flags, d)
    BY <1>1, <2>1 DEF SettledAt, Ahead
  <2>3. ArrayOf(progs', flags', d) = ArrayOf(progs, flags, d) /\ OwnerOf(progs', d) = OwnerOf(progs, d)
    BY <1>1
  <2> QED  BY <1>1, <2>2, <2>3 DEF SettledAt, Ahead
<1> QED  BY <1>2, <1>3 DEF SettledInv

\* The entry of a detach is gone and a purge has taken its program out of every
\* array it was in: the other arrays are still what the lists call for.
LEMMA SettledDetachEnd ==
    ASSUME CoverInv, ListsInv, ListsInv', SettledInv, DetachEnd
    PROVE  SettledInv'
<1>0. progs \in [Cgroups -> Seq(Attachments)] /\ progs' \in [Cgroups -> Seq(Attachments)]
  <2>1. Attachments' = Attachments
    BY DEF Attachments, LinkAttachments
  <2> QED  BY <2>1 DEF ListsInv, ListTypes
<1>1. /\ op.kind \in {"detach", "purge"} /\ op.todo = {} /\ op'.kind = "idle" /\ op.kind # "idle"
      /\ UNCHANGED <<life, effective, owner, active, purged>>
  BY DEF DetachEnd, Idle
<1>2. PICK c \in Cgroups : c = op.cgrp
  BY <1>1 DEF CoverInv, VisitOrder
<1>3. /\ \A e \in Cgroups : e # c => progs'[e] = progs[e] /\ flags'[e] = flags[e]
      /\ op.kind = "detach" => progs'[c] = progs[c]
      /\ progs[c] # <<>> /\ op.kind = "detach" => flags'[c] = flags[c]
      /\ flags'[c] = flags[c] \/ flags'[c] = "none"
  <2>1. flags \in [Cgroups -> {"none", "override", "multi"}]
    BY DEF ListsInv, ListTypes
  <2>2. /\ progs' = [progs EXCEPT ![c] = ListAfterDetach]
        /\ flags' = IF ListAfterDetach = <<>> THEN [flags EXCEPT ![c] = "none"] ELSE flags
        /\ op.kind = "detach" => ListAfterDetach = progs[c]
    BY <1>1, <1>2 DEF DetachEnd, ListAfterDetach
  <2> QED  BY <1>0, <2>1, <2>2
<1>4. ArrayTypes'
  <2>1. Slots' = Slots
    BY DEF Slots, Instances, Attachments, LinkAttachments
  <2> QED  BY <1>1, <2>1 DEF SettledInv, ArrayTypes
<1>5. ASSUME NEW d \in Cgroups, Present(d)'  PROVE SettledAt(d)'
  <2>1. Present(d) /\ SettledAt(d)
    BY <1>1, <1>5 DEF SettledInv, Present
  <2>2. /\ active[d] <=> owner[d] = d
        /\ d \notin purged => owner[d] = OwnerOf(progs, d) /\ effective[d] = ArrayOf(progs, flags, d)
    BY <1>1, <2>1 DEF SettledAt, Ahead
  <2>3. d \notin purged => /\ ArrayOf(progs', flags', d) = ArrayOf(progs, flags, d)
                           /\ OwnerOf(progs', d) = OwnerOf(progs, d)
    <3> SUFFICES ASSUME d \notin purged
                 PROVE  /\ ArrayOf(progs', flags', d) = ArrayOf(progs, flags, d)
                        /\ OwnerOf(progs', d) = OwnerOf(progs, d)
      OBVIOUS
    <3>1. CASE op.kind = "detach" \/ c \notin ToSet(Chain[d])
      <4>1. ToSet(Chain[d]) \subseteq Cgroups
        BY ChainFacts
      <4>2. SamePath(progs, flags, progs', flags', d)
        BY <1>3, <3>1, <4>1 DEF SamePath
      <4> QED  BY <1>0, <4>2, OtherPath
    <3>2. CASE op.kind = "purge" /\ c \in ToSet(Chain[d])
      <4>1. \A i \in 1..Len(ArrayOf(progs, flags, d)) : ArrayOf(progs, flags, d)[i][2] # op.prog
        BY <1>1, <1>2, <2>1, <3>2 DEF SettledAt
      <4>2. PICK k \in 1..Len(progs[c]) : progs[c][k] = op.prog
        BY <1>2, <3>2 DEF ListsInv, StillListed, Has
      <4>3. ASSUME NEW i \in 1..Len(Chain[d]), Chain[d][i] = c  PROVE ~TakenIn(progs, flags, d, i)
        <5>1. TakenIn(progs, flags, d, i) =>
                  \A m \in 1..Len(progs[Chain[d][i]]) :
                      Has(ArrayOf(progs, flags, d), <<Chain[d][i], progs[Chain[d][i]][m]>>)
          BY <1>0, ArrayFacts
        <5>2. TakenIn(progs, flags, d, i) => Has(ArrayOf(progs, flags, d), <<c, op.prog>>)
          BY <4>2, <4>3, <5>1
        <5>3. ~Has(ArrayOf(progs, flags, d), <<c, op.prog>>)
          BY <4>1 DEF Has
        <5> QED  BY <5>2, <5>3
      <4>4. ASSUME NEW i \in 1..Len(Chain[d])
            PROVE  \/ /\ progs'[Chain[d][i]] = progs[Chain[d][i]]
                      /\ progs[Chain[d][i]] # <<>> => flags'[Chain[d][i]] = flags[Chain[d][i]]
                   \/ /\ flags[Chain[d][i]] # "multi" /\ flags'[Chain[d][i]] # "multi"
                      /\ \E j \in 1..(i - 1) : progs[Chain[d][j]] # <<>>
        <5>1. Chain[d][i] \in Cgroups
          BY ChainFacts
        <5>2. CASE Chain[d][i] = c
          <6>1. flags[c] # "multi" /\ \E j \in 1..(i - 1) : progs[Chain[d][j]] # <<>>
            BY <4>3, <5>2 DEF TakenIn
          <6> QED  BY <1>3, <5>2, <6>1
        <5>3. CASE Chain[d][i] # c
          BY <1>3, <5>1, <5>3
        <5> QED  BY <5>2, <5>3
      <4>5. Indistinct(progs, flags, progs', flags', d)
        BY <4>4 DEF Indistinct
      <4> QED  BY <1>0, <4>5, SameArray
    <3> QED  BY <1>1, <3>1, <3>2
  <2>4. active'[d] <=> owner'[d] = d
    BY <1>1, <2>2
  <2>5. d \notin purged' => owner'[d] = OwnerOf(progs', d) /\ effective'[d] = ArrayOf(progs', flags', d)
    BY <1>1, <2>2, <2>3
  <2> QED  BY <1>1, <2>4, <2>5 DEF SettledAt, Ahead
<1> QED  BY <1>4, <1>5 DEF SettledInv

\* A new cgroup gets what the lists above it call for; its own is empty.
LEMMA SettledMkdir ==
    ASSUME AliveInv, CoverInv, ListsInv, SettledInv, NEW c \in Cgroups, Mkdir(c)
    PROVE  SettledInv'
<1>0. progs \in [Cgroups -> Seq(Attachments)]
  BY DEF ListsInv, ListTypes
<1>1. /\ op = Idle /\ op.kind = "idle" /\ life[c] = "absent"
      /\ life' = [life EXCEPT ![c] = "live"]
      /\ effective' = [effective EXCEPT ![c] = ArrayOf(progs, flags, c)]
      /\ owner' = [owner EXCEPT ![c] = OwnerOf(progs, c)]
      /\ UNCHANGED <<progs, flags, active, op, purged>>
  BY ArrayIs DEF Mkdir, Idle
<1>2. /\ life \in [Cgroups -> Lives] /\ effective \in [Cgroups -> Seq(Slots)]
      /\ owner \in [Cgroups -> Cgroups \cup {Nobody}]
  BY DEF AliveInv, TreeTypes, SettledInv, ArrayTypes
<1>3. ArrayOf(progs, flags, c) \in Seq(Slots)
  BY <1>0, ArrayFacts
<1>4. /\ effective' \in [Cgroups -> Seq(Slots)] /\ life' \in [Cgroups -> Lives]
      /\ effective'[c] = ArrayOf(progs, flags, c) /\ owner'[c] = OwnerOf(progs, c) /\ life'[c] = "live"
      /\ \A d \in Cgroups : d # c => /\ effective'[d] = effective[d] /\ owner'[d] = owner[d]
                                     /\ life'[d] = life[d]
  BY <1>1, <1>2, <1>3 DEF Lives
<1>5. ~active[c] /\ OwnerOf(progs, c) # c
  <2>1. ~active[c] /\ progs[c] = <<>>
    BY <1>1 DEF SettledInv, ArrayTypes, CoverInv, CoverTypes
  <2>2. Nearest(c) = OwnerOf(progs, c)
    BY ArrayIs
  <2>3. Nearest(c) # c
    BY <2>1, NearestFacts, AttachConstants
  <2> QED  BY <2>1, <2>2, <2>3
<1>6. ArrayTypes'
  <2>1. Slots' = Slots
    BY DEF Slots, Instances, Attachments, LinkAttachments
  <2> QED  BY <1>1, <1>4, <2>1 DEF SettledInv, ArrayTypes
<1>7. ASSUME NEW d \in Cgroups, Present(d)'  PROVE SettledAt(d)'
  <2>1. CASE d = c
    <3>1. active'[d] <=> owner'[d] = d
      BY <1>1, <1>4, <1>5, <2>1
    <3>2. owner'[d] = OwnerOf(progs', d) /\ effective'[d] = ArrayOf(progs', flags', d)
      BY <1>1, <1>4, <2>1
    <3> QED  BY <1>1, <3>1, <3>2 DEF SettledAt, Ahead
  <2>2. CASE d # c
    <3>1. Present(d)
      BY <1>4, <1>7, <2>2 DEF Present
    <3>2. SettledAt(d)
      BY <3>1 DEF SettledInv
    <3>3. /\ ArrayOf(progs', flags', d) = ArrayOf(progs, flags, d) /\ OwnerOf(progs', d) = OwnerOf(progs, d)
          /\ effective'[d] = effective[d] /\ owner'[d] = owner[d]
      BY <1>1, <1>4, <2>2
    <3> QED  BY <1>1, <3>2, <3>3 DEF SettledAt, Ahead
  <2> QED  BY <2>1, <2>2
<1> QED  BY <1>6, <1>7 DEF SettledInv

\* Flags of an attach that failed count only for an empty list, which no array
\* sees; what is released is on no path of a cgroup that is there.
LEMMA SettledLists ==
    ASSUME AliveInv, CoverInv, ListsInv, ListsInv', SettledInv, NEW c \in Cgroups,
           \/ \E x \in Attachable, fl \in AttachFlags : AttachFails(c, x, fl)
           \/ ReleaseProgs(c)
    PROVE  SettledInv'
<1>0. progs \in [Cgroups -> Seq(Attachments)] /\ progs' \in [Cgroups -> Seq(Attachments)]
  <2>1. Attachments' = Attachments
    BY DEF Attachments, LinkAttachments
  <2> QED  BY <2>1 DEF ListsInv, ListTypes
<1>1. /\ life \in [Cgroups -> Lives] /\ effective \in [Cgroups -> Seq(Slots)]
      /\ flags \in [Cgroups -> {"none", "override", "multi"}]
  BY DEF AliveInv, TreeTypes, SettledInv, ArrayTypes, ListsInv, ListTypes
<1>2. UNCHANGED <<op, purged, owner, active>>
  BY DEF AttachFails, ReleaseProgs
<1>3. /\ effective' \in [Cgroups -> Seq(Slots)]
      /\ \A d \in Cgroups : life'[d] = "absent" => life[d] = "absent"
  <2>1. CASE effective' = effective /\ life' = life
    BY <1>1, <2>1
  <2>2. CASE effective' = [effective EXCEPT ![c] = <<>>] /\ life' = [life EXCEPT ![c] = "dropped"]
    BY <1>1, <2>2 DEF Lives
  <2> QED  BY <2>1, <2>2 DEF AttachFails, ReleaseProgs
<1>4. ASSUME NEW d \in Cgroups, Present(d)'
      PROVE  /\ Present(d) /\ effective'[d] = effective[d]
             /\ SamePath(progs, flags, progs', flags', d)
  <2>1. ToSet(Chain[d]) \subseteq Cgroups /\ d \in ToSet(Chain[d])
    BY ChainFacts
  <2>2. ASSUME NEW x \in Attachable, NEW fl \in AttachFlags, AttachFails(c, x, fl)
        PROVE  /\ Present(d) /\ effective'[d] = effective[d]
               /\ SamePath(progs, flags, progs', flags', d)
    <3>1. /\ UNCHANGED <<life, progs, effective>> /\ flags' = [flags EXCEPT ![c] = fl]
          /\ progs[c] # <<>> => flags[c] = fl
      BY <2>2 DEF AttachFails, AttachAllowed
    <3>2. \A e \in Cgroups : progs[e] # <<>> => flags'[e] = flags[e]
      BY <1>1, <3>1
    <3> QED  BY <1>4, <2>1, <3>1, <3>2 DEF SamePath, Present
  <2>3. ASSUME ReleaseProgs(c)
        PROVE  /\ Present(d) /\ effective'[d] = effective[d]
               /\ SamePath(progs, flags, progs', flags', d)
    <3>1. /\ life[c] = "zero" /\ life' = [life EXCEPT ![c] = "dropped"]
          /\ progs' = [progs EXCEPT ![c] = <<>>] /\ effective' = [effective EXCEPT ![c] = <<>>]
          /\ flags' = flags
      BY <2>3 DEF ReleaseProgs
    <3>2. d # c /\ Present(d)
      BY <1>1, <1>4, <3>1 DEF Present
    <3>3. c \notin ToSet(Chain[d])
      BY <3>1, <3>2 DEF AliveInv, TreeClosed, Present
    <3>4. \A e \in ToSet(Chain[d]) : progs'[e] = progs[e]
      BY <1>0, <2>1, <3>1, <3>3
    <3>5. effective'[d] = effective[d]
      BY <1>1, <3>1, <3>2
    <3> QED  BY <3>1, <3>2, <3>4, <3>5 DEF SamePath
  <2> QED  BY <2>2, <2>3
<1>5. ASSUME NEW d \in Cgroups, Present(d)'
      PROVE  /\ Present(d) /\ effective'[d] = effective[d] /\ owner'[d] = owner[d] /\ active'[d] = active[d]
             /\ ArrayOf(progs', flags', d) = ArrayOf(progs, flags, d)
             /\ OwnerOf(progs', d) = OwnerOf(progs, d)
  <2>1. Present(d) /\ effective'[d] = effective[d] /\ SamePath(progs, flags, progs', flags', d)
    BY <1>4, <1>5
  <2>2. ArrayOf(progs', flags', d) = ArrayOf(progs, flags, d) /\ OwnerOf(progs', d) = OwnerOf(progs, d)
    BY <1>0, <2>1, OtherPath
  <2> QED  BY <1>2, <2>1, <2>2
<1>6. \A d \in Cgroups : active'[d] = active[d] \/ active'[d] = FALSE
  BY <1>2
<1> QED  BY <1>2, <1>3, <1>5, <1>6, SettledSame

\* Removal, scope commands, migration and walks touch no list, and no array of a
\* cgroup that is there.
LEMMA SettledFrame ==
    ASSUME AliveInv, CoverInv, SettledInv, UNCHANGED <<progs, flags, effective, owner, op, purged>>,
           \/ UNCHANGED <<life, active>>
           \/ \E c \in Cgroups : /\ life[c] # "absent" /\ active' = active
                                 /\ \E s \in {"dead", "zero"} : life' = [life EXCEPT ![c] = s]
                                 /\ Present(c)
           \/ \E c \in Cgroups : /\ ~Present(c) /\ active' = [active EXCEPT ![c] = FALSE]
                                 /\ life' = [life EXCEPT ![c] = "released"]
    PROVE  SettledInv'
<1>1. /\ life \in [Cgroups -> Lives] /\ effective' \in [Cgroups -> Seq(Slots)]
      /\ active \in [Cgroups -> BOOLEAN]
  BY DEF AliveInv, TreeTypes, SettledInv, ArrayTypes, CoverInv, CoverTypes
<1>2. /\ \A d \in Cgroups : life'[d] = "absent" => life[d] = "absent"
      /\ \A d \in Cgroups : active'[d] = active[d] \/ active'[d] = FALSE
      /\ \A d \in Cgroups : Present(d)' => Present(d) /\ active'[d] = active[d]
  <2>1. CASE UNCHANGED <<life, active>>
    BY <2>1 DEF Present
  <2>2. ASSUME NEW c \in Cgroups, Present(c), active' = active, NEW s \in {"dead", "zero"},
               life' = [life EXCEPT ![c] = s]
        PROVE  /\ \A d \in Cgroups : life'[d] = "absent" => life[d] = "absent"
               /\ \A d \in Cgroups : active'[d] = active[d]
               /\ \A d \in Cgroups : Present(d)' => Present(d)
    BY <1>1, <2>2 DEF Present, Lives
  <2>3. ASSUME NEW c \in Cgroups, ~Present(c), active' = [active EXCEPT ![c] = FALSE],
               life' = [life EXCEPT ![c] = "released"]
        PROVE  /\ \A d \in Cgroups : life'[d] = "absent" => life[d] = "absent"
               /\ \A d \in Cgroups : active'[d] = active[d] \/ active'[d] = FALSE
               /\ \A d \in Cgroups : Present(d)' => Present(d) /\ active'[d] = active[d]
    BY <1>1, <2>3 DEF Present, Lives
  <2> QED  BY <2>1, <2>2, <2>3
<1>3. ASSUME NEW d \in Cgroups, Present(d)'
      PROVE  /\ Present(d) /\ effective'[d] = effective[d] /\ owner'[d] = owner[d] /\ active'[d] = active[d]
             /\ ArrayOf(progs', flags', d) = ArrayOf(progs, flags, d)
             /\ OwnerOf(progs', d) = OwnerOf(progs, d)
  BY <1>2, <1>3
<1> QED  BY <1>1, <1>2, <1>3, SettledSame

\* Every step of Next keeps the invariant.
LEMMA SettledStep ==
    AliveInv /\ CoverInv /\ ListsInv /\ ListsInv' /\ SettledInv /\ [Next]_vars => SettledInv'
<1> SUFFICES ASSUME AliveInv, CoverInv, ListsInv, ListsInv', SettledInv, [Next]_vars PROVE SettledInv'
  OBVIOUS
<1>1. ASSUME NEW c \in Cgroups, NEW x, NEW fl, AttachBegin(c, x, fl) \/ DetachBegin(c, x)
      PROVE  SettledInv'
  <2>1. /\ op = Idle /\ op'.kind \in {"attach", "detach"} /\ op'.cgrp = c /\ op'.todo = ToUpdate(c)
        /\ op'.cur = Nobody /\ UNCHANGED <<life, effective, owner, active, purged>>
    BY <1>1 DEF AttachBegin, DetachBegin
  <2>2. progs = [e \in Cgroups |-> progs[e]] /\ flags \in [Cgroups -> {"none", "override", "multi"}]
    BY DEF CoverInv, CoverTypes, ListsInv, ListTypes
  <2>3. \A e \in Cgroups : e # c => progs'[e] = progs[e] /\ flags'[e] = flags[e]
    BY <1>1, <2>2 DEF AttachBegin, DetachBegin
  <2> QED  BY <2>1, <2>3, SettledBegin
<1>2. ASSUME NEW c \in Cgroups, NEW x, DetachPurges(c, x)
      PROVE  SettledInv'
  BY <1>2, SettledPurges
<1>3. ASSUME NEW c \in Cgroups, NEW x \in Attachable, NEW fl \in AttachFlags, AttachFails(c, x, fl)
      PROVE  SettledInv'
  BY <1>3, SettledLists
<1>4. ASSUME NEW d \in Cgroups, SkipZero(d) \/ PublishEffective(d) \/ PurgeOne(d) \/ ReplaceOne(d)
      PROVE  SettledInv'
  BY <1>4, SettledSkip, SettledPublish, SettledPurgeOne, SettledReplaceOne
<1>5. CASE ActivateOrPublish \/ PublishOrDeactivate \/ AttachEnd \/ DetachEnd \/ ReplaceEnd
  BY <1>5, SettledActivate, SettledOwner, SettledEnd, SettledDetachEnd
<1>6. ASSUME NEW c \in Cgroups, NEW new, SetScope(c, new)
      PROVE  SettledInv'
  <2>1. UNCHANGED <<progs, flags, effective, owner, op, purged>> /\ UNCHANGED <<life, active>>
    BY <1>6 DEF SetScope
  <2> QED  BY <2>1, SettledFrame
<1>7. ASSUME NEW c \in Cgroups, Mkdir(c) \/ ReleaseProgs(c)
      PROVE  SettledInv'
  BY <1>7, SettledMkdir, SettledLists
<1>8. ASSUME NEW c \in Cgroups, Rmdir(c) \/ DropRefcnt(c)
      PROVE  SettledInv'
  <2>1. UNCHANGED <<progs, flags, effective, owner, op, purged>>
    BY <1>8 DEF Rmdir, DropRefcnt
  <2>2. /\ life[c] # "absent" /\ active' = active /\ Present(c)
        /\ \E s \in {"dead", "zero"} : life' = [life EXCEPT ![c] = s]
    BY <1>8 DEF Rmdir, DropRefcnt, Present
  <2> QED  BY <2>1, <2>2, SettledFrame
<1>9. ASSUME NEW c \in Cgroups, ReleaseScope(c)
      PROVE  SettledInv'
  <2>1. UNCHANGED <<progs, flags, effective, owner, op, purged>>
    BY <1>9 DEF ReleaseScope
  <2>2. /\ ~Present(c) /\ active' = [active EXCEPT ![c] = FALSE]
        /\ life' = [life EXCEPT ![c] = "released"]
    BY <1>9 DEF ReleaseScope, Present
  <2> QED  BY <2>1, <2>2, SettledFrame
<1>10. CASE \/ \E t \in Tasks, c \in Cgroups : Migrate(t, c)
            \/ UNCHANGED vars
            \/ \E t \in Tasks, p \in Paths : WalkGate(t, p)
            \/ \E t \in Tasks : \/ WalkPrefilter(t) \/ WalkOwner(t) \/ WalkMatch(t)
                                \/ WalkRun(t) \/ WalkEnd(t)
  <2>1. UNCHANGED <<progs, flags, effective, owner, op, purged>> /\ UNCHANGED <<life, active>>
    BY <1>10 DEF Migrate, vars, treeVars, WalkGate, WalkPrefilter, WalkOwner, WalkMatch, WalkRun, WalkEnd, WalkStep
  <2> QED  BY <2>1, SettledFrame
<1>11. ASSUME NEW l \in Links, NEW x \in Progs, ReplaceBegin(l, x)
       PROVE  SettledInv'
  BY <1>11, SettledReplaces
<1> QED
  BY <1>1, <1>2, <1>3, <1>4, <1>5, <1>6, <1>7, <1>8, <1>9, <1>10, <1>11 DEF Next

-----------------------------------------------------------------------------
(* The theorems about lists, arrays, owners and the static key.            *)

\* The lists, the key and the arrays together.
TreeInv == ListsInv /\ KeyInv /\ SettledInv

\* For every tree, flags, programs and links, and when allocations fail: what
\* __cgroup_bpf_attach, __cgroup_bpf_detach and __cgroup_bpf_replace do keeps a link
\* in one list, the static key equal to the number of entries, and every array an
\* update has passed equal to what the lists call for.
THEOREM AttachTreeInvariant == Spec => []TreeInv
<1>1. Init => TreeInv
  BY ListsInit, KeyInit, SettledInit DEF TreeInv
<1>2. AliveInv /\ CoverInv /\ TreeInv /\ [Next]_vars => TreeInv'
  <2> SUFFICES ASSUME AliveInv, CoverInv, TreeInv, [Next]_vars PROVE TreeInv'
    OBVIOUS
  <2>1. ListsInv'
    BY ListsStep DEF TreeInv
  <2>2. KeyInv'
    BY <2>1, KeyStep DEF TreeInv
  <2>3. SettledInv'
    BY <2>1, SettledStep DEF TreeInv
  <2> QED  BY <2>1, <2>2, <2>3 DEF TreeInv
<1> QED  BY <1>1, <1>2, CoverHolds, DispatchTreeInvariant, PTL DEF Spec

\* Whenever no update runs, a walk in a cgroup finds the owner and the array that
\* compute_effective_progs defines, unless a detach ran out of memory there; and
\* the BUG_ON in replace_effective_prog is never reached, for the link is found
\* exactly once below its cgroup.
THEOREM TreeIsSettled == Spec => []SettledTree
<1>1. CoverInv /\ TreeInv => SettledTree
  <2> SUFFICES ASSUME CoverInv, ListsInv, SettledInv PROVE SettledTree
    BY DEF TreeInv
  <2>1. ASSUME op.kind = "replace", NEW d \in op.todo
        PROVE  Cardinality(ReplacePos(d, op.prog[1])) = 1
    <3> DEFINE A == ArrayOf(progs, flags, d)
               B == LinkEntries(op.prog[1])
    <3>1. d \in Cgroups /\ op.cgrp \in ToSet(Chain[d])
      BY <2>1 DEF SettledInv, ArrayTypes
    <3>2. Once(A, B) /\ ReplacePos(d, op.prog[1]) = {i \in 1..Len(A) : A[i] \in B}
      BY <2>1, <3>1, ReplacedOnce
    <3> HIDE DEF A, B
    <3>3. PICK k \in 1..Len(A) : A[k] \in B /\ \A m \in 1..Len(A) : A[m] \in B => m = k
      BY <3>2 DEF Once
    <3>4. ReplacePos(d, op.prog[1]) = {k}
      BY <3>2, <3>3
    <3> QED  BY <3>4, FS_Singleton
  <2>2. ASSUME op = Idle, NEW c \in Cgroups, Present(c)
        PROVE  /\ active[c] <=> owner[c] = c
               /\ c \notin purged => /\ effective[c] = Effective(c) /\ owner[c] = Nearest(c)
                                     /\ OnlyOwnersProgram(c)
    <3>1. SettledAt(c) /\ op.kind = "idle"
      BY <2>2 DEF SettledInv, Idle
    <3>2. /\ active[c] <=> owner[c] = c
          /\ c \notin purged => owner[c] = OwnerOf(progs, c) /\ effective[c] = ArrayOf(progs, flags, c)
      BY <3>1 DEF SettledAt, Ahead
    <3>3. Effective(c) = ArrayOf(progs, flags, c) /\ Nearest(c) = OwnerOf(progs, c)
      BY ArrayIs
    <3>4. ASSUME c \notin purged, \A d \in Cgroups : flags[d] # "multi", NEW i \in DOMAIN effective[c]
          PROVE  i = 1 /\ effective[c][i][1] = owner[c]
      <4>1. progs \in [Cgroups -> Seq(Attachments)]
        BY DEF ListsInv, ListTypes
      <4>2. \A e \in Cgroups : flags[e] # "multi" /\ Len(progs[e]) <= 1
        BY <3>4 DEF ListsInv, ManyOnlyMulti
      <4>3. ArrayOf(progs, flags, c) \in Seq(Slots)
        BY <4>1, ArrayFacts
      <4>4. \A m \in 1..Len(ArrayOf(progs, flags, c)) :
               m = 1 /\ ArrayOf(progs, flags, c)[m][1] = OwnerOf(progs, c)
        BY <4>1, <4>2, AloneArray
      <4>5. i \in 1..Len(ArrayOf(progs, flags, c))
        BY <3>2, <3>4, <4>3
      <4> QED  BY <3>2, <3>4, <4>4, <4>5
    <3> QED  BY <3>2, <3>3, <3>4 DEF OnlyOwnersProgram
  <2> QED  BY <2>1, <2>2 DEF SettledTree
<1> QED  BY <1>1, CoverHolds, AttachTreeInvariant, PTL

\* The static key cgroup_bpf_enabled(CGROUP_NAMEI_EXT) is up whenever an array that
\* a walk could load has a program, unless the attach that put it there still runs.
THEOREM KeyIsUp == Spec => []KeyCovers
<1>1. CoverInv /\ TreeInv => KeyCovers
  <2> SUFFICES ASSUME CoverInv, ListsInv, KeyInv, SettledInv, op.kind # "attach",
                      NEW c \in Cgroups, Present(c), c \notin purged, ToSet(effective[c]) # {}
               PROVE  enabled > 0
    BY DEF TreeInv, KeyCovers
  <2>1. IsFiniteSet(Entries) /\ Cardinality(Entries) \in Nat
    BY FS_CardinalityType DEF KeyInv
  <2>2. \A d \in Cgroups : \A k \in 1..Len(progs[d]) : <<d, k>> \in Entries
    BY DEF Entries
  <2>3. Entries # {} => Cardinality(Entries) > 0
    BY <2>1, FS_EmptySet
  <2>4. CASE op.kind = "detach"
    BY <2>1, <2>4 DEF KeyInv
  <2>5. CASE op.kind \in {"purge", "replace"}
    <3>1. op.cgrp \in Cgroups /\ Has(progs[op.cgrp], op.prog)
      BY <2>5 DEF CoverInv, VisitOrder, ListsInv, StillListed
    <3>2. Entries # {}
      BY <2>2, <3>1 DEF Has
    <3> QED  BY <2>3, <2>5, <3>2 DEF KeyInv
  <2>6. CASE op.kind = "idle"
    <3> DEFINE A == ArrayOf(progs, flags, c)
    <3>1. effective[c] = A
      BY <2>6 DEF SettledInv, SettledAt, Ahead
    <3>2. progs \in [Cgroups -> Seq(Attachments)]
      BY DEF ListsInv, ListTypes
    <3>3. A \in Seq(Slots)
      BY <3>2, ArrayFacts
    <3> HIDE DEF A
    <3>4. PICK y : Has(A, y)
      BY <3>1, <3>3 DEF ToSet, Has
    <3>5. \E e \in Cgroups : \E k \in 1..Len(progs[e]) : TRUE
      BY <3>2, <3>4, FromLists DEF A
    <3>6. Entries # {}
      BY <2>2, <3>5
    <3> QED  BY <2>3, <2>6, <3>6 DEF KeyInv
  <2> QED  BY <2>4, <2>5, <2>6 DEF CoverInv, CoverTypes, OpRecord
<1> QED  BY <1>1, CoverHolds, AttachTreeInvariant, PTL

\* What the other invariants do not type.
RestTypes ==
    /\ scope \in [Cgroups -> {Global} \cup SUBSET Paths]
    /\ walk = [t \in Tasks |-> walk[t]]
    /\ \A t \in Tasks : walk[t].pc \in {"idle", "prefilter", "owner", "match", "run", "ran"}

\* Scopes are sets of directories, or global; a walk is at one of its steps.
LEMMA RestTyped == Spec => []RestTypes
<1>1. Init => RestTypes
  BY DEF Init, RestTypes
<1>2. RestTypes /\ [Next]_vars => RestTypes'
  <2> SUFFICES ASSUME RestTypes, [Next]_vars PROVE RestTypes'
    OBVIOUS
  <2>1. ASSUME NEW t \in Tasks, NEW to, walk' = [walk EXCEPT ![t] = to], scope' = scope,
               to.pc \in {"idle", "prefilter", "owner", "match", "run", "ran"}
        PROVE  RestTypes'
    BY <2>1 DEF RestTypes
  <2>2. ASSUME NEW t \in Tasks, NEW p \in Paths, WalkGate(t, p)
        PROVE  RestTypes'
    <3>1. [pc |-> "prefilter", path |-> p].pc = "prefilter"
      OBVIOUS
    <3>2. walk' = [walk EXCEPT ![t] = [pc |-> "prefilter", path |-> p]] /\ scope' = scope
      BY <2>2 DEF WalkGate, WalkStep, treeVars
    <3> QED  BY <2>1, <3>1, <3>2
  <2>3. ASSUME NEW t \in Tasks, WalkPrefilter(t) \/ WalkOwner(t) \/ WalkMatch(t) \/ WalkRun(t) \/ WalkEnd(t)
        PROVE  RestTypes'
    <3>1. scope' = scope
      BY <2>3 DEF WalkPrefilter, WalkOwner, WalkMatch, WalkRun, WalkEnd, WalkStep, treeVars
    <3>2. \E to : walk' = [walk EXCEPT ![t] = to] /\ to.pc \in {"idle", "prefilter", "owner", "match", "run", "ran"}
      <4>1. CASE WalkPrefilter(t)
        <5> DEFINE to == IF Managed(walk[t].path) THEN [pc |-> "owner", path |-> walk[t].path]
                          ELSE [pc |-> "idle"]
        <5>1. walk' = [walk EXCEPT ![t] = to]
          BY <4>1 DEF WalkPrefilter, WalkStep
        <5>2. to.pc \in {"idle", "prefilter", "owner", "match", "run", "ran"}
          OBVIOUS
        <5> HIDE DEF to
        <5> QED  BY <5>1, <5>2
      <4>2. CASE WalkOwner(t)
        <5> DEFINE to == IF owner[task[t]] = Nobody THEN [pc |-> "idle"]
                          ELSE [pc |-> "match", path |-> walk[t].path, cgrp |-> task[t],
                                owner |-> owner[task[t]]]
        <5>1. walk' = [walk EXCEPT ![t] = to]
          BY <4>2 DEF WalkOwner, WalkStep
        <5>2. to.pc \in {"idle", "prefilter", "owner", "match", "run", "ran"}
          OBVIOUS
        <5> HIDE DEF to
        <5> QED  BY <5>1, <5>2
      <4>3. CASE WalkMatch(t)
        <5> DEFINE to == IF InScope(walk[t].owner, walk[t].path) THEN [walk[t] EXCEPT !.pc = "run"]
                          ELSE [pc |-> "idle"]
        <5>1. walk' = [walk EXCEPT ![t] = to]
          BY <4>3 DEF WalkMatch, WalkStep
        <5>2. to.pc \in {"idle", "prefilter", "owner", "match", "run", "ran"}
          OBVIOUS
        <5> HIDE DEF to
        <5> QED  BY <5>1, <5>2
      <4>4. CASE WalkRun(t)
        <5>1. PICK by : walk' = [walk EXCEPT ![t] = [pc |-> "ran", path |-> walk[t].path, by |-> by]]
          BY <4>4 DEF WalkRun, WalkStep
        <5>2. [pc |-> "ran", path |-> walk[t].path, by |-> by].pc = "ran"
          OBVIOUS
        <5> QED  BY <5>1, <5>2
      <4>5. CASE WalkEnd(t)
        <5>1. walk' = [walk EXCEPT ![t] = [pc |-> "idle"]]
          BY <4>5 DEF WalkEnd, WalkStep
        <5>2. [pc |-> "idle"].pc = "idle"
          OBVIOUS
        <5> QED  BY <5>1, <5>2
      <4> QED  BY <2>3, <4>1, <4>2, <4>3, <4>4, <4>5
    <3> QED  BY <2>1, <3>1, <3>2
  <2>4. ASSUME NEW c \in Cgroups, NEW new \in {Global} \cup SUBSET Paths, SetScope(c, new)
        PROVE  RestTypes'
    BY <2>4 DEF SetScope, RestTypes
  <2>5. ASSUME NEW c \in Cgroups, ReleaseScope(c)
        PROVE  RestTypes'
    BY <2>5 DEF ReleaseScope, RestTypes
  <2>6. CASE UNCHANGED <<scope, walk>>
    BY <2>6 DEF RestTypes
  <2>7. ASSUME NEW c \in Cgroups, NEW x, NEW fl,
               AttachBegin(c, x, fl) \/ AttachFails(c, x, fl) \/ DetachBegin(c, x) \/ DetachPurges(c, x)
        PROVE  UNCHANGED <<scope, walk>>
    BY <2>7 DEF AttachBegin, AttachFails, DetachBegin, DetachPurges
  <2>8. ASSUME NEW l, NEW x, ReplaceBegin(l, x)
        PROVE  UNCHANGED <<scope, walk>>
    BY <2>8 DEF ReplaceBegin
  <2>9. ASSUME NEW d \in Cgroups, \/ SkipZero(d) \/ PublishEffective(d) \/ PurgeOne(d) \/ ReplaceOne(d)
                                  \/ Mkdir(d) \/ Rmdir(d) \/ DropRefcnt(d) \/ ReleaseProgs(d)
        PROVE  UNCHANGED <<scope, walk>>
    BY <2>9 DEF SkipZero, PublishEffective, PurgeOne, ReplaceOne, Mkdir, Rmdir, DropRefcnt, ReleaseProgs
  <2>10. CASE \/ ActivateOrPublish \/ PublishOrDeactivate \/ AttachEnd \/ DetachEnd \/ ReplaceEnd
              \/ UNCHANGED vars \/ \E t \in Tasks, c \in Cgroups : Migrate(t, c)
    BY <2>6, <2>10
    DEF ActivateOrPublish, PublishOrDeactivate, AttachEnd, DetachEnd, ReplaceEnd, Migrate, vars, treeVars
  <2> QED
    BY <2>2, <2>3, <2>4, <2>5, <2>6, <2>7, <2>8, <2>9, <2>10 DEF Next
<1> QED  BY <1>1, <1>2, PTL DEF Spec

\* Every variable of the attachment model keeps its type, also half-way through an
\* attach, a detach, a purge or a replacement.
THEOREM AttachTyped == Spec => []TypeOK
<1>1. AliveInv /\ CoverInv /\ TreeInv /\ RestTypes => TypeOK
  <2> SUFFICES ASSUME AliveInv, CoverInv, TreeInv, RestTypes PROVE TypeOK
    OBVIOUS
  <2>1. /\ life \in [Cgroups -> {"absent", "live", "dead", "zero", "dropped", "released"}]
        /\ owner \in [Cgroups -> Cgroups \cup {Nobody}] /\ task \in [Tasks -> Cgroups]
    BY DEF AliveInv, TreeTypes, Lives
  <2>2. /\ active \in [Cgroups -> BOOLEAN]
        /\ op.kind \in {"idle", "attach", "detach", "purge", "replace"}
    BY DEF CoverInv, CoverTypes, OpRecord
  <2>3. /\ progs \in [Cgroups -> Seq(Attachments)] /\ flags \in [Cgroups -> {"none", "override", "multi"}]
        /\ enabled \in Nat
    BY DEF TreeInv, ListsInv, ListTypes, KeyInv
  <2>4. effective \in [Cgroups -> Seq(Instances \cup {Dummy})] /\ purged \subseteq Cgroups
    BY DEF TreeInv, SettledInv, ArrayTypes, Slots
  <2> QED  BY <2>1, <2>2, <2>3, <2>4 DEF TypeOK, RestTypes
<1> QED  BY <1>1, CoverHolds, DispatchTreeInvariant, AttachTreeInvariant, RestTyped, PTL
=============================================================================
