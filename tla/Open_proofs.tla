----------------------------- MODULE Open_proofs ----------------------------
(***************************************************************************)
(* One lookup or open, proved for every tree, pathname, policy, limit of   *)
(* links and number of changes by other tasks: the references of a walk    *)
(* add up, the link bodies it reads are kept, O_CREAT creates only what    *)
(* the policy passed, and a scoped walk stays below its start.             *)
(*                                                                         *)
(* The invariant is a conjunction of predicates on the nameidata w; the    *)
(* lemmas say which operator of the model keeps which of them.             *)
(***************************************************************************)
EXTENDS NameiExtOpen, FiniteSetTheorems, SequenceTheorems, TLAPS

Errors == {"ok", "ECHILD", "ESTALE", "EXDEV", "ENOENT", "EINVAL", "EOPNOTSUPP", "ENOTDIR",
           "ELOOP", "EISDIR", "EEXIST"}
Steps == {"init", "walk", "last", "decide", "redirect", "lookup", "slow",
          "fail", "complete", "end", "done"}
\* The component in hand has been decided, or is about to be.
InComponent == {"decide", "redirect", "lookup", "slow"}
Reading == {"walk", "last"} \cup InComponent

TextType == [comps : Seq(Names \cup {".."}), slash : BOOLEAN, src : Nat]
EntryType == [link : Objects \cup {Nil}, id : Nat]

Walks ==
    [pc : Steps, call : Calls, attempt : 1..3, rcu : BOOLEAN, path : Objects \cup {Nil},
     root : Dirs \cup {Nil}, grabbed : BOOLEAN, text : TextType, names : Seq(TextType),
     stack : Seq(EntryType), bodies : SUBSET Nat, links : Nat,
     last : [name : Names \cup {"..", Nil}, src : Nat, slash : BOOLEAN],
     trailing : BOOLEAN, more : BOOLEAN, directory : BOOLEAN, follow : BOOLEAN,
     intent : BOOLEAN, jumped : BOOLEAN, decision : Decision \cup {Nil}, created : BOOLEAN,
     refs : [Objects -> Int], err : Errors, quiet : BOOLEAN]

\* The references the pointers of a ref-walk stand for.
Held(w, o) ==
    Count(o, LinksOf(w.stack)) + (IF w.path = o THEN 1 ELSE 0)
        + (IF w.grabbed /\ w.root = o THEN 1 ELSE 0)

RefOK(w) ==
    /\ w.rcu => ~w.grabbed
    /\ \A o \in Objects : w.refs[o] = IF w.rcu THEN 0 ELSE Held(w, o)

\* The links on the stack are in the order in which they were met.
StackOK(w) ==
    /\ \A i, j \in DOMAIN w.stack : i < j => w.stack[i].id < w.stack[j].id
    /\ \A i \in DOMAIN w.stack : w.stack[i].id \in 1..MaxSymlinks /\ w.stack[i].id <= w.links
    /\ w.bodies \subseteq {w.stack[i].id : i \in DOMAIN w.stack}
    /\ w.pc # "end" => w.bodies = {w.stack[i].id : i \in DOMAIN w.stack}

\* The texts around the current one are those of links met before it.
Around(w) ==
    /\ Len(w.names) <= Len(w.stack)
    /\ w.text.src \in w.bodies \cup {0}
    /\ \A i \in DOMAIN w.names : /\ w.names[i].src \in w.bodies \cup {0}
                                 /\ w.names[i].src < w.text.src
                                 /\ w.names[i].comps # <<>>
    /\ \A i, j \in DOMAIN w.names : i < j => w.names[i].src < w.names[j].src

\* The link that ends with a component is none whose body is still read.
NestOK(w) ==
    w.pc \in Reading =>
        /\ Around(w)
        /\ w.pc # "walk" => w.last.src \in w.bodies \cup {0}
        /\ w.pc = "walk" /\ w.text.comps = <<>> => w.names = <<>>
        /\ w.pc = "last" \/ (w.pc # "walk" /\ w.trailing) => w.names = <<>> /\ w.text.comps = <<>>
        /\ w.pc \in InComponent /\ ~w.trailing =>
              /\ w.text.comps # <<>>
              /\ ~w.more => /\ Len(w.names) < Len(w.stack)
                            /\ w.text.src < w.stack[Len(w.stack)].id

\* What the policy said of the component, and of what was created.
DecideOK(w) ==
    /\ w.pc \in Reading \cup {"complete"} => w.err = "ok"
    /\ w.pc \in InComponent /\ w.trailing => (w.intent <=> w.call.kind = "open")
    /\ w.pc \in {"redirect", "lookup", "slow"} =>
          /\ w.decision \in Decision /\ w.decision.act \in {"pass", "redirect"}
          /\ w.pc = "redirect" => w.decision.act = "redirect"
          /\ w.trailing /\ w.call.kind = "open" /\ w.call.creat => w.decision.act = "pass"
          /\ w.last.name \in Names
    /\ w.created => /\ w.pc \in {"complete", "end", "done", "init"}
                    /\ w.decision.act = "pass" /\ w.err # "EOPNOTSUPP"

\* Where the walk stands.
PlaceOK(w) ==
    /\ w.pc \in Reading => w.path \in Dirs
    /\ w.call.beneath => /\ w.pc \in Reading \cup {"fail", "complete"} => w.root = Cwd
                         /\ w.path \in Dirs => w.path \in UnderCwd

WalkOK(w) == RefOK(w) /\ StackOK(w) /\ NestOK(w) /\ DecideOK(w) /\ PlaceOK(w)

\* Directory entries and policy, whoever changes them.
TreeOK ==
    /\ fs \in Layout /\ policy \in Policies /\ changes \in 0..MaxChanges
    /\ \A d \in Dirs, n \in Names : fs[d][n] \in Dirs => fs[d][n] # Root /\ ParentOf[fs[d][n]] = d

\* The inductive invariant.
OpenInv == TreeOK /\ (nd = Idle \/ (nd \in Walks /\ WalkOK(nd)))

-----------------------------------------------------------------------------
(* Counting.                                                               *)

\* Occurrences of an object in a sequence are counted by a number.
LEMMA CountNat ==
    ASSUME NEW T, NEW s \in Seq(T), NEW o
    PROVE  IsFiniteSet({i \in DOMAIN s : s[i] = o}) /\ Count(o, s) \in Nat
<1> DEFINE at == {i \in DOMAIN s : s[i] = o}
<1>1. at \in SUBSET (1..Len(s)) /\ Len(s) \in Nat
  OBVIOUS
<1>2. IsFiniteSet(1..Len(s))
  BY <1>1, FS_Interval
<1>3. IsFiniteSet(at)
  BY <1>1, <1>2, FS_Subset
<1> QED
  BY <1>3, FS_CardinalityType DEF Count

\* One more element, one more occurrence if it is the object.
LEMMA CountAppend ==
    ASSUME NEW T, NEW s \in Seq(T), NEW x \in T, NEW o
    PROVE  Count(o, Append(s, x)) = Count(o, s) + (IF x = o THEN 1 ELSE 0)
<1> DEFINE at(q) == {i \in DOMAIN q : q[i] = o}
<1>1. IsFiniteSet(at(s)) /\ Count(o, s) = Cardinality(at(s)) /\ Count(o, s) \in Nat
  BY CountNat DEF Count
<1>2. /\ Append(s, x) \in Seq(T) /\ Len(Append(s, x)) = Len(s) + 1 /\ Len(s) \in Nat
      /\ \A i \in 1..Len(s) : Append(s, x)[i] = s[i]
      /\ Append(s, x)[Len(s) + 1] = x
  OBVIOUS
<1>3. DOMAIN s = 1..Len(s) /\ DOMAIN Append(s, x) = 1..(Len(s) + 1)
  BY <1>2
<1>4. at(Append(s, x)) = IF x = o THEN at(s) \cup {Len(s) + 1} ELSE at(s)
  BY <1>2, <1>3
<1>5. Len(s) + 1 \notin at(s)
  BY <1>2, <1>3
<1>6. Count(o, Append(s, x)) = Cardinality(at(Append(s, x)))
  BY DEF Count
<1> HIDE DEF at
<1>7. x = o => Cardinality(at(s) \cup {Len(s) + 1}) = Cardinality(at(s)) + 1
  BY <1>1, <1>5, FS_AddElement
<1> QED
  BY <1>1, <1>4, <1>6, <1>7

\* The sequences of pointers that the walk takes and puts.
LEMMA CountShort ==
    ASSUME NEW o, NEW x
    PROVE  /\ Count(o, <<>>) = 0
           /\ Count(o, <<x>>) = IF x = o THEN 1 ELSE 0
<1>1. {i \in DOMAIN <<>> : <<>>[i] = o} = {}
  OBVIOUS
<1>2. Count(o, <<>>) = 0
  BY <1>1, FS_EmptySet DEF Count
<1>3. <<>> \in Seq({x}) /\ x \in {x} /\ <<x>> = Append(<<>>, x)
  OBVIOUS
<1>4. Count(o, Append(<<>>, x)) = Count(o, <<>>) + (IF x = o THEN 1 ELSE 0)
  BY <1>3, CountAppend
<1> QED
  BY <1>2, <1>3, <1>4

\* path_init takes the starting directory twice.
LEMMA CountTwice ==
    ASSUME NEW o, NEW x
    PROVE  Count(o, <<x, x>>) = IF x = o THEN 2 ELSE 0
<1> DEFINE two == <<x, x>>
<1>1. <<x>> \in Seq({x}) /\ x \in {x} /\ two = Append(<<x>>, x)
  OBVIOUS
<1>2. Count(o, Append(<<x>>, x)) = Count(o, <<x>>) + (IF x = o THEN 1 ELSE 0)
  BY <1>1, CountAppend
<1>3. Count(o, <<x>>) = IF x = o THEN 1 ELSE 0
  BY CountShort
<1> HIDE DEF two
<1>4. Count(o, two) = IF x = o THEN 2 ELSE 0
  BY <1>1, <1>2, <1>3
<1> QED
  BY <1>4 DEF two

Pointer == Objects \cup {Nil}

\* The links of the stack, in its order.
LEMMA LinksOfType ==
    ASSUME NEW stack \in Seq(EntryType)
    PROVE  /\ LinksOf(stack) \in Seq(Pointer) /\ Len(LinksOf(stack)) = Len(stack)
           /\ \A i \in 1..Len(stack) : LinksOf(stack)[i] = stack[i].link
<1>1. DOMAIN stack = 1..Len(stack) /\ Len(stack) \in Nat
  OBVIOUS
<1>2. \A i \in 1..Len(stack) : stack[i].link \in Pointer
  <2>1. \A i \in 1..Len(stack) : stack[i] \in EntryType
    BY <1>1
  <2> QED
    BY <2>1 DEF EntryType, Pointer
<1>3. LinksOf(stack) \in [1..Len(stack) -> Pointer]
  BY <1>1, <1>2 DEF LinksOf
<1>4. LinksOf(stack) \in Seq(Pointer)
  BY <1>1, <1>3, SeqDef
<1> QED
  BY <1>1, <1>3, <1>4 DEF LinksOf

\* A pushed entry adds its link.
LEMMA LinksOfAppend ==
    ASSUME NEW stack \in Seq(EntryType), NEW e \in EntryType
    PROVE  LinksOf(Append(stack, e)) = Append(LinksOf(stack), e.link)
<1>0. e.link \in Pointer
  BY DEF EntryType, Pointer
<1>1. Append(stack, e) \in Seq(EntryType) /\ Len(Append(stack, e)) = Len(stack) + 1
  OBVIOUS
<1>2. /\ LinksOf(Append(stack, e)) \in Seq(Pointer)
      /\ Len(LinksOf(Append(stack, e))) = Len(stack) + 1
      /\ \A i \in 1..(Len(stack) + 1) : LinksOf(Append(stack, e))[i] = Append(stack, e)[i].link
  BY <1>1, LinksOfType
<1>3. /\ Append(LinksOf(stack), e.link) \in Seq(Pointer)
      /\ Len(Append(LinksOf(stack), e.link)) = Len(stack) + 1
      /\ \A i \in 1..(Len(stack) + 1) : Append(LinksOf(stack), e.link)[i] = Append(stack, e)[i].link
  BY <1>0, LinksOfType
<1> QED
  BY <1>2, <1>3

\* The top of the stack.
LEMMA LinksOfFront ==
    ASSUME NEW stack \in Seq(EntryType), stack # <<>>, NEW o
    PROVE  LET front == SubSeq(stack, 1, Len(stack) - 1)
               top == stack[Len(stack)]
           IN  /\ front \in Seq(EntryType) /\ top \in EntryType
               /\ Count(o, LinksOf(stack)) =
                    Count(o, LinksOf(front)) + (IF top.link = o THEN 1 ELSE 0)
<1> DEFINE front == SubSeq(stack, 1, Len(stack) - 1)
           top == stack[Len(stack)]
<1>1. front \in Seq(EntryType) /\ top \in EntryType /\ stack = Append(front, top)
  OBVIOUS
<1> HIDE DEF front, top
<1>2. LinksOf(stack) = Append(LinksOf(front), top.link) /\ top.link \in Pointer
  BY <1>1, LinksOfAppend DEF EntryType, Pointer
<1>3. LinksOf(front) \in Seq(Pointer)
  BY <1>1, LinksOfType
<1>4. Count(o, LinksOf(stack)) = Count(o, LinksOf(front)) + (IF top.link = o THEN 1 ELSE 0)
  BY <1>2, <1>3, CountAppend
<1> QED
  BY <1>1, <1>4 DEF front, top

\* In the words of the model: one reference for every pointer.
LEMMA PointersCount ==
    ASSUME NEW w \in Walks, NEW o \in Objects
    PROVE  /\ Count(o, Pointers(w)) = Held(w, o)
           /\ Held(w, o) \in Nat /\ Count(o, LinksOf(w.stack)) \in Nat
<1> DEFINE links == LinksOf(w.stack)
           some == links \o <<w.path>>
<1>1. w.stack \in Seq(EntryType) /\ w.path \in Pointer /\ w.root \in Pointer /\ w.grabbed \in BOOLEAN
  BY OpenConstants DEF Walks, Pointer, Objects
<1>2. links \in Seq(Pointer)
  BY <1>1, LinksOfType
<1> HIDE DEF links
<1>3. some = Append(links, w.path) /\ some \in Seq(Pointer)
  BY <1>1, <1>2
<1>4. Pointers(w) = IF w.grabbed THEN Append(some, w.root) ELSE some
  <2>1. Pointers(w) = some \o (IF w.grabbed THEN <<w.root>> ELSE <<>>)
    BY DEF Pointers, links
  <2> HIDE DEF some
  <2>2. some \o <<w.root>> = Append(some, w.root) /\ some \o <<>> = some
    BY <1>1, <1>3
  <2> QED
    BY <2>1, <2>2
<1> HIDE DEF some
<1>5. /\ Count(o, links) \in Nat
      /\ Count(o, some) = Count(o, links) + (IF w.path = o THEN 1 ELSE 0)
  BY <1>1, <1>2, <1>3, CountNat, CountAppend
<1>6. Count(o, Append(some, w.root)) = Count(o, some) + (IF w.root = o THEN 1 ELSE 0)
  BY <1>1, <1>3, CountAppend
<1> QED
  BY <1>1, <1>4, <1>5, <1>6 DEF Held, links

-----------------------------------------------------------------------------
(* Steps of the nameidata, one operator of the model at a time.            *)

Fields == {"pc", "call", "attempt", "rcu", "path", "root", "grabbed", "text", "names", "stack",
           "bodies", "links", "last", "trailing", "more", "directory", "follow", "intent",
           "jumped", "decision", "created", "refs", "err", "quiet"}

\* v is the walk w but for some of its fields.
Differs(v, w, some) == v \in Walks /\ \A f \in Fields \ some : v[f] = w[f]

\* Taking references changes nothing else.
LEMMA TakeEffect ==
    ASSUME NEW w \in Walks, NEW s, \A o \in Objects : Count(o, s) \in Nat
    PROVE  /\ Differs(Take(w, s), w, {"refs"})
           /\ \A o \in Objects : Take(w, s).refs[o] = w.refs[o] + Count(o, s)
<1> DEFINE r == [o \in Objects |-> w.refs[o] + Count(o, s)]
<1>1. w.refs \in [Objects -> Int]
  BY DEF Walks
<1>2. r \in [Objects -> Int]
  BY <1>1
<1>3. Take(w, s) = [w EXCEPT !.refs = r]
  BY DEF Take
<1>4. \A o \in Objects : r[o] = w.refs[o] + Count(o, s)
  OBVIOUS
<1> HIDE DEF r
<1>5. Differs([w EXCEPT !.refs = r], w, {"refs"}) /\ [w EXCEPT !.refs = r].refs = r
  BY <1>2 DEF Walks, Differs, Fields
<1> QED
  BY <1>3, <1>4, <1>5

\* Neither does putting them.
LEMMA PutEffect ==
    ASSUME NEW w \in Walks, NEW s, \A o \in Objects : Count(o, s) \in Nat
    PROVE  /\ Differs(Put(w, s), w, {"refs"})
           /\ \A o \in Objects : Put(w, s).refs[o] = w.refs[o] - Count(o, s)
<1> DEFINE r == [o \in Objects |-> w.refs[o] - Count(o, s)]
<1>1. w.refs \in [Objects -> Int]
  BY DEF Walks
<1>2. r \in [Objects -> Int]
  BY <1>1
<1>3. Put(w, s) = [w EXCEPT !.refs = r]
  BY DEF Put
<1>4. \A o \in Objects : r[o] = w.refs[o] - Count(o, s)
  OBVIOUS
<1> HIDE DEF r
<1>5. Differs([w EXCEPT !.refs = r], w, {"refs"}) /\ [w EXCEPT !.refs = r].refs = r
  BY <1>2 DEF Walks, Differs, Fields
<1> QED
  BY <1>3, <1>4, <1>5

\* One pointer taken or put, in ref-walk only.
One(x, o) == IF x = o THEN 1 ELSE 0

\* In RCU-walk nothing is taken or put.
LEMMA RefEffect ==
    ASSUME NEW w \in Walks, NEW x
    PROVE  /\ Differs(RefTake(w, <<x>>), w, {"refs"})
           /\ Differs(RefPut(w, <<x>>), w, {"refs"})
           /\ \A o \in Objects :
                /\ RefTake(w, <<x>>).refs[o] = w.refs[o] + (IF w.rcu THEN 0 ELSE One(x, o))
                /\ RefPut(w, <<x>>).refs[o] = w.refs[o] - (IF w.rcu THEN 0 ELSE One(x, o))
<1>1. \A o \in Objects : Count(o, <<x>>) = One(x, o) /\ One(x, o) \in Nat
  BY CountShort DEF One
<1>2. w.refs \in [Objects -> Int] /\ w.rcu \in BOOLEAN
  BY DEF Walks
<1>3. CASE w.rcu
  <2>1. RefTake(w, <<x>>) = w /\ RefPut(w, <<x>>) = w
    BY <1>3 DEF RefTake, RefPut
  <2> QED
    BY <1>2, <1>3, <2>1 DEF Differs
<1>4. CASE ~w.rcu
  <2>1. RefTake(w, <<x>>) = Take(w, <<x>>) /\ RefPut(w, <<x>>) = Put(w, <<x>>)
    BY <1>4 DEF RefTake, RefPut
  <2> QED
    BY <1>1, <1>4, <2>1, TakeEffect, PutEffect
<1> QED
  BY <1>2, <1>3, <1>4

\* The path becomes another one: the old one is put, the new one taken.
LEMMA MoveEffect ==
    ASSUME NEW w \in Walks, RefOK(w), NEW u, NEW v,
           Differs(u, w, {"path", "jumped", "created", "pc"}),
           v = RefTake(RefPut(u, <<w.path>>), <<u.path>>)
    PROVE  Differs(v, u, {"refs"}) /\ RefOK(v)
<1> DEFINE x == u.path
           put == RefPut(u, <<w.path>>)
<1>1. u \in Walks /\ x = u.path
  BY DEF Differs
<1>2. /\ Differs(put, u, {"refs"})
      /\ \A o \in Objects : put.refs[o] = u.refs[o] - (IF u.rcu THEN 0 ELSE One(w.path, o))
  BY <1>1, RefEffect
<1>3. v = RefTake(put, <<x>>)
  OBVIOUS
<1> HIDE DEF put, x
<1>4. /\ Differs(RefTake(put, <<x>>), put, {"refs"})
      /\ \A o \in Objects :
            RefTake(put, <<x>>).refs[o] = put.refs[o] + (IF put.rcu THEN 0 ELSE One(x, o))
  <2>1. put \in Walks
    BY <1>2 DEF Differs
  <2> QED
    BY <2>1, RefEffect
<1>5. Differs(v, u, {"refs"})
  BY <1>2, <1>3, <1>4 DEF Differs, Fields
<1>6. /\ v.rcu = w.rcu /\ v.grabbed = w.grabbed /\ v.root = w.root /\ v.stack = w.stack
      /\ u.rcu = w.rcu /\ put.rcu = w.rcu /\ u.refs = w.refs /\ v.path = x
  BY <1>1, <1>2, <1>5 DEF Differs, Fields
<1>7. \A o \in Objects : w.refs[o] \in Int /\ Held(w, o) \in Nat /\ Count(o, LinksOf(w.stack)) \in Nat
  BY PointersCount DEF Walks
<1>8. RefOK(v)
  <2>1. \A o \in Objects : v.refs[o] =
            w.refs[o] - (IF w.rcu THEN 0 ELSE One(w.path, o)) + (IF w.rcu THEN 0 ELSE One(x, o))
    BY <1>2, <1>3, <1>4, <1>6
  <2>2. \A o \in Objects : Held(v, o) = Held(w, o) - One(w.path, o) + One(x, o)
    BY <1>6, <1>7 DEF Held, One
  <2> QED
    BY <1>6, <1>7, <2>1, <2>2 DEF RefOK, One
<1> QED
  BY <1>5, <1>8

\* put_link: the link leaves the stack, and its body is released.
LEMMA PutLinkEffect ==
    ASSUME NEW w \in Walks, RefOK(w), StackOK(w), w.stack # <<>>, w.pc # "end", NEW v, v = PutLink(w)
    PROVE  /\ Differs(v, w, {"stack", "bodies", "refs"})
           /\ v.stack = SubSeq(w.stack, 1, Len(w.stack) - 1)
           /\ v.bodies = w.bodies \ {w.stack[Len(w.stack)].id}
           /\ RefOK(v) /\ StackOK(v)
<1> DEFINE front == SubSeq(w.stack, 1, Len(w.stack) - 1)
           top == w.stack[Len(w.stack)]
           rest == w.bodies \ {top.id}
           x == top.link
           u == [w EXCEPT !.stack = front, !.bodies = rest]
<1>1. /\ front \in Seq(EntryType) /\ top \in EntryType
      /\ \A o : Count(o, LinksOf(w.stack)) = Count(o, LinksOf(front)) + One(x, o)
  <2>1. w.stack \in Seq(EntryType)
    BY DEF Walks
  <2> QED
    BY <2>1, LinksOfFront DEF One
<1>2. v = RefPut(u, <<x>>)
  BY DEF PutLink
<1>3. /\ Len(w.stack) \in Nat \ {0} /\ DOMAIN w.stack = 1..Len(w.stack)
      /\ Len(front) = Len(w.stack) - 1 /\ DOMAIN front = 1..(Len(w.stack) - 1)
      /\ \A i \in 1..(Len(w.stack) - 1) : front[i] = w.stack[i]
      /\ \A i \in 1..Len(w.stack) : w.stack[i] \in EntryType
  <2> DEFINE s == w.stack
  <2>1. s \in Seq(EntryType) /\ s # <<>>
    BY DEF Walks
  <2> HIDE DEF s
  <2>2. /\ Len(s) \in Nat \ {0} /\ DOMAIN s = 1..Len(s)
        /\ \A i \in 1..Len(s) : s[i] \in EntryType
    BY <2>1
  <2>3. SubSeq(s, 1, Len(s) - 1) \in Seq(EntryType) /\ Len(SubSeq(s, 1, Len(s) - 1)) = Len(s) - 1
    BY <2>1, <2>2
  <2>4. \A i \in 1..(Len(s) - 1) : SubSeq(s, 1, Len(s) - 1)[i] = s[i]
    BY <2>1, <2>2
  <2> QED
    BY <2>2, <2>3, <2>4 DEF s
<1>4. rest \in SUBSET Nat /\ top = w.stack[Len(w.stack)]
  BY DEF Walks
<1>5. \A i \in 1..(Len(w.stack) - 1) : w.stack[i].id < top.id /\ w.stack[i].id \in Nat
  <2>1. \A i \in 1..(Len(w.stack) - 1) : i \in 1..Len(w.stack) /\ i < Len(w.stack)
    BY <1>3
  <2>2. Len(w.stack) \in 1..Len(w.stack)
    BY <1>3
  <2>3. \A i \in 1..(Len(w.stack) - 1) : w.stack[i].id < top.id
    BY <1>3, <1>4, <2>1, <2>2 DEF StackOK
  <2> QED
    BY <1>3, <2>1, <2>3 DEF EntryType
<1>6. rest = {front[i].id : i \in DOMAIN front}
  <2>1. w.bodies = {w.stack[i].id : i \in 1..Len(w.stack)}
    BY <1>3 DEF StackOK
  <2>2. \A i \in 1..Len(w.stack) : i = Len(w.stack) \/ i \in 1..(Len(w.stack) - 1)
    BY <1>3
  <2> QED
    <3>1. \A b \in rest : \E i \in 1..(Len(w.stack) - 1) : b = w.stack[i].id
      BY <2>1, <2>2
    <3>2. \A i \in 1..(Len(w.stack) - 1) : w.stack[i].id \in rest
      <4>1. \A i \in 1..(Len(w.stack) - 1) : w.stack[i].id # top.id /\ i \in 1..Len(w.stack)
        BY <1>1, <1>3, <1>5 DEF EntryType
      <4> QED
        BY <2>1, <4>1
    <3> HIDE DEF rest, front
    <3> QED
      BY <1>3, <3>1, <3>2
<1> HIDE DEF front, top, rest, x
<1>7. Differs(u, w, {"stack", "bodies"}) /\ u.stack = front /\ u.bodies = rest
  BY <1>1, <1>4 DEF Walks, Differs, Fields
<1> HIDE DEF u
<1>8. /\ Differs(RefPut(u, <<x>>), u, {"refs"})
      /\ \A o \in Objects : RefPut(u, <<x>>).refs[o] = u.refs[o] - (IF u.rcu THEN 0 ELSE One(x, o))
  <2>1. u \in Walks
    BY <1>7 DEF Differs
  <2> QED
    BY <2>1, RefEffect
<1>9. /\ Differs(v, w, {"stack", "bodies", "refs"}) /\ v.stack = front /\ v.bodies = rest
      /\ v.path = w.path /\ v.rcu = w.rcu /\ v.grabbed = w.grabbed /\ v.root = w.root
      /\ v.links = w.links /\ u.refs = w.refs /\ u.rcu = w.rcu /\ v.pc = w.pc
  BY <1>2, <1>7, <1>8 DEF Differs, Fields
<1>10. RefOK(v)
  <2>1. \A o \in Objects : w.refs[o] \in Int /\ Held(w, o) \in Nat /\ Count(o, LinksOf(w.stack)) \in Nat
    BY PointersCount DEF Walks
  <2>2. \A o \in Objects : Count(o, LinksOf(front)) \in Nat
    BY <1>1, CountNat, LinksOfType
  <2> QED
    <3>1. \A o \in Objects : v.refs[o] = w.refs[o] - (IF w.rcu THEN 0 ELSE One(x, o))
      BY <1>2, <1>8, <1>9
    <3>2. \A o \in Objects : Held(v, o) = Held(w, o) - One(x, o)
      BY <1>1, <1>9, <2>1, <2>2 DEF Held, One
    <3> QED
      BY <1>9, <2>1, <3>1, <3>2 DEF RefOK, One
<1>11. StackOK(v)
  <2>1. \A i, j \in DOMAIN front : i < j => front[i].id < front[j].id
    BY <1>3 DEF StackOK
  <2>2. \A i \in DOMAIN front : front[i].id \in 1..MaxSymlinks /\ front[i].id <= w.links
    BY <1>3 DEF StackOK
  <2> QED
    BY <1>6, <1>9, <2>1, <2>2 DEF StackOK
<1> QED
  BY <1>9, <1>10, <1>11 DEF front, rest, top

\* set_root in ref-walk takes a reference that terminate_walk puts.
LEMMA SetRootEffect ==
    ASSUME NEW w \in Walks, RefOK(w), NEW v, v = SetRoot(w)
    PROVE  /\ Differs(v, w, {"root", "grabbed", "refs"})
           /\ v.root \in Dirs /\ (w.root # Nil => v.root = w.root) /\ RefOK(v)
<1>1. CASE w.root # Nil
  BY <1>1 DEF SetRoot, Differs, Walks
<1>2. CASE w.root = Nil
  <2> DEFINE g == ~w.rcu
             u == [w EXCEPT !.root = Root, !.grabbed = g]
  <2>1. v = RefTake(u, <<Root>>)
    BY <1>2 DEF SetRoot
  <2>2. Root \in Dirs /\ Root \in Objects /\ Root # Nil /\ g \in BOOLEAN
    BY OpenConstants DEF Objects
  <2>3. Differs(u, w, {"root", "grabbed"}) /\ u.root = Root /\ u.grabbed = g
    <3> HIDE DEF g
    <3> QED
      BY <2>2 DEF Walks, Differs, Fields
  <2> HIDE DEF u
  <2>4. /\ Differs(RefTake(u, <<Root>>), u, {"refs"})
        /\ \A o \in Objects : RefTake(u, <<Root>>).refs[o] = u.refs[o] + (IF u.rcu THEN 0 ELSE One(Root, o))
    <3>1. u \in Walks
      BY <2>3 DEF Differs
    <3> QED
      BY <3>1, RefEffect
  <2>5. /\ Differs(v, w, {"root", "grabbed", "refs"}) /\ v.root = Root /\ v.grabbed = g
        /\ v.path = w.path /\ v.rcu = w.rcu /\ v.stack = w.stack /\ u.refs = w.refs /\ u.rcu = w.rcu
    BY <2>1, <2>3, <2>4 DEF Differs, Fields
  <2>6. \A o \in Objects : w.refs[o] \in Int /\ Held(w, o) \in Nat /\ Count(o, LinksOf(w.stack)) \in Nat
    BY PointersCount DEF Walks
  <2>7. RefOK(v)
    <3>1. \A o \in Objects : v.refs[o] = w.refs[o] + (IF w.rcu THEN 0 ELSE One(Root, o))
      BY <2>1, <2>4, <2>5
    <3>2. \A o \in Objects : o # Nil
      BY OpenConstants
    <3>3. (v.grabbed <=> ~v.rcu) /\ v.rcu = w.rcu
      BY <2>5
    <3>4. \A o \in Objects : ~w.rcu => Held(v, o) = Held(w, o) + One(Root, o)
      <4> HIDE DEF g
      <4> QED
        BY <1>2, <2>2, <2>5, <2>6, <3>2, <3>3 DEF Held, One
    <3> HIDE DEF g
    <3> QED
      BY <2>6, <3>1, <3>3, <3>4 DEF RefOK, One
  <2> QED
    BY <1>2, <2>2, <2>5, <2>7
<1> QED
  BY <1>1, <1>2

\* An error ends the attempt and leaves the rest to terminate_walk.
LEMMA FailEffect ==
    ASSUME NEW w \in Walks, NEW e \in Errors
    PROVE  /\ Differs(Fail(w, e), w, {"pc", "err"})
           /\ Fail(w, e).pc = "end" /\ Fail(w, e).err = e
  BY DEF Fail, Walks, Differs, Fields, Steps

\* nd_jump_root: to the root, or out of a scoped lookup.
LEMMA JumpRootEffect ==
    ASSUME NEW w \in Walks, RefOK(w), NEW v, v = JumpRoot(w)
    PROVE  /\ w.call.beneath => v = Fail(w, "EXDEV")
           /\ ~w.call.beneath => /\ Differs(v, w, {"root", "grabbed", "refs", "path", "jumped"})
                                 /\ v.path \in Dirs /\ RefOK(v)
<1>1. CASE w.call.beneath
  BY <1>1 DEF JumpRoot
<1>2. CASE ~w.call.beneath
  <2> DEFINE r == SetRoot(w)
             u == [r EXCEPT !.path = r.root, !.jumped = TRUE]
  <2>1. Differs(r, w, {"root", "grabbed", "refs"}) /\ r.root \in Dirs /\ RefOK(r)
    BY SetRootEffect
  <2>2. v = RefTake(RefPut(u, <<r.path>>), <<r.root>>)
    BY <1>2 DEF JumpRoot
  <2> HIDE DEF r
  <2>3. r \in Walks /\ r.root \in Objects
    BY <2>1 DEF Differs, Objects
  <2>4. Differs(u, r, {"path", "jumped"}) /\ u.path = r.root
    BY <2>3 DEF Walks, Differs, Fields
  <2> HIDE DEF u
  <2>5. Differs(v, u, {"refs"}) /\ RefOK(v)
    <3>1. Differs(u, r, {"path", "jumped", "created", "pc"})
      BY <2>4 DEF Differs
    <3>2. v = RefTake(RefPut(u, <<r.path>>), <<u.path>>)
      BY <2>2, <2>4
    <3> QED
      BY <2>1, <2>3, <3>1, <3>2, MoveEffect
  <2> QED
    BY <1>2, <2>1, <2>4, <2>5 DEF Differs, Fields
<1> QED
  BY <1>1, <1>2

\* pick_link puts the link on the stack and keeps its body.
LEMMA PushEffect ==
    ASSUME NEW w \in Walks, RefOK(w), StackOK(w), w.pc # "end", w.links < MaxSymlinks, NEW l \in Links, NEW v,
           v = RefTake([w EXCEPT !.links = w.links + 1, !.bodies = @ \cup {w.links + 1},
                                 !.stack = Append(@, [link |-> l, id |-> w.links + 1])], <<l>>)
    PROVE  /\ Differs(v, w, {"links", "bodies", "stack", "refs"})
           /\ v.links = w.links + 1 /\ v.bodies = w.bodies \cup {w.links + 1}
           /\ v.stack = Append(w.stack, [link |-> l, id |-> w.links + 1])
           /\ RefOK(v) /\ StackOK(v)
<1> DEFINE id == w.links + 1
           s == w.stack
           e == [link |-> l, id |-> id]
           more == w.bodies \cup {id}
           longer == Append(s, e)
           u == [w EXCEPT !.links = id, !.bodies = more, !.stack = longer]
<1>1. /\ w.links \in Nat /\ id \in Nat /\ more \in SUBSET Nat /\ l \in Objects
      /\ s \in Seq(EntryType) /\ MaxSymlinks \in Nat /\ id \in 1..MaxSymlinks
  BY OpenConstants DEF Walks, Objects
<1>2. e \in EntryType /\ e.link = l /\ e.id = id
  BY <1>1 DEF EntryType
<1>3. v = RefTake(u, <<l>>)
  OBVIOUS
<1> HIDE DEF e, s
<1>4. /\ longer \in Seq(EntryType) /\ Len(s) \in Nat /\ DOMAIN s = 1..Len(s)
      /\ DOMAIN longer = 1..(Len(s) + 1) /\ longer[Len(s) + 1] = e
      /\ \A i \in 1..Len(s) : longer[i] = s[i] /\ s[i] \in EntryType
  BY <1>1, <1>2
<1>5. LinksOf(longer) = Append(LinksOf(s), l) /\ LinksOf(s) \in Seq(Pointer) /\ l \in Pointer
  BY <1>1, <1>2, LinksOfAppend, LinksOfType DEF Pointer
<1> HIDE DEF id, more, longer
<1>6. /\ Differs(u, w, {"links", "bodies", "stack"})
      /\ u.links = id /\ u.bodies = more /\ u.stack = longer
  BY <1>1, <1>4 DEF Walks, Differs, Fields
<1> HIDE DEF u
<1>7. /\ Differs(RefTake(u, <<l>>), u, {"refs"})
      /\ \A o \in Objects : RefTake(u, <<l>>).refs[o] = u.refs[o] + (IF u.rcu THEN 0 ELSE One(l, o))
  <2>1. u \in Walks
    BY <1>6 DEF Differs
  <2> QED
    BY <2>1, RefEffect
<1>8. /\ Differs(v, w, {"links", "bodies", "stack", "refs"})
      /\ v.links = id /\ v.bodies = more /\ v.stack = longer /\ v.pc = w.pc
      /\ v.path = w.path /\ v.rcu = w.rcu /\ v.grabbed = w.grabbed /\ v.root = w.root
      /\ u.refs = w.refs /\ u.rcu = w.rcu
  BY <1>3, <1>6, <1>7 DEF Differs, Fields
<1>9. RefOK(v)
  <2>1. \A o \in Objects : w.refs[o] \in Int /\ Held(w, o) \in Nat /\ Count(o, LinksOf(s)) \in Nat
    BY PointersCount DEF Walks, s
  <2>2. \A o \in Objects : Count(o, LinksOf(longer)) = Count(o, LinksOf(s)) + One(l, o)
    BY <1>5, CountAppend DEF One
  <2>3. \A o \in Objects : v.refs[o] = w.refs[o] + (IF w.rcu THEN 0 ELSE One(l, o))
    BY <1>3, <1>7, <1>8
  <2>4. \A o \in Objects : Held(v, o) = Held(w, o) + One(l, o)
    BY <1>8, <2>1, <2>2 DEF Held, One, s
  <2> QED
    BY <1>8, <2>1, <2>3, <2>4 DEF RefOK, One
<1>10. StackOK(v)
  <2>1. \A i \in 1..Len(s) : s[i].id \in 1..MaxSymlinks /\ s[i].id <= w.links
    BY <1>4 DEF StackOK, s
  <2>2. \A i \in 1..(Len(s) + 1) : i = Len(s) + 1 \/ i \in 1..Len(s)
    BY <1>4
  <2>3. \A i, j \in DOMAIN longer : i < j => longer[i].id < longer[j].id
    <3>1. \A i, j \in 1..Len(s) : i < j => s[i].id < s[j].id
      BY <1>4 DEF StackOK, s
    <3>2. \A i \in 1..Len(s) : s[i].id < id
      BY <1>1, <2>1 DEF id
    <3>3. \A i, j \in 1..(Len(s) + 1) : i < j => i \in 1..Len(s)
      BY <1>4
    <3> QED
      BY <1>2, <1>4, <2>2, <3>1, <3>2, <3>3
  <2>4. \A i \in DOMAIN longer : longer[i].id \in 1..MaxSymlinks /\ longer[i].id <= id
    BY <1>1, <1>2, <1>4, <2>1, <2>2 DEF id
  <2>5. more = {longer[i].id : i \in DOMAIN longer}
    <3>1. w.bodies = {s[i].id : i \in 1..Len(s)}
      BY <1>4 DEF StackOK, s
    <3>2. \A b \in more : \E i \in DOMAIN longer : b = longer[i].id
      <4>1. Len(s) + 1 \in 1..(Len(s) + 1) /\ \A i \in 1..Len(s) : i \in 1..(Len(s) + 1)
        BY <1>4
      <4> QED
        BY <1>2, <1>4, <3>1, <4>1 DEF more
    <3>3. \A i \in DOMAIN longer : longer[i].id \in more
      BY <1>2, <1>4, <2>2, <3>1 DEF more
    <3> QED
      BY <3>2, <3>3
  <2> QED
    BY <1>8, <2>3, <2>4, <2>5 DEF StackOK
<1> QED
  BY <1>8, <1>9, <1>10 DEF id, more, longer, e, s

-----------------------------------------------------------------------------
(* A component has been decided and is stepped into.                       *)

\* A directory the walk stands in is below the start of a scoped lookup.
Below(w) == w.call.beneath /\ w.path \in Dirs => w.path \in UnderCwd

\* Within a component, when the link that ends with it may have been put.
Landed(w) ==
    /\ w.pc \in InComponent /\ ~w.created /\ w.err = "ok"
    /\ RefOK(w) /\ StackOK(w) /\ Below(w)
    /\ w.call.beneath => w.root = Cwd
    /\ ~w.trailing => w.text.comps # <<>> /\ Around(w)

\* With no link to put, a walk within a component is one behind it.
LEMMA InComponentLanded ==
    ASSUME NEW w \in Walks, WalkOK(w), w.pc \in InComponent
    PROVE  Landed(w)
  BY DEF WalkOK, Landed, Below, NestOK, DecideOK, PlaceOK, InComponent, Reading

\* An attempt that ends keeps what terminate_walk gives back.
LEMMA FailOK ==
    ASSUME NEW w \in Walks, RefOK(w), StackOK(w), Below(w), NEW e \in Errors,
           w.created => w.decision.act = "pass" /\ e # "EOPNOTSUPP"
    PROVE  Fail(w, e) \in Walks /\ WalkOK(Fail(w, e)) /\ Fail(w, e).pc = "end"
<1> DEFINE v == Fail(w, e)
<1>1. Differs(v, w, {"pc", "err"}) /\ v.pc = "end" /\ v.err = e
  BY FailEffect
<1> HIDE DEF v
<1>2. /\ v \in Walks /\ v.call = w.call /\ v.path = w.path /\ v.root = w.root /\ v.rcu = w.rcu
      /\ v.grabbed = w.grabbed /\ v.refs = w.refs /\ v.stack = w.stack /\ v.bodies = w.bodies
      /\ v.links = w.links /\ v.created = w.created /\ v.decision = w.decision
  BY <1>1 DEF Differs, Fields
<1>3. RefOK(v)
  BY <1>2 DEF RefOK, Held
<1>4. StackOK(v)
  BY <1>1, <1>2 DEF StackOK
<1>5. NestOK(v) /\ DecideOK(v) /\ PlaceOK(v)
  BY <1>1, <1>2 DEF NestOK, DecideOK, PlaceOK, Below, Reading, InComponent
<1> QED
  BY <1>1, <1>2, <1>3, <1>4, <1>5 DEF WalkOK, v

\* step_into's end: the next component, the caller, or ENOTDIR.
LEMMA SteppedOK ==
    ASSUME NEW w \in Walks, Landed(w), NEW v, v = Stepped(w)
    PROVE  v \in Walks /\ WalkOK(v) /\ v.pc \notin InComponent /\ v.created = w.created
<1>1. /\ Differs(v, w, {"pc", "err"})
      /\ \/ w.trailing /\ v.pc = "complete" /\ v.err = w.err
         \/ ~w.trailing /\ w.path \in Dirs /\ v.pc = "walk" /\ v.err = w.err
         \/ ~w.trailing /\ v.pc = "fail" /\ v.err = "ENOTDIR"
  <2>1. CASE w.trailing
    BY <2>1 DEF Stepped, Walks, Differs, Fields, Steps
  <2>2. CASE ~w.trailing /\ w.path \in Dirs
    BY <2>2 DEF Stepped, Walks, Differs, Fields, Steps
  <2>3. CASE ~w.trailing /\ w.path \notin Dirs
    BY <2>3 DEF Stepped, Walks, Differs, Fields, Steps, Errors
  <2> QED
    BY <2>1, <2>2, <2>3
<1>2. /\ v \in Walks /\ v.call = w.call /\ v.path = w.path /\ v.root = w.root /\ v.rcu = w.rcu
      /\ v.grabbed = w.grabbed /\ v.refs = w.refs /\ v.stack = w.stack /\ v.bodies = w.bodies
      /\ v.links = w.links /\ v.created = w.created /\ v.decision = w.decision
      /\ v.names = w.names /\ v.text = w.text /\ v.trailing = w.trailing
  BY <1>1 DEF Differs, Fields
<1>3. RefOK(v)
  BY <1>2 DEF RefOK, Held, Landed
<1>4. StackOK(v)
  BY <1>1, <1>2 DEF StackOK, Landed, InComponent
<1>5. NestOK(v)
  BY <1>1, <1>2 DEF NestOK, Landed, Around, Reading, InComponent
<1>6. DecideOK(v) /\ PlaceOK(v)
  BY <1>1, <1>2 DEF Landed, DecideOK, PlaceOK, Below, Reading, InComponent
<1> QED
  BY <1>1, <1>2, <1>3, <1>4, <1>5, <1>6 DEF WalkOK, InComponent

\* The link that ends with the component is put, and no text that is still read.
LEMMA PutFinishedLinkOK ==
    ASSUME NEW w \in Walks, WalkOK(w), w.pc \in InComponent, NEW v, v = PutFinishedLink(w)
    PROVE  Differs(v, w, {"stack", "bodies", "refs"}) /\ Landed(v)
<1>1. Landed(w)
  BY InComponentLanded
<1>2. CASE ~(w.stack # <<>> /\ ~w.more)
  BY <1>1, <1>2 DEF PutFinishedLink, Differs
<1>3. CASE w.stack # <<>> /\ ~w.more
  <2> DEFINE top == w.stack[Len(w.stack)]
  <2>1. v = PutLink(w) /\ w.pc # "end" /\ RefOK(w) /\ StackOK(w)
    BY <1>1, <1>3 DEF PutFinishedLink, Landed, InComponent
  <2>2. /\ Differs(v, w, {"stack", "bodies", "refs"})
        /\ v.stack = SubSeq(w.stack, 1, Len(w.stack) - 1) /\ v.bodies = w.bodies \ {top.id}
        /\ RefOK(v) /\ StackOK(v)
    BY <1>3, <2>1, PutLinkEffect
  <2>3. /\ v.pc = w.pc /\ v.created = w.created /\ v.err = w.err /\ v.call = w.call /\ v.path = w.path
        /\ v.root = w.root /\ v.trailing = w.trailing /\ v.text = w.text /\ v.names = w.names
    BY <2>2 DEF Differs, Fields
  <2>4. ~w.trailing => /\ Around(w) /\ w.text.comps # <<>>
                       /\ Len(w.names) < Len(w.stack) /\ w.text.src < top.id
    BY <1>1, <1>3 DEF WalkOK, NestOK, Landed, Reading
  <2>5. /\ Len(v.stack) = Len(w.stack) - 1 /\ Len(w.stack) \in Nat /\ Len(w.names) \in Nat
        /\ w.text.src \in Nat /\ top.id \in Nat
        /\ \A i \in DOMAIN w.names : w.names[i].src \in Nat
    <3>1. w.stack \in Seq(EntryType) /\ w.names \in Seq(TextType) /\ w.text \in TextType
      BY DEF Walks
    <3>2. top \in EntryType /\ Len(v.stack) = Len(w.stack) - 1 /\ Len(w.stack) \in Nat
      BY <1>3, <2>2, <3>1
    <3>3. Len(w.names) \in Nat /\ \A i \in DOMAIN w.names : w.names[i] \in TextType
      BY <3>1
    <3> QED
      BY <3>1, <3>2, <3>3 DEF EntryType, TextType
  <2> HIDE DEF top
  <2>6. ~w.trailing => Around(v)
    <3> SUFFICES ASSUME ~w.trailing PROVE Around(v)
      OBVIOUS
    <3>1. Len(v.names) <= Len(v.stack)
      BY <2>3, <2>4, <2>5
    <3>2. w.text.src # top.id /\ \A i \in DOMAIN w.names : w.names[i].src # top.id
      BY <2>4, <2>5 DEF Around
    <3> QED
      BY <2>2, <2>3, <2>4, <3>1, <3>2 DEF Around
  <2> QED
    BY <1>1, <2>2, <2>3, <2>4, <2>6 DEF Landed, Below
<1> QED
  BY <1>2, <1>3

\* pick_link: the walk goes on in the body of the link, at the limit it ends.
LEMMA PickLinkOK ==
    ASSUME NEW w \in Walks, Landed(w), w.path \in Dirs, NEW l \in Links, NEW v, v = PickLink(w, l)
    PROVE  v \in Walks /\ WalkOK(v) /\ v.pc \notin InComponent
<1> DEFINE id == w.links + 1
           b == Body[l]
           pushed == RefTake([w EXCEPT !.links = w.links + 1, !.bodies = @ \cup {w.links + 1},
                                       !.stack = Append(@, [link |-> l, id |-> w.links + 1])], <<l>>)
           jumped == IF b.abs THEN JumpRoot(pushed) ELSE pushed
           into == [jumped EXCEPT !.pc = "walk", !.text = Text(b, id),
                                  !.names = IF w.trailing THEN <<>> ELSE Append(@, w.text)]
<1>1. /\ LinkLimit(w) => v = Fail([w EXCEPT !.links = id], "ELOOP")
      /\ ~LinkLimit(w) /\ jumped.pc = "end" => v = jumped
      /\ ~LinkLimit(w) /\ jumped.pc # "end" /\ b.comps = <<>> => v = Stepped(PutLink(jumped))
      /\ ~LinkLimit(w) /\ jumped.pc # "end" /\ b.comps # <<>> => v = into
  BY Zenon DEF PickLink
<1>2. /\ b \in Pathname /\ w.links \in Nat /\ MaxSymlinks \in Nat /\ id \in Nat
      /\ (~LinkLimit(w) => w.links < MaxSymlinks)
      /\ w.pc # "end" /\ RefOK(w) /\ StackOK(w)
  BY OpenConstants DEF Walks, LinkLimit, Landed, InComponent
<1>3. CASE LinkLimit(w)
  <2> DEFINE u == [w EXCEPT !.links = id]
  <2> HIDE DEF id
  <2>1. Differs(u, w, {"links"}) /\ u.links = id
    BY <1>2 DEF Walks, Differs, Fields
  <2> HIDE DEF u
  <2>2. /\ u \in Walks /\ u.call = w.call /\ u.path = w.path /\ u.root = w.root /\ u.rcu = w.rcu
        /\ u.grabbed = w.grabbed /\ u.refs = w.refs /\ u.stack = w.stack /\ u.bodies = w.bodies
        /\ u.pc = w.pc /\ u.created = w.created
    BY <2>1 DEF Differs, Fields
  <2>3. RefOK(u) /\ Below(u) /\ ~u.created
    BY <2>2 DEF RefOK, Held, Below, Landed
  <2>4. StackOK(u)
    <3>1. \A i \in DOMAIN w.stack : w.stack[i].id <= w.links /\ w.stack[i].id \in Nat
      BY <1>2 DEF StackOK
    <3>2. \A i \in DOMAIN w.stack : w.stack[i].id <= id
      BY <1>2, <3>1 DEF id
    <3> QED
      BY <1>2, <2>1, <2>2, <3>2 DEF StackOK
  <2>5. Fail(u, "ELOOP") \in Walks /\ WalkOK(Fail(u, "ELOOP")) /\ Fail(u, "ELOOP").pc = "end"
    BY <2>2, <2>3, <2>4, FailOK DEF Errors
  <2> QED
    BY <1>1, <1>3, <2>5 DEF u, InComponent
<1>4. CASE ~LinkLimit(w)
  <2>1. /\ Differs(pushed, w, {"links", "bodies", "stack", "refs"})
        /\ pushed.links = id /\ pushed.bodies = w.bodies \cup {id}
        /\ pushed.stack = Append(w.stack, [link |-> l, id |-> id])
        /\ RefOK(pushed) /\ StackOK(pushed)
    BY <1>2, <1>4, PushEffect
  <2> DEFINE e == [link |-> l, id |-> id]
  <2>2. e \in EntryType /\ e.id = id
    BY <1>2 DEF EntryType, Objects
  <2> HIDE DEF pushed, id, e
  <2>3. /\ pushed \in Walks /\ pushed.call = w.call /\ pushed.path = w.path /\ pushed.root = w.root
        /\ pushed.pc = w.pc /\ pushed.created = w.created /\ pushed.err = w.err
        /\ pushed.trailing = w.trailing /\ pushed.text = w.text /\ pushed.names = w.names
    BY <2>1 DEF Differs, Fields
  <2>4. CASE b.abs /\ w.call.beneath
    <3>1. jumped = Fail(pushed, "EXDEV")
      BY <2>1, <2>3, <2>4, JumpRootEffect
    <3>2. Below(pushed) /\ ~pushed.created
      BY <2>3 DEF Landed, Below
    <3>3. jumped \in Walks /\ WalkOK(jumped) /\ jumped.pc = "end"
      BY <2>1, <2>3, <3>1, <3>2, FailOK DEF Errors
    <3> HIDE DEF jumped
    <3> QED
      BY <1>1, <1>4, <3>3 DEF InComponent
  <2>5. CASE ~(b.abs /\ w.call.beneath)
    <3>1. /\ Differs(jumped, pushed, {"root", "grabbed", "refs", "path", "jumped"})
          /\ jumped.path \in Dirs /\ RefOK(jumped)
          /\ w.call.beneath => jumped.path = w.path /\ jumped.root = w.root
      <4>1. CASE b.abs
        BY <2>1, <2>3, <2>5, <4>1, JumpRootEffect
      <4>2. CASE ~b.abs
        BY <2>1, <2>3, <4>2 DEF Differs
      <4> QED
        BY <4>1, <4>2
    <3> HIDE DEF jumped
    <3>2. /\ jumped \in Walks /\ jumped.call = w.call /\ jumped.pc = w.pc /\ jumped.created = w.created
          /\ jumped.err = w.err /\ jumped.trailing = w.trailing /\ jumped.text = w.text
          /\ jumped.names = w.names /\ jumped.stack = pushed.stack /\ jumped.bodies = pushed.bodies
          /\ jumped.links = id
      BY <2>1, <2>3, <3>1 DEF Differs, Fields
    <3>3. StackOK(jumped) /\ jumped.pc # "end" /\ Below(jumped)
      BY <1>2, <2>1, <2>3, <3>1, <3>2 DEF StackOK, Below, Landed
    <3>4. /\ Len(w.stack) \in Nat /\ jumped.stack # <<>> /\ Len(jumped.stack) = Len(w.stack) + 1
          /\ jumped.stack[Len(jumped.stack)] = e
          /\ SubSeq(jumped.stack, 1, Len(jumped.stack) - 1) = w.stack
      <4>1. w.stack \in Seq(EntryType) /\ jumped.stack = Append(w.stack, e)
        BY <2>1, <3>2 DEF Walks, e
      <4>2. /\ Len(w.stack) \in Nat /\ Append(w.stack, e) # <<>> /\ Len(Append(w.stack, e)) = Len(w.stack) + 1
            /\ Append(w.stack, e)[Len(w.stack) + 1] = e
            /\ SubSeq(Append(w.stack, e), 1, Len(w.stack)) = w.stack
        BY <2>2, <4>1
      <4> QED
        BY <4>1, <4>2
    <3>5. /\ \A x \in w.bodies : x < id /\ x \in Nat
          /\ id \notin w.bodies /\ jumped.bodies = w.bodies \cup {id} /\ 0 < id
      <4>1. \A i \in DOMAIN w.stack : w.stack[i].id <= w.links /\ w.stack[i].id \in Nat
        BY <1>2 DEF StackOK
      <4>2. \A x \in w.bodies : \E i \in DOMAIN w.stack : x = w.stack[i].id
        BY <1>2 DEF StackOK
      <4>3. w.links \in Nat /\ id = w.links + 1
        BY <1>2 DEF id, Walks
      <4>4. \A x \in w.bodies : x <= w.links /\ x \in Nat
        BY <4>1, <4>2
      <4>5. \A x \in w.bodies : x < id /\ x \in Nat
        BY <4>3, <4>4
      <4>6. id \notin w.bodies /\ 0 < id
        BY <4>3, <4>5
      <4> QED
        BY <2>1, <3>2, <4>5, <4>6
    <3>6. CASE b.comps = <<>>
      <4> DEFINE put == PutLink(jumped)
      <4>1. /\ Differs(put, jumped, {"stack", "bodies", "refs"}) /\ RefOK(put) /\ StackOK(put)
            /\ put.stack = w.stack /\ put.bodies = w.bodies
        <5>1. /\ Differs(put, jumped, {"stack", "bodies", "refs"})
              /\ put.stack = SubSeq(jumped.stack, 1, Len(jumped.stack) - 1)
              /\ put.bodies = jumped.bodies \ {jumped.stack[Len(jumped.stack)].id}
              /\ RefOK(put) /\ StackOK(put)
          BY <3>1, <3>2, <3>3, <3>4, PutLinkEffect
        <5> QED
          BY <2>2, <3>4, <3>5, <5>1
      <4> HIDE DEF put
      <4>2. /\ put \in Walks /\ put.call = w.call /\ put.pc = w.pc /\ put.created = w.created
            /\ put.err = w.err /\ put.trailing = w.trailing /\ put.text = w.text
            /\ put.names = w.names /\ put.root = jumped.root /\ put.path = jumped.path
        BY <3>2, <4>1 DEF Differs, Fields
      <4>3. Landed(put)
        BY <3>1, <3>3, <4>1, <4>2 DEF Landed, Below, Around
      <4>4. v = Stepped(put)
        BY <1>1, <1>4, <3>3, <3>6 DEF put
      <4> QED
        BY <4>2, <4>3, <4>4, SteppedOK
    <3>7. CASE b.comps # <<>>
      <4> DEFINE t == Text(b, id)
                 ns == IF w.trailing THEN <<>> ELSE Append(w.names, w.text)
      <4>1. t \in TextType /\ t.comps = b.comps /\ t.src = id
        BY <1>2 DEF Text, TextType, Pathname, id
      <4>2. /\ ns \in Seq(TextType) /\ w.names \in Seq(TextType) /\ w.text \in TextType
            /\ w.trailing \in BOOLEAN
        BY DEF Walks
      <4>3. v = [jumped EXCEPT !.pc = "walk", !.text = t, !.names = ns]
        BY <1>1, <1>4, <3>2, <3>3, <3>7
      <4> HIDE DEF t, ns
      <4>4. /\ Differs(v, jumped, {"pc", "text", "names"})
            /\ v.pc = "walk" /\ v.text = t /\ v.names = ns
        BY <3>2, <4>1, <4>2, <4>3 DEF Walks, Differs, Fields, Steps
      <4>5. /\ v \in Walks /\ v.call = jumped.call /\ v.path = jumped.path /\ v.root = jumped.root
            /\ v.rcu = jumped.rcu /\ v.grabbed = jumped.grabbed /\ v.refs = jumped.refs
            /\ v.stack = jumped.stack /\ v.bodies = jumped.bodies /\ v.links = jumped.links
            /\ v.created = jumped.created /\ v.err = jumped.err
        BY <4>4 DEF Differs, Fields
      <4>6. RefOK(v) /\ StackOK(v)
        BY <3>1, <3>3, <4>4, <4>5 DEF RefOK, Held, StackOK
      <4>7. Around(v)
        <5>1. CASE w.trailing
          BY <1>2, <3>4, <3>5, <4>1, <4>4, <4>5, <5>1 DEF Around, ns
        <5>2. CASE ~w.trailing
          <6>1. /\ Len(ns) = Len(w.names) + 1 /\ Len(w.names) \in Nat /\ ns[Len(w.names) + 1] = w.text
                /\ DOMAIN ns = 1..(Len(w.names) + 1) /\ DOMAIN w.names = 1..Len(w.names)
                /\ \A i \in 1..Len(w.names) : ns[i] = w.names[i]
            BY <4>2, <5>2 DEF ns
          <6>2. Around(w) /\ w.text.comps # <<>>
            BY <5>2 DEF Landed
          <6>3. Len(v.names) <= Len(v.stack)
            BY <3>4, <4>4, <4>5, <6>1, <6>2 DEF Around
          <6>4. \A i \in 1..(Len(w.names) + 1) : i = Len(w.names) + 1 \/ i \in 1..Len(w.names)
            BY <6>1
          <6>5. \A i \in DOMAIN ns : /\ ns[i].src \in w.bodies \cup {0}
                                     /\ ns[i].comps # <<>>
            BY <6>1, <6>2, <6>4 DEF Around
          <6>6. \A x \in w.bodies \cup {0} : x < id
            BY <3>5
          <6>7. \A i, j \in DOMAIN ns : i < j => ns[i].src < ns[j].src
            <7>1. \A i, j \in 1..Len(w.names) : i < j => w.names[i].src < w.names[j].src
              BY <6>1, <6>2 DEF Around
            <7>2. \A i \in 1..Len(w.names) : w.names[i].src < w.text.src
              BY <6>1, <6>2 DEF Around
            <7>3. \A i, j \in 1..(Len(w.names) + 1) : i < j => i \in 1..Len(w.names)
              BY <6>1
            <7> QED
              BY <6>1, <6>4, <7>1, <7>2, <7>3
          <6> QED
            BY <3>5, <4>1, <4>4, <4>5, <6>3, <6>5, <6>6, <6>7 DEF Around
        <5> QED
          BY <5>1, <5>2
      <4>8. NestOK(v)
        BY <3>7, <4>1, <4>4, <4>7 DEF NestOK, InComponent
      <4>9. DecideOK(v) /\ PlaceOK(v)
        BY <3>1, <3>2, <3>3, <4>4, <4>5 DEF DecideOK, PlaceOK, Below, Landed, Reading, InComponent
      <4> QED
        BY <4>4, <4>5, <4>6, <4>8, <4>9 DEF WalkOK, InComponent
    <3> QED
      BY <3>6, <3>7
  <2> QED
    BY <2>4, <2>5
<1> QED
  BY <1>3, <1>4

\* step_into, for whatever the lookup found in the directory.
LEMMA StepIntoOK ==
    ASSUME NEW w \in Walks, Landed(w), w.path \in Dirs, NEW o \in Objects \cup {Nil},
           w.call.beneath /\ o \in Dirs => o \in UnderCwd, NEW v, v = StepInto(w, o)
    PROVE  v \in Walks /\ WalkOK(v) /\ v.pc \notin InComponent
<1>1. CASE o = Nil
  <2>1. v = Fail(w, "ENOENT")
    BY <1>1, OpenConstants DEF StepInto, Objects
  <2> QED
    BY <2>1, FailOK DEF Landed, Errors, InComponent
<1>2. CASE o # Nil /\ o \in Links /\ (~w.trailing \/ w.follow)
  <2>1. v = PickLink(w, o)
    BY <1>2 DEF StepInto
  <2> QED
    BY <1>2, <2>1, PickLinkOK
<1>3. CASE o # Nil /\ ~(o \in Links /\ (~w.trailing \/ w.follow))
  <2> DEFINE u == [w EXCEPT !.path = o]
             m == RefTake(RefPut(u, <<w.path>>), <<o>>)
  <2>1. v = Stepped(m)
    BY <1>3 DEF StepInto
  <2>2. Differs(u, w, {"path"}) /\ u.path = o
    BY DEF Walks, Differs, Fields
  <2> HIDE DEF u
  <2>3. Differs(m, u, {"refs"}) /\ RefOK(m)
    <3>1. Differs(u, w, {"path", "jumped", "created", "pc"}) /\ m = RefTake(RefPut(u, <<w.path>>), <<u.path>>)
      BY <2>2 DEF Differs
    <3> QED
      BY <3>1, MoveEffect DEF Landed
  <2> HIDE DEF m
  <2>4. /\ m \in Walks /\ m.pc = w.pc /\ m.created = w.created /\ m.err = w.err /\ m.call = w.call
        /\ m.path = o /\ m.root = w.root /\ m.stack = w.stack /\ m.bodies = w.bodies
        /\ m.links = w.links /\ m.trailing = w.trailing /\ m.text = w.text /\ m.names = w.names
    BY <2>2, <2>3 DEF Differs, Fields
  <2>5. Landed(m)
    BY <2>3, <2>4 DEF Landed, Below, Around, StackOK
  <2> QED
    BY <2>1, <2>4, <2>5, SteppedOK
<1> QED
  BY <1>1, <1>2, <1>3

\* Where path_is_under holds: at the start, in the children of such a directory, and in
\* the parent of one that is not the start.
LEMMA UnderCwdFacts ==
    /\ Cwd \in UnderCwd /\ UnderCwd \subseteq Dirs
    /\ \A e \in Dirs \ {Root} : ParentOf[e] \in UnderCwd => e \in UnderCwd
    /\ \A d \in UnderCwd \ {Cwd} : ParentOf[d] \in UnderCwd
<1> DEFINE Closed(S) == Cwd \in S /\ \A e \in Dirs \ {Root} : ParentOf[e] \in S => e \in S
<1>1. Cwd \in UnderCwd /\ UnderCwd \subseteq Dirs
  BY OpenConstants DEF UnderCwd
<1>2. ASSUME NEW e \in Dirs \ {Root}, ParentOf[e] \in UnderCwd PROVE e \in UnderCwd
  <2> SUFFICES ASSUME NEW S \in SUBSET Dirs, Closed(S) PROVE e \in S
    BY DEF UnderCwd
  <2>1. ParentOf[e] \in S
    BY <1>2 DEF UnderCwd
  <2> QED
    BY <2>1
<1>3. ASSUME NEW d \in UnderCwd \ {Cwd} PROVE ParentOf[d] \in UnderCwd
  <2> DEFINE S == UnderCwd \ {d}
  <2> SUFFICES ASSUME ParentOf[d] \notin UnderCwd PROVE FALSE
    OBVIOUS
  <2>1. S \in SUBSET Dirs /\ Cwd \in S
    BY <1>1, <1>3
  <2>2. \A e \in Dirs \ {Root} : ParentOf[e] \in S => e \in S
    BY <1>2
  <2> HIDE DEF S
  <2>3. d \in S
    BY <1>3, <2>1, <2>2 DEF UnderCwd
  <2> QED
    BY <2>3 DEF S
<1> QED
  BY <1>1, <1>2, <1>3

-----------------------------------------------------------------------------
(* The actions that move no pointer.                                       *)

Soft == {"pc", "attempt", "text", "names", "last", "trailing", "more", "directory", "follow",
         "intent", "jumped", "decision", "created", "err", "quiet"}

\* Neither references nor the stack are touched.
LEMMA SoftStep ==
    ASSUME NEW w \in Walks, NEW v, Differs(v, w, Soft), RefOK(w), StackOK(w),
           v.pc = "end" \/ w.pc # "end"
    PROVE  /\ v \in Walks /\ RefOK(v) /\ StackOK(v)
           /\ v.call = w.call /\ v.path = w.path /\ v.root = w.root /\ v.rcu = w.rcu
           /\ v.stack = w.stack /\ v.bodies = w.bodies
<1>1. /\ v \in Walks /\ v.call = w.call /\ v.path = w.path /\ v.root = w.root /\ v.rcu = w.rcu
      /\ v.grabbed = w.grabbed /\ v.refs = w.refs /\ v.stack = w.stack /\ v.bodies = w.bodies
      /\ v.links = w.links
  BY DEF Differs, Fields, Soft
<1>2. RefOK(v) /\ StackOK(v)
  BY <1>1 DEF RefOK, Held, StackOK
<1> QED
  BY <1>1, <1>2

\* What a walk that may still fail brings to FailOK.
LEMMA WalkAlive ==
    ASSUME NEW w \in Walks, WalkOK(w)
    PROVE  /\ RefOK(w) /\ StackOK(w) /\ Below(w)
           /\ w.pc \in Reading \cup {"fail"} => ~w.created
           /\ w.pc \in Reading => w.err = "ok" /\ w.path \in Dirs
           /\ w.created => w.decision.act = "pass"
  BY DEF WalkOK, Below, DecideOK, PlaceOK, Reading, InComponent

\* What an action of the walk does to the invariant.
Kept == nd' \in Walks /\ WalkOK(nd')

\* A moved sequence counter: nothing was taken, nothing is left.
LEMMA RcuFailsOK == ASSUME nd \in Walks, WalkOK(nd), RcuFails PROVE Kept
<1>1. nd' = Fail(nd, "ECHILD") /\ nd.pc \in InComponent
  BY DEF RcuFails, Walk, LookupFast, InComponent
<1> QED
  BY <1>1, WalkAlive, FailOK DEF Kept, Errors, Reading

\* O_CREAT of a name with a slash.
LEMMA OpenSlashOK == ASSUME nd \in Walks, WalkOK(nd), OpenSlash PROVE Kept
<1>1. nd' = Fail(nd, "EISDIR") /\ nd.pc \in InComponent
  BY DEF OpenSlash, Walk, InComponent
<1> QED
  BY <1>1, WalkAlive, FailOK DEF Kept, Errors, Reading

\* LastComponent changes flags and the step only.
LEMMA FlagsEffect ==
    ASSUME NEW w \in Walks, NEW dir \in BOOLEAN, NEW fol \in BOOLEAN, NEW asked \in BOOLEAN
    PROVE  Differs([w EXCEPT !.directory = dir, !.follow = fol, !.intent = asked], w,
                   {"directory", "follow", "intent"})
<1> DEFINE v == [w EXCEPT !.directory = dir, !.follow = fol, !.intent = asked]
<1>1. v \in Walks
  BY DEF Walks
<1>2. \A f \in Fields \ {"directory", "follow", "intent"} : v[f] = w[f]
  BY DEF Walks, Fields
<1> QED
  BY <1>1, <1>2 DEF Differs

\* The last component keeps the texts behind it empty.
LEMMA LastComponentOK == ASSUME nd \in Walks, WalkOK(nd), LastComponent PROVE Kept
<1> DEFINE slash == nd.call.kind = "lookup" /\ nd.last.slash /\ nd.last.name # ".."
           dir == nd.directory \/ slash
           fol == nd.follow \/ slash
           asked == nd.call.kind = "open"
           v == [nd EXCEPT !.pc = "decide", !.trailing = TRUE, !.more = FALSE,
                           !.directory = dir, !.follow = fol, !.intent = asked]
<1>0. dir \in BOOLEAN /\ fol \in BOOLEAN /\ asked \in BOOLEAN
  OBVIOUS
<1>1. nd' = v /\ nd.pc = "last"
  BY Zenon DEF LastComponent, Walk
<1>2. asked <=> nd.call.kind = "open"
  OBVIOUS
<1> HIDE DEF dir, fol, asked
<1>3. /\ Differs(v, nd, {"pc", "trailing", "more", "directory", "follow", "intent"})
      /\ v.pc = "decide" /\ v.trailing /\ ~v.more /\ v.intent = asked
  <2>1. Differs(v, nd, {"pc", "trailing", "more", "directory", "follow", "intent"})
    <3> DEFINE u == [nd EXCEPT !.pc = "decide", !.trailing = TRUE, !.more = FALSE]
    <3>1. Differs(u, nd, {"pc", "trailing", "more"})
      BY DEF Walks, Differs, Fields, Steps
    <3>2. v = [u EXCEPT !.directory = dir, !.follow = fol, !.intent = asked]
      BY Zenon
    <3> HIDE DEF u, v
    <3>3. u \in Walks
      BY <3>1 DEF Differs
    <3>4. Differs(v, u, {"directory", "follow", "intent"})
      BY <1>0, <3>2, <3>3, FlagsEffect
    <3> QED
      BY <3>1, <3>4 DEF Differs, Fields
  <2>2. v.pc = "decide" /\ v.trailing /\ ~v.more
    BY DEF Walks
  <2>3. v.intent = asked
    BY DEF Walks
  <2> QED
    BY <2>1, <2>2, <2>3
<1> HIDE DEF v
<1>4. /\ v \in Walks /\ RefOK(v) /\ StackOK(v) /\ v.call = nd.call /\ v.path = nd.path /\ v.root = nd.root
      /\ v.stack = nd.stack /\ v.bodies = nd.bodies
  <2>1. Differs(v, nd, Soft)
    BY <1>3 DEF Differs, Soft
  <2> QED
    BY <1>1, <2>1, SoftStep, WalkAlive
<1>5. /\ v.text = nd.text /\ v.names = nd.names /\ v.last = nd.last /\ v.created = nd.created /\ v.err = nd.err
  BY <1>3 DEF Differs, Fields
<1>6. NestOK(v)
  BY <1>1, <1>3, <1>4, <1>5 DEF WalkOK, NestOK, Around, Reading, InComponent
<1>7. DecideOK(v) /\ PlaceOK(v)
  <2>1. v.intent <=> v.call.kind = "open"
    BY <1>1, <1>2, <1>3, <1>4
  <2> QED
    BY <1>1, <1>3, <1>4, <1>5, <2>1 DEF WalkOK, DecideOK, PlaceOK, Reading, InComponent
<1> QED
  BY <1>1, <1>4, <1>6, <1>7 DEF Kept, WalkOK

\* An error of the policy in ref-walk.
LEMMA FailRefOK == ASSUME nd \in Walks, WalkOK(nd), FailRef PROVE Kept
<1> DEFINE v == [nd EXCEPT !.pc = "end"]
<1>1. nd' = v /\ nd.pc = "fail"
  BY DEF FailRef, Walk
<1>2. Differs(v, nd, {"pc"}) /\ v.pc = "end"
  BY DEF Walks, Differs, Fields, Steps
<1> HIDE DEF v
<1>3. /\ v \in Walks /\ RefOK(v) /\ StackOK(v) /\ v.call = nd.call /\ v.path = nd.path
      /\ v.created = nd.created
  <2>1. Differs(v, nd, Soft)
    BY <1>2 DEF Differs, Soft
  <2> QED
    BY <1>1, <1>2, <2>1, SoftStep, WalkAlive DEF Differs, Fields
<1>4. NestOK(v) /\ DecideOK(v) /\ PlaceOK(v)
  BY <1>1, <1>2, <1>3, WalkAlive DEF NestOK, DecideOK, PlaceOK, Below, Reading, InComponent
<1> QED
  BY <1>1, <1>3, <1>4 DEF Kept, WalkOK

\* What the policy answers is a decision, and an error one that a call may return.
LEMMA DecisionType ==
    ASSUME TreeOK, nd \in Walks, nd.last.name \in Names
    PROVE  /\ DecisionFor(nd) \in Decision
           /\ DecisionFor(nd).act \in {"pass", "hide", "invalid", "redirect", "select"}
           /\ PolicyError(nd, DecisionFor(nd)) \in Errors
<1>1. policy \in [Names -> Decision]
  BY OpenConstants DEF TreeOK
<1>2. DecisionFor(nd) \in Decision
  <2>1. policy[nd.last.name] \in Decision
    BY <1>1
  <2>2. [act |-> "pass", to |-> Nil] \in Decision
    BY DEF Decision
  <2> QED
    BY <2>1, <2>2 DEF DecisionFor
<1>3. DecisionFor(nd).act \in {"pass", "hide", "invalid", "redirect", "select"}
  BY <1>2 DEF Decision
<1>4. PolicyError(nd, DecisionFor(nd)) \in Errors
  <2> DEFINE d == DecisionFor(nd)
  <2>1. d.act \in {"pass", "hide", "invalid", "redirect", "select"}
    BY <1>3
  <2> HIDE DEF d
  <2>2. PolicyError(nd, d) \in {"ENOENT", "EINVAL", "EOPNOTSUPP", "ok"}
    BY <2>1 DEF PolicyError
  <2> QED
    BY <2>2 DEF Errors, d
<1> QED
  BY <1>2, <1>3, <1>4

\* The policy refuses a component.
LEMMA PolicyFailsOK == ASSUME TreeOK, nd \in Walks, WalkOK(nd), PolicyFails PROVE Kept
<1> DEFINE d == DecisionFor(nd)
           e == PolicyError(nd, d)
           v == [nd EXCEPT !.decision = d, !.pc = "fail", !.err = e]
<1>1. nd' = v /\ nd.pc = "decide" /\ d \in Decision /\ e \in Errors
  BY DecisionType DEF PolicyFails, Walk, Deciding
<1> HIDE DEF d, e
<1>2. Differs(v, nd, {"decision", "pc", "err"}) /\ v.pc = "fail"
  BY <1>1 DEF Walks, Differs, Fields, Steps
<1> HIDE DEF v
<1>3. /\ v \in Walks /\ RefOK(v) /\ StackOK(v) /\ v.call = nd.call /\ v.path = nd.path
      /\ v.root = nd.root /\ v.created = nd.created
  <2>1. Differs(v, nd, Soft)
    BY <1>2 DEF Differs, Soft
  <2> QED
    BY <1>1, <1>2, <2>1, SoftStep, WalkAlive DEF Differs, Fields
<1>4. NestOK(v) /\ DecideOK(v)
  BY <1>1, <1>2, <1>3, WalkAlive DEF NestOK, DecideOK, Reading, InComponent
<1>5. PlaceOK(v)
  BY <1>1, <1>2, <1>3 DEF WalkOK, PlaceOK, Reading, InComponent
<1> QED
  BY <1>1, <1>3, <1>4, <1>5 DEF Kept, WalkOK

\* The policy passes or redirects a component; it redirects none to create.
LEMMA DecideOKStep == ASSUME TreeOK, nd \in Walks, WalkOK(nd), Decide PROVE Kept
<1> DEFINE d == DecisionFor(nd)
           to == IF d.act = "redirect" THEN "redirect" ELSE "lookup"
           v == [nd EXCEPT !.decision = d, !.pc = to]
<1>1. /\ nd' = v /\ nd.pc = "decide" /\ nd.last.name \in Names
      /\ d \in Decision /\ d.act \in {"pass", "hide", "invalid", "redirect", "select"}
      /\ d.act # "select" /\ PolicyError(nd, d) = "ok"
  BY DecisionType DEF Decide, Walk, Deciding
<1>2. to \in Steps /\ to \in {"redirect", "lookup"} /\ (to = "redirect" => d.act = "redirect")
  BY DEF Steps
<1> HIDE DEF d, to
<1>3. d.act \in {"pass", "redirect"} /\ (Creating(nd) => d.act = "pass")
  BY <1>1 DEF PolicyError
<1>4. Differs(v, nd, {"decision", "pc"}) /\ v.pc = to /\ v.decision = d
  BY <1>1, <1>2 DEF Walks, Differs, Fields
<1> HIDE DEF v
<1>5. /\ v \in Walks /\ RefOK(v) /\ StackOK(v) /\ v.call = nd.call /\ v.path = nd.path
      /\ v.root = nd.root /\ v.stack = nd.stack /\ v.bodies = nd.bodies
  <2>1. Differs(v, nd, Soft)
    BY <1>4 DEF Differs, Soft
  <2> QED
    BY <1>1, <2>1, SoftStep, WalkAlive
<1>6. /\ v.created = nd.created /\ v.err = nd.err /\ v.text = nd.text /\ v.names = nd.names
      /\ v.last = nd.last /\ v.trailing = nd.trailing /\ v.more = nd.more /\ v.intent = nd.intent
  BY <1>4 DEF Differs, Fields
<1>7. NestOK(v)
  BY <1>1, <1>2, <1>4, <1>5, <1>6 DEF WalkOK, NestOK, Around, Reading, InComponent
<1>8. DecideOK(v)
  <2>1. v.trailing /\ v.call.kind = "open" /\ v.call.creat => Creating(nd)
    BY <1>1, <1>5, <1>6 DEF WalkOK, DecideOK, Creating, InComponent
  <2>2. nd.err = "ok" /\ ~nd.created /\ (nd.trailing => (nd.intent <=> nd.call.kind = "open"))
    BY <1>1 DEF WalkOK, DecideOK, Reading, InComponent
  <2> QED
    BY <1>1, <1>2, <1>3, <1>4, <1>5, <1>6, <2>1, <2>2 DEF DecideOK, Reading, InComponent
<1>9. PlaceOK(v)
  BY <1>1, <1>2, <1>4, <1>5 DEF WalkOK, PlaceOK, Reading, InComponent
<1> QED
  BY <1>1, <1>5, <1>7, <1>8, <1>9 DEF Kept, WalkOK

\* The redirected name is in the task's buffer, so no link's body holds it.
LEMMA ApplyRedirectOK == ASSUME nd \in Walks, WalkOK(nd), ApplyRedirect PROVE Kept
<1> DEFINE l == [name |-> nd.decision.to, src |-> 0, slash |-> FALSE]
           v == [nd EXCEPT !.pc = "lookup", !.last = l]
<1>1. nd' = v /\ nd.pc = "redirect"
  BY DEF ApplyRedirect, Walk
<1>2. nd.decision \in Decision /\ nd.decision.act = "redirect"
  BY <1>1 DEF WalkOK, DecideOK
<1>3. nd.decision.to \in Names
  BY <1>2 DEF Decision
<1>4. l \in [name : Names \cup {"..", Nil}, src : Nat, slash : BOOLEAN] /\ l.name \in Names /\ l.src = 0
  BY <1>3
<1> HIDE DEF l
<1>5. Differs(v, nd, {"pc", "last"}) /\ v.pc = "lookup" /\ v.last = l
  BY <1>4 DEF Walks, Differs, Fields, Steps
<1> HIDE DEF v
<1>6. /\ v \in Walks /\ RefOK(v) /\ StackOK(v) /\ v.call = nd.call /\ v.path = nd.path
      /\ v.root = nd.root /\ v.stack = nd.stack /\ v.bodies = nd.bodies
  <2>1. Differs(v, nd, Soft)
    BY <1>5 DEF Differs, Soft
  <2> QED
    BY <1>1, <2>1, SoftStep, WalkAlive
<1>7. /\ v.created = nd.created /\ v.err = nd.err /\ v.text = nd.text /\ v.names = nd.names
      /\ v.decision = nd.decision /\ v.trailing = nd.trailing /\ v.more = nd.more /\ v.intent = nd.intent
  BY <1>5 DEF Differs, Fields
<1>8. NestOK(v)
  BY <1>1, <1>4, <1>5, <1>6, <1>7 DEF WalkOK, NestOK, Around, Reading, InComponent
<1>9. DecideOK(v) /\ PlaceOK(v)
  BY <1>1, <1>4, <1>5, <1>6, <1>7 DEF WalkOK, DecideOK, PlaceOK, Reading, InComponent
<1> QED
  BY <1>1, <1>6, <1>8, <1>9 DEF Kept, WalkOK

\* lookup_fast_for_open changes flags that the invariant does not speak of.
LEMMA OpenFlagsEffect ==
    ASSUME NEW w \in Walks
    PROVE  Differs(OpenFlags(w), w, {"directory", "follow"})
<1> DEFINE dir == w.directory \/ w.last.slash
           fol == w.follow \/ w.last.slash
<1>1. OpenFlags(w) = [w EXCEPT !.directory = dir, !.follow = fol]
  BY Zenon DEF OpenFlags
<1>2. dir \in BOOLEAN /\ fol \in BOOLEAN
  OBVIOUS
<1> HIDE DEF dir, fol
<1> QED
  BY <1>1, <1>2 DEF Walks, Differs, Fields

\* Flags alone keep the invariant.
LEMMA FlagsKept ==
    ASSUME NEW w \in Walks, WalkOK(w), NEW v, Differs(v, w, {"directory", "follow"})
    PROVE  v \in Walks /\ WalkOK(v) /\ v.pc = w.pc
<1>1. /\ v \in Walks /\ RefOK(v) /\ StackOK(v) /\ v.call = w.call /\ v.path = w.path
      /\ v.root = w.root /\ v.stack = w.stack /\ v.bodies = w.bodies /\ v.pc = w.pc
  <2>1. Differs(v, w, Soft) /\ v.pc = w.pc
    BY DEF Differs, Soft, Fields
  <2> QED
    BY <2>1, SoftStep, WalkAlive DEF WalkOK
<1>2. /\ v.created = w.created /\ v.err = w.err /\ v.text = w.text /\ v.names = w.names /\ v.last = w.last
      /\ v.decision = w.decision /\ v.trailing = w.trailing /\ v.more = w.more /\ v.intent = w.intent
  BY DEF Differs, Fields
<1>3. NestOK(v)
  BY <1>1, <1>2 DEF WalkOK, NestOK, Around, Reading, InComponent
<1>4. DecideOK(v) /\ PlaceOK(v)
  BY <1>1, <1>2 DEF WalkOK, DecideOK, PlaceOK, Reading, InComponent
<1> QED
  BY <1>1, <1>3, <1>4 DEF WalkOK

\* The lookup goes on where it may sleep.
LEMMA CacheMissOK == ASSUME nd \in Walks, WalkOK(nd), CacheMiss PROVE Kept
<1> DEFINE w == IF LastOfOpen THEN OpenFlags(nd) ELSE nd
           v == [w EXCEPT !.pc = "slow"]
<1>1. nd' = v /\ nd.pc = "lookup"
  BY DEF CacheMiss, Walk
<1>2. Differs(w, nd, {"directory", "follow"})
  BY OpenFlagsEffect DEF Differs
<1> HIDE DEF w
<1>3. w \in Walks /\ WalkOK(w) /\ w.pc = "lookup"
  BY <1>1, <1>2, FlagsKept
<1>4. Differs(v, w, {"pc"}) /\ v.pc = "slow"
  BY <1>3 DEF Walks, Differs, Fields, Steps
<1> HIDE DEF v
<1>5. /\ v \in Walks /\ RefOK(v) /\ StackOK(v) /\ v.call = w.call /\ v.path = w.path
      /\ v.root = w.root /\ v.stack = w.stack /\ v.bodies = w.bodies
  <2>1. Differs(v, w, Soft)
    BY <1>4 DEF Differs, Soft
  <2> QED
    BY <1>3, <2>1, SoftStep, WalkAlive
<1>6. /\ v.created = w.created /\ v.err = w.err /\ v.text = w.text /\ v.names = w.names /\ v.last = w.last
      /\ v.decision = w.decision /\ v.trailing = w.trailing /\ v.more = w.more /\ v.intent = w.intent
  BY <1>4 DEF Differs, Fields
<1>7. NestOK(v)
  BY <1>3, <1>4, <1>5, <1>6 DEF WalkOK, NestOK, Around, Reading, InComponent
<1>8. DecideOK(v) /\ PlaceOK(v)
  BY <1>3, <1>4, <1>5, <1>6 DEF WalkOK, DecideOK, PlaceOK, Reading, InComponent
<1> QED
  BY <1>1, <1>5, <1>7, <1>8 DEF Kept, WalkOK

\* link_path_walk: the next component, or the text around the link it ends.
LEMMA NextComponentOK == ASSUME nd \in Walks, WalkOK(nd), NextComponent PROVE Kept
<1> DEFINE t == nd.text
           cs == nd.text.comps
           rest == Tail(cs)
           slash == rest # <<>> \/ nd.text.slash
           l == [name |-> Head(cs), src |-> nd.text.src, slash |-> slash]
           j == Head(cs) = ".."
           w == [nd EXCEPT !.last = l, !.jumped = j]
           n == Len(nd.names)
           front == SubSeq(nd.names, 1, n - 1)
           cut == [nd.text EXCEPT !.comps = rest]
           none == [nd.text EXCEPT !.comps = <<>>]
<1>1. nd.pc = "walk"
  BY DEF NextComponent
<1>2. /\ cs = <<>> => nd' = [nd EXCEPT !.last = NoLast, !.pc = "last"]
      /\ cs # <<>> /\ rest # <<>> =>
            nd' = [w EXCEPT !.text = cut, !.pc = "decide", !.more = TRUE, !.trailing = FALSE]
      /\ cs # <<>> /\ rest = <<>> /\ nd.names # <<>> =>
            nd' = [w EXCEPT !.text = nd.names[n], !.names = front,
                            !.pc = "decide", !.more = FALSE, !.trailing = FALSE]
      /\ cs # <<>> /\ rest = <<>> /\ nd.names = <<>> => nd' = [w EXCEPT !.text = none, !.pc = "last"]
  BY Zenon DEF NextComponent, Walk
<1>3. /\ RefOK(nd) /\ StackOK(nd) /\ Around(nd) /\ ~nd.created /\ nd.err = "ok" /\ nd.path \in Dirs
      /\ cs = <<>> => nd.names = <<>>
      /\ nd.call.beneath => nd.root = Cwd /\ nd.path \in UnderCwd
  BY <1>1 DEF WalkOK, NestOK, DecideOK, PlaceOK, Reading
<1>4. /\ cs \in Seq(Names \cup {".."}) /\ nd.text.src \in Nat /\ nd.text \in TextType
      /\ nd.names \in Seq(TextType)
  BY DEF Walks, TextType
<1>5. cs # <<>> => /\ l \in [name : Names \cup {"..", Nil}, src : Nat, slash : BOOLEAN]
                   /\ l.src = nd.text.src
                   /\ rest \in Seq(Names \cup {".."})
  <2> HIDE DEF cs
  <2>1. cs # <<>> => Head(cs) \in Names \cup {".."} /\ Tail(cs) \in Seq(Names \cup {".."})
    BY <1>4
  <2>2. slash \in BOOLEAN
    OBVIOUS
  <2> HIDE DEF slash
  <2> QED
    BY <1>4, <2>1, <2>2
<1>6. j \in BOOLEAN
  OBVIOUS
<1>7. cs # <<>> => cut \in TextType /\ cut.comps = rest /\ cut.src = nd.text.src
  BY <1>4, <1>5 DEF TextType
<1>8. none \in TextType /\ none.comps = <<>> /\ none.src = nd.text.src
  <2> DEFINE z == <<>>
  <2>1. z \in Seq(Names \cup {".."}) /\ none = [nd.text EXCEPT !.comps = z]
    OBVIOUS
  <2> HIDE DEF z, none
  <2>2. none \in TextType /\ none.comps = z /\ none.src = nd.text.src
    BY <1>4, <2>1 DEF TextType
  <2> QED
    BY <2>2 DEF z
<1>9. nd.names # <<>> =>
          /\ n \in Nat \ {0} /\ front \in Seq(TextType) /\ Len(front) = n - 1 /\ nd.names[n] \in TextType
          /\ DOMAIN nd.names = 1..n /\ DOMAIN front = 1..(n - 1)
          /\ \A i \in 1..(n - 1) : front[i] = nd.names[i]
  <2> DEFINE ns == nd.names
  <2>1. ns \in Seq(TextType)
    BY <1>4
  <2> HIDE DEF ns
  <2>2. ns # <<>> => /\ Len(ns) \in Nat \ {0} /\ ns[Len(ns)] \in TextType /\ DOMAIN ns = 1..Len(ns)
    BY <2>1
  <2>3. ns # <<>> => /\ SubSeq(ns, 1, Len(ns) - 1) \in Seq(TextType)
                     /\ Len(SubSeq(ns, 1, Len(ns) - 1)) = Len(ns) - 1
                     /\ \A i \in 1..(Len(ns) - 1) : SubSeq(ns, 1, Len(ns) - 1)[i] = ns[i]
    BY <2>1, <2>2
  <2> QED
    BY <2>2, <2>3 DEF ns
<1> HIDE DEF l, j, cut, none, front, rest, cs, slash
<1>10. cs # <<>> => Differs(w, nd, {"last", "jumped"}) /\ w.last = l
  BY <1>5, <1>6 DEF Walks, Differs, Fields
<1> HIDE DEF w
<1>11. ASSUME NEW v, v = nd', Differs(v, nd, Soft), v.pc \in {"last", "decide"}, v.created = nd.created,
              v.err = nd.err, v.pc = "decide" => ~v.trailing, NestOK(v)
       PROVE  Kept
  <2>1. /\ v \in Walks /\ RefOK(v) /\ StackOK(v) /\ v.call = nd.call /\ v.path = nd.path /\ v.root = nd.root
    BY <1>1, <1>3, <1>11, SoftStep
  <2>2. DecideOK(v) /\ PlaceOK(v)
    BY <1>3, <1>11, <2>1 DEF DecideOK, PlaceOK, Reading, InComponent
  <2> QED
    BY <1>11, <2>1, <2>2 DEF Kept, WalkOK
<1>12. CASE cs = <<>>
  <2> DEFINE v == [nd EXCEPT !.last = NoLast, !.pc = "last"]
  <2>1. NoLast \in [name : Names \cup {"..", Nil}, src : Nat, slash : BOOLEAN] /\ NoLast.src = 0
    BY DEF NoLast
  <2>2. Differs(v, nd, {"last", "pc"}) /\ v.last = NoLast /\ v.pc = "last"
    BY <2>1 DEF Walks, Differs, Fields, Steps
  <2>3. v = nd'
    BY <1>2, <1>12
  <2> HIDE DEF v
  <2>4. /\ v.text = nd.text /\ v.names = nd.names /\ v.stack = nd.stack /\ v.bodies = nd.bodies
        /\ v.created = nd.created /\ v.err = nd.err /\ Differs(v, nd, Soft)
    BY <2>2 DEF Differs, Fields, Soft
  <2>5. NestOK(v)
    BY <1>3, <1>12, <2>1, <2>2, <2>4 DEF NestOK, Around, InComponent, cs
  <2> QED
    BY <1>11, <2>2, <2>3, <2>4, <2>5
<1>13. CASE cs # <<>> /\ rest # <<>>
  <2> DEFINE v == [w EXCEPT !.text = cut, !.pc = "decide", !.more = TRUE, !.trailing = FALSE]
  <2>1. w \in Walks
    BY <1>10, <1>13 DEF Differs
  <2>2. v \in Walks
    BY <1>7, <1>13, <2>1 DEF Walks, Steps
  <2>3. /\ \A f \in Fields \ {"text", "pc", "more", "trailing"} : v[f] = w[f]
        /\ v.text = cut /\ v.pc = "decide" /\ v.more /\ ~v.trailing
    BY <2>1 DEF Walks, Fields
  <2>4. v = nd'
    BY <1>2, <1>13
  <2> HIDE DEF v
  <2>5. /\ v.names = nd.names /\ v.stack = nd.stack /\ v.bodies = nd.bodies /\ v.last = l
        /\ v.created = nd.created /\ v.err = nd.err /\ Differs(v, nd, Soft)
    BY <1>10, <1>13, <2>2, <2>3 DEF Differs, Fields, Soft
  <2>6. NestOK(v)
    BY <1>3, <1>5, <1>7, <1>13, <2>3, <2>5 DEF NestOK, Around, InComponent
  <2> QED
    BY <1>11, <2>3, <2>4, <2>5, <2>6
<1>14. CASE cs # <<>> /\ rest = <<>> /\ nd.names = <<>>
  <2> DEFINE v == [w EXCEPT !.text = none, !.pc = "last"]
  <2>1. w \in Walks
    BY <1>10, <1>14 DEF Differs
  <2>2. Differs(v, w, {"text", "pc"}) /\ v.text = none /\ v.pc = "last"
    BY <1>8, <2>1 DEF Walks, Differs, Fields, Steps
  <2>3. v = nd'
    BY <1>2, <1>14
  <2> HIDE DEF v
  <2>4. /\ v.names = nd.names /\ v.stack = nd.stack /\ v.bodies = nd.bodies /\ v.last = l
        /\ v.created = nd.created /\ v.err = nd.err /\ Differs(v, nd, Soft)
    BY <1>10, <1>14, <2>2 DEF Differs, Fields, Soft
  <2>5. NestOK(v)
    BY <1>3, <1>5, <1>8, <1>14, <2>2, <2>4 DEF NestOK, Around, InComponent
  <2> QED
    BY <1>11, <2>2, <2>3, <2>4, <2>5
<1>15. CASE cs # <<>> /\ rest = <<>> /\ nd.names # <<>>
  <2> DEFINE out == nd.names[n]
             v == [w EXCEPT !.text = out, !.names = front,
                            !.pc = "decide", !.more = FALSE, !.trailing = FALSE]
  <2>1. w \in Walks /\ out \in TextType /\ front \in Seq(TextType)
    BY <1>9, <1>10, <1>15 DEF Differs
  <2>2. v = nd'
    BY <1>2, <1>15
  <2> HIDE DEF out
  <2>3. v \in Walks
    BY <2>1 DEF Walks, Steps
  <2>4. /\ \A f \in Fields \ {"text", "names", "pc", "more", "trailing"} : v[f] = w[f]
        /\ v.text = out /\ v.names = front /\ v.pc = "decide" /\ ~v.more /\ ~v.trailing
    BY <2>1 DEF Walks, Fields
  <2> HIDE DEF v
  <2>5. /\ v.stack = nd.stack /\ v.bodies = nd.bodies /\ v.last = l
        /\ v.created = nd.created /\ v.err = nd.err /\ Differs(v, nd, Soft)
    BY <1>10, <1>15, <2>3, <2>4 DEF Differs, Fields, Soft
  <2>6. /\ n \in 1..n /\ \A i \in 1..(n - 1) : i \in 1..n /\ i < n
        /\ Len(nd.stack) \in Nat
    BY <1>9, <1>15 DEF Walks
  <2>7. /\ n <= Len(nd.stack) /\ out.src \in nd.bodies \cup {0} /\ out.src < nd.text.src /\ out.comps # <<>>
        /\ \A i \in 1..(n - 1) : /\ front[i].src \in nd.bodies \cup {0} /\ front[i].comps # <<>>
                                 /\ front[i].src < out.src
        /\ \A i, k \in 1..(n - 1) : i < k => front[i].src < front[k].src
    <3>1. n <= Len(nd.stack)
      BY <1>3 DEF Around
    <3>2. out.src \in nd.bodies \cup {0} /\ out.src < nd.text.src /\ out.comps # <<>>
      BY <1>3, <1>9, <1>15, <2>6 DEF Around, out
    <3>3. \A i \in 1..(n - 1) : /\ front[i].src \in nd.bodies \cup {0} /\ front[i].comps # <<>>
                                /\ front[i].src < out.src
      BY <1>3, <1>9, <1>15, <2>6 DEF Around, out
    <3>4. \A i, k \in 1..(n - 1) : i < k => front[i].src < front[k].src
      BY <1>3, <1>9, <1>15, <2>6 DEF Around
    <3> QED
      BY <3>1, <3>2, <3>3, <3>4
  <2>8. out.src < nd.stack[Len(nd.stack)].id
    <3>1. nd.text.src \in nd.bodies /\ out.src \in Nat
      BY <1>3, <1>4, <2>1, <2>7 DEF Around, TextType
    <3>2. PICK i \in DOMAIN nd.stack : nd.stack[i].id = nd.text.src
      BY <1>3, <3>1 DEF StackOK
    <3>3. /\ DOMAIN nd.stack = 1..Len(nd.stack) /\ Len(nd.stack) \in 1..Len(nd.stack) /\ i \in Nat
          /\ nd.stack[Len(nd.stack)].id \in Nat /\ nd.stack \in Seq(EntryType)
      <4>1. nd.stack \in Seq(EntryType)
        BY DEF Walks
      <4>2. DOMAIN nd.stack = 1..Len(nd.stack) /\ Len(nd.stack) \in 1..Len(nd.stack) /\ i \in Nat
        BY <2>6, <3>2, <4>1
      <4>3. nd.stack[Len(nd.stack)] \in EntryType
        BY <4>1, <4>2
      <4> QED
        BY <4>1, <4>2, <4>3 DEF EntryType
    <3>4. i = Len(nd.stack) \/ nd.stack[i].id < nd.stack[Len(nd.stack)].id
      <4>1. i = Len(nd.stack) \/ i < Len(nd.stack)
        BY <2>6, <3>2, <3>3
      <4> QED
        BY <1>3, <3>2, <3>3, <4>1 DEF StackOK
    <3> QED
      BY <1>4, <2>7, <3>1, <3>2, <3>3, <3>4
  <2>9. Around(v)
    <3>1. Len(front) <= Len(nd.stack) /\ DOMAIN front = 1..(n - 1)
      BY <1>9, <1>15, <2>6, <2>7
    <3> QED
      BY <2>4, <2>5, <2>7, <3>1 DEF Around
  <2>10. NestOK(v)
    <3>1. Len(front) < Len(nd.stack)
      BY <1>9, <1>15, <2>6, <2>7
    <3>2. nd.text.src \in nd.bodies \cup {0} /\ l.src = nd.text.src
      BY <1>3, <1>5, <1>15 DEF Around
    <3> QED
      BY <2>4, <2>5, <2>7, <2>8, <2>9, <3>1, <3>2 DEF NestOK, InComponent
  <2> QED
    BY <1>11, <2>2, <2>4, <2>5, <2>10
<1> QED
  BY <1>12, <1>13, <1>14, <1>15

-----------------------------------------------------------------------------
(* The actions that step into a component.                                 *)

\* What handle_dots and step_into leave alone.
LEMMA LandedMove ==
    ASSUME NEW w \in Walks, Landed(w), NEW v, RefOK(v), Below(v),
           Differs(v, w, {"path", "root", "grabbed", "refs", "jumped", "decision"}),
           w.call.beneath => v.root = Cwd
    PROVE  v \in Walks /\ Landed(v)
<1>1. /\ v \in Walks /\ v.pc = w.pc /\ v.created = w.created /\ v.err = w.err /\ v.call = w.call
      /\ v.stack = w.stack /\ v.bodies = w.bodies /\ v.links = w.links /\ v.trailing = w.trailing
      /\ v.text = w.text /\ v.names = w.names
  BY DEF Differs, Fields
<1>2. StackOK(v)
  BY <1>1 DEF StackOK, Landed
<1> QED
  BY <1>1, <1>2 DEF Landed, Around

\* handle_dots
LEMMA DotsOK == ASSUME nd \in Walks, WalkOK(nd), Dots PROVE Kept
<1> DEFINE put == PutFinishedLink(nd)
           w == SetRoot(put)
           up == ParentOf[w.path]
           u == [w EXCEPT !.path = up]
           m == RefTake(RefPut(u, <<w.path>>), <<up>>)
           e == IF w.rcu THEN "ECHILD" ELSE "EXDEV"
<1>1. nd.pc = "decide" /\ nd.last.name \in {"..", Nil} /\ Nil # ".."
  BY OpenConstants DEF Dots
<1>2. /\ nd.last.name = Nil => nd' = Stepped(put)
      /\ nd.last.name = ".." /\ w.path = w.root /\ ~w.call.beneath => nd' = Stepped(w)
      /\ nd.last.name = ".." /\ w.path = w.root /\ w.call.beneath => nd' = Fail(w, e)
      /\ nd.last.name = ".." /\ w.path # w.root => nd' = Stepped(m)
  <2>1. nd' = CASE nd.last.name = Nil -> Stepped(put)
                [] nd.last.name = ".." /\ w.path = w.root ->
                      IF ~w.call.beneath THEN Stepped(w) ELSE Fail(w, e)
                [] OTHER -> Stepped(m)
    BY Zenon DEF Dots, Walk
  <2> HIDE DEF put, w, m, e
  <2> QED
    BY <1>1, <2>1
<1>3. Differs(put, nd, {"stack", "bodies", "refs"}) /\ Landed(put)
  BY <1>1, PutFinishedLinkOK DEF InComponent
<1> HIDE DEF put
<1>4. put \in Walks /\ put.path = nd.path /\ put.root = nd.root /\ put.call = nd.call
  BY <1>3 DEF Differs, Fields
<1>5. nd.path \in Dirs /\ (nd.call.beneath => nd.root = Cwd /\ nd.path \in UnderCwd) /\ Cwd # Nil
  BY <1>1, OpenConstants DEF WalkOK, PlaceOK, Reading, InComponent, Objects
<1>6. /\ Differs(w, put, {"root", "grabbed", "refs"})
      /\ w.root \in Dirs /\ (put.root # Nil => w.root = put.root) /\ RefOK(w)
  BY <1>3, <1>4, SetRootEffect DEF Landed
<1> HIDE DEF w
<1>7. w.path = nd.path /\ w.call = nd.call /\ w \in Walks
  BY <1>4, <1>6 DEF Differs, Fields
<1>8. Landed(w)
  <2>1. Differs(w, put, {"path", "root", "grabbed", "refs", "jumped", "decision"})
    BY <1>6 DEF Differs
  <2>2. Below(w) /\ (put.call.beneath => w.root = Cwd)
    BY <1>4, <1>5, <1>6, <1>7 DEF Below
  <2> QED
    BY <1>3, <1>4, <1>6, <2>1, <2>2, LandedMove
<1>9. CASE nd.last.name = Nil
  BY <1>2, <1>3, <1>4, <1>9, SteppedOK DEF Kept
<1>10. CASE nd.last.name = ".." /\ w.path = w.root /\ ~w.call.beneath
  BY <1>2, <1>7, <1>8, <1>10, SteppedOK DEF Kept
<1>11. CASE nd.last.name = ".." /\ w.path = w.root /\ w.call.beneath
  <2>1. e \in Errors
    BY DEF Errors
  <2> HIDE DEF e
  <2> QED
    BY <1>2, <1>7, <1>8, <1>11, <2>1, FailOK DEF Kept, Landed
<1>12. CASE nd.last.name = ".." /\ w.path # w.root
  <2>1. up \in Dirs /\ up \in Objects
    BY <1>5, <1>7, OpenConstants DEF Objects
  <2> HIDE DEF up
  <2>2. Differs(u, w, {"path"}) /\ u.path = up
    BY <1>7, <2>1 DEF Walks, Differs, Fields
  <2> HIDE DEF u
  <2>3. Differs(m, u, {"refs"}) /\ RefOK(m)
    <3>1. Differs(u, w, {"path", "jumped", "created", "pc"}) /\ m = RefTake(RefPut(u, <<w.path>>), <<u.path>>)
      BY <2>2 DEF Differs
    <3> QED
      BY <1>6, <1>7, <3>1, MoveEffect
  <2> HIDE DEF m
  <2>4. /\ Differs(m, w, {"path", "root", "grabbed", "refs", "jumped", "decision"}) /\ m.path = up
        /\ m.root = w.root /\ m.call = w.call
    BY <2>2, <2>3 DEF Differs, Fields
  <2>5. w.call.beneath => up \in UnderCwd /\ w.root = Cwd
    <3>1. w.call.beneath => w.path \in UnderCwd \ {Cwd} /\ w.root = Cwd
      BY <1>4, <1>5, <1>6, <1>7, <1>12
    <3> QED
      BY <3>1, UnderCwdFacts DEF up
  <2>6. m \in Walks /\ Landed(m)
    <3>1. Below(m) /\ (w.call.beneath => m.root = Cwd)
      BY <2>4, <2>5 DEF Below
    <3> QED
      BY <1>7, <1>8, <2>3, <2>4, <3>1, LandedMove
  <2> QED
    BY <1>2, <1>12, <2>6, SteppedOK DEF Kept
<1> QED
  BY <1>1, <1>9, <1>10, <1>11, <1>12

\* What a lookup finds, and that it is below the start of a scoped walk.
LEMMA FoundType ==
    ASSUME TreeOK, nd \in Walks, WalkOK(nd), nd.pc \in {"lookup", "slow"}
    PROVE  /\ nd.path \in Dirs /\ nd.last.name \in Names /\ Found \in Objects \cup {Nil}
           /\ nd.call.beneath /\ Found \in Dirs => Found \in UnderCwd
<1>1. nd.path \in Dirs /\ nd.last.name \in Names /\ (nd.call.beneath => nd.path \in UnderCwd)
  BY DEF WalkOK, DecideOK, PlaceOK, Reading, InComponent
<1>2. fs \in [Dirs -> [Names -> Objects \cup {Nil}]]
  BY DEF TreeOK, Layout
<1>3. Found \in Objects \cup {Nil}
  BY <1>1, <1>2 DEF Found
<1>4. Found \in Dirs => Found \in Dirs \ {Root} /\ ParentOf[Found] = nd.path
  BY <1>1 DEF TreeOK, Found
<1> QED
  BY <1>1, <1>3, <1>4, UnderCwdFacts

\* walk_component_common
LEMMA ComponentOK == ASSUME TreeOK, nd \in Walks, WalkOK(nd), Component PROVE Kept
<1> DEFINE put == PutFinishedLink(nd)
<1>1. nd' = StepInto(put, Found) /\ nd.pc \in {"lookup", "slow"}
  BY DEF Component, Walk, LookingUp
<1>2. Differs(put, nd, {"stack", "bodies", "refs"}) /\ Landed(put)
  BY <1>1, PutFinishedLinkOK DEF InComponent
<1> HIDE DEF put
<1>3. put \in Walks /\ put.path = nd.path /\ put.call = nd.call
  BY <1>2 DEF Differs, Fields
<1> QED
  BY <1>1, <1>2, <1>3, FoundType, StepIntoOK DEF Kept

\* open_last_lookups, when something is found or nothing may be created.
LEMMA OpenFoundOK == ASSUME TreeOK, nd \in Walks, WalkOK(nd), OpenFound PROVE Kept
<1> DEFINE w == OpenFlags(nd)
           put == PutFinishedLink(w)
           s == StepInto(put, Found)
           i == s.pc # "walk"
           v == [s EXCEPT !.intent = i]
<1>1. nd' = v /\ nd.pc \in {"lookup", "slow"}
  BY DEF OpenFound, Walk, LookingUp, FinishLookup
<1>2. Differs(w, nd, {"directory", "follow"}) /\ w \in Walks /\ WalkOK(w) /\ w.pc = nd.pc
  BY OpenFlagsEffect, FlagsKept
<1> HIDE DEF w
<1>3. Differs(put, w, {"stack", "bodies", "refs"}) /\ Landed(put)
  BY <1>1, <1>2, PutFinishedLinkOK DEF InComponent
<1> HIDE DEF put
<1>4. put \in Walks /\ put.path = nd.path /\ put.call = nd.call
  BY <1>2, <1>3 DEF Differs, Fields
<1>5. s \in Walks /\ WalkOK(s) /\ s.pc \notin InComponent
  BY <1>1, <1>3, <1>4, FoundType, StepIntoOK
<1>6. i \in BOOLEAN
  OBVIOUS
<1> HIDE DEF s, i
<1>7. Differs(v, s, {"intent"})
  BY <1>5, <1>6 DEF Walks, Differs, Fields
<1> HIDE DEF v
<1>8. /\ v \in Walks /\ v.pc = s.pc /\ v.call = s.call /\ v.path = s.path /\ v.root = s.root
      /\ v.rcu = s.rcu /\ v.grabbed = s.grabbed /\ v.refs = s.refs /\ v.stack = s.stack
      /\ v.bodies = s.bodies /\ v.links = s.links /\ v.created = s.created /\ v.err = s.err
      /\ v.text = s.text /\ v.names = s.names /\ v.last = s.last /\ v.decision = s.decision
      /\ v.trailing = s.trailing /\ v.more = s.more
  BY <1>7 DEF Differs, Fields
<1>9. RefOK(v) /\ StackOK(v)
  BY <1>5, <1>8 DEF WalkOK, RefOK, Held, StackOK
<1>10. NestOK(v)
  BY <1>5, <1>8 DEF WalkOK, NestOK, Around, Reading, InComponent
<1>11. DecideOK(v) /\ PlaceOK(v)
  BY <1>5, <1>8 DEF WalkOK, DecideOK, PlaceOK, Reading, InComponent
<1> QED
  BY <1>1, <1>8, <1>9, <1>10, <1>11 DEF Kept, WalkOK

\* namei_ext_apply_target: the selected directory becomes the path, or its reference
\* is given back.
LEMMA ApplyTargetOK == ASSUME TreeOK, nd \in Walks, WalkOK(nd), ApplyTarget PROVE Kept
<1> DEFINE d == DecisionFor(nd)
           x == d.to
           e == ApplyTargetError(nd, x)
           w0 == [nd EXCEPT !.decision = d]
           w == RefTake(w0, <<x>>)
           u == [w EXCEPT !.path = x, !.jumped = TRUE]
           p == RefPut(u, <<w.path>>)
<1>1. nd.pc = "decide" /\ nd.last.name \in Names /\ d \in Decision /\ d.act = "select"
  BY DecisionType DEF ApplyTarget, Deciding
<1>2. x \in Objects \cup {Nil}
  BY <1>1 DEF Decision
<1>3. nd' = IF e # "ok" THEN RefPut(Fail(w, e), <<x>>) ELSE Stepped(Selected(p))
  BY Zenon DEF ApplyTarget, Walk
<1>4. /\ e \in {"EXDEV", "ENOTDIR", "ok"} /\ e \in Errors
      /\ e = "ok" => x \in Dirs /\ ~nd.call.beneath
  BY DEF ApplyTargetError, Errors
<1>5. Landed(nd)
  BY <1>1, InComponentLanded DEF InComponent
<1> HIDE DEF d, x, e
<1>6. Differs(w0, nd, {"decision"})
  BY <1>1 DEF Walks, Differs, Fields
<1> HIDE DEF w0
<1>7. /\ Differs(w, w0, {"refs"})
      /\ \A o \in Objects : w.refs[o] = w0.refs[o] + (IF w0.rcu THEN 0 ELSE One(x, o))
  <2>1. w0 \in Walks
    BY <1>6 DEF Differs
  <2> QED
    BY <2>1, RefEffect
<1> HIDE DEF w
<1>8. /\ w \in Walks /\ w0.refs = nd.refs /\ w0.rcu = nd.rcu /\ w.rcu = nd.rcu /\ w.path = nd.path
      /\ Differs(w, nd, {"decision", "refs"})
  BY <1>6, <1>7 DEF Differs, Fields
<1>9. \A o \in Objects : nd.refs[o] \in Int /\ Held(nd, o) \in Nat /\ Count(o, LinksOf(nd.stack)) \in Nat
  BY PointersCount DEF Walks
<1>10. CASE e # "ok"
  <2> DEFINE f == Fail(w, e)
             v == RefPut(f, <<x>>)
  <2>1. nd' = v
    BY <1>3, <1>10
  <2>2. Differs(f, w, {"pc", "err"}) /\ f.pc = "end" /\ f.err = e
    BY <1>4, <1>8, FailEffect
  <2> HIDE DEF f
  <2>3. /\ Differs(v, f, {"refs"})
        /\ \A o \in Objects : v.refs[o] = f.refs[o] - (IF f.rcu THEN 0 ELSE One(x, o))
    <3>1. f \in Walks
      BY <2>2 DEF Differs
    <3> QED
      BY <3>1, RefEffect
  <2> HIDE DEF v
  <2>4. /\ v \in Walks /\ v.pc = "end" /\ f.refs = w.refs /\ f.rcu = nd.rcu /\ v.rcu = nd.rcu
        /\ v.path = nd.path /\ v.root = nd.root /\ v.grabbed = nd.grabbed /\ v.stack = nd.stack
        /\ v.bodies = nd.bodies /\ v.links = nd.links /\ v.created = nd.created /\ v.call = nd.call
    BY <1>8, <2>2, <2>3 DEF Differs, Fields
  <2>5. \A o \in Objects : v.refs[o] = nd.refs[o]
    BY <1>7, <1>8, <1>9, <2>3, <2>4 DEF One
  <2>6. RefOK(v) /\ StackOK(v)
    BY <1>5, <2>4, <2>5 DEF RefOK, Held, StackOK, Landed
  <2>7. NestOK(v) /\ DecideOK(v) /\ PlaceOK(v)
    BY <1>5, <2>4 DEF NestOK, DecideOK, PlaceOK, Landed, Below, Reading, InComponent
  <2> QED
    BY <2>1, <2>4, <2>6, <2>7 DEF Kept, WalkOK
<1>11. CASE e = "ok"
  <2>1. nd' = Stepped(Selected(p)) /\ x \in Dirs /\ ~nd.call.beneath
    BY <1>3, <1>4, <1>11
  <2>2. Differs(u, w, {"path", "jumped"}) /\ u.path = x
    BY <1>2, <1>8 DEF Walks, Differs, Fields
  <2> HIDE DEF u
  <2>3. /\ Differs(p, u, {"refs"})
        /\ \A o \in Objects : p.refs[o] = u.refs[o] - (IF u.rcu THEN 0 ELSE One(w.path, o))
    <3>1. u \in Walks
      BY <2>2 DEF Differs
    <3> QED
      BY <3>1, RefEffect
  <2> HIDE DEF p
  <2>4. /\ Differs(p, nd, {"path", "root", "grabbed", "refs", "jumped", "decision"})
        /\ p.path = x /\ p.root = nd.root /\ p.grabbed = nd.grabbed /\ p.rcu = nd.rcu
        /\ p.stack = nd.stack /\ p.call = nd.call /\ u.refs = w.refs /\ u.rcu = nd.rcu
    BY <1>8, <2>2, <2>3 DEF Differs, Fields
  <2>5. RefOK(p)
    <3>1. \A o \in Objects : p.refs[o] =
              nd.refs[o] + (IF nd.rcu THEN 0 ELSE One(x, o)) - (IF nd.rcu THEN 0 ELSE One(nd.path, o))
      <4>1. \A o \in Objects : w.refs[o] = nd.refs[o] + (IF nd.rcu THEN 0 ELSE One(x, o))
        BY <1>7, <1>8
      <4>2. \A o \in Objects : p.refs[o] = w.refs[o] - (IF nd.rcu THEN 0 ELSE One(nd.path, o))
        BY <1>8, <2>3, <2>4
      <4> QED
        BY <1>9, <4>1, <4>2 DEF One
    <3>2. \A o \in Objects : Held(p, o) = Held(nd, o) - One(nd.path, o) + One(x, o)
      BY <1>9, <2>4 DEF Held, One
    <3> QED
      BY <1>5, <1>9, <2>4, <3>1, <3>2 DEF RefOK, One, Landed
  <2>6. p \in Walks /\ Landed(p)
    BY <1>5, <2>1, <2>4, <2>5, LandedMove DEF Below
  <2>7. Selected(p) \in Walks /\ Landed(Selected(p))
    <3>1. CASE ~(p.trailing /\ p.call.kind = "open" /\ p.stack # <<>>)
      BY <2>6, <3>1 DEF Selected
    <3>2. CASE p.trailing /\ p.call.kind = "open" /\ p.stack # <<>>
      <4> DEFINE q == PutLink(p)
      <4>1. Differs(q, p, {"stack", "bodies", "refs"}) /\ RefOK(q) /\ StackOK(q)
        BY <2>6, <3>2, PutLinkEffect DEF Landed, InComponent
      <4> HIDE DEF q
      <4>2. /\ q \in Walks /\ q.pc = p.pc /\ q.created = p.created /\ q.err = p.err /\ q.call = p.call
            /\ q.path = p.path /\ q.root = p.root /\ q.trailing = p.trailing
        BY <4>1 DEF Differs, Fields
      <4>3. Landed(q)
        BY <2>6, <3>2, <4>1, <4>2 DEF Landed, Below
      <4> QED
        BY <3>2, <4>2, <4>3 DEF Selected, q
    <3> QED
      BY <3>1, <3>2
  <2> QED
    BY <2>1, <2>7, SteppedOK DEF Kept
<1> QED
  BY <1>10, <1>11

\* lookup_open creates, where the policy let the name pass.
LEMMA OpenCreatesOK ==
    ASSUME TreeOK, nd \in Walks, WalkOK(nd), OpenCreates
    PROVE  Kept /\ TreeOK'
<1> DEFINE u == [nd EXCEPT !.created = TRUE, !.path = Fresh, !.pc = "complete"]
           v == RefTake(RefPut(u, <<nd.path>>), <<Fresh>>)
<1>1. /\ nd.pc = "slow" /\ nd.trailing /\ nd.call.kind = "open" /\ nd.call.creat
      /\ nd' = v /\ fs' = [fs EXCEPT ![nd.path][nd.last.name] = Fresh]
      /\ policy' = policy /\ changes' = changes
  BY DEF OpenCreates, LastOfOpen
<1>2. Fresh \in Objects /\ Fresh \notin Dirs
  BY OpenConstants DEF Objects
<1>3. Differs(u, nd, {"created", "path", "pc"}) /\ u.path = Fresh /\ u.pc = "complete" /\ u.created
  BY <1>2 DEF Walks, Differs, Fields, Steps
<1> HIDE DEF u
<1>4. Differs(v, u, {"refs"}) /\ RefOK(v)
  <2>1. /\ Differs(u, nd, {"path", "jumped", "created", "pc"})
        /\ v = RefTake(RefPut(u, <<nd.path>>), <<u.path>>)
    BY <1>3 DEF Differs
  <2> QED
    BY <2>1, MoveEffect DEF WalkOK
<1> HIDE DEF v
<1>5. /\ v \in Walks /\ v.pc = "complete" /\ v.path = Fresh /\ v.call = nd.call /\ v.root = nd.root
      /\ v.stack = nd.stack /\ v.bodies = nd.bodies /\ v.links = nd.links /\ v.err = nd.err
      /\ v.decision = nd.decision
  BY <1>3, <1>4 DEF Differs, Fields
<1>6. StackOK(v)
  BY <1>1, <1>5 DEF WalkOK, StackOK
<1>7. NestOK(v) /\ DecideOK(v) /\ PlaceOK(v)
  BY <1>1, <1>2, <1>5 DEF WalkOK, NestOK, DecideOK, PlaceOK, Reading, InComponent
<1>8. TreeOK'
  <2>1. nd.path \in Dirs /\ nd.last.name \in Names
    BY <1>1, FoundType
  <2>2. fs \in [Dirs -> [Names -> Objects \cup {Nil}]]
    BY DEF TreeOK, Layout
  <2>3. /\ fs' \in [Dirs -> [Names -> Objects \cup {Nil}]]
        /\ \A c \in Dirs, n \in Names : fs'[c][n] = fs[c][n] \/ fs'[c][n] = Fresh
    BY <1>1, <1>2, <2>1, <2>2
  <2> QED
    BY <1>1, <1>2, <2>3 DEF TreeOK, Layout
<1> QED
  BY <1>1, <1>4, <1>5, <1>6, <1>7, <1>8 DEF Kept, WalkOK

\* complete_walk and what follows it ends the attempt.
LEMMA CompleteOK == ASSUME nd \in Walks, WalkOK(nd), Complete PROVE Kept
<1> DEFINE e == CASE CompleteWalkError(nd) # "ok" -> CompleteWalkError(nd)
                  [] CompleteWalkError(nd) = "ok" /\ nd.call.kind = "open" -> DoOpenError(nd)
                  [] OTHER -> LookupError(nd)
<1>1. nd' = Fail(nd, e)
  BY Zenon DEF Complete, Fail
<1>2. e \in {"EXDEV", "EEXIST", "EISDIR", "ENOTDIR", "ELOOP", "ok"}
  <2>1. CompleteWalkError(nd) \in {"EXDEV", "ok"}
    BY DEF CompleteWalkError
  <2>2. DoOpenError(nd) \in {"EEXIST", "EISDIR", "ENOTDIR", "ELOOP", "ok"}
    BY DEF DoOpenError
  <2>3. LookupError(nd) \in {"ENOTDIR", "ok"}
    BY DEF LookupError
  <2> QED
    BY <2>1, <2>2, <2>3
<1> HIDE DEF e
<1>3. e \in Errors /\ e # "EOPNOTSUPP"
  BY <1>2 DEF Errors
<1> QED
  BY <1>1, <1>3, WalkAlive, FailOK DEF Kept

\* A stale answer ends the attempt.
LEMMA StaleOK == ASSUME nd \in Walks, WalkOK(nd), Stale PROVE Kept
<1>1. PICK e \in {"ECHILD", "ESTALE"} : nd' = Fail(nd, e)
  BY DEF Stale, Walk
<1>2. e \in Errors /\ e # "EOPNOTSUPP"
  BY DEF Errors
<1> QED
  BY <1>1, <1>2, WalkAlive, FailOK DEF Kept

-----------------------------------------------------------------------------
(* Other tasks, and the start.                                             *)

\* Other tasks change nothing that the walk holds.
LEMMA DisturbOK == ASSUME OpenInv, Disturb PROVE Kept /\ changes' \in 0..MaxChanges
<1> DEFINE v == [nd EXCEPT !.quiet = FALSE]
<1>1. nd' = v /\ nd \in Walks /\ WalkOK(nd)
  BY DEF Disturb, OpenInv, Idle
<1>2. Differs(v, nd, {"quiet"})
  BY <1>1 DEF Walks, Differs, Fields
<1> HIDE DEF v
<1>3. /\ v \in Walks /\ v.pc = nd.pc /\ v.call = nd.call /\ v.path = nd.path /\ v.root = nd.root
      /\ v.rcu = nd.rcu /\ v.grabbed = nd.grabbed /\ v.refs = nd.refs /\ v.stack = nd.stack
      /\ v.bodies = nd.bodies /\ v.links = nd.links /\ v.created = nd.created /\ v.err = nd.err
      /\ v.text = nd.text /\ v.names = nd.names /\ v.last = nd.last /\ v.decision = nd.decision
      /\ v.trailing = nd.trailing /\ v.more = nd.more /\ v.intent = nd.intent
  BY <1>2 DEF Differs, Fields
<1>4. RefOK(v) /\ StackOK(v)
  BY <1>1, <1>3 DEF WalkOK, RefOK, Held, StackOK
<1>5. NestOK(v)
  BY <1>1, <1>3 DEF WalkOK, NestOK, Around, Reading, InComponent
<1>6. DecideOK(v) /\ PlaceOK(v)
  BY <1>1, <1>3 DEF WalkOK, DecideOK, PlaceOK, Reading, InComponent
<1>7. changes' \in 0..MaxChanges
  BY OpenConstants DEF Disturb, OpenInv, TreeOK
<1> QED
  BY <1>1, <1>3, <1>4, <1>5, <1>6, <1>7 DEF Kept, WalkOK

\* No other task enters a directory.
LEMMA SetEntryOK ==
    ASSUME OpenInv, NEW d \in Managed, NEW n \in Names, NEW o \in (Files \ {Fresh}) \cup Links \cup {Nil},
           SetEntry(d, n, o)
    PROVE  Kept /\ TreeOK'
<1>1. Kept /\ changes' \in 0..MaxChanges
  BY DisturbOK DEF SetEntry
<1>2. d \in Dirs /\ o \notin Dirs /\ o \in Objects \cup {Nil}
  BY OpenConstants DEF Objects
<1>3. fs \in [Dirs -> [Names -> Objects \cup {Nil}]]
  BY DEF OpenInv, TreeOK, Layout
<1>4. /\ fs' \in [Dirs -> [Names -> Objects \cup {Nil}]]
      /\ \A c \in Dirs, m \in Names : fs'[c][m] = fs[c][m] \/ fs'[c][m] = o
  BY <1>2, <1>3 DEF SetEntry
<1>5. policy' = policy
  BY DEF SetEntry
<1> QED
  BY <1>1, <1>2, <1>4, <1>5 DEF OpenInv, TreeOK, Layout

\* Another policy takes over; decisions already made stay.
LEMMA SetPolicyOK ==
    ASSUME OpenInv, NEW p \in Policies, SetPolicy(p)
    PROVE  Kept /\ TreeOK'
<1>1. Kept /\ changes' \in 0..MaxChanges
  BY DisturbOK DEF SetPolicy
<1> QED
  BY <1>1 DEF OpenInv, TreeOK, SetPolicy

\* A nameidata without pointers holds no reference, in either kind of walk.
LEMMA NoPointers ==
    ASSUME NEW w \in Walks, w.refs = NoRefs, w.stack = <<>>, w.path = Nil, w.root = Nil, ~w.grabbed,
           w.bodies = {}
    PROVE  RefOK(w) /\ StackOK(w) /\ Below(w)
<1>1. \A o \in Objects : o # Nil /\ w.refs[o] = 0
  BY OpenConstants DEF NoRefs
<1>2. LinksOf(w.stack) = <<>>
  BY DEF LinksOf
<1>3. \A o \in Objects : Count(o, LinksOf(w.stack)) = 0
  BY <1>2, CountShort
<1>4. RefOK(w)
  BY <1>1, <1>3 DEF RefOK, Held
<1>5. StackOK(w)
  BY DEF StackOK
<1>6. Below(w)
  BY OpenConstants DEF Below, Objects
<1> QED
  BY <1>4, <1>5, <1>6

\* set_nameidata
LEMMA SetNameidataType ==
    ASSUME NEW c \in Calls
    PROVE  SetNameidata(c) \in Walks
<1>1. /\ c.path \in Pathname /\ c.directory \in BOOLEAN /\ c.follow \in BOOLEAN
  BY OpenConstants DEF Call
<1>2. Text(c.path, 0) \in TextType
  BY <1>1 DEF Text, Pathname, TextType
<1>3. NoLast \in [name : Names \cup {"..", Nil}, src : Nat, slash : BOOLEAN]
  BY DEF NoLast
<1>4. NoRefs \in [Objects -> Int]
  BY DEF NoRefs
<1>5. <<>> \in Seq(TextType) /\ <<>> \in Seq(EntryType)
  OBVIOUS
<1> DEFINE t == Text(c.path, 0)
           z == <<>>
<1>6. SetNameidata(c) =
        [pc |-> "init", call |-> c, attempt |-> 1, rcu |-> TRUE, path |-> Nil, root |-> Nil,
         grabbed |-> FALSE, text |-> t, names |-> z, stack |-> z,
         bodies |-> {}, links |-> 0, last |-> NoLast, trailing |-> FALSE, more |-> FALSE,
         directory |-> c.directory, follow |-> c.follow, intent |-> FALSE, jumped |-> TRUE,
         decision |-> Nil, created |-> FALSE, refs |-> NoRefs, err |-> "ok", quiet |-> TRUE]
  BY DEF SetNameidata
<1>7. t \in TextType /\ z \in Seq(TextType) /\ z \in Seq(EntryType)
  BY <1>2, <1>5
<1> HIDE DEF t, z
<1> QED
  BY <1>1, <1>3, <1>4, <1>6, <1>7 DEF Walks, Steps, Errors

\* set_nameidata holds nothing.
LEMMA StartOK == ASSUME NEW c \in Calls, Start(c) PROVE Kept
<1> DEFINE v == SetNameidata(c)
<1>1. nd' = v /\ v \in Walks
  BY SetNameidataType DEF Start, Walk
<1>2. /\ v.pc = "init" /\ v.refs = NoRefs /\ v.stack = <<>> /\ v.path = Nil /\ v.root = Nil
      /\ ~v.grabbed /\ v.bodies = {} /\ ~v.created
  BY DEF SetNameidata
<1> HIDE DEF v
<1>3. RefOK(v) /\ StackOK(v) /\ Below(v)
  BY <1>1, <1>2, NoPointers
<1>4. NestOK(v) /\ DecideOK(v) /\ PlaceOK(v)
  BY <1>2, <1>3 DEF NestOK, DecideOK, PlaceOK, Below, Reading, InComponent
<1> QED
  BY <1>1, <1>3, <1>4 DEF Kept, WalkOK

\* What path_init keeps of the attempt before.
LEMMA PathInitType ==
    ASSUME NEW s \in Walks, NEW a \in 1..3, NEW n \in Nat, NEW r \in BOOLEAN, NEW q \in BOOLEAN
    PROVE  Differs([s EXCEPT !.pc = "walk", !.attempt = a, !.links = n, !.rcu = r, !.quiet = q], s,
                   {"pc", "attempt", "links", "rcu", "quiet"})
<1> DEFINE w == [s EXCEPT !.pc = "walk", !.attempt = a, !.links = n, !.rcu = r, !.quiet = q]
<1>1. w \in Walks
  BY DEF Walks, Steps
<1>2. \A f \in Fields \ {"pc", "attempt", "links", "rcu", "quiet"} : w[f] = s[f]
  BY DEF Walks, Fields
<1> QED
  BY <1>1, <1>2 DEF Differs

\* path_init: every attempt begins with the references of its first directory alone.
LEMMA PathInitOK == ASSUME nd \in Walks, WalkOK(nd), PathInit PROVE Kept
<1> DEFINE c == nd.call
           s == SetNameidata(c)
           lazy == nd.attempt = 1
           w == [s EXCEPT !.pc = "walk", !.attempt = nd.attempt, !.links = nd.links,
                          !.rcu = lazy, !.quiet = nd.quiet]
           g == ~w.rcu
           ub == [w EXCEPT !.path = Cwd, !.root = Cwd, !.grabbed = g]
           ur == [w EXCEPT !.path = Cwd]
<1>1. nd' = IF c.path.abs THEN JumpRoot(w)
            ELSE IF c.beneath THEN RefTake(ub, <<Cwd, Cwd>>)
            ELSE RefTake(ur, <<Cwd>>)
  BY Zenon DEF PathInit, Walk
<1>2. c \in Calls /\ nd.attempt \in 1..3 /\ nd.links \in Nat /\ nd.quiet \in BOOLEAN
  BY DEF Walks
<1>3. lazy \in BOOLEAN
  OBVIOUS
<1>4. s \in Walks
  BY <1>2, SetNameidataType
<1>5. /\ s.refs = NoRefs /\ s.stack = <<>> /\ s.path = Nil /\ s.root = Nil /\ ~s.grabbed /\ s.bodies = {}
      /\ ~s.created /\ s.err = "ok" /\ s.call = c /\ s.names = <<>> /\ s.text.src = 0
  BY DEF SetNameidata, Text
<1> HIDE DEF s, c, lazy
<1>6. /\ w \in Walks /\ w.pc = "walk"
      /\ \A f \in Fields \ {"pc", "attempt", "links", "rcu", "quiet"} : w[f] = s[f]
  <2>1. PICK a \in 1..3, n \in Nat, r \in BOOLEAN, q \in BOOLEAN :
            w = [s EXCEPT !.pc = "walk", !.attempt = a, !.links = n, !.rcu = r, !.quiet = q]
    BY <1>2, <1>3
  <2> HIDE DEF w, s
  <2>2. Differs(w, s, {"pc", "attempt", "links", "rcu", "quiet"})
    BY <1>4, <2>1, PathInitType
  <2>3. w.pc = "walk"
    BY <1>4, <2>1 DEF Walks
  <2> QED
    BY <2>2, <2>3 DEF Differs
<1> HIDE DEF w
<1>7. /\ w.refs = NoRefs /\ w.stack = <<>> /\ w.path = Nil /\ w.root = Nil /\ ~w.grabbed /\ w.bodies = {}
      /\ ~w.created /\ w.err = "ok" /\ w.call = c /\ w.names = <<>> /\ w.text.src = 0
  BY <1>5, <1>6 DEF Fields
<1>8. RefOK(w) /\ StackOK(w) /\ Below(w)
  BY <1>6, <1>7, NoPointers
<1>9. \A o \in Objects : w.refs[o] = 0 /\ Count(o, LinksOf(w.stack)) = 0 /\ o # Nil
  <2>1. LinksOf(w.stack) = <<>>
    BY <1>7 DEF LinksOf
  <2> QED
    BY <1>7, <2>1, CountShort, OpenConstants DEF NoRefs
<1>10. Cwd \in Dirs /\ Cwd \in Objects /\ Cwd \in UnderCwd
  BY OpenConstants, UnderCwdFacts DEF Objects
<1>11. ASSUME NEW v, v = nd', Differs(v, w, {"root", "grabbed", "refs", "path", "jumped"}), RefOK(v),
              v.path \in Dirs, c.beneath => v.path = Cwd /\ v.root = Cwd
       PROVE  Kept
  <2>1. /\ v \in Walks /\ v.pc = "walk" /\ v.stack = <<>> /\ v.bodies = {} /\ ~v.created /\ v.err = "ok"
        /\ v.call = c /\ v.names = <<>> /\ v.text.src = 0
    BY <1>6, <1>7, <1>11 DEF Differs, Fields
  <2>2. StackOK(v)
    BY <2>1 DEF StackOK
  <2>3. NestOK(v)
    BY <2>1 DEF NestOK, Around, InComponent
  <2>4. DecideOK(v) /\ PlaceOK(v)
    BY <1>10, <1>11, <2>1 DEF DecideOK, PlaceOK, Reading, InComponent
  <2> QED
    BY <1>11, <2>1, <2>2, <2>3, <2>4 DEF Kept, WalkOK
<1>12. CASE c.path.abs /\ c.beneath
  <2>1. nd' = Fail(w, "EXDEV")
    BY <1>1, <1>6, <1>7, <1>8, <1>12, JumpRootEffect
  <2> QED
    BY <1>6, <1>7, <1>8, <2>1, FailOK DEF Kept, Errors
<1>13. CASE c.path.abs /\ ~c.beneath
  BY <1>1, <1>6, <1>7, <1>8, <1>11, <1>13, JumpRootEffect
<1>14. CASE ~c.path.abs /\ c.beneath
  <2> DEFINE v == RefTake(ub, <<Cwd, Cwd>>)
  <2>1. v = nd' /\ g \in BOOLEAN
    BY <1>1, <1>14
  <2>2. (g <=> ~w.rcu) /\ w.rcu \in BOOLEAN
    BY <1>6 DEF Walks
  <2> HIDE DEF g
  <2>3. /\ Differs(ub, w, {"path", "root", "grabbed"})
        /\ ub.path = Cwd /\ ub.root = Cwd /\ ub.grabbed = g
    BY <1>6, <1>10, <2>1 DEF Walks, Differs, Fields
  <2> HIDE DEF ub
  <2>4. \A o \in Objects : Count(o, <<Cwd, Cwd>>) = One(Cwd, o) + One(Cwd, o) /\ Count(o, <<Cwd, Cwd>>) \in Nat
    BY CountTwice DEF One
  <2>5. /\ Differs(v, ub, {"refs"})
        /\ \A o \in Objects : v.refs[o] = ub.refs[o] + (IF w.rcu THEN 0 ELSE One(Cwd, o) + One(Cwd, o))
    <3>1. ub \in Walks /\ ub.rcu = w.rcu /\ ub.refs = w.refs
      BY <2>3 DEF Differs, Fields
    <3>2. CASE w.rcu
      BY <1>9, <3>1, <3>2 DEF RefTake, Differs
    <3>3. CASE ~w.rcu
      BY <2>4, <3>1, <3>3, TakeEffect DEF RefTake
    <3> QED
      BY <3>2, <3>3
  <2> HIDE DEF v
  <2>6. /\ Differs(v, w, {"root", "grabbed", "refs", "path", "jumped"}) /\ v.path = Cwd /\ v.root = Cwd
        /\ v.grabbed = g /\ v.rcu = w.rcu /\ v.stack = w.stack /\ ub.refs = w.refs
    BY <2>3, <2>5 DEF Differs, Fields
  <2>7. RefOK(v)
    <3>1. \A o \in Objects : v.refs[o] = IF w.rcu THEN 0 ELSE One(Cwd, o) + One(Cwd, o)
      BY <1>9, <2>5, <2>6 DEF One
    <3>2. ~w.rcu => \A o \in Objects : Held(v, o) = One(Cwd, o) + One(Cwd, o)
      BY <1>9, <2>2, <2>6 DEF Held, One
    <3> QED
      BY <2>2, <2>6, <3>1, <3>2 DEF RefOK
  <2> QED
    BY <1>10, <1>11, <2>1, <2>6, <2>7
<1>15. CASE ~c.path.abs /\ ~c.beneath
  <2> DEFINE v == RefTake(ur, <<Cwd>>)
  <2>1. v = nd'
    BY <1>1, <1>15
  <2>2. Differs(ur, w, {"path"}) /\ ur.path = Cwd
    BY <1>6, <1>10 DEF Walks, Differs, Fields
  <2> HIDE DEF ur
  <2>3. /\ Differs(v, ur, {"refs"})
        /\ \A o \in Objects : v.refs[o] = ur.refs[o] + (IF ur.rcu THEN 0 ELSE One(Cwd, o))
    <3>1. ur \in Walks
      BY <2>2 DEF Differs
    <3> QED
      BY <3>1, RefEffect
  <2> HIDE DEF v
  <2>4. /\ Differs(v, w, {"root", "grabbed", "refs", "path", "jumped"}) /\ v.path = Cwd
        /\ v.grabbed = w.grabbed /\ v.rcu = w.rcu /\ v.stack = w.stack /\ ur.refs = w.refs /\ ur.rcu = w.rcu
    BY <2>2, <2>3 DEF Differs, Fields
  <2>5. RefOK(v)
    <3>1. \A o \in Objects : v.refs[o] = IF w.rcu THEN 0 ELSE One(Cwd, o)
      BY <1>9, <2>3, <2>4 DEF One
    <3>2. \A o \in Objects : Held(v, o) = One(Cwd, o)
      BY <1>7, <1>9, <2>4 DEF Held, One
    <3> QED
      BY <1>7, <2>4, <3>1, <3>2 DEF RefOK
  <2> QED
    BY <1>10, <1>11, <1>15, <2>1, <2>4, <2>5
<1> QED
  BY <1>12, <1>13, <1>14, <1>15

\* What terminate_walk leaves.
LEMMA TerminatedType ==
    ASSUME NEW p \in Walks, NEW t,
           t = [p EXCEPT !.stack = <<>>, !.bodies = {}, !.path = Nil, !.grabbed = FALSE,
                         !.root = Nil, !.rcu = FALSE]
    PROVE  /\ t \in Walks /\ t.stack = <<>> /\ t.bodies = {} /\ t.path = Nil /\ ~t.grabbed /\ t.root = Nil
           /\ \A f \in Fields \ {"stack", "bodies", "path", "grabbed", "root", "rcu"} : t[f] = p[f]
<1>1. t \in Walks
  <2> DEFINE z == <<>>
  <2>1. z \in Seq(EntryType) /\ t = [p EXCEPT !.stack = z, !.bodies = {}, !.path = Nil, !.grabbed = FALSE,
                         !.root = Nil, !.rcu = FALSE]
    OBVIOUS
  <2> HIDE DEF z
  <2> QED
    BY <2>1 DEF Walks
<1>2. /\ t.stack = <<>> /\ t.bodies = {} /\ t.path = Nil /\ ~t.grabbed /\ t.root = Nil
      /\ \A f \in Fields \ {"stack", "bodies", "path", "grabbed", "root", "rcu"} : t[f] = p[f]
  BY DEF Walks, Fields
<1> QED
  BY <1>1, <1>2

\* terminate_walk gives back every reference, however the attempt ended.
LEMMA TerminateOK == ASSUME nd \in Walks, WalkOK(nd), Terminate PROVE Kept
<1> DEFINE p == RefPut(nd, Pointers(nd))
           t == Terminated(nd)
           n == NextAttempt(nd)
           again == [t EXCEPT !.pc = "init", !.attempt = n]
           last == [t EXCEPT !.pc = "done"]
<1>1. nd.pc = "end" /\ nd' = IF n # 0 THEN again ELSE last
  BY Zenon DEF Terminate
<1>2. n \in {0, 2, 3}
  BY DEF NextAttempt
<1>3. Differs(p, nd, {"refs"}) /\ p.refs = NoRefs
  <2>1. \A o \in Objects : Count(o, Pointers(nd)) = Held(nd, o) /\ Held(nd, o) \in Nat
    BY PointersCount
  <2>2. RefOK(nd)
    BY DEF WalkOK
  <2>3. Differs(p, nd, {"refs"}) /\ \A o \in Objects : p.refs[o] = 0
    <3>1. CASE nd.rcu
      BY <2>2, <3>1 DEF RefPut, Differs, RefOK
    <3>2. CASE ~nd.rcu
      <4>1. p = Put(nd, Pointers(nd))
        BY <3>2 DEF RefPut
      <4>2. Differs(p, nd, {"refs"}) /\ \A o \in Objects : p.refs[o] = nd.refs[o] - Count(o, Pointers(nd))
        BY <2>1, <4>1, PutEffect
      <4> QED
        BY <2>1, <2>2, <3>2, <4>2 DEF RefOK
    <3> QED
      BY <3>1, <3>2
  <2>4. p.refs \in [Objects -> Int]
    BY <2>3 DEF Differs, Walks
  <2> QED
    BY <2>3, <2>4 DEF NoRefs
<1>4. t = [p EXCEPT !.stack = <<>>, !.bodies = {}, !.path = Nil, !.grabbed = FALSE, !.root = Nil, !.rcu = FALSE]
  BY Zenon DEF Terminated, Pointers
<1> HIDE DEF p, t, n
<1>5. /\ t \in Walks /\ t.stack = <<>> /\ t.bodies = {} /\ t.path = Nil /\ ~t.grabbed /\ t.root = Nil
      /\ \A f \in Fields \ {"stack", "bodies", "path", "grabbed", "root", "rcu"} : t[f] = p[f]
  <2>1. p \in Walks
    BY <1>3 DEF Differs
  <2> QED
    BY <1>4, <2>1, TerminatedType
<1>6. /\ t.refs = NoRefs /\ t.created = nd.created /\ t.decision = nd.decision /\ t.err = nd.err
      /\ t.call = nd.call
  BY <1>3, <1>5 DEF Differs, Fields
<1>7. Differs(nd', t, {"pc", "attempt"}) /\ nd'.pc \in {"init", "done"}
  <2>1. CASE n # 0
    <3>1. n \in 1..3
      BY <1>2, <2>1
    <3>2. Differs(again, t, {"pc", "attempt"}) /\ again.pc = "init"
      BY <1>5, <3>1 DEF Walks, Differs, Fields, Steps
    <3> HIDE DEF again
    <3> QED
      BY <1>1, <2>1, <3>2
  <2>2. CASE n = 0
    <3>2. Differs(last, t, {"pc"}) /\ last.pc = "done"
      BY <1>5 DEF Walks, Differs, Fields, Steps
    <3> HIDE DEF last
    <3> QED
      BY <1>1, <2>2, <3>2 DEF Differs
  <2> QED
    BY <2>1, <2>2
<1> DEFINE v == nd'
<1>8. /\ v \in Walks /\ v.refs = NoRefs /\ v.stack = <<>> /\ v.bodies = {} /\ v.path = Nil /\ ~v.grabbed
      /\ v.root = Nil /\ v.created = nd.created /\ v.decision = nd.decision /\ v.err = nd.err
      /\ v.pc \in {"init", "done"} /\ v.call = nd.call
  BY <1>5, <1>6, <1>7 DEF Differs, Fields
<1> HIDE DEF v
<1>9. RefOK(v) /\ StackOK(v) /\ Below(v)
  BY <1>8, NoPointers
<1>10. NestOK(v) /\ DecideOK(v) /\ PlaceOK(v)
  BY <1>8, <1>9 DEF WalkOK, NestOK, DecideOK, PlaceOK, Below, Reading, InComponent
<1> QED
  BY <1>8, <1>9, <1>10 DEF Kept, WalkOK, v

-----------------------------------------------------------------------------
(* From RCU-walk to ref-walk, and the ways it fails.                       *)

\* The references of a stack, a path and a root, as try_to_unlazy takes them.
LEMMA CountGot ==
    ASSUME NEW stack \in Seq(EntryType), NEW x \in Pointer, NEW y \in Pointer, NEW o
    PROVE  /\ Count(o, Append(LinksOf(stack), x)) = Count(o, LinksOf(stack)) + One(x, o)
           /\ Count(o, LinksOf(stack) \o <<x, y>>) = Count(o, LinksOf(stack)) + One(x, o) + One(y, o)
           /\ Count(o, LinksOf(stack)) \in Nat
<1> DEFINE links == LinksOf(stack)
<1>1. links \in Seq(Pointer)
  BY LinksOfType
<1> HIDE DEF links
<1> DEFINE longer == Append(links, x)
<1>2. links \o <<x, y>> = Append(longer, y) /\ longer \in Seq(Pointer)
  BY <1>1
<1>3. Count(o, Append(links, x)) = Count(o, links) + One(x, o)
  BY <1>1, CountAppend DEF One
<1>4. Count(o, Append(longer, y)) = Count(o, longer) + One(y, o)
  <2>1. longer \in Seq(Pointer)
    BY <1>2
  <2> HIDE DEF longer
  <2> QED
    BY <2>1, CountAppend DEF One
<1>5. Count(o, links) \in Nat
  BY <1>1, CountNat
<1> QED
  BY <1>2, <1>3, <1>4, <1>5 DEF links

\* What complete_walk does to the root before try_to_unlazy.
LEMMA ToUnlazyOK ==
    ASSUME nd \in Walks, WalkOK(nd), nd.rcu, NEW w, w = ToUnlazy(nd)
    PROVE  w \in Walks /\ WalkOK(w) /\ w.rcu
<1>1. CASE ~(nd.pc = "complete" /\ ~nd.call.beneath)
  BY <1>1 DEF ToUnlazy
<1>2. CASE nd.pc = "complete" /\ ~nd.call.beneath
  <2>1. w = [nd EXCEPT !.root = Nil]
    BY <1>2 DEF ToUnlazy
  <2>2. Differs(w, nd, {"root"}) /\ w.root = Nil
    BY <2>1 DEF Walks, Differs, Fields
  <2>3. /\ w \in Walks /\ w.pc = nd.pc /\ w.call = nd.call /\ w.path = nd.path
        /\ w.rcu = nd.rcu /\ w.grabbed = nd.grabbed /\ w.refs = nd.refs /\ w.stack = nd.stack
        /\ w.bodies = nd.bodies /\ w.links = nd.links /\ w.created = nd.created /\ w.err = nd.err
        /\ w.decision = nd.decision
    BY <2>2 DEF Differs, Fields
  <2>4. RefOK(w) /\ StackOK(w)
    BY <2>3 DEF WalkOK, RefOK, StackOK
  <2>5. NestOK(w) /\ DecideOK(w) /\ PlaceOK(w)
    BY <1>2, <2>3 DEF WalkOK, NestOK, DecideOK, PlaceOK, Reading, InComponent
  <2> QED
    BY <2>3, <2>4, <2>5 DEF WalkOK
<1> QED
  BY <1>1, <1>2

\* A walk that leaves RCU-walk with these pointers takes a reference for each.
LEMMA TakeAll ==
    ASSUME NEW w \in Walks, RefOK(w), w.rcu, NEW u, ~u.rcu,
           Differs(u, w, {"rcu", "path", "root", "grabbed", "stack", "bodies"}),
           NEW s, \A o \in Objects : Count(o, s) = Held(u, o), NEW v, v = Take(u, s)
    PROVE  Differs(v, u, {"refs"}) /\ RefOK(v)
<1>1. u \in Walks /\ u.refs = w.refs
  BY DEF Differs, Fields
<1>2. \A o \in Objects : Held(u, o) \in Nat /\ w.refs[o] = 0
  BY <1>1, PointersCount DEF RefOK
<1>3. Differs(v, u, {"refs"}) /\ \A o \in Objects : v.refs[o] = u.refs[o] + Count(o, s)
  BY <1>1, <1>2, TakeEffect
<1>4. v.rcu = u.rcu /\ v.grabbed = u.grabbed /\ v.path = u.path /\ v.root = u.root /\ v.stack = u.stack
  BY <1>3 DEF Differs, Fields
<1>5. \A o \in Objects : v.refs[o] = Held(v, o)
  BY <1>1, <1>2, <1>3, <1>4 DEF Held
<1> QED
  BY <1>3, <1>4, <1>5 DEF RefOK

\* try_to_unlazy succeeds.
LEMMA UnlaziedOK ==
    ASSUME NEW w \in Walks, WalkOK(w), w.rcu, NEW v, v = Unlazied(w)
    PROVE  v \in Walks /\ WalkOK(v)
<1> DEFINE got == LinksOf(w.stack) \o <<w.path, w.root>>
<1>1. PICK g \in BOOLEAN : g <=> w.root # Nil
  BY Zenon
<1> DEFINE u == [w EXCEPT !.rcu = FALSE, !.grabbed = g]
<1>2. v = Take(u, got)
  <2>1. g = (w.root # Nil)
    BY <1>1
  <2> QED
    BY <2>1, Zenon DEF Unlazied
<1>3. Differs(u, w, {"rcu", "grabbed"}) /\ ~u.rcu /\ u.grabbed = g
  <2>1. u \in Walks
    BY DEF Walks
  <2>2. \A f \in Fields \ {"rcu", "grabbed"} : u[f] = w[f]
    BY DEF Walks, Fields
  <2>3. ~u.rcu /\ u.grabbed = g
    BY DEF Walks
  <2> QED
    BY <2>1, <2>2, <2>3 DEF Differs
<1> HIDE DEF u
<1>4. u.stack = w.stack /\ u.path = w.path /\ u.root = w.root
  BY <1>3 DEF Differs, Fields
<1>5. \A o \in Objects : Count(o, got) = Held(u, o)
  <2>1. w.stack \in Seq(EntryType) /\ w.path \in Pointer /\ w.root \in Pointer
    BY DEF Walks, Pointer, Objects
  <2>2. \A o \in Objects : /\ Count(o, got) = Count(o, LinksOf(w.stack)) + One(w.path, o) + One(w.root, o)
                           /\ Count(o, LinksOf(w.stack)) \in Nat
    BY <2>1, CountGot
  <2>3. \A o \in Objects : o # Nil
    BY OpenConstants
  <2> HIDE DEF got
  <2>4. \A o \in Objects : (u.grabbed /\ u.root = o) <=> w.root = o
    BY <1>1, <1>3, <1>4, <2>3
  <2> QED
    BY <1>4, <2>2, <2>4 DEF Held, One
<1> HIDE DEF got
<1>6. Differs(v, u, {"refs"}) /\ RefOK(v)
  <2>1. Differs(u, w, {"rcu", "path", "root", "grabbed", "stack", "bodies"}) /\ RefOK(w)
    BY <1>3 DEF Differs, WalkOK
  <2> QED
    BY <1>2, <1>3, <1>5, <2>1, TakeAll
<1>7. /\ v \in Walks /\ v.pc = w.pc /\ v.call = w.call /\ v.path = w.path /\ v.root = w.root
      /\ v.stack = w.stack /\ v.bodies = w.bodies /\ v.links = w.links /\ v.created = w.created
      /\ v.err = w.err /\ v.text = w.text /\ v.names = w.names /\ v.last = w.last
      /\ v.decision = w.decision /\ v.trailing = w.trailing /\ v.more = w.more /\ v.intent = w.intent
  BY <1>3, <1>6 DEF Differs, Fields
<1>8. StackOK(v)
  BY <1>7 DEF WalkOK, StackOK
<1>9. NestOK(v)
  BY <1>7 DEF WalkOK, NestOK, Around, Reading, InComponent
<1>10. DecideOK(v) /\ PlaceOK(v)
  BY <1>7 DEF WalkOK, DecideOK, PlaceOK, Reading, InComponent
<1> QED
  BY <1>6, <1>7, <1>8, <1>9, <1>10 DEF WalkOK

\* It fails at the path or the root: what was taken is what is still pointed to.
LEMMA PathFailsOK ==
    ASSUME NEW w \in Walks, WalkOK(w), w.rcu, NEW f \in PathFails(w)
    PROVE  f \in Walks /\ RefOK(f) /\ StackOK(f) /\ Below(f) /\ (f.created => f.decision.act = "pass")
<1>1. PICK p \in {w.path, Nil} : f = Take([w EXCEPT !.rcu = FALSE, !.path = p], Append(LinksOf(w.stack), p))
  BY DEF PathFails
<1> DEFINE u == [w EXCEPT !.rcu = FALSE, !.path = p]
           s == Append(LinksOf(w.stack), p)
<1>2. p \in Objects \cup {Nil} /\ (p \in Dirs => p = w.path)
  BY OpenConstants DEF Walks, Objects
<1>3. Differs(u, w, {"rcu", "path"}) /\ ~u.rcu /\ u.path = p
  BY <1>2 DEF Walks, Differs, Fields
<1> HIDE DEF u
<1>4. u.stack = w.stack /\ u.grabbed = w.grabbed /\ ~w.grabbed
  BY <1>3 DEF Differs, Fields, WalkOK, RefOK
<1>5. \A o \in Objects : Count(o, s) = Held(u, o)
  <2>1. w.stack \in Seq(EntryType) /\ p \in Pointer
    BY <1>2 DEF Walks, Pointer
  <2>2. \A o \in Objects : /\ Count(o, s) = Count(o, LinksOf(w.stack)) + One(p, o)
                           /\ Count(o, LinksOf(w.stack)) \in Nat
    BY <2>1, CountGot
  <2> HIDE DEF s
  <2> QED
    BY <1>3, <1>4, <2>2 DEF Held, One
<1> HIDE DEF s
<1>6. Differs(f, u, {"refs"}) /\ RefOK(f)
  <2>1. Differs(u, w, {"rcu", "path", "root", "grabbed", "stack", "bodies"}) /\ RefOK(w)
    BY <1>3 DEF Differs, WalkOK
  <2>2. f = Take(u, s)
    BY <1>1 DEF u, s
  <2> QED
    BY <1>3, <1>5, <2>1, <2>2, TakeAll
<1>7. /\ f \in Walks /\ f.pc = w.pc /\ f.call = w.call /\ f.path = p /\ f.stack = w.stack
      /\ f.bodies = w.bodies /\ f.links = w.links /\ f.created = w.created /\ f.decision = w.decision
  BY <1>3, <1>6 DEF Differs, Fields
<1>8. StackOK(f)
  BY <1>7 DEF WalkOK, StackOK
<1> QED
  BY <1>2, <1>6, <1>7, <1>8, WalkAlive DEF Below

\* The root failed: links, path and, unless cleared, the root are held.
LEMMA RootFailsOK ==
    ASSUME NEW w \in Walks, WalkOK(w), w.rcu, NEW f \in RootFails(w)
    PROVE  f \in Walks /\ RefOK(f) /\ StackOK(f) /\ Below(f) /\ (f.created => f.decision.act = "pass")
<1>1. PICK r \in {w.root, Nil} : f = Take([w EXCEPT !.rcu = FALSE, !.grabbed = TRUE, !.root = r],
                                          LinksOf(w.stack) \o <<w.path, r>>)
  BY DEF RootFails
<1> DEFINE u == [w EXCEPT !.rcu = FALSE, !.grabbed = TRUE, !.root = r]
           s == LinksOf(w.stack) \o <<w.path, r>>
<1>2. r \in Dirs \cup {Nil}
  BY DEF Walks
<1>3. Differs(u, w, {"rcu", "grabbed", "root"}) /\ ~u.rcu /\ u.grabbed /\ u.root = r
  <2>1. u \in Walks
    BY <1>2 DEF Walks
  <2>2. \A x \in Fields \ {"rcu", "grabbed", "root"} : u[x] = w[x]
    BY DEF Walks, Fields
  <2>3. ~u.rcu /\ u.grabbed /\ u.root = r
    BY DEF Walks
  <2> QED
    BY <2>1, <2>2, <2>3 DEF Differs
<1> HIDE DEF u
<1>4. u.stack = w.stack /\ u.path = w.path
  BY <1>3 DEF Differs, Fields
<1>5. \A o \in Objects : Count(o, s) = Held(u, o)
  <2>1. w.stack \in Seq(EntryType) /\ w.path \in Pointer /\ r \in Pointer
    BY <1>2 DEF Walks, Pointer, Objects
  <2>2. \A o \in Objects : /\ Count(o, s) = Count(o, LinksOf(w.stack)) + One(w.path, o) + One(r, o)
                           /\ Count(o, LinksOf(w.stack)) \in Nat
    BY <2>1, CountGot
  <2> HIDE DEF s
  <2> QED
    BY <1>3, <1>4, <2>2 DEF Held, One
<1> HIDE DEF s
<1>6. Differs(f, u, {"refs"}) /\ RefOK(f)
  <2>1. Differs(u, w, {"rcu", "path", "root", "grabbed", "stack", "bodies"}) /\ RefOK(w)
    BY <1>3 DEF Differs, WalkOK
  <2>2. f = Take(u, s)
    BY <1>1 DEF u, s
  <2> QED
    BY <1>3, <1>5, <2>1, <2>2, TakeAll
<1>7. /\ f \in Walks /\ f.pc = w.pc /\ f.call = w.call /\ f.path = w.path /\ f.stack = w.stack
      /\ f.bodies = w.bodies /\ f.links = w.links /\ f.created = w.created /\ f.decision = w.decision
  BY <1>3, <1>4, <1>6 DEF Differs, Fields
<1>8. StackOK(f)
  BY <1>7 DEF WalkOK, StackOK
<1> QED
  BY <1>6, <1>7, <1>8, WalkAlive DEF Below

\* legitimize_links fails at link i: the links before it have been taken, and it
\* too or its pointer is cleared.
LEMMA LinksFailOK ==
    ASSUME NEW w \in Walks, WalkOK(w), w.rcu, NEW f \in LinksFail(w), NEW v, v = Fail(f, "ECHILD")
    PROVE  v \in Walks /\ WalkOK(v)
<1>1. \E i \in DOMAIN w.stack : \E l \in {w.stack[i].link, Nil} :
          f = Take([w EXCEPT !.rcu = FALSE, !.path = Nil, !.bodies = {},
                             !.stack = Append(SubSeq(w.stack, 1, i - 1), [w.stack[i] EXCEPT !.link = l])],
                   Append(SubSeq(LinksOf(w.stack), 1, i - 1), l))
  BY Zenon DEF LinksFail
<1>a. PICK i \in DOMAIN w.stack : \E l \in {w.stack[i].link, Nil} :
          f = Take([w EXCEPT !.rcu = FALSE, !.path = Nil, !.bodies = {},
                             !.stack = Append(SubSeq(w.stack, 1, i - 1), [w.stack[i] EXCEPT !.link = l])],
                   Append(SubSeq(LinksOf(w.stack), 1, i - 1), l))
  BY <1>1, Zenon
<1>b. PICK l \in {w.stack[i].link, Nil} :
          f = Take([w EXCEPT !.rcu = FALSE, !.path = Nil, !.bodies = {},
                             !.stack = Append(SubSeq(w.stack, 1, i - 1), [w.stack[i] EXCEPT !.link = l])],
                   Append(SubSeq(LinksOf(w.stack), 1, i - 1), l))
  BY <1>a, Zenon
<1> DEFINE S == w.stack
           below == SubSeq(w.stack, 1, i - 1)
           e == [w.stack[i] EXCEPT !.link = l]
           ns == Append(below, e)
           s == Append(SubSeq(LinksOf(w.stack), 1, i - 1), l)
           u == [w EXCEPT !.rcu = FALSE, !.path = Nil, !.bodies = {}, !.stack = ns]
<1>2. /\ S \in Seq(EntryType) /\ Len(S) \in Nat /\ i \in 1..Len(S) /\ DOMAIN S = 1..Len(S)
      /\ S[i] \in EntryType /\ l \in Pointer
  <2>1. S \in Seq(EntryType)
    BY DEF Walks
  <2>2. Len(S) \in Nat /\ i \in 1..Len(S) /\ DOMAIN S = 1..Len(S) /\ S[i] \in EntryType
    BY <2>1
  <2> QED
    BY <2>1, <2>2 DEF EntryType, Pointer
<1>3. e \in EntryType /\ e.link = l /\ e.id = S[i].id
  BY <1>2 DEF EntryType, Pointer
<1>4. /\ below \in Seq(EntryType) /\ Len(below) = i - 1 /\ DOMAIN below = 1..(i - 1)
      /\ \A k \in 1..(i - 1) : below[k] = S[k]
  <2> HIDE DEF S
  <2>1. /\ SubSeq(S, 1, i - 1) \in Seq(EntryType) /\ Len(SubSeq(S, 1, i - 1)) = i - 1
        /\ \A k \in 1..(i - 1) : SubSeq(S, 1, i - 1)[k] = S[k]
    BY <1>2
  <2> QED
    BY <2>1 DEF S
<1>5. SubSeq(LinksOf(w.stack), 1, i - 1) = LinksOf(below)
  <2> DEFINE all == LinksOf(w.stack)
  <2>1. /\ all \in Seq(Pointer) /\ Len(all) = Len(S) /\ \A k \in 1..Len(S) : all[k] = S[k].link
    BY <1>2, LinksOfType
  <2>2. /\ LinksOf(below) \in Seq(Pointer) /\ Len(LinksOf(below)) = i - 1
        /\ \A k \in 1..(i - 1) : LinksOf(below)[k] = below[k].link
    BY <1>4, LinksOfType
  <2> HIDE DEF all, S, below
  <2>3. /\ SubSeq(all, 1, i - 1) \in Seq(Pointer) /\ Len(SubSeq(all, 1, i - 1)) = i - 1
        /\ \A k \in 1..(i - 1) : SubSeq(all, 1, i - 1)[k] = all[k]
    BY <1>2, <2>1
  <2>4. \A k \in 1..(i - 1) : SubSeq(all, 1, i - 1)[k] = LinksOf(below)[k]
    BY <1>2, <1>4, <2>1, <2>2, <2>3
  <2>5. SubSeq(all, 1, i - 1) = LinksOf(below)
    BY <2>2, <2>3, <2>4
  <2> QED
    BY <2>5 DEF all
<1> HIDE DEF S, below, e
<1>6. /\ ns \in Seq(EntryType) /\ DOMAIN ns = 1..i /\ ns[i] = e
      /\ \A k \in 1..(i - 1) : ns[k] = below[k]
  BY <1>2, <1>3, <1>4
<1>7. LinksOf(ns) = Append(LinksOf(below), l)
  BY <1>3, <1>4, LinksOfAppend
<1> HIDE DEF ns
<1>8. u \in Walks /\ \A x \in Fields \ {"rcu", "path", "bodies", "stack"} : u[x] = w[x]
  <2>1. u \in Walks
    BY <1>6 DEF Walks
  <2>2. \A x \in Fields \ {"rcu", "path", "bodies", "stack"} : u[x] = w[x]
    BY DEF Walks, Fields
  <2> QED
    BY <2>1, <2>2
<1>9. ~u.rcu /\ u.path = Nil /\ u.bodies = {} /\ u.stack = ns
  BY DEF Walks
<1>10. f = Take(u, s) /\ s = LinksOf(ns)
  <2>1. s = LinksOf(ns)
    BY <1>5, <1>7
  <2> QED
    BY <1>b, <2>1 DEF ns, below, e
<1> HIDE DEF u, s
<1>11. u.grabbed = w.grabbed /\ ~w.grabbed /\ RefOK(w) /\ StackOK(w) /\ (w.created => w.decision.act = "pass")
  BY <1>8, WalkAlive DEF Fields, RefOK
<1>12. \A o \in Objects : Count(o, s) = Held(u, o)
  <2>1. \A o \in Objects : o # Nil /\ Count(o, LinksOf(ns)) \in Nat
    BY <1>6, CountNat, LinksOfType, OpenConstants
  <2> QED
    BY <1>9, <1>10, <1>11, <2>1 DEF Held
<1>13. Differs(f, u, {"refs"}) /\ RefOK(f)
  <2>1. Differs(u, w, {"rcu", "path", "root", "grabbed", "stack", "bodies"})
    BY <1>8 DEF Differs
  <2> QED
    BY <1>9, <1>10, <1>11, <1>12, <2>1, TakeAll
<1>14. Differs(v, f, {"pc", "err"}) /\ v.pc = "end" /\ v.err = "ECHILD"
  <2>1. f \in Walks
    BY <1>13 DEF Differs
  <2> QED
    BY <2>1, FailEffect DEF Errors
<1>15. /\ v \in Walks /\ v.rcu = f.rcu /\ v.path = Nil /\ f.path = Nil /\ v.root = f.root /\ v.grabbed = f.grabbed
       /\ v.refs = f.refs /\ v.stack = ns /\ f.stack = ns /\ v.bodies = {} /\ v.links = w.links
       /\ v.created = w.created /\ v.decision = w.decision
  BY <1>8, <1>9, <1>13, <1>14 DEF Differs, Fields
<1>16. RefOK(v)
  BY <1>13, <1>15 DEF RefOK, Held
<1>17. StackOK(v)
  <2>1. \A k \in 1..i : k = i \/ k \in 1..(i - 1)
    BY <1>2
  <2>2. \A k \in 1..i : k \in 1..Len(S) /\ ns[k].id = S[k].id
    <3>1. \A k \in 1..i : k \in 1..Len(S)
      BY <1>2
    <3> QED
      BY <1>3, <1>4, <1>6, <2>1, <3>1
  <2>3. \A k, m \in DOMAIN ns : k < m => ns[k].id < ns[m].id
    BY <1>2, <1>6, <1>11, <2>2 DEF StackOK, S
  <2>4. \A k \in DOMAIN ns : ns[k].id \in 1..MaxSymlinks /\ ns[k].id <= w.links
    BY <1>2, <1>6, <1>11, <2>2 DEF StackOK, S
  <2> QED
    BY <1>14, <1>15, <2>3, <2>4 DEF StackOK
<1>18. Nil \notin Dirs
  BY OpenConstants DEF Objects
<1>19. NestOK(v) /\ DecideOK(v) /\ PlaceOK(v)
  BY <1>11, <1>14, <1>15, <1>18 DEF NestOK, DecideOK, PlaceOK, Reading, InComponent
<1> QED
  BY <1>15, <1>16, <1>17, <1>19 DEF WalkOK

\* try_to_unlazy, try_to_unlazy_next
LEMMA UnlazyOK == ASSUME nd \in Walks, WalkOK(nd), nd.rcu, Unlazy PROVE Kept
<1> DEFINE w == ToUnlazy(nd)
<1>1. w \in Walks /\ WalkOK(w) /\ w.rcu
  BY ToUnlazyOK
<1>2. \/ nd' = Unlazied(w)
      \/ \E f \in LinksFail(w) \cup PathFails(w) \cup RootFails(w) : nd' = Fail(f, "ECHILD")
  BY DEF Unlazy, Walk
<1> HIDE DEF w
<1>3. CASE nd' = Unlazied(w)
  BY <1>1, <1>3, UnlaziedOK DEF Kept
<1>4. ASSUME NEW f \in LinksFail(w), nd' = Fail(f, "ECHILD") PROVE Kept
  BY <1>1, <1>4, LinksFailOK DEF Kept
<1>5. ASSUME NEW f \in PathFails(w) \cup RootFails(w), nd' = Fail(f, "ECHILD") PROVE Kept
  <2>1. f \in Walks /\ RefOK(f) /\ StackOK(f) /\ Below(f) /\ (f.created => f.decision.act = "pass")
    BY <1>1, PathFailsOK, RootFailsOK
  <2> QED
    BY <1>5, <2>1, FailOK DEF Kept, Errors
<1> QED
  BY <1>2, <1>3, <1>4, <1>5

-----------------------------------------------------------------------------
(* The invariant and what follows from it.                                 *)

\* The first state.
LEMMA InitOK == Init => OpenInv
<1> SUFFICES ASSUME Init PROVE OpenInv
  OBVIOUS
<1>1. fs \in Layouts /\ policy \in Policies /\ changes = 0 /\ nd = Idle
  BY DEF Init
<1>2. fs \in Layout /\ changes \in 0..MaxChanges
  BY <1>1, OpenConstants
<1>3. TreeOK
  BY <1>1, <1>2, OneParent DEF TreeOK
<1> QED
  BY <1>1, <1>3 DEF OpenInv

\* A step of the call, each action by its lemma.  Between calls there is none.
LEMMA WalkStepOK == ASSUME OpenInv, WalkStep PROVE Kept /\ TreeOK'
<1>1. nd.pc # "idle"
  BY DEF WalkStep, TryToUnlazy, TryToUnlazyNext, LookupFast, RcuFails, PathInit, NextComponent,
         LastComponent, Dots, Decide, PolicyFails, Deciding, FailRef, ApplyRedirect, ApplyTarget,
         Component, LookingUp, CacheMiss, OpenSlash, OpenFound, OpenCreates, Complete, Completing,
         Stale, Terminate
<1>2. TreeOK /\ nd \in Walks /\ WalkOK(nd)
  BY <1>1 DEF OpenInv, Idle
<1>3. ~OpenCreates => UNCHANGED <<fs, policy, changes>>
  BY DEF WalkStep, Walk, TryToUnlazy, TryToUnlazyNext, Unlazy, RcuFails, PathInit, NextComponent,
         LastComponent, Dots, Decide, PolicyFails, FailRef, ApplyRedirect, ApplyTarget,
         Component, CacheMiss, OpenSlash, OpenFound, Complete, Stale, Terminate
<1>4. CASE OpenCreates
  BY <1>2, <1>4, OpenCreatesOK
<1>5. CASE ~OpenCreates
  <2>1. TreeOK'
    BY <1>2, <1>3, <1>5 DEF TreeOK
  <2>2. CASE TryToUnlazy \/ TryToUnlazyNext
    BY <1>2, <2>1, <2>2, UnlazyOK DEF TryToUnlazy, TryToUnlazyNext
  <2>3. CASE RcuFails \/ PathInit \/ NextComponent \/ LastComponent \/ Dots
    BY <1>2, <2>1, <2>3, RcuFailsOK, PathInitOK, NextComponentOK, LastComponentOK, DotsOK
  <2>4. CASE Decide \/ PolicyFails \/ FailRef \/ ApplyRedirect \/ ApplyTarget
    BY <1>2, <2>1, <2>4, DecideOKStep, PolicyFailsOK, FailRefOK, ApplyRedirectOK, ApplyTargetOK
  <2>5. CASE Component \/ CacheMiss \/ OpenSlash \/ OpenFound
    BY <1>2, <2>1, <2>5, ComponentOK, CacheMissOK, OpenSlashOK, OpenFoundOK
  <2>6. CASE Complete \/ Stale \/ Terminate
    BY <1>2, <2>1, <2>6, CompleteOK, StaleOK, TerminateOK
  <2> QED
    BY <1>5, <2>2, <2>3, <2>4, <2>5, <2>6 DEF WalkStep
<1> QED
  BY <1>4, <1>5

\* Every step of the call and of the other tasks.
LEMMA OpenStep == OpenInv /\ [Next]_vars => OpenInv'
<1> SUFFICES ASSUME OpenInv, [Next]_vars PROVE OpenInv'
  OBVIOUS
<1>1. ASSUME NEW c \in Calls, Start(c) PROVE OpenInv'
  <2>1. Kept
    BY <1>1, StartOK
  <2>2. TreeOK'
    BY <1>1 DEF Start, Walk, OpenInv, TreeOK
  <2> QED
    BY <2>1, <2>2 DEF OpenInv, Kept, WalkOK
<1>2. CASE WalkStep
  BY <1>2, WalkStepOK DEF OpenInv, Kept
<1>3. CASE Returned \/ UNCHANGED vars
  BY <1>3 DEF Returned, vars, OpenInv, TreeOK
<1>4. ASSUME NEW d \in Managed, NEW n \in Names, NEW o \in (Files \ {Fresh}) \cup Links \cup {Nil},
             SetEntry(d, n, o)
      PROVE  OpenInv'
  BY <1>4, SetEntryOK DEF OpenInv, Kept
<1>5. ASSUME NEW p \in Policies, SetPolicy(p) PROVE OpenInv'
  BY <1>5, SetPolicyOK DEF OpenInv, Kept
<1> QED
  BY <1>1, <1>2, <1>3, <1>4, <1>5 DEF Next

\* Every state of a lookup or an open, in RCU-walk or ref-walk and over all restarts,
\* satisfies the inductive invariant (path_lookupat, path_openat, terminate_walk).
THEOREM OpenInvariant == Spec => []OpenInv
BY InitOK, OpenStep, PTL DEF Spec

\* A ref-walk has one reference for every link, path and root it holds, an RCU-walk
\* none, however far try_to_unlazy got before it failed (legitimize_links, terminate_walk).
THEOREM OpenRefsMatchPointers == Spec => []RefsMatchPointers
<1>1. OpenInv => RefsMatchPointers
  <2> SUFFICES ASSUME OpenInv, nd # Idle, NEW o \in Objects
               PROVE  nd.refs[o] = IF nd.rcu THEN 0 ELSE Count(o, Pointers(nd))
    BY DEF RefsMatchPointers
  <2>1. nd \in Walks /\ RefOK(nd)
    BY DEF OpenInv, WalkOK
  <2> QED
    BY <2>1, PointersCount DEF RefOK
<1> QED
  BY <1>1, OpenInvariant, PTL

\* No body of a link is released while the walk reads components from it, although a
\* selection leaves a finished link on the stack (walk_component_namei_ext, put_link).
THEOREM OpenLinkBodiesAlive == Spec => []LinkBodiesAlive
<1>1. OpenInv => LinkBodiesAlive
  <2> SUFFICES ASSUME OpenInv, nd # Idle, nd.pc \notin {"init", "fail", "complete", "end", "done"}
               PROVE  TextsInUse \subseteq nd.bodies \cup {0} /\ Len(nd.names) <= Len(nd.stack)
    BY DEF LinkBodiesAlive
  <2>1. nd \in Walks /\ NestOK(nd) /\ nd.pc \in Reading
    BY DEF OpenInv, WalkOK, Walks, Steps, Reading, InComponent
  <2>2. Around(nd) /\ (nd.pc # "walk" => nd.last.src \in nd.bodies \cup {0})
    BY <2>1 DEF NestOK
  <2>3. \A t \in {nd.text} \cup {nd.names[i] : i \in DOMAIN nd.names} : t.src \in nd.bodies \cup {0}
    BY <2>2 DEF Around
  <2>4. TextsInUse \subseteq nd.bodies \cup {0}
    BY <2>2, <2>3 DEF TextsInUse
  <2> QED
    BY <2>2, <2>4 DEF Around
<1> QED
  BY <1>1, OpenInvariant, PTL

\* O_CREAT creates only a name that the policy passed, whichever links led to it and
\* however often the walk restarted (namei_ext_lookup, open_last_lookups_common).
THEOREM OpenCreatesOnlyWhatPassed == Spec => []CreatesOnlyWhatPassed
<1>1. OpenInv => CreatesOnlyWhatPassed
  BY DEF OpenInv, WalkOK, DecideOK, CreatesOnlyWhatPassed
<1> QED
  BY <1>1, OpenInvariant, PTL

\* With RESOLVE_BENEATH no step of a walk stands outside the starting directory: not by
\* "..", an absolute link or a selected target (handle_dots, namei_ext_apply_target).
THEOREM OpenStaysBeneath == Spec => []StaysBeneath
<1>1. OpenInv => StaysBeneath
  BY DEF OpenInv, WalkOK, PlaceOK, StaysBeneath
<1> QED
  BY <1>1, OpenInvariant, PTL

\* The walk is well typed: no reference is put that was not taken, and no more links
\* are held than reserve_stack allows.
THEOREM OpenTyped == Spec => []TypeOK
<1>1. OpenInv => TypeOK
  <2> SUFFICES ASSUME OpenInv, nd # Idle
               PROVE  /\ nd.attempt \in 1..3 /\ nd.rcu \in BOOLEAN
                      /\ nd.path \in PathType /\ nd.root \in PathType
                      /\ \A o \in Objects : nd.refs[o] \in Nat
                      /\ nd.bodies \subseteq 1..MaxSymlinks
    BY DEF TypeOK, OpenInv, TreeOK
  <2>1. nd \in Walks /\ RefOK(nd) /\ StackOK(nd)
    BY DEF OpenInv, WalkOK
  <2>2. nd.attempt \in 1..3 /\ nd.rcu \in BOOLEAN /\ nd.path \in PathType /\ nd.root \in PathType
    BY <2>1 DEF Walks, PathType, Objects
  <2>3. \A o \in Objects : nd.refs[o] \in Nat
    BY <2>1, PointersCount DEF RefOK
  <2>4. nd.bodies \subseteq 1..MaxSymlinks
    BY <2>1 DEF StackOK
  <2> QED
    BY <2>2, <2>3, <2>4
<1> QED
  BY <1>1, OpenInvariant, PTL
=============================================================================
