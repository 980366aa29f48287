--------------------------- MODULE PathGuardProofs ---------------------------
(***************************************************************************)
(* Proofs about the path guard (internal/pathguard/pathguard.go), the      *)
(* routing of internal/cifsops/rootpool.go and glob of internal/tools/     *)
(* glob.go, for every tree, list of allowed directories and path a client  *)
(* names: what is accepted stays inside the allowed directories while      *)
(* other requests create entries, one file has one resolved path, a path   *)
(* is routed to the innermost directory over it, and glob lists, newest    *)
(* first, what matches of all it has to walk over.                         *)
(***************************************************************************)
EXTENDS Search, TLAPS, WellFoundedInduction, SequenceTheorems,
        FiniteSetTheorems

-----------------------------------------------------------------------------
(* Numbers.                                                                *)

(* A nonempty set of natural numbers has a least element.                  *)
LEMMA LeastNat ==
  ASSUME NEW S, S \subseteq Nat, S # {}
  PROVE  \E m \in S : \A k \in S : m <= k
<1> DEFINE R == {ss \in Nat \X Nat : ss[1] < ss[2]}
<1>1. IsWellFoundedOn(R, Nat)
  BY NatLessThanWellFounded DEF OpToRel
<1>2. \A k, m \in Nat : <<k, m>> \in R <=> k < m
  OBVIOUS
<1> HIDE DEF R
<1>3. PICK m \in S : \A k \in S : <<k, m>> \notin R
  BY <1>1, WFMin
<1>4. ASSUME NEW k \in S PROVE m <= k
  <2>1. k \in Nat /\ m \in Nat
    OBVIOUS
  <2>2. ~ (k < m)
    BY <1>2, <1>3, <2>1
  <2> QED
    BY <2>1, <2>2
<1> QED
  BY <1>4

(* A property that holds of 0 and passes from each number to the next      *)
(* holds up to n: induction on a set, in place of a predicate.             *)
LEMMA UpTo ==
  ASSUME NEW n \in Nat, NEW S, 0 \in S, \A k \in 0..(n - 1) : k \in S => k + 1 \in S
  PROVE  0..n \subseteq S
<1> DEFINE Wrong == (0..n) \ S
<1> SUFFICES ASSUME Wrong # {} PROVE FALSE
  OBVIOUS
<1>0. Wrong \subseteq Nat
  OBVIOUS
<1>1. PICK m \in Wrong : \A k \in Wrong : m <= k
  <2> HIDE DEF Wrong
  <2> QED
    BY <1>0, LeastNat
<1>2. m \in 1..n
  BY <1>1
<1>3. m - 1 \in S /\ m - 1 \in 0..(n - 1)
  BY <1>1, <1>2
<1> QED
  BY <1>1, <1>2, <1>3

(* A sequence of one.                                                      *)
LEMMA Single ==
  ASSUME NEW S, NEW x \in S
  PROVE  <<x>> \in Seq(S)
  OBVIOUS

Recurses(f, n, base, step) == /\ f[0] = base
                              /\ \A k \in 1..n : f[k] = step[k][f[k - 1]]

(* A recursion over 0..n whose steps stay inside a set.                    *)
LEMMA Recursion ==
  ASSUME NEW n \in Nat, NEW S, NEW base \in S, NEW step \in [1..n -> [S -> S]]
  PROVE  \E f \in [0..n -> S] : Recurses(f, n, base, step)
<1> DEFINE Good(m, f) == /\ f \in [0..m -> S]
                         /\ f[0] = base
                         /\ \A k \in 1..m : f[k] = step[k][f[k - 1]]
           Sofar == {m \in 0..n : \E f : Good(m, f)}
<1>1. 0 \in Sofar
  <2> DEFINE f == [k \in 0..0 |-> base]
  <2>1. Good(0, f)
    OBVIOUS
  <2>2. 0 \in 0..n
    OBVIOUS
  <2> QED
    BY <2>1, <2>2
<1>2. ASSUME NEW m \in 0..(n - 1), m \in Sofar PROVE m + 1 \in Sofar
  <2>1. PICK f : Good(m, f)
    BY <1>2
  <2> DEFINE g == [k \in 0..(m + 1) |-> IF k = m + 1 THEN step[m + 1][f[m]] ELSE f[k]]
  <2>2. m + 1 \in 1..n /\ m \in 0..m /\ m + 1 \in 0..n
    OBVIOUS
  <2>3. f[m] \in S /\ step[m + 1] \in [S -> S]
    BY <2>1, <2>2
  <2>4. step[m + 1][f[m]] \in S
    BY <2>3
  <2>5. g \in [0..(m + 1) -> S]
    BY <2>1, <2>4
  <2>6. g[m + 1] = step[m + 1][f[m]] /\ \A k \in 0..m : g[k] = f[k]
    OBVIOUS
  <2> HIDE DEF g
  <2>7. ASSUME NEW k \in 1..(m + 1) PROVE g[k] = step[k][g[k - 1]]
    <3>1. k - 1 \in 0..m
      OBVIOUS
    <3>2. g[k - 1] = f[k - 1]
      BY <2>6, <3>1
    <3>3. CASE k = m + 1
      <4>1. k - 1 = m
        BY <3>3
      <4> QED
        BY <2>6, <3>2, <3>3, <4>1
    <3>4. CASE k \in 1..m
      BY <2>1, <2>6, <3>2, <3>4
    <3> QED
      BY <3>3, <3>4
  <2>8. g[0] = base
    BY <2>1, <2>6
  <2>9. Good(m + 1, g)
    BY <2>5, <2>7, <2>8
  <2> QED
    BY <2>2, <2>9
<1>3. n \in Sofar
  <2> HIDE DEF Sofar
  <2>1. 0..n \subseteq Sofar
    BY <1>1, <1>2, UpTo
  <2> QED
    BY <2>1
<1> QED
  BY <1>3 DEF Recurses

(* What such a recursion yields lies in the set.                           *)
LEMMA RecursionTyped ==
  ASSUME NEW n \in Nat, NEW S, NEW f, f[0] \in S,
         \A k \in 1..n : f[k - 1] \in S => f[k] \in S
  PROVE  \A k \in 0..n : f[k] \in S
<1> DEFINE Typed == {k \in 0..n : f[k] \in S}
<1>1. 0 \in Typed
  OBVIOUS
<1>2. ASSUME NEW m \in 0..(n - 1), m \in Typed PROVE m + 1 \in Typed
  <2>1. m + 1 \in 1..n /\ (m + 1) - 1 = m
    OBVIOUS
  <2> QED
    BY <1>2, <2>1
<1>3. 0..n \subseteq Typed
  <2> HIDE DEF Typed
  <2> QED
    BY <1>1, <1>2, UpTo
<1> QED
  BY <1>3

-----------------------------------------------------------------------------
(* Paths and trees.  A tree is a parameter here, so that the one before    *)
(* and the one after a step can be compared.                               *)

KindIn(t, p) == IF p \in Paths THEN t[p].kind ELSE "absent"

TreeOK(t) ==
  /\ t \in [Paths -> Entries]
  /\ t[<<>>].kind = "dir"
  /\ \A p \in Paths \ {<<>>} :
       t[p].kind # "absent" => t[Front(p)].kind = "dir"

HaltIn(t, walk) ==
  IF walk.rest = <<>> THEN "none"
  ELSE IF KindIn(t, walk.at) # "dir" THEN "ENOTDIR"
  ELSE IF KindIn(t, Ahead(walk)) = "absent" THEN "ENOENT"
  ELSE IF KindIn(t, Ahead(walk)) = "link" /\ walk.links = MaxLinks THEN "ELOOP"
  ELSE "onward"

OnwardIn(t, walk) ==
  IF KindIn(t, Ahead(walk)) = "link"
  THEN [at |-> <<>>, rest |-> t[Ahead(walk)].to \o Tail(walk.rest),
        links |-> walk.links + 1]
  ELSE [at |-> Ahead(walk), rest |-> Tail(walk.rest), links |-> walk.links]

AnswerIn(t, walk) ==
  [err |-> HaltIn(t, walk),
   path |-> IF HaltIn(t, walk) \in {"none", "ENOTDIR"} THEN walk.at ELSE Ahead(walk)]

EvalIn(t) ==
  CHOOSE f : f = [walk \in Walks |->
                    IF HaltIn(t, walk) = "onward" THEN f[OnwardIn(t, walk)]
                    ELSE AnswerIn(t, walk)]

Start(path) == [at |-> <<>>, rest |-> path, links |-> 0]

(* A path is a sequence of names that is not too long.                     *)
LEMMA PathsAre ==
  /\ Depth \in Nat
  /\ Paths = {p \in Seq(Names) : Len(p) <= Depth}
  /\ <<>> \in Paths
<1>1. Depth \in Nat
  BY GuardAssumption
<1>2. Paths = UNION {[1..m -> Names] : m \in 0..Depth}
  BY DEF Paths, BoundedSeq, SeqOf
<1>3. ASSUME NEW p \in Paths PROVE p \in Seq(Names) /\ Len(p) <= Depth
  <2>1. PICK m \in 0..Depth : p \in [1..m -> Names]
    BY <1>2
  <2>2. p \in Seq(Names)
    BY <1>1, <2>1, SeqDef
  <2>3. Len(p) = m
    BY <1>1, <2>1, <2>2, LenProperties
  <2> QED
    BY <1>1, <2>1, <2>2, <2>3
<1>4. ASSUME NEW p \in Seq(Names), Len(p) <= Depth PROVE p \in Paths
  <2>1. p \in [1..Len(p) -> Names] /\ Len(p) \in 0..Depth
    BY <1>1, <1>4, LenProperties
  <2> QED
    BY <1>2, <2>1
<1>5. <<>> \in Seq(Names) /\ Len(<<>>) = 0
  BY EmptySeq
<1>6. <<>> \in Paths
  <2>1. \A p \in Seq(Names) : Len(p) <= Depth => p \in Paths
    BY <1>4
  <2>2. Len(<<>>) <= Depth
    BY <1>1, <1>5
  <2>3. <<>> \in Seq(Names)
    BY <1>5
  <2> HIDE DEF Paths
  <2> QED
    BY <2>1, <2>2, <2>3
<1>7. Paths = {p \in Seq(Names) : Len(p) <= Depth}
  BY <1>3, <1>4
<1> QED
  BY <1>1, <1>6, <1>7

(* The path before the last name, and the path with one name more.         *)
LEMMA FrontLast ==
  ASSUME NEW S, NEW p \in Seq(S), p # <<>>
  PROVE  /\ Front(p) \in Seq(S) /\ Last(p) \in S
         /\ Len(Front(p)) = Len(p) - 1 /\ Len(p) \in Nat \ {0}
         /\ p = Append(Front(p), Last(p))
         /\ \A i \in 1..(Len(p) - 1) : Front(p)[i] = p[i]
<1>1. Len(p) \in Nat \ {0} /\ p \in [1..Len(p) -> S]
  BY EmptySeq, LenProperties
<1>2. Len(p) - 1 \in Int /\ \A i \in 1..(Len(p) - 1) : p[i] \in S
  BY <1>1
<1>3. /\ Front(p) \in Seq(S)
      /\ Len(Front(p)) = Len(p) - 1
      /\ \A i \in 1..(Len(p) - 1) : Front(p)[i] = p[i]
  <2> DEFINE n == Len(p) - 1
  <2>1. n \in Int /\ \A i \in 1..n : p[i] \in S
    BY <1>2
  <2> HIDE DEF n
  <2>2. /\ SubSeq(p, 1, n) \in Seq(S)
        /\ Len(SubSeq(p, 1, n)) = IF 1 <= n THEN n - 1 + 1 ELSE 0
        /\ \A i \in 1..(n - 1 + 1) : SubSeq(p, 1, n)[i] = p[1 + i - 1]
    BY <2>1, SubSeqProperties
  <2>3. n \in Nat
    BY <1>1 DEF n
  <2>4. /\ Len(SubSeq(p, 1, n)) = n
        /\ \A i \in 1..n : SubSeq(p, 1, n)[i] = p[i]
    BY <2>2, <2>3
  <2> QED
    BY <2>2, <2>4 DEF n, Front
<1>4. Last(p) \in S
  BY <1>1 DEF Last
<1>5. p = Append(Front(p), Last(p))
  <2> DEFINE q == Append(Front(p), Last(p))
  <2>0. /\ q \in Seq(S) /\ Len(q) = Len(Front(p)) + 1
        /\ \A i \in 1..Len(Front(p)) : q[i] = Front(p)[i]
        /\ q[Len(Front(p)) + 1] = Last(p)
    BY <1>3, <1>4, AppendProperties
  <2>1. /\ q \in Seq(S) /\ Len(q) = Len(p)
        /\ \A i \in 1..(Len(p) - 1) : q[i] = p[i]
        /\ q[Len(p)] = p[Len(p)]
    <3> HIDE DEF q
    <3>1. (Len(p) - 1) + 1 = Len(p)
      BY <1>1
    <3> QED
      BY <1>3, <2>0, <3>1 DEF Last
  <2> HIDE DEF q
  <2>2. \A i \in 1..Len(p) : p[i] = q[i]
    BY <1>1, <2>1
  <2>3. p = q
    BY <2>1, <2>2, SeqEqual
  <2> QED
    BY <2>3 DEF q
<1> QED
  BY <1>1, <1>3, <1>4, <1>5

(* A path with a name more, and its parent.                                *)
LEMMA OneMore ==
  ASSUME NEW S, NEW p \in Seq(S), NEW x \in S
  PROVE  /\ Append(p, x) \in Seq(S) /\ Append(p, x) # <<>>
         /\ Len(Append(p, x)) = Len(p) + 1
         /\ Front(Append(p, x)) = p /\ Last(Append(p, x)) = x
<1>1. /\ Append(p, x) \in Seq(S) /\ Append(p, x) # <<>>
      /\ Len(Append(p, x)) = Len(p) + 1 /\ Len(p) \in Nat
  BY AppendProperties, LenProperties
<1>2. /\ Front(Append(p, x)) \in Seq(S)
      /\ Last(Append(p, x)) \in S
      /\ Append(p, x) = Append(Front(Append(p, x)), Last(Append(p, x)))
  BY <1>1, FrontLast
<1> DEFINE f == Front(Append(p, x))
           l == Last(Append(p, x))
<1> HIDE DEF f, l
<1>3. p = f /\ x = l
  <2>1. f \in Seq(S) /\ l \in S /\ Append(p, x) = Append(f, l)
    BY <1>2 DEF f, l
  <2> QED
    BY <2>1, AppendInjective
<1> QED
  BY <1>1, <1>3 DEF f, l

(* What is absent, what a link is, and what lies over an entry.            *)
LEMMA TreeFacts ==
  ASSUME NEW t, TreeOK(t)
  PROVE  /\ KindIn(t, <<>>) = "dir"
         /\ \A p \in Seq(Names) : KindIn(t, p) \in {"absent", "file", "dir", "link"}
         /\ \A p : KindIn(t, p) # "absent" => p \in Paths
         /\ \A p \in Paths : KindIn(t, p) = "link" => t[p].to \in Paths
         /\ \A p \in Seq(Names) : p # <<>> /\ KindIn(t, p) # "absent" =>
                                    KindIn(t, Front(p)) = "dir"
<1>1. \A e \in Entries : /\ e.kind \in {"absent", "file", "dir", "link"}
                         /\ e.kind = "link" => e.to \in Paths
  BY DEF Entries
<1>2. \A p \in Paths : t[p] \in Entries /\ KindIn(t, p) = t[p].kind
  BY DEF TreeOK, KindIn
<1>3. \A p : p \notin Paths => KindIn(t, p) = "absent"
  BY DEF KindIn
<1>4. KindIn(t, <<>>) = "dir"
  BY <1>2, PathsAre DEF TreeOK
<1>5. ASSUME NEW p \in Seq(Names), p # <<>>, KindIn(t, p) # "absent"
      PROVE  KindIn(t, Front(p)) = "dir"
  <2>1. p \in Paths
    BY <1>3, <1>5
  <2>2. Front(p) \in Paths
    BY <1>5, <2>1, FrontLast, PathsAre
  <2>3. t[Front(p)].kind = "dir"
    BY <1>2, <1>5, <2>1 DEF TreeOK
  <2> QED
    BY <1>2, <2>2, <2>3
<1>6. \A p \in Seq(Names) : KindIn(t, p) \in {"absent", "file", "dir", "link"}
  BY <1>1, <1>2, <1>3
<1>7. \A p \in Paths : KindIn(t, p) = "link" => t[p].to \in Paths
  BY <1>1, <1>2
<1> QED
  BY <1>3, <1>4, <1>5, <1>6, <1>7

-----------------------------------------------------------------------------
(* Walks.  Every step takes a name off, or follows one of finitely many    *)
(* links.                                                                  *)

(* The parts of a walk, and the entry ahead of it.                         *)
LEMMA WalkFields ==
  ASSUME NEW w \in Walks
  PROVE  /\ w.at \in Seq(Names) /\ w.rest \in Seq(Names) /\ w.links \in 0..MaxLinks
         /\ MaxLinks \in Nat /\ Len(w.rest) \in Nat
         /\ w.rest # <<>> =>
              /\ Head(w.rest) \in Names /\ Tail(w.rest) \in Seq(Names)
              /\ Len(Tail(w.rest)) = Len(w.rest) - 1 /\ Len(w.rest) # 0
              /\ Ahead(w) \in Seq(Names) /\ Ahead(w) # <<>> /\ Front(Ahead(w)) = w.at
<1>1. /\ w.at \in Seq(Names) /\ w.rest \in Seq(Names) /\ w.links \in 0..MaxLinks
      /\ MaxLinks \in Nat
  BY GuardAssumption DEF Walks
<1>2. Len(w.rest) \in Nat
  BY <1>1, LenProperties
<1>3. ASSUME w.rest # <<>>
      PROVE  /\ Head(w.rest) \in Names /\ Tail(w.rest) \in Seq(Names)
             /\ Len(Tail(w.rest)) = Len(w.rest) - 1 /\ Len(w.rest) # 0
             /\ Ahead(w) \in Seq(Names) /\ Ahead(w) # <<>> /\ Front(Ahead(w)) = w.at
  <2>1. /\ Head(w.rest) \in Names /\ Tail(w.rest) \in Seq(Names)
        /\ Len(Tail(w.rest)) = Len(w.rest) - 1 /\ Len(w.rest) # 0
    BY <1>1, <1>3, HeadTailProperties, EmptySeq
  <2>2. /\ Ahead(w) \in Seq(Names) /\ Ahead(w) # <<>> /\ Front(Ahead(w)) = w.at
    BY <1>1, <2>1, OneMore DEF Ahead
  <2> QED
    BY <2>1, <2>2
<1> QED
  BY <1>1, <1>2, <1>3

(* When a walk goes on.                                                    *)
LEMMA GoesOn ==
  ASSUME NEW t, TreeOK(t), NEW w \in Walks, HaltIn(t, w) = "onward"
  PROVE  /\ w.rest # <<>> /\ KindIn(t, w.at) = "dir"
         /\ Ahead(w) \in Paths /\ KindIn(t, Ahead(w)) \in {"file", "dir", "link"}
         /\ KindIn(t, Ahead(w)) = "link" =>
              /\ w.links < MaxLinks /\ t[Ahead(w)].to \in Paths
              /\ OnwardIn(t, w) = [at |-> <<>>,
                                   rest |-> t[Ahead(w)].to \o Tail(w.rest),
                                   links |-> w.links + 1]
         /\ KindIn(t, Ahead(w)) # "link" =>
              OnwardIn(t, w) = [at |-> Ahead(w), rest |-> Tail(w.rest),
                                links |-> w.links]
<1>1. /\ w.rest # <<>> /\ KindIn(t, w.at) = "dir"
      /\ KindIn(t, Ahead(w)) # "absent"
      /\ KindIn(t, Ahead(w)) = "link" => w.links # MaxLinks
  BY DEF HaltIn
<1>2. Ahead(w) \in Paths
  BY <1>1, TreeFacts
<1>3. KindIn(t, Ahead(w)) \in {"file", "dir", "link"}
  BY <1>1, TreeFacts, WalkFields
<1>4. KindIn(t, Ahead(w)) = "link" =>
        w.links < MaxLinks /\ t[Ahead(w)].to \in Paths
  <2>1. w.links \in 0..MaxLinks /\ MaxLinks \in Nat
    BY WalkFields
  <2>2. KindIn(t, Ahead(w)) = "link" => t[Ahead(w)].to \in Paths
    BY <1>2, TreeFacts
  <2>3. KindIn(t, Ahead(w)) = "link" => w.links # MaxLinks
    BY <1>1
  <2>4. w.links # MaxLinks => w.links < MaxLinks
    BY <2>1
  <2> QED
    BY <2>2, <2>3, <2>4
<1>5. KindIn(t, Ahead(w)) = "link" =>
        OnwardIn(t, w) = [at |-> <<>>, rest |-> t[Ahead(w)].to \o Tail(w.rest),
                          links |-> w.links + 1]
  BY DEF OnwardIn
<1>6. KindIn(t, Ahead(w)) # "link" =>
        OnwardIn(t, w) = [at |-> Ahead(w), rest |-> Tail(w.rest),
                          links |-> w.links]
  BY DEF OnwardIn
<1> QED
  BY <1>1, <1>2, <1>3, <1>4, <1>5, <1>6

(* A step leads to a walk with fewer links left, or with as many and fewer *)
(* names.                                                                  *)
LEMMA StepLighter ==
  ASSUME NEW t, TreeOK(t), NEW w \in Walks, HaltIn(t, w) = "onward"
  PROVE  /\ OnwardIn(t, w) \in Walks
         /\ \/ OnwardIn(t, w).links = w.links + 1
            \/ /\ OnwardIn(t, w).links = w.links
               /\ Len(OnwardIn(t, w).rest) = Len(w.rest) - 1
<1> DEFINE o == OnwardIn(t, w)
           to == t[Ahead(w)].to
<1>1. w.rest # <<>>
  BY GoesOn
<1>2. /\ Ahead(w) \in Seq(Names)
      /\ Tail(w.rest) \in Seq(Names)
      /\ Len(Tail(w.rest)) = Len(w.rest) - 1
      /\ w.links \in 0..MaxLinks /\ MaxLinks \in Nat
  BY <1>1, WalkFields
<1>3. CASE KindIn(t, Ahead(w)) = "link"
  <2>1. /\ to \in Paths /\ w.links < MaxLinks
        /\ o = [at |-> <<>>, rest |-> to \o Tail(w.rest), links |-> w.links + 1]
    BY <1>3, GoesOn
  <2>2. to \in Seq(Names)
    BY <2>1, PathsAre
  <2> HIDE DEF o, to
  <2>3. to \o Tail(w.rest) \in Seq(Names)
    BY <1>2, <2>2, ConcatProperties
  <2>4. <<>> \in Seq(Names)
    BY EmptySeq
  <2>5. w.links + 1 \in 0..MaxLinks
    BY <1>2, <2>1
  <2> DEFINE rest == to \o Tail(w.rest)
  <2> HIDE DEF rest
  <2>6. o \in Walks /\ o.links = w.links + 1
    <3>1. rest \in Seq(Names) /\ o = [at |-> <<>>, rest |-> rest, links |-> w.links + 1]
      BY <2>1, <2>3 DEF rest
    <3> QED
      BY <2>4, <2>5, <3>1 DEF Walks
  <2> QED
    BY <2>6 DEF o
<1>4. CASE KindIn(t, Ahead(w)) # "link"
  <2>1. o = [at |-> Ahead(w), rest |-> Tail(w.rest), links |-> w.links]
    BY <1>4, GoesOn
  <2> HIDE DEF o
  <2>2. o \in Walks
    BY <1>2, <2>1 DEF Walks
  <2>3. o.links = w.links /\ Len(o.rest) = Len(w.rest) - 1
    BY <1>2, <2>1
  <2> QED
    BY <2>2, <2>3 DEF o
<1> QED
  BY <1>3, <1>4

(* Induction along walks: what holds of a walk whenever it holds of the    *)
(* step after it holds of every walk.                                      *)
LEMMA WalkInduction ==
  ASSUME NEW t, TreeOK(t), NEW G,
         \A w \in Walks : (HaltIn(t, w) = "onward" => OnwardIn(t, w) \in G) => w \in G
  PROVE  Walks \subseteq G
<1> SUFFICES ASSUME Walks \ G # {} PROVE FALSE
  OBVIOUS
<1> DEFINE Lefts == {MaxLinks - w.links : w \in Walks \ G}
<1>1. ASSUME NEW w \in Walks
      PROVE  MaxLinks - w.links \in Nat /\ Len(w.rest) \in Nat
  <2>1. w.links \in 0..MaxLinks /\ MaxLinks \in Nat /\ Len(w.rest) \in Nat
    BY WalkFields
  <2> QED
    BY <2>1
<1>2. Lefts \subseteq Nat /\ Lefts # {}
  BY <1>1
<1>3. PICK l \in Lefts : \A k \in Lefts : l <= k
  <2> HIDE DEF Lefts
  <2> QED
    BY <1>2, LeastNat
<1> DEFINE Lens == {Len(w.rest) : w \in {v \in Walks \ G : MaxLinks - v.links = l}}
<1>4. Lens \subseteq Nat /\ Lens # {}
  BY <1>1
<1>5. PICK m \in Lens : \A k \in Lens : m <= k
  <2> HIDE DEF Lens
  <2> QED
    BY <1>4, LeastNat
<1>6. PICK w \in Walks \ G : MaxLinks - w.links = l /\ Len(w.rest) = m
  BY <1>5
<1> DEFINE o == OnwardIn(t, w)
<1>7. HaltIn(t, w) = "onward" /\ o \notin G
  BY <1>6
<1>8. /\ o \in Walks
      /\ \/ o.links = w.links + 1
         \/ o.links = w.links /\ Len(o.rest) = Len(w.rest) - 1
  BY <1>7, StepLighter
<1> HIDE DEF o
<1>9. l <= MaxLinks - o.links
  BY <1>3, <1>7, <1>8
<1>10. MaxLinks \in Nat /\ w.links \in 0..MaxLinks /\ o.links \in 0..MaxLinks
  BY <1>6, <1>8, WalkFields
<1>11. o.links = w.links /\ Len(o.rest) = Len(w.rest) - 1
  <2>1. o.links # w.links + 1
    BY <1>6, <1>9, <1>10
  <2> QED
    BY <1>8, <2>1
<1>12. Len(o.rest) \in Lens
  BY <1>6, <1>7, <1>8, <1>11
<1>13. m <= Len(o.rest)
  BY <1>5, <1>12
<1>14. Len(w.rest) \in Nat /\ m = Len(w.rest)
  BY <1>1, <1>6
<1> QED
  BY <1>11, <1>13, <1>14

(* The recursion of EvalSymlinks ends: partial answers can be put together *)
(* to one for all walks.                                                   *)
LEMMA EvalEquation ==
  ASSUME NEW t, TreeOK(t)
  PROVE  \A w \in Walks :
           /\ HaltIn(t, w) = "onward" => EvalIn(t)[w] = EvalIn(t)[OnwardIn(t, w)]
           /\ HaltIn(t, w) # "onward" => EvalIn(t)[w] = AnswerIn(t, w)
<1> DEFINE Onw(w) == HaltIn(t, w) = "onward"
           Good(D, g) == \A w \in D : /\ w \in Walks
                                      /\ Onw(w) => OnwardIn(t, w) \in D
                                      /\ Onw(w) => g[w] = g[OnwardIn(t, w)]
                                      /\ ~Onw(w) => g[w] = AnswerIn(t, w)
           Some == {w \in Walks : \E D, g : Good(D, g) /\ w \in D}
           One == {w \in Walks : \A D, g, E, h :
                     Good(D, g) /\ Good(E, h) /\ w \in D /\ w \in E => g[w] = h[w]}
           Is(w, v) == \E D, g : Good(D, g) /\ w \in D /\ v = g[w]
           f == [w \in Walks |-> CHOOSE v : Is(w, v)]
<1>1. ASSUME NEW w \in Walks, Onw(w) => OnwardIn(t, w) \in Some PROVE w \in Some
  <2>1. CASE Onw(w)
    <3>1. PICK D, g : Good(D, g) /\ OnwardIn(t, w) \in D
      BY <1>1, <2>1
    <3> DEFINE E == D \cup {w}
               h == [v \in E |-> IF v \in D THEN g[v] ELSE g[OnwardIn(t, w)]]
    <3>2. \A v \in D : h[v] = g[v]
      OBVIOUS
    <3>3. h[w] = g[OnwardIn(t, w)]
      <4>1. w \in D => g[w] = g[OnwardIn(t, w)]
        BY <2>1, <3>1
      <4> QED
        BY <4>1
    <3> HIDE DEF h, Onw
    <3>4. Good(E, h)
      <4>1. ASSUME NEW v \in E
            PROVE  /\ v \in Walks
                   /\ Onw(v) => OnwardIn(t, v) \in E
                   /\ Onw(v) => h[v] = h[OnwardIn(t, v)]
                   /\ ~Onw(v) => h[v] = AnswerIn(t, v)
        <5>1. CASE v \in D
          BY <3>1, <3>2, <5>1
        <5>2. CASE v = w
          BY <2>1, <3>1, <3>2, <3>3, <5>2
        <5> QED
          BY <5>1, <5>2
      <4> QED
        BY <4>1
    <3> QED
      BY <3>4
  <2>2. CASE ~Onw(w)
    <3> DEFINE h == [v \in {w} |-> AnswerIn(t, w)]
    <3>1. h[w] = AnswerIn(t, w)
      OBVIOUS
    <3> HIDE DEF h
    <3>2. Good({w}, h)
      BY <2>2, <3>1
    <3> QED
      BY <3>2
  <2> QED
    BY <2>1, <2>2
<1>2. ASSUME NEW w \in Walks, Onw(w) => OnwardIn(t, w) \in One PROVE w \in One
  <2> SUFFICES ASSUME NEW D, NEW g, NEW E, NEW h, Good(D, g), Good(E, h),
                      w \in D, w \in E
               PROVE  g[w] = h[w]
    OBVIOUS
  <2>1. CASE Onw(w)
    <3>1. OnwardIn(t, w) \in D /\ OnwardIn(t, w) \in E
      BY <2>1
    <3>2. g[OnwardIn(t, w)] = h[OnwardIn(t, w)]
      BY <1>2, <2>1, <3>1
    <3> QED
      BY <2>1, <3>2
  <2>2. CASE ~Onw(w)
    BY <2>2
  <2> QED
    BY <2>1, <2>2
<1>3. Walks \subseteq Some
  <2> HIDE DEF Some
  <2> QED
    BY <1>1, WalkInduction
<1>4. Walks \subseteq One
  <2> HIDE DEF One
  <2> QED
    BY <1>2, WalkInduction
<1> HIDE DEF Good
<1>5. ASSUME NEW w \in Walks, NEW D, NEW g, Good(D, g), w \in D PROVE f[w] = g[w]
  <2>1. Is(w, g[w])
    BY <1>5
  <2>2. Is(w, f[w])
    <3> HIDE DEF Is
    <3> QED
      BY <2>1
  <2> QED
    BY <1>4, <1>5, <2>2
<1>6. ASSUME NEW w \in Walks
      PROVE  f[w] = IF Onw(w) THEN f[OnwardIn(t, w)] ELSE AnswerIn(t, w)
  <2>1. PICK D, g : Good(D, g) /\ w \in D
    BY <1>3
  <2>2. f[w] = g[w]
    BY <1>5, <2>1
  <2>3. Onw(w) => /\ OnwardIn(t, w) \in Walks /\ OnwardIn(t, w) \in D
                  /\ g[w] = g[OnwardIn(t, w)]
    BY <2>1, StepLighter DEF Good
  <2>4. Onw(w) => f[OnwardIn(t, w)] = g[OnwardIn(t, w)]
    BY <1>5, <2>1, <2>3
  <2>5. ~Onw(w) => g[w] = AnswerIn(t, w)
    BY <2>1 DEF Good
  <2> HIDE DEF f, Onw
  <2> QED
    BY <2>2, <2>3, <2>4, <2>5
<1> DEFINE Equation(h) == h = [w \in Walks |-> IF Onw(w) THEN h[OnwardIn(t, w)]
                                               ELSE AnswerIn(t, w)]
<1>7. f = [w \in Walks |-> f[w]]
  OBVIOUS
<1>8. Equation(f)
  <2> HIDE DEF f, Onw
  <2> QED
    BY <1>6, <1>7
<1>9. EvalIn(t) = CHOOSE h : Equation(h)
  BY DEF EvalIn
<1>10. Equation(EvalIn(t))
  <2> HIDE DEF Equation, f
  <2> QED
    BY <1>8, <1>9
<1> QED
  BY <1>10

EvalSymlinksIn(t, path) == EvalIn(t)[Start(path)]

(* A walk answers an error that some walk ended with.                      *)
LEMMA EvalTyped ==
  ASSUME NEW t, TreeOK(t), NEW w \in Walks
  PROVE  EvalIn(t)[w] \in [err: {"none", "ENOTDIR", "ENOENT", "ELOOP"}, path: Seq(Names)]
<1> DEFINE A == [err: {"none", "ENOTDIR", "ENOENT", "ELOOP"}, path: Seq(Names)]
           G == {v \in Walks : EvalIn(t)[v] \in A}
<1>1. ASSUME NEW v \in Walks, HaltIn(t, v) # "onward" PROVE AnswerIn(t, v) \in A
  <2>1. HaltIn(t, v) \in {"none", "ENOTDIR", "ENOENT", "ELOOP"}
    BY <1>1 DEF HaltIn
  <2>2. HaltIn(t, v) \notin {"none", "ENOTDIR"} => v.rest # <<>>
    BY DEF HaltIn
  <2>3. v.at \in Seq(Names) /\ (v.rest # <<>> => Ahead(v) \in Seq(Names))
    BY WalkFields
  <2> QED
    BY <2>1, <2>2, <2>3 DEF AnswerIn
<1>2. ASSUME NEW v \in Walks, HaltIn(t, v) = "onward" => OnwardIn(t, v) \in G
      PROVE  v \in G
  <2> HIDE DEF A
  <2> QED
    BY <1>1, <1>2, EvalEquation
<1>3. Walks \subseteq G
  <2> HIDE DEF G
  <2> QED
    BY <1>2, WalkInduction
<1> QED
  BY <1>3

(* A walk goes on from an entry that is no link.                           *)
LEMMA OnwardAt ==
  ASSUME NEW t, TreeOK(t), NEW w \in Walks, HaltIn(t, w) = "onward"
  PROVE  KindIn(t, OnwardIn(t, w).at) \in {"file", "dir"}
<1>1. CASE KindIn(t, Ahead(w)) = "link"
  <2> DEFINE rest == t[Ahead(w)].to \o Tail(w.rest)
             links == w.links + 1
  <2>1. OnwardIn(t, w) = [at |-> <<>>, rest |-> rest, links |-> links]
    BY <1>1, GoesOn
  <2> HIDE DEF rest, links
  <2>2. OnwardIn(t, w).at = <<>>
    BY <2>1
  <2> QED
    BY <2>2, TreeFacts
<1>2. CASE KindIn(t, Ahead(w)) # "link"
  <2>1. OnwardIn(t, w) = [at |-> Ahead(w), rest |-> Tail(w.rest), links |-> w.links]
    BY <1>2, GoesOn
  <2>2. OnwardIn(t, w).at = Ahead(w)
    BY <2>1
  <2>3. KindIn(t, Ahead(w)) \in {"file", "dir", "link"}
    BY GoesOn
  <2> QED
    BY <1>2, <2>2, <2>3
<1> QED
  BY <1>1, <1>2

(* A walk that is at an entry which is no link arrives at one.             *)
LEMMA ArrivesAtEntry ==
  ASSUME NEW t, TreeOK(t), NEW w \in Walks, KindIn(t, w.at) \in {"file", "dir"},
         EvalIn(t)[w].err = "none"
  PROVE  KindIn(t, EvalIn(t)[w].path) \in {"file", "dir"}
<1> DEFINE Fine(v) == KindIn(t, v.at) \in {"file", "dir"} /\ EvalIn(t)[v].err = "none"
                        => KindIn(t, EvalIn(t)[v].path) \in {"file", "dir"}
           G == {v \in Walks : Fine(v)}
<1>1. ASSUME NEW v \in Walks, HaltIn(t, v) = "onward" => OnwardIn(t, v) \in G
      PROVE  v \in G
  <2>1. CASE HaltIn(t, v) # "onward"
    <3>1. EvalIn(t)[v] = AnswerIn(t, v)
      BY <2>1, EvalEquation
    <3>2. EvalIn(t)[v].err = HaltIn(t, v)
      BY <3>1 DEF AnswerIn
    <3>3. HaltIn(t, v) = "none" => EvalIn(t)[v].path = v.at
      BY <3>1 DEF AnswerIn
    <3> QED
      BY <3>2, <3>3
  <2>2. CASE HaltIn(t, v) = "onward"
    <3>1. EvalIn(t)[v] = EvalIn(t)[OnwardIn(t, v)]
      BY <2>2, EvalEquation
    <3>2. KindIn(t, OnwardIn(t, v).at) \in {"file", "dir"}
      BY <2>2, OnwardAt
    <3>3. Fine(OnwardIn(t, v))
      BY <1>1, <2>2
    <3> QED
      BY <3>1, <3>2, <3>3
  <2> QED
    BY <2>1, <2>2
<1>2. Walks \subseteq G
  <2> HIDE DEF G
  <2> QED
    BY <1>1, WalkInduction
<1>3. Fine(w)
  BY <1>2
<1> QED
  BY <1>3

\* Concatenation, and its regrouping, by names of their own: the provers take
\* them as they are.
Joined(s, u) == s \o u
Led(y, s) == <<y>> \o s
Regroups(a, b, c) == (a \o b) \o c = a \o (b \o c)

(* Three paths can be put together in either order.                        *)
LEMMA NamesRegroup == \A a, b, c \in Seq(Names) : Regroups(a, b, c)
  BY ConcatAssociative DEF Regroups

(* A path taken apart in front of its last name.                           *)
LEMMA Reordered ==
  ASSUME NEW S, NEW q \in Seq(S), NEW x \in S, NEW s \in Seq(S), NEW u, u = <<x>> \o s
  PROVE  /\ u \in Seq(S) /\ u # <<>> /\ Len(u) = Len(s) + 1
         /\ Head(u) = x /\ Tail(u) = s
         /\ Append(q, x) \o s = q \o u
<1>1. <<x>> \in Seq(S) /\ Len(<<x>>) = 1 /\ <<x>>[1] = x
  OBVIOUS
<1>2. /\ u \in Seq(S) /\ Len(u) = 1 + Len(s)
      /\ \A i \in 1..(1 + Len(s)) : u[i] = IF i <= 1 THEN x ELSE s[i - 1]
  <2>1. /\ u \in Seq(S) /\ Len(u) = Len(<<x>>) + Len(s)
        /\ \A i \in 1..(Len(<<x>>) + Len(s)) :
             u[i] = IF i <= Len(<<x>>) THEN <<x>>[i] ELSE s[i - Len(<<x>>)]
    BY <1>1, ConcatProperties
  <2>2. \A i \in 1..(1 + Len(s)) : i <= 1 => i = 1
    OBVIOUS
  <2> QED
    BY <1>1, <2>1, <2>2
<1>3. Append(q, x) \o s = q \o u
  BY <1>1, AppendIsConcat, ConcatAssociative
<1>4. Len(s) \in Nat
  BY LenProperties
<1>5. u # <<>>
  BY <1>2, <1>4, EmptySeq
<1>6. Head(u) = x
  <2>1. Head(u) = u[1]
    BY <1>2, <1>5
  <2> QED
    BY <1>2, <1>4, <2>1
<1>7. Tail(u) = s
  <2>1. /\ Tail(u) \in Seq(S) /\ Len(Tail(u)) = Len(u) - 1
        /\ \A i \in 1..Len(Tail(u)) : Tail(u)[i] = u[i + 1]
    BY <1>2, <1>5, HeadTailProperties
  <2>2. Len(Tail(u)) = Len(s)
    BY <1>2, <1>4, <2>1
  <2>3. ASSUME NEW i \in 1..Len(s) PROVE Tail(u)[i] = s[i]
    <3>1. i + 1 \in 1..(1 + Len(s)) /\ ~(i + 1 <= 1) /\ (i + 1) - 1 = i
      BY <1>4
    <3> QED
      BY <1>2, <2>1, <2>2, <3>1
  <2> QED
    BY <2>1, <2>2, <2>3, SeqEqual
<1>8. Len(u) = Len(s) + 1
  BY <1>2, <1>4
<1> QED
  BY <1>2, <1>3, <1>5, <1>6, <1>7, <1>8

(* The same for paths, whatever they are.                                  *)
LEMMA LedReordered ==
  \A q, s \in Seq(Names), x \in Names :
    /\ Led(x, s) \in Seq(Names) /\ Led(x, s) # <<>>
    /\ Head(Led(x, s)) = x /\ Tail(Led(x, s)) = s
    /\ Joined(Append(q, x), s) = Joined(q, Led(x, s))
<1> SUFFICES ASSUME NEW q \in Seq(Names), NEW s \in Seq(Names), NEW x \in Names
             PROVE  /\ Led(x, s) \in Seq(Names) /\ Led(x, s) # <<>>
                    /\ Head(Led(x, s)) = x /\ Tail(Led(x, s)) = s
                    /\ Joined(Append(q, x), s) = Joined(q, Led(x, s))
  OBVIOUS
<1> DEFINE u == Led(x, s)
<1>1. u = <<x>> \o s
  BY DEF Led
<1> HIDE DEF u
<1>2. /\ u \in Seq(Names) /\ u # <<>> /\ Head(u) = x /\ Tail(u) = s
      /\ Append(q, x) \o s = q \o u
  BY <1>1, Reordered
<1>3. Joined(Append(q, x), s) = Joined(q, u)
  BY <1>2 DEF Joined
<1> QED
  BY <1>2, <1>3 DEF u

(* A path of directories is walked name by name.                           *)
LEMMA Along ==
  ASSUME NEW t, TreeOK(t), NEW p \in Seq(Names), KindIn(t, p) \in {"file", "dir"},
         NEW s \in Seq(Names), NEW l \in 0..MaxLinks
  PROVE  EvalIn(t)[[at |-> <<>>, rest |-> p \o s, links |-> l]]
           = EvalIn(t)[[at |-> p, rest |-> s, links |-> l]]
<1> DEFINE From(q, r) == [at |-> q, rest |-> r, links |-> l]
           Fine(q) == \A r \in Seq(Names) :
                        EvalIn(t)[From(<<>>, q \o r)] = EvalIn(t)[From(q, r)]
           Reached == {n \in 0..Len(p) : \A q \in Seq(Names) :
                         Len(q) = n /\ KindIn(t, q) \in {"file", "dir"} => Fine(q)}
<1>1. 0 \in Reached
  <2>1. ASSUME NEW q \in Seq(Names), Len(q) = 0 PROVE Fine(q)
    <3>1. q = <<>>
      BY <2>1, EmptySeq
    <3>2. \A r \in Seq(Names) : q \o r = r
      BY <3>1, ConcatEmptySeq
    <3> QED
      BY <3>1, <3>2
  <2>2. 0 \in 0..Len(p)
    BY LenProperties
  <2> QED
    BY <2>1, <2>2
<1>2. ASSUME NEW n \in 0..(Len(p) - 1), n \in Reached PROVE n + 1 \in Reached
  <2>1. ASSUME NEW pq \in Seq(Names), Len(pq) = n + 1,
               KindIn(t, pq) \in {"file", "dir"}, NEW r \in Seq(Names)
        PROVE  EvalIn(t)[From(<<>>, pq \o r)] = EvalIn(t)[From(pq, r)]
    <3> DEFINE q == Front(pq)
               x == Last(pq)
    <3>1. pq # <<>>
      BY <2>1, EmptySeq
    <3>2. q \in Seq(Names) /\ x \in Names /\ Len(q) = n /\ pq = Append(q, x)
      <4>1. q \in Seq(Names) /\ x \in Names
            /\ Len(q) = Len(pq) - 1 /\ pq = Append(q, x)
        BY <3>1, FrontLast
      <4>2. n \in Int
        BY LenProperties
      <4> HIDE DEF q, x
      <4> QED
        BY <2>1, <4>1, <4>2
    <3>3. KindIn(t, q) = "dir"
      BY <2>1, <3>1, TreeFacts
    <3> HIDE DEF q, x
    <3> DEFINE xr == Led(x, r)
    <3>4. /\ xr \in Seq(Names) /\ xr # <<>>
          /\ Head(xr) = x /\ Tail(xr) = r
          /\ pq \o r = q \o xr
      <4>1. q \in Seq(Names)
        BY <3>2
      <4>2. x \in Names
        BY <3>2
      <4>4. /\ xr \in Seq(Names) /\ xr # <<>>
            /\ Head(xr) = x /\ Tail(xr) = r
        BY <4>1, <4>2, LedReordered
      <4>5. Joined(Append(q, x), r) = Joined(q, xr)
        BY <4>1, <4>2, LedReordered
      <4> HIDE DEF xr
      <4>6. Joined(pq, r) = Joined(q, xr)
        BY <3>2, <4>5
      <4>7. pq \o r = q \o xr
        BY <4>6 DEF Joined
      <4> QED
        BY <4>4, <4>7
    <3> HIDE DEF xr
    <3> DEFINE w == From(q, xr)
    <3>5. EvalIn(t)[From(<<>>, q \o xr)] = EvalIn(t)[w]
      <4>1. Fine(q)
        <5> HIDE DEF Fine
        <5> QED
          BY <1>2, <3>2, <3>3
      <4> QED
        BY <3>4, <4>1
    <3>6. w = [at |-> q, rest |-> xr, links |-> l]
      OBVIOUS
    <3> HIDE DEF w
    <3>7. w \in Walks
      BY <3>2, <3>4, <3>6 DEF Walks
    <3>8. Ahead(w) = pq
      BY <3>2, <3>4, <3>6 DEF Ahead
    <3>9. HaltIn(t, w) = "onward"
      BY <2>1, <3>3, <3>4, <3>6, <3>8 DEF HaltIn
    <3>10. OnwardIn(t, w) = From(pq, r)
      BY <2>1, <3>4, <3>6, <3>8 DEF OnwardIn
    <3>11. EvalIn(t)[w] = EvalIn(t)[From(pq, r)]
      BY <3>7, <3>9, <3>10, EvalEquation
    <3> QED
      BY <3>4, <3>5, <3>11
  <2>2. n + 1 \in 0..Len(p)
    BY LenProperties
  <2> QED
    BY <2>1, <2>2
<1>3. Len(p) \in Nat
  BY LenProperties
<1>4. Len(p) \in Reached
  <2> HIDE DEF Reached
  <2>1. 0..Len(p) \subseteq Reached
    BY <1>1, <1>2, <1>3, UpTo
  <2> QED
    BY <1>3, <2>1
<1>5. Fine(p)
  BY <1>4
<1> QED
  BY <1>5

(* A path whose directory is there resolves to itself, unless it is a link *)
(* that is there.                                                          *)
LEMMA ResolvesToItself ==
  ASSUME NEW t, TreeOK(t), NEW p \in Seq(Names)
  PROVE  /\ KindIn(t, p) \in {"file", "dir"} =>
              EvalSymlinksIn(t, p) = [err |-> "none", path |-> p]
         /\ p # <<>> /\ KindIn(t, Front(p)) = "dir" /\ KindIn(t, p) = "absent" =>
              EvalSymlinksIn(t, p) = [err |-> "ENOENT", path |-> p]
         /\ KindIn(t, p) = "link" /\ MaxLinks # 0 =>
              EvalSymlinksIn(t, p)
                = EvalIn(t)[[at |-> <<>>, rest |-> t[p].to \o <<>>, links |-> 1]]
<1>0. MaxLinks \in Nat /\ 0 \in 0..MaxLinks
  BY GuardAssumption
<1>1. ASSUME KindIn(t, p) \in {"file", "dir"}
      PROVE  EvalSymlinksIn(t, p) = [err |-> "none", path |-> p]
  <2> DEFINE w == [at |-> p, rest |-> <<>>, links |-> 0]
  <2>1. <<>> \in Seq(Names) /\ p \o <<>> = p
    BY ConcatEmptySeq, EmptySeq
  <2>2. EvalIn(t)[[at |-> <<>>, rest |-> p \o <<>>, links |-> 0]] = EvalIn(t)[w]
    BY <1>0, <1>1, <2>1, Along
  <2>3. w \in Walks
    BY <1>0, <2>1 DEF Walks
  <2>4. HaltIn(t, w) = "none"
    BY DEF HaltIn
  <2>5. AnswerIn(t, w) = [err |-> "none", path |-> p]
    BY <2>4 DEF AnswerIn
  <2> HIDE DEF w
  <2>6. EvalIn(t)[w] = AnswerIn(t, w)
    BY <2>3, <2>4, EvalEquation
  <2> QED
    BY <2>1, <2>2, <2>5, <2>6 DEF EvalSymlinksIn, Start
<1>2. ASSUME p # <<>>, KindIn(t, Front(p)) = "dir"
      PROVE  /\ KindIn(t, p) = "absent" =>
                  EvalSymlinksIn(t, p) = [err |-> "ENOENT", path |-> p]
             /\ KindIn(t, p) = "link" /\ MaxLinks # 0 =>
                  EvalSymlinksIn(t, p)
                    = EvalIn(t)[[at |-> <<>>, rest |-> t[p].to \o <<>>, links |-> 1]]
  <2> DEFINE q == Front(p)
             x == Last(p)
             s == <<x>>
             w == [at |-> q, rest |-> s, links |-> 0]
  <2>1. q \in Seq(Names) /\ x \in Names /\ p = Append(q, x)
    BY <1>2, FrontLast
  <2>2. s \in Seq(Names) /\ s # <<>> /\ Head(s) = x /\ Tail(s) = <<>>
    <3> HIDE DEF x
    <3> QED
      BY <2>1
  <2>3. p = q \o s
    <3> HIDE DEF q, x
    <3> QED
      BY <2>1, AppendIsConcat
  <2> HIDE DEF q, x, s
  <2>4. KindIn(t, q) = "dir"
    BY <1>2 DEF q
  <2>5. EvalIn(t)[[at |-> <<>>, rest |-> q \o s, links |-> 0]] = EvalIn(t)[w]
    <3>1. KindIn(t, q) \in {"file", "dir"}
      BY <2>4
    <3>2. s \in Seq(Names)
      BY <2>2
    <3>3. q \in Seq(Names)
      BY <2>1
    <3>4. 0 \in 0..MaxLinks
      BY <1>0
    <3> QED
      BY <3>1, <3>2, <3>3, <3>4, Along
  <2>6. EvalSymlinksIn(t, p) = EvalIn(t)[w]
    BY <2>3, <2>5 DEF EvalSymlinksIn, Start
  <2>7. w \in Walks
    BY <1>0, <2>1, <2>2 DEF Walks
  <2>8. Ahead(w) = p
    BY <2>1, <2>2 DEF Ahead
  <2>9. /\ w.at = q /\ w.rest = s /\ w.links = 0
    OBVIOUS
  <2> HIDE DEF w
  <2>10. ASSUME KindIn(t, p) = "absent"
         PROVE  EvalSymlinksIn(t, p) = [err |-> "ENOENT", path |-> p]
    <3>1. HaltIn(t, w) = "ENOENT"
      BY <2>2, <2>4, <2>8, <2>9, <2>10 DEF HaltIn
    <3>2. AnswerIn(t, w) = [err |-> "ENOENT", path |-> p]
      BY <2>8, <3>1 DEF AnswerIn
    <3>3. EvalIn(t)[w] = AnswerIn(t, w)
      BY <2>7, <3>1, EvalEquation
    <3> QED
      BY <2>6, <3>2, <3>3
  <2>11. ASSUME KindIn(t, p) = "link", MaxLinks # 0
         PROVE  EvalSymlinksIn(t, p)
                  = EvalIn(t)[[at |-> <<>>, rest |-> t[p].to \o <<>>, links |-> 1]]
    <3>1. HaltIn(t, w) = "onward"
      BY <2>2, <2>4, <2>8, <2>9, <2>11 DEF HaltIn
    <3>2. OnwardIn(t, w) = [at |-> <<>>, rest |-> t[p].to \o <<>>, links |-> 1]
      <4>1. OnwardIn(t, w) = [at |-> <<>>, rest |-> t[p].to \o <<>>, links |-> 0 + 1]
        BY <2>2, <2>8, <2>9, <2>11 DEF OnwardIn
      <4> QED
        BY <4>1
    <3>3. EvalIn(t)[w] = EvalIn(t)[OnwardIn(t, w)]
      BY <2>7, <3>1, EvalEquation
    <3> QED
      BY <2>6, <3>2, <3>3
  <2> QED
    BY <2>10, <2>11
<1>3. KindIn(t, p) = "link" => p # <<>> /\ KindIn(t, Front(p)) = "dir"
  BY TreeFacts
<1> QED
  BY <1>1, <1>2, <1>3

(* What a walk with more names does: it goes on where the walk with fewer  *)
(* arrived.                                                                *)
LEMMA Continued ==
  ASSUME NEW t, TreeOK(t), NEW w \in Walks, NEW s \in Seq(Names),
         EvalIn(t)[w].err = "none"
  PROVE  \E l \in 0..MaxLinks :
           EvalIn(t)[[at |-> w.at, rest |-> w.rest \o s, links |-> w.links]]
             = EvalIn(t)[[at |-> EvalIn(t)[w].path, rest |-> s, links |-> l]]
<1> DEFINE More(v) == [at |-> v.at, rest |-> v.rest \o s, links |-> v.links]
           Goal(v) == \E l \in 0..MaxLinks :
                        EvalIn(t)[More(v)]
                          = EvalIn(t)[[at |-> EvalIn(t)[v].path, rest |-> s, links |-> l]]
           G == {v \in Walks : EvalIn(t)[v].err = "none" => Goal(v)}
<1>1. ASSUME NEW v \in Walks, HaltIn(t, v) = "onward" => OnwardIn(t, v) \in G
      PROVE  v \in G
  <2> SUFFICES ASSUME EvalIn(t)[v].err = "none" PROVE Goal(v)
    OBVIOUS
  <2>1. CASE HaltIn(t, v) # "onward"
    <3>1. EvalIn(t)[v] = AnswerIn(t, v)
      BY <2>1, EvalEquation
    <3>2. HaltIn(t, v) = "none"
      BY <3>1 DEF AnswerIn
    <3>3. EvalIn(t)[v].path = v.at
      BY <3>1, <3>2 DEF AnswerIn
    <3>4. v.rest = <<>>
      BY <3>2 DEF HaltIn
    <3>5. v.rest \o s = s
      BY <3>4, ConcatEmptySeq
    <3>6. v.links \in 0..MaxLinks
      BY WalkFields
    <3> QED
      BY <3>3, <3>5, <3>6
  <2>2. CASE HaltIn(t, v) = "onward"
    <3> DEFINE o == OnwardIn(t, v)
               u == More(v)
    <3>1. EvalIn(t)[v] = EvalIn(t)[o]
      BY <2>2, EvalEquation
    <3>2. Goal(o)
      BY <1>1, <2>2, <3>1
    <3>3. v.rest # <<>> /\ KindIn(t, v.at) = "dir"
      BY <2>2, GoesOn
    <3>4. /\ v.at \in Seq(Names) /\ v.rest \in Seq(Names) /\ v.links \in 0..MaxLinks
          /\ Tail(v.rest) \in Seq(Names)
      BY <3>3, WalkFields
    <3> DEFINE r == v.rest \o s
    <3>5. /\ r \in Seq(Names) /\ r # <<>>
          /\ Head(r) = Head(v.rest) /\ Tail(r) = Tail(v.rest) \o s
      <4>1. r \in Seq(Names)
        BY <3>4, ConcatProperties
      <4>2. r # <<>>
        BY <3>3, <3>4, ConcatEqualIffEmpty
      <4> DEFINE x == Head(v.rest)
                 y == Tail(v.rest)
      <4>3. x \in Names /\ y \in Seq(Names)
        BY <3>3, WalkFields
      <4>4. v.rest = <<x>> \o y
        BY <3>3, <3>4
      <4> HIDE DEF x, y
      <4>5. <<x>> \in Seq(Names)
        BY <4>3
      <4>6. r = <<x>> \o (y \o s)
        BY <4>3, <4>4, <4>5, ConcatAssociative
      <4>7. y \o s \in Seq(Names)
        BY <4>3, ConcatProperties
      <4> HIDE DEF r
      <4> DEFINE ys == y \o s
      <4> HIDE DEF ys
      <4>8. Head(r) = x /\ Tail(r) = ys
        <5>1. r = <<x>> \o ys /\ ys \in Seq(Names)
          BY <4>6, <4>7 DEF ys
        <5>2. <<>> \in Seq(Names)
          BY EmptySeq
        <5> QED
          BY <4>3, <5>1, <5>2, Reordered
      <4> QED
        BY <4>1, <4>2, <4>8 DEF x, y, ys
    <3>6. u = [at |-> v.at, rest |-> r, links |-> v.links]
      OBVIOUS
    <3> HIDE DEF r, u
    <3>7. u \in Walks
      BY <3>4, <3>5, <3>6 DEF Walks
    <3>8. Ahead(u) = Ahead(v)
      BY <3>5, <3>6 DEF Ahead
    <3>9. HaltIn(t, u) = "onward"
      BY <2>2, <3>5, <3>6, <3>8 DEF HaltIn
    <3>10. OnwardIn(t, u) = More(o)
      <4>1. CASE KindIn(t, Ahead(v)) = "link"
        <5> DEFINE to == t[Ahead(v)].to
        <5>1. /\ to \in Paths
              /\ o = [at |-> <<>>, rest |-> to \o Tail(v.rest), links |-> v.links + 1]
          BY <2>2, <4>1, GoesOn
        <5>2. to \in Seq(Names)
          BY <5>1, PathsAre
        <5>3. OnwardIn(t, u) = [at |-> <<>>, rest |-> to \o Tail(r), links |-> v.links + 1]
          BY <3>6, <3>8, <4>1 DEF OnwardIn
        <5> HIDE DEF to, o
        <5>4. to \o Tail(r) = (to \o Tail(v.rest)) \o s
          <6> DEFINE y == Tail(v.rest)
          <6>1. y \in Seq(Names) /\ Tail(r) = y \o s
            BY <3>4, <3>5
          <6> HIDE DEF y
          <6>2. Regroups(to, y, s)
            BY <5>2, <6>1, NamesRegroup
          <6>3. to \o Tail(r) = (to \o y) \o s
            BY <6>1, <6>2 DEF Regroups
          <6> QED
            BY <6>3 DEF y
        <5> DEFINE before == to \o Tail(v.rest)
                   links == v.links + 1
        <5>5. o.at = <<>> /\ o.rest = before /\ o.links = links
          <6>1. o = [at |-> <<>>, rest |-> before, links |-> links]
            BY <5>1
          <6> HIDE DEF before, links
          <6> QED
            BY <6>1
        <5>6. OnwardIn(t, u) = [at |-> <<>>, rest |-> before \o s, links |-> links]
          BY <5>3, <5>4
        <5> HIDE DEF before, links
        <5> QED
          BY <5>5, <5>6
      <4>2. CASE KindIn(t, Ahead(v)) # "link"
        <5>1. o = [at |-> Ahead(v), rest |-> Tail(v.rest), links |-> v.links]
          BY <2>2, <4>2, GoesOn
        <5>2. OnwardIn(t, u) = [at |-> Ahead(v), rest |-> Tail(r), links |-> v.links]
          BY <3>6, <3>8, <4>2 DEF OnwardIn
        <5> HIDE DEF o
        <5> QED
          BY <3>5, <5>1, <5>2
      <4> QED
        BY <4>1, <4>2
    <3> HIDE DEF o, More
    <3>11. EvalIn(t)[u] = EvalIn(t)[More(o)]
      BY <3>7, <3>9, <3>10, EvalEquation
    <3> QED
      BY <3>1, <3>2, <3>11 DEF u
  <2> QED
    BY <2>1, <2>2
<1>2. Walks \subseteq G
  <2> HIDE DEF G
  <2> QED
    BY <1>1, WalkInduction
<1>3. Goal(w)
  BY <1>2
<1> QED
  BY <1>3

(* A walk that does not run out of links answers the same with more of     *)
(* them left.                                                              *)
LEMMA FewerLinks ==
  ASSUME NEW t, TreeOK(t), NEW w \in Walks, EvalIn(t)[w].err # "ELOOP",
         NEW l \in 0..MaxLinks, l <= w.links
  PROVE  EvalIn(t)[[at |-> w.at, rest |-> w.rest, links |-> l]] = EvalIn(t)[w]
<1> DEFINE With(v, k) == [at |-> v.at, rest |-> v.rest, links |-> k]
           Same(v) == \A k \in 0..MaxLinks :
                        k <= v.links => EvalIn(t)[With(v, k)] = EvalIn(t)[v]
           G == {v \in Walks : EvalIn(t)[v].err # "ELOOP" => Same(v)}
<1>1. ASSUME NEW v \in Walks, HaltIn(t, v) = "onward" => OnwardIn(t, v) \in G
      PROVE  v \in G
  <2> SUFFICES ASSUME EvalIn(t)[v].err # "ELOOP", NEW k \in 0..MaxLinks, k <= v.links
               PROVE  EvalIn(t)[With(v, k)] = EvalIn(t)[v]
    OBVIOUS
  <2> DEFINE u == With(v, k)
  <2>1. u.at = v.at /\ u.rest = v.rest /\ u.links = k
    OBVIOUS
  <2>2. v.at \in Seq(Names) /\ v.rest \in Seq(Names) /\ v.links \in 0..MaxLinks
        /\ MaxLinks \in Nat
    BY WalkFields
  <2>3. u \in Walks
    BY <2>2 DEF Walks
  <2> HIDE DEF u
  <2>4. Ahead(u) = Ahead(v)
    BY <2>1 DEF Ahead
  <2>5. k = MaxLinks => v.links = MaxLinks
    BY <2>2
  <2>6. CASE HaltIn(t, v) # "onward"
    <3>1. EvalIn(t)[v] = AnswerIn(t, v)
      BY <2>6, EvalEquation
    <3>2. HaltIn(t, v) # "ELOOP"
      BY <3>1 DEF AnswerIn
    <3>3. HaltIn(t, u) = HaltIn(t, v)
      BY <2>1, <2>4, <2>6, <3>2 DEF HaltIn
    <3>4. AnswerIn(t, u) = AnswerIn(t, v)
      BY <2>1, <2>4, <3>3 DEF AnswerIn
    <3>5. EvalIn(t)[u] = AnswerIn(t, u)
      BY <2>3, <2>6, <3>3, EvalEquation
    <3> QED
      BY <3>1, <3>4, <3>5 DEF u
  <2>7. CASE HaltIn(t, v) = "onward"
    <3> DEFINE o == OnwardIn(t, v)
    <3>1. EvalIn(t)[v] = EvalIn(t)[o]
      BY <2>7, EvalEquation
    <3>2. Same(o)
      BY <1>1, <2>7, <3>1
    <3>3. HaltIn(t, u) = "onward"
      BY <2>1, <2>4, <2>5, <2>7 DEF HaltIn
    <3>4. EvalIn(t)[u] = EvalIn(t)[OnwardIn(t, u)]
      BY <2>3, <3>3, EvalEquation
    <3>5. CASE KindIn(t, Ahead(v)) = "link"
      <4> DEFINE r == t[Ahead(v)].to \o Tail(v.rest)
      <4>1. v.links < MaxLinks
        BY <2>7, <3>5, GoesOn
      <4>2. o = [at |-> <<>>, rest |-> r, links |-> v.links + 1]
        BY <2>7, <3>5, GoesOn
      <4>3. OnwardIn(t, u) = [at |-> <<>>, rest |-> r, links |-> k + 1]
        BY <2>1, <2>4, <3>5 DEF OnwardIn
      <4>4. k + 1 \in 0..MaxLinks /\ k + 1 <= v.links + 1
        BY <2>2, <4>1
      <4> HIDE DEF o, r
      <4>5. OnwardIn(t, u) = With(o, k + 1) /\ k + 1 <= o.links
        BY <4>2, <4>3, <4>4
      <4> HIDE DEF With
      <4>6. EvalIn(t)[With(o, k + 1)] = EvalIn(t)[o]
        BY <3>2, <4>4, <4>5
      <4> QED
        BY <3>1, <3>4, <4>5, <4>6 DEF u
    <3>6. CASE KindIn(t, Ahead(v)) # "link"
      <4>1. o = [at |-> Ahead(v), rest |-> Tail(v.rest), links |-> v.links]
        BY <2>7, <3>6, GoesOn
      <4>2. OnwardIn(t, u) = [at |-> Ahead(v), rest |-> Tail(v.rest), links |-> k]
        BY <2>1, <2>4, <3>6 DEF OnwardIn
      <4> HIDE DEF o
      <4>3. OnwardIn(t, u) = With(o, k) /\ k <= o.links
        BY <4>1, <4>2
      <4> HIDE DEF With
      <4>4. EvalIn(t)[With(o, k)] = EvalIn(t)[o]
        BY <3>2, <4>3
      <4> QED
        BY <3>1, <3>4, <4>3, <4>4 DEF u
    <3> QED
      BY <3>5, <3>6
  <2> QED
    BY <2>6, <2>7
<1>2. Walks \subseteq G
  <2> HIDE DEF G
  <2> QED
    BY <1>1, WalkInduction
<1>3. Same(w)
  BY <1>2
<1> QED
  BY <1>3

(* A path that ends at a missing entry and whose directory resolves: the   *)
(* last name is missing there, or a link there leads nowhere.              *)
LEMMA MissingInParent ==
  ASSUME NEW t, TreeOK(t), NEW p \in Seq(Names),
         EvalSymlinksIn(t, p).err = "ENOENT",
         NEW q, EvalSymlinksIn(t, Front(p)) = [err |-> "none", path |-> q]
  PROVE  /\ q \in Seq(Names) /\ KindIn(t, q) = "dir" /\ Last(p) \in Names
         /\ EvalSymlinksIn(t, Append(q, Last(p))).err # "none"
<1>0. MaxLinks \in Nat /\ 0 \in 0..MaxLinks /\ <<>> \in Seq(Names)
  BY GuardAssumption, EmptySeq
<1> DEFINE f == Front(p)
           x == Last(p)
           s == <<x>>
           c == Append(q, x)
<1>1. \A r \in Seq(Names) : Start(r) \in Walks
  BY <1>0 DEF Walks, Start
<1>2. p # <<>>
  <2> SUFFICES ASSUME p = <<>> PROVE FALSE
    OBVIOUS
  <2>1. KindIn(t, p) \in {"file", "dir"}
    BY TreeFacts
  <2>2. EvalSymlinksIn(t, p) = [err |-> "none", path |-> p]
    BY <2>1, ResolvesToItself
  <2>3. EvalSymlinksIn(t, p).err = "none"
    BY <2>2
  <2> QED
    BY <2>3
<1>3. f \in Seq(Names) /\ x \in Names /\ p = Append(f, x)
  BY <1>2, FrontLast
<1>4. EvalIn(t)[Start(f)].err = "none" /\ EvalIn(t)[Start(f)].path = q
  BY DEF EvalSymlinksIn
<1> HIDE DEF f, x
<1>5. Start(f) \in Walks /\ Start(f).at = <<>> /\ Start(f).rest = f /\ Start(f).links = 0
  BY <1>1, <1>3 DEF Start
<1>6. KindIn(t, q) \in {"file", "dir"}
  <2>1. KindIn(t, Start(f).at) \in {"file", "dir"}
    BY <1>5, TreeFacts
  <2> QED
    BY <1>4, <1>5, <2>1, ArrivesAtEntry
<1>7. q \in Seq(Names)
  <2>1. q \in Paths
    BY <1>6, TreeFacts
  <2> QED
    BY <2>1, PathsAre
<1>8. s \in Seq(Names) /\ s # <<>> /\ Head(s) = x /\ Tail(s) = <<>> /\ p = f \o s
  <2>1. p = f \o s
    BY <1>3, AppendIsConcat
  <2> QED
    BY <1>3, <2>1
<1> HIDE DEF s
<1>9. PICK l \in 0..MaxLinks :
        EvalIn(t)[Start(p)] = EvalIn(t)[[at |-> q, rest |-> s, links |-> l]]
  <2>1. \E l \in 0..MaxLinks :
          EvalIn(t)[[at |-> Start(f).at, rest |-> Start(f).rest \o s,
                     links |-> Start(f).links]]
            = EvalIn(t)[[at |-> EvalIn(t)[Start(f)].path, rest |-> s, links |-> l]]
    BY <1>4, <1>5, <1>8, Continued
  <2>2. [at |-> Start(f).at, rest |-> Start(f).rest \o s, links |-> Start(f).links]
          = Start(p)
    BY <1>5, <1>8 DEF Start
  <2> QED
    BY <1>4, <2>1, <2>2
<1> DEFINE w == [at |-> q, rest |-> s, links |-> l]
<1>10. w.at = q /\ w.rest = s /\ w.links = l /\ w \in Walks
  BY <1>7, <1>8 DEF Walks
<1>11. EvalIn(t)[w].err = "ENOENT"
  BY <1>9 DEF EvalSymlinksIn
<1> HIDE DEF w
<1>12. Ahead(w) = c
  BY <1>8, <1>10 DEF Ahead
<1>13. c \in Seq(Names) /\ c # <<>> /\ Front(c) = q
  BY <1>3, <1>7, OneMore
<1> HIDE DEF c
<1>14. HaltIn(t, w) # "onward" => HaltIn(t, w) = "ENOENT"
  <2>1. HaltIn(t, w) # "onward" => EvalIn(t)[w] = AnswerIn(t, w)
    BY <1>10, EvalEquation
  <2> QED
    BY <1>11, <2>1 DEF AnswerIn
<1>15. KindIn(t, q) = "dir"
  <2>1. HaltIn(t, w) \in {"onward", "ENOENT"}
    BY <1>14
  <2> QED
    BY <1>8, <1>10, <2>1 DEF HaltIn
<1>16. EvalSymlinksIn(t, c).err # "none"
  <2>1. CASE KindIn(t, c) = "absent"
    <3>1. EvalSymlinksIn(t, c) = [err |-> "ENOENT", path |-> c]
      BY <1>13, <1>15, <2>1, ResolvesToItself
    <3> QED
      BY <3>1
  <2>2. CASE KindIn(t, c) # "absent"
    <3>1. HaltIn(t, w) = "onward"
      <4>1. HaltIn(t, w) # "ENOENT"
        BY <1>8, <1>10, <1>12, <1>15, <2>2 DEF HaltIn
      <4> QED
        BY <1>14, <4>1
    <3>2. EvalIn(t)[w] = EvalIn(t)[OnwardIn(t, w)]
      BY <1>10, <3>1, EvalEquation
    <3>3. CASE KindIn(t, c) # "link"
      <4> DEFINE o == [at |-> c, rest |-> <<>>, links |-> l]
      <4>1. OnwardIn(t, w) = o
        BY <1>8, <1>10, <1>12, <3>3 DEF OnwardIn
      <4>2. o \in Walks
        BY <1>0, <1>13 DEF Walks
      <4>3. HaltIn(t, o) = "none"
        BY DEF HaltIn
      <4> HIDE DEF o
      <4>4. EvalIn(t)[o] = AnswerIn(t, o)
        BY <4>2, <4>3, EvalEquation
      <4>5. EvalIn(t)[o].err = "none"
        BY <4>3, <4>4 DEF AnswerIn
      <4> QED
        BY <1>11, <3>2, <4>1, <4>5
    <3>4. CASE KindIn(t, c) = "link"
      <4> DEFINE r == t[c].to \o <<>>
                 o == [at |-> <<>>, rest |-> r, links |-> l + 1]
                 one == [at |-> <<>>, rest |-> r, links |-> 1]
      <4>1. l < MaxLinks
        BY <1>10, <1>12, <3>1, <3>4, GoesOn
      <4>2. OnwardIn(t, w) = o
        BY <1>8, <1>10, <1>12, <3>4 DEF OnwardIn
      <4>3. o.at = <<>> /\ o.rest = r /\ o.links = l + 1
        <5> HIDE DEF r
        <5> QED
          OBVIOUS
      <4>4. o \in Walks
        BY <1>10, <3>1, <4>2, StepLighter
      <4>5. EvalIn(t)[o].err = "ENOENT"
        BY <1>11, <3>2, <4>2
      <4> HIDE DEF o, r
      <4>6. 1 \in 0..MaxLinks /\ 1 <= l + 1 /\ MaxLinks # 0
        BY <1>0, <4>1
      <4>7. EvalIn(t)[one] = EvalIn(t)[o]
        <5>1. EvalIn(t)[[at |-> o.at, rest |-> o.rest, links |-> 1]] = EvalIn(t)[o]
          BY <4>3, <4>4, <4>5, <4>6, FewerLinks
        <5> QED
          BY <4>3, <5>1
      <4>8. EvalSymlinksIn(t, c) = EvalIn(t)[one]
        BY <1>13, <3>4, <4>6, ResolvesToItself DEF r
      <4> QED
        BY <4>5, <4>7, <4>8
    <3> QED
      BY <3>3, <3>4
  <2> QED
    BY <2>1, <2>2
<1> QED
  BY <1>3, <1>7, <1>15, <1>16 DEF c, x

-----------------------------------------------------------------------------
(* A tree grows by one entry.                                              *)

Grown(t, u, c) ==
  /\ TreeOK(t) /\ c \in Paths /\ c # <<>>
  /\ KindIn(t, c) = "absent" /\ KindIn(t, Front(c)) = "dir"
  /\ \E kind \in {"file", "dir"} : u = [t EXCEPT ![c] = [kind |-> kind, to |-> <<>>]]

(* A grown tree is a tree, and only the new entry is different.            *)
LEMMA GrownFacts ==
  ASSUME NEW t, NEW u, NEW c, Grown(t, u, c)
  PROVE  /\ TreeOK(u)
         /\ KindIn(u, c) \in {"file", "dir"}
         /\ \A p : p # c => KindIn(u, p) = KindIn(t, p)
         /\ \A p \in Paths : p # c => u[p].to = t[p].to
<1>1. /\ TreeOK(t) /\ c \in Paths /\ c # <<>>
      /\ KindIn(t, c) = "absent" /\ KindIn(t, Front(c)) = "dir"
  BY DEF Grown
<1>2. PICK kind \in {"file", "dir"} : u = [t EXCEPT ![c] = [kind |-> kind, to |-> <<>>]]
  BY DEF Grown
<1> DEFINE e == [kind |-> kind, to |-> <<>>]
<1>3. e \in Entries /\ e.kind = kind
  BY DEF Entries
<1> HIDE DEF e
<1>4. u = [t EXCEPT ![c] = e] /\ t \in [Paths -> Entries]
  BY <1>1, <1>2 DEF e, TreeOK
<1>5. u[c] = e /\ \A p \in Paths : p # c => u[p] = t[p]
  BY <1>1, <1>4
<1>6. u \in [Paths -> Entries]
  BY <1>3, <1>4
<1>7. KindIn(u, c) = kind
  BY <1>1, <1>3, <1>5 DEF KindIn
<1>8. \A p : p # c => KindIn(u, p) = KindIn(t, p)
  BY <1>5 DEF KindIn
<1>9. u[<<>>].kind = "dir"
  BY <1>1, <1>5, PathsAre DEF TreeOK
<1>10. ASSUME NEW p \in Paths, p # <<>>, u[p].kind # "absent"
       PROVE  u[Front(p)].kind = "dir"
  <2>1. p \in Seq(Names) /\ Len(p) <= Depth /\ Depth \in Nat
    BY PathsAre
  <2>2. Front(p) \in Paths
    BY <1>10, <2>1, FrontLast, PathsAre
  <2>3. KindIn(t, Front(p)) = "dir"
    <3>1. CASE p = c
      BY <1>1, <3>1
    <3>2. CASE p # c
      <4>1. KindIn(t, p) # "absent"
        BY <1>5, <1>10, <3>2 DEF KindIn
      <4> QED
        BY <1>1, <1>10, <2>1, <4>1, TreeFacts
    <3> QED
      BY <3>1, <3>2
  <2>4. Front(p) # c
    BY <1>1, <2>3
  <2>5. KindIn(u, Front(p)) = "dir"
    BY <1>8, <2>3, <2>4
  <2> QED
    BY <2>2, <2>5 DEF KindIn
<1>11. TreeOK(u)
  BY <1>6, <1>9, <1>10 DEF TreeOK
<1>12. KindIn(u, c) \in {"file", "dir"}
  BY <1>7
<1> QED
  BY <1>5, <1>8, <1>11, <1>12

(* What a walk answers after the tree has grown: what it answered before,  *)
(* or it ended at the entry that is new and now arrives there, if          *)
(* anywhere.                                                               *)
LEMMA EvalGrown ==
  ASSUME NEW t, NEW u, NEW c, Grown(t, u, c),
         NEW w \in Walks, KindIn(t, w.at) \in {"file", "dir"}
  PROVE  \/ EvalIn(u)[w] = EvalIn(t)[w]
         \/ /\ EvalIn(t)[w].err # "none"
            /\ EvalIn(u)[w].err = "none" => EvalIn(u)[w].path = c
<1>1. /\ TreeOK(t) /\ c \in Paths /\ c # <<>>
      /\ KindIn(t, c) = "absent"
  BY DEF Grown
<1>2. /\ TreeOK(u)
      /\ KindIn(u, c) \in {"file", "dir"}
      /\ \A p : p # c => KindIn(u, p) = KindIn(t, p)
      /\ \A p \in Paths : p # c => u[p].to = t[p].to
  BY GrownFacts
<1> DEFINE Goal(v) == \/ EvalIn(u)[v] = EvalIn(t)[v]
                      \/ /\ EvalIn(t)[v].err # "none"
                         /\ EvalIn(u)[v].err = "none" => EvalIn(u)[v].path = c
           G == {v \in Walks : KindIn(t, v.at) \in {"file", "dir"} => Goal(v)}
<1>3. ASSUME NEW v \in Walks, HaltIn(t, v) = "onward" => OnwardIn(t, v) \in G
      PROVE  v \in G
  <2> SUFFICES ASSUME KindIn(t, v.at) \in {"file", "dir"} PROVE Goal(v)
    OBVIOUS
  <2>1. KindIn(u, v.at) = KindIn(t, v.at)
    BY <1>1, <1>2
  <2>2. CASE v.rest # <<>> /\ Ahead(v) = c /\ KindIn(t, v.at) = "dir"
    <3>1. HaltIn(t, v) = "ENOENT"
      BY <1>1, <2>2 DEF HaltIn
    <3>2. EvalIn(t)[v] = AnswerIn(t, v)
      BY <1>1, <3>1, EvalEquation
    <3>3. EvalIn(t)[v].err # "none"
      BY <3>1, <3>2 DEF AnswerIn
    <3>4. HaltIn(u, v) = "onward"
      BY <1>2, <2>1, <2>2 DEF HaltIn
    <3> DEFINE o == [at |-> c, rest |-> Tail(v.rest), links |-> v.links]
    <3>5. OnwardIn(u, v) = o
      BY <1>2, <2>2 DEF OnwardIn
    <3>7. o.at = c
      OBVIOUS
    <3> HIDE DEF o
    <3>6. EvalIn(u)[v] = EvalIn(u)[o] /\ o \in Walks
      <4>1. OnwardIn(u, v) \in Walks
        BY <1>2, <3>4, StepLighter
      <4>2. EvalIn(u)[v] = EvalIn(u)[OnwardIn(u, v)]
        BY <1>2, <3>4, EvalEquation
      <4> QED
        BY <3>5, <4>1, <4>2
    <3>8. ASSUME EvalIn(u)[o].err = "none" PROVE EvalIn(u)[o].path = c
      <4>1. HaltIn(u, o) # "onward"
        <5> SUFFICES ASSUME HaltIn(u, o) = "onward" PROVE FALSE
          OBVIOUS
        <5>1. o.rest # <<>> /\ KindIn(u, Ahead(o)) \in {"file", "dir", "link"}
          BY <1>2, <3>6, GoesOn
        <5>2. Ahead(o) \in Seq(Names) /\ Ahead(o) # <<>> /\ Front(Ahead(o)) = c
          BY <3>6, <3>7, <5>1, WalkFields
        <5>3. Ahead(o) # c
          <6>1. Len(Front(Ahead(o))) = Len(Ahead(o)) - 1 /\ Len(Ahead(o)) \in Nat
            BY <5>2, FrontLast
          <6> QED
            BY <5>2, <6>1
        <5>4. KindIn(t, Ahead(o)) # "absent"
          BY <1>2, <5>1, <5>3
        <5>5. KindIn(t, c) = "dir"
          BY <1>1, <5>2, <5>4, TreeFacts
        <5> QED
          BY <1>1, <5>5
      <4>2. EvalIn(u)[o] = AnswerIn(u, o)
        BY <1>2, <3>6, <4>1, EvalEquation
      <4>3. HaltIn(u, o) = "none"
        BY <3>8, <4>2 DEF AnswerIn
      <4> QED
        BY <3>7, <4>2, <4>3 DEF AnswerIn
    <3> QED
      BY <3>3, <3>6, <3>8
  <2>3. CASE ~(v.rest # <<>> /\ Ahead(v) = c /\ KindIn(t, v.at) = "dir")
    <3>1. HaltIn(u, v) = HaltIn(t, v)
      BY <1>2, <2>1, <2>3 DEF HaltIn
    <3>2. CASE HaltIn(t, v) # "onward"
      <4>1. AnswerIn(u, v) = AnswerIn(t, v)
        BY <3>1 DEF AnswerIn
      <4>2. EvalIn(t)[v] = AnswerIn(t, v)
        BY <1>1, <3>2, EvalEquation
      <4>3. EvalIn(u)[v] = AnswerIn(u, v)
        BY <1>2, <3>1, <3>2, EvalEquation
      <4> QED
        BY <4>1, <4>2, <4>3
    <3>3. CASE HaltIn(t, v) = "onward"
      <4>1. Ahead(v) # c /\ Ahead(v) \in Paths
        BY <1>1, <2>3, <3>3, GoesOn
      <4>2. OnwardIn(u, v) = OnwardIn(t, v)
        <5>1. KindIn(u, Ahead(v)) = KindIn(t, Ahead(v)) /\ u[Ahead(v)].to = t[Ahead(v)].to
          BY <1>2, <4>1
        <5> QED
          BY <5>1 DEF OnwardIn
      <4> DEFINE o == OnwardIn(t, v)
      <4>3. EvalIn(t)[v] = EvalIn(t)[o]
        BY <1>1, <3>3, EvalEquation
      <4>4. EvalIn(u)[v] = EvalIn(u)[o]
        BY <1>2, <3>1, <3>3, <4>2, EvalEquation
      <4>5. KindIn(t, o.at) \in {"file", "dir"}
        BY <1>1, <3>3, OnwardAt
      <4>6. Goal(o)
        BY <1>3, <3>3, <4>5
      <4> HIDE DEF o
      <4> QED
        BY <4>3, <4>4, <4>6
    <3> QED
      BY <3>2, <3>3
  <2> QED
    BY <2>2, <2>3
<1>4. Walks \subseteq G
  <2> HIDE DEF G
  <2> QED
    BY <1>1, <1>3, WalkInduction
<1>5. Goal(w)
  BY <1>4
<1> QED
  BY <1>5

-----------------------------------------------------------------------------
(* Strings.  Names have no slash in them, so that a prefix that ends with  *)
(* a slash ends with a name.                                               *)

Signs == {Slash} \cup UNION {ToSet(n) : n \in Names}

\* The string of a path, empty for the root, and with a slash at its end.
Str(p) == IF p = <<>> THEN <<>> ELSE String(p)
Closed(p) == Str(p) \o <<Slash>>

(* A name is a string without a slash, and neither empty, . nor .. .       *)
LEMMA NameFacts ==
  ASSUME NEW n \in Names
  PROVE  /\ n \in Seq(Signs) /\ n # <<>> /\ n # Dot /\ n # Up
         /\ \A i \in 1..Len(n) : n[i] # Slash
<1>1. n \in Seq(ToSet(n)) /\ Slash \notin ToSet(n) /\ n \notin {<<>>, Dot, Up}
  BY GuardAssumption
<1>2. n \in Seq(Signs)
  <2>1. ToSet(n) \subseteq Signs
    BY DEF Signs
  <2> QED
    BY <1>1, <2>1, SeqMonotonic
<1>3. DOMAIN n = 1..Len(n)
  BY <1>1, LenProperties
<1>4. \A i \in 1..Len(n) : n[i] \in ToSet(n)
  BY <1>3 DEF ToSet
<1> QED
  BY <1>1, <1>2, <1>4

(* A sequence that is one sequence and another is their concatenation, and *)
(* the same the other way round.                                           *)
LEMMA PrefixIs ==
  ASSUME NEW S, NEW s \in Seq(S), NEW u \in Seq(S)
  PROVE  IsPrefix(s, u) <=> \E z \in Seq(S) : u = s \o z
<1>0. Len(s) \in Nat /\ Len(u) \in Nat
  BY LenProperties
<1>1. SubSeq(s, 1, Len(s)) = s
  BY SubSeqFull
<1>2. ASSUME IsPrefix(s, u) PROVE \E z \in Seq(S) : u = s \o z
  <2> DEFINE z == SubSeq(u, Len(s) + 1, Len(u))
  <2>1. Len(s) <= Len(u) /\ s = SubSeq(u, 1, Len(s))
    BY <1>1, <1>2 DEF IsPrefix
  <2>2. \A i \in (Len(s) + 1)..Len(u) : u[i] \in S
    <3>1. \A i \in (Len(s) + 1)..Len(u) : i \in 1..Len(u)
      BY <1>0
    <3> QED
      BY <3>1, ElementOfSeq
  <2>3. z \in Seq(S)
    <3>1. Len(s) + 1 \in Int /\ Len(u) \in Int
      BY <1>0
    <3> QED
      BY <2>2, <3>1, SubSeqProperties
  <2>4. SubSeq(u, 1, Len(s)) \o z = SubSeq(u, 1, Len(u))
    <3>1. 1 \in 1..(Len(u) + 1) /\ Len(s) \in (1 - 1)..Len(u) /\ Len(u) \in Len(s)..Len(u)
      BY <1>0, <2>1
    <3> QED
      BY <3>1, ConcatAdjacentSubSeq
  <2>5. SubSeq(u, 1, Len(u)) = u
    BY SubSeqFull
  <2> HIDE DEF z
  <2> QED
    BY <2>1, <2>3, <2>4, <2>5
<1>3. ASSUME NEW z \in Seq(S), u = s \o z PROVE IsPrefix(s, u)
  <2>1. /\ Len(u) = Len(s) + Len(z) /\ Len(z) \in Nat
        /\ \A i \in 1..(Len(s) + Len(z)) : u[i] = IF i <= Len(s) THEN s[i] ELSE z[i - Len(s)]
    BY <1>3, ConcatProperties, LenProperties
  <2>2. Len(s) <= Len(u) /\ \A i \in 1..Len(s) : u[i] = s[i] /\ u[i] \in S
    <3>1. \A i \in 1..Len(s) : s[i] \in S
      BY ElementOfSeq
    <3> QED
      BY <1>0, <2>1, <3>1
  <2> DEFINE v == SubSeq(u, 1, Len(s))
  <2>3. v \in Seq(S) /\ Len(v) = Len(s) /\ \A i \in 1..Len(s) : v[i] = s[i]
    <3> DEFINE n == Len(s)
    <3>1. n \in Int /\ \A i \in 1..n : u[i] \in S
      BY <1>0, <2>2
    <3>2. n \in Nat
      BY <1>0
    <3> HIDE DEF n
    <3>3. /\ SubSeq(u, 1, n) \in Seq(S)
          /\ Len(SubSeq(u, 1, n)) = IF 1 <= n THEN n - 1 + 1 ELSE 0
          /\ \A i \in 1..(n - 1 + 1) : SubSeq(u, 1, n)[i] = u[1 + i - 1]
      BY <3>1, SubSeqProperties
    <3>4. Len(SubSeq(u, 1, n)) = n /\ \A i \in 1..n : SubSeq(u, 1, n)[i] = u[i]
      BY <3>2, <3>3
    <3> QED
      BY <2>2, <3>3, <3>4 DEF n
  <2> HIDE DEF v
  <2>4. v = s
    BY <2>3, SeqEqual
  <2> QED
    BY <1>1, <2>2, <2>4 DEF IsPrefix, v
<1> QED
  BY <1>2, <1>3

(* Below: the names of the directory come first.                           *)
LEMMA BelowIs ==
  ASSUME NEW d \in Seq(Names), NEW p \in Seq(Names)
  PROVE  Below(d, p) <=> \E e \in Seq(Names) : p = d \o e
<1>1. SubSeq(d, 1, Len(d)) = d
  BY SubSeqFull
<1>2. Below(d, p) <=> IsPrefix(d, p)
  BY <1>1 DEF Below, IsPrefix
<1> QED
  BY <1>2, PrefixIs

(* A string put in front can be taken away again.                          *)
LEMMA SignsCancel ==
  \A a, b, c \in Seq(Signs) : Joined(a, b) = Joined(a, c) => b = c
  BY ConcatSimplifications DEF Joined

(* Two names with a slash behind them.                                     *)
LEMMA NameEnds ==
  ASSUME NEW x \in Names, NEW y \in Names, NEW u \in Seq(Signs), NEW v \in Seq(Signs),
         u # <<>>, v # <<>>, u[1] = Slash, v[1] = Slash, Joined(x, u) = Joined(y, v)
  PROVE  x = y /\ u = v
<1>1. /\ x \in Seq(Signs) /\ y \in Seq(Signs)
      /\ \A i \in 1..Len(x) : x[i] # Slash
      /\ \A i \in 1..Len(y) : y[i] # Slash
  BY NameFacts
<1>2. /\ Len(x) \in Nat /\ Len(y) \in Nat
      /\ Len(u) \in Nat \ {0} /\ Len(v) \in Nat \ {0}
  BY <1>1, LenProperties, EmptySeq
<1> DEFINE w == x \o u
           m == Len(x)
           n == Len(y)
<1>3. /\ Len(w) = m + Len(u)
      /\ \A i \in 1..(m + Len(u)) : w[i] = IF i <= m THEN x[i] ELSE u[i - m]
  BY <1>1, ConcatProperties
<1>4. /\ Len(w) = n + Len(v)
      /\ \A i \in 1..(n + Len(v)) : w[i] = IF i <= n THEN y[i] ELSE v[i - n]
  <2>1. w = y \o v
    BY DEF Joined
  <2> HIDE DEF w
  <2>2. /\ Len(y \o v) = n + Len(v)
        /\ \A i \in 1..(n + Len(v)) : (y \o v)[i] = IF i <= n THEN y[i] ELSE v[i - n]
    BY <1>1, ConcatProperties
  <2> QED
    BY <2>1, <2>2
<1>5. m \in Nat /\ n \in Nat
  BY <1>2
<1>6. w[m + 1] = Slash /\ w[n + 1] = Slash
  <2>1. m + 1 \in 1..(m + Len(u)) /\ ~(m + 1 <= m) /\ (m + 1) - m = 1
    BY <1>2
  <2>2. n + 1 \in 1..(n + Len(v)) /\ ~(n + 1 <= n) /\ (n + 1) - n = 1
    BY <1>2
  <2>3. w[m + 1] = u[1]
    BY <1>3, <2>1
  <2>4. w[n + 1] = v[1]
    BY <1>4, <2>2
  <2> QED
    BY <2>3, <2>4
<1> HIDE DEF w, m, n
<1>7. ~(m < n)
  <2> SUFFICES ASSUME m < n PROVE FALSE
    OBVIOUS
  <2>1. m + 1 \in 1..n /\ m + 1 \in 1..(n + Len(v)) /\ m + 1 <= n
    BY <1>2, <1>5
  <2>2. w[m + 1] = y[m + 1]
    BY <1>4, <2>1
  <2> QED
    BY <1>1, <1>6, <2>1, <2>2 DEF n
<1>8. ~(n < m)
  <2> SUFFICES ASSUME n < m PROVE FALSE
    OBVIOUS
  <2>1. n + 1 \in 1..m /\ n + 1 \in 1..(m + Len(u)) /\ n + 1 <= m
    BY <1>2, <1>5
  <2>2. w[n + 1] = x[n + 1]
    BY <1>3, <2>1
  <2> QED
    BY <1>1, <1>6, <2>1, <2>2 DEF m
<1>9. m = n
  BY <1>5, <1>7, <1>8
<1>10. \A i \in 1..m : x[i] = y[i]
  <2>1. ASSUME NEW i \in 1..m PROVE x[i] = y[i]
    <3>1. i \in 1..(m + Len(u)) /\ i \in 1..(n + Len(v)) /\ i <= m /\ i <= n
      BY <1>2, <1>5, <1>9
    <3> QED
      BY <1>3, <1>4, <3>1
  <2> QED
    BY <2>1
<1>11. x = y
  BY <1>1, <1>9, <1>10, SeqEqual DEF m, n
<1>12. u = v
  <2>1. Joined(x, u) = Joined(x, v)
    BY <1>11
  <2> QED
    BY <1>1, <2>1, SignsCancel
<1> QED
  BY <1>11, <1>12

(* The recursion of FlattenSeq ends.                                       *)
LEMMA FlattenEquations ==
  ASSUME NEW S, NEW seqs \in Seq(Seq(S)), seqs # <<>>
  PROVE  \E flat \in [1..Len(seqs) -> Seq(S)] :
           /\ FlattenSeq(seqs) = flat[Len(seqs)]
           /\ flat[1] = seqs[1]
           /\ \A i \in 2..Len(seqs) : flat[i] = flat[i - 1] \o seqs[i]
<1> DEFINE n == Len(seqs)
           Value(h, i) == IF i = 1 THEN seqs[i] ELSE h[i - 1] \o seqs[i]
           Equation(h) == h = [i \in 1..n |-> Value(h, i)]
           flat == CHOOSE h : Equation(h)
           step == [k \in 1..(n - 1) |-> [s \in Seq(S) |-> s \o seqs[k + 1]]]
<1>1. n \in Nat \ {0} /\ \A i \in 1..n : seqs[i] \in Seq(S)
  BY EmptySeq, ElementOfSeq
<1>2. FlattenSeq(seqs) = flat[n]
  BY <1>1 DEF FlattenSeq
<1> HIDE DEF n
<1>3. n - 1 \in Nat /\ seqs[1] \in Seq(S)
  BY <1>1
<1>4. step \in [1..(n - 1) -> [Seq(S) -> Seq(S)]]
  <2>1. ASSUME NEW k \in 1..(n - 1), NEW s \in Seq(S) PROVE s \o seqs[k + 1] \in Seq(S)
    <3>1. k + 1 \in 1..n
      BY <1>1
    <3>2. seqs[k + 1] \in Seq(S)
      BY <1>1, <3>1
    <3> QED
      BY <3>2, ConcatProperties
  <2> QED
    BY <2>1
<1>5. \A k \in 1..(n - 1) : \A s \in Seq(S) : step[k][s] = s \o seqs[k + 1]
  OBVIOUS
<1> HIDE DEF step
<1>6. PICK f \in [0..(n - 1) -> Seq(S)] :
        f[0] = seqs[1] /\ \A k \in 1..(n - 1) : f[k] = step[k][f[k - 1]]
  <2> DEFINE m == n - 1
             T == Seq(S)
             base == seqs[1]
  <2>1. m \in Nat
    BY <1>3
  <2>2. base \in T
    BY <1>3
  <2>3. step \in [1..m -> [T -> T]]
    BY <1>4
  <2> HIDE DEF m, T, base, Value, Equation
  <2>4. \E f \in [0..m -> T] : Recurses(f, m, base, step)
    BY <2>1, <2>2, <2>3, Recursion
  <2> QED
    BY <2>4 DEF m, T, base, Recurses
<1> DEFINE g == [i \in 1..n |-> f[i - 1]]
<1>7. ASSUME NEW i \in 1..n PROVE g[i] = Value(g, i)
  <2>1. CASE i = 1
    BY <1>6, <2>1
  <2>2. CASE i # 1
    <3>1. i - 1 \in 1..(n - 1) /\ i - 1 \in 1..n /\ (i - 1) + 1 = i /\ (i - 1) - 1 \in 0..(n - 1)
      BY <1>1, <2>2
    <3>2. f[i - 1] = f[(i - 1) - 1] \o seqs[i]
      <4>1. f[(i - 1) - 1] \in Seq(S)
        BY <1>6, <3>1
      <4>2. f[i - 1] = step[i - 1][f[(i - 1) - 1]]
        BY <1>6, <3>1
      <4>3. step[i - 1][f[(i - 1) - 1]] = f[(i - 1) - 1] \o seqs[(i - 1) + 1]
        BY <1>5, <3>1, <4>1
      <4> QED
        BY <3>1, <4>2, <4>3
    <3>3. g[i] = f[i - 1] /\ g[i - 1] = f[(i - 1) - 1]
      BY <3>1
    <3> HIDE DEF g
    <3> QED
      BY <2>2, <3>2, <3>3
  <2> QED
    BY <2>1, <2>2
<1>8. g = [i \in 1..n |-> g[i]]
  OBVIOUS
<1> HIDE DEF g
<1>9. Equation(g)
  <2> HIDE DEF Value
  <2> QED
    BY <1>7, <1>8
<1>10. Equation(flat)
  <2> HIDE DEF Equation
  <2> QED
    BY <1>9
<1> HIDE DEF flat
<1>11. \A i \in 1..n : flat[i] = Value(flat, i)
  <2> HIDE DEF Value
  <2> QED
    BY <1>10
<1>12. flat[1] = seqs[1]
  BY <1>1, <1>11
<1>13. ASSUME NEW i \in 2..n PROVE flat[i] = flat[i - 1] \o seqs[i]
  <2>1. i \in 1..n /\ i # 1
    BY <1>1
  <2> QED
    BY <1>11, <2>1
<1> DEFINE h == [k \in 0..(n - 1) |-> flat[k + 1]]
<1>14. \A k \in 0..(n - 1) : h[k] \in Seq(S)
  <2>1. h[0] \in Seq(S)
    <3>1. 0 \in 0..(n - 1) /\ 0 + 1 = 1
      BY <1>1
    <3> QED
      BY <1>3, <1>12, <3>1
  <2>2. ASSUME NEW k \in 1..(n - 1), h[k - 1] \in Seq(S) PROVE h[k] \in Seq(S)
    <3>1. k + 1 \in 2..n /\ (k + 1) - 1 = k /\ k - 1 \in 0..(n - 1) /\ (k - 1) + 1 = k
          /\ k \in 0..(n - 1) /\ k + 1 \in 1..n
      BY <1>1
    <3>2. flat[k] \in Seq(S)
      BY <2>2, <3>1
    <3>3. flat[k + 1] = flat[k] \o seqs[k + 1] /\ seqs[k + 1] \in Seq(S)
      BY <1>1, <1>13, <3>1
    <3>4. flat[k + 1] \in Seq(S)
      BY <3>2, <3>3, ConcatProperties
    <3> QED
      BY <3>1, <3>4
  <2> HIDE DEF h
  <2> QED
    BY <1>3, <2>1, <2>2, RecursionTyped
<1>15. flat \in [1..n -> Seq(S)]
  <2>1. ASSUME NEW i \in 1..n PROVE flat[i] \in Seq(S)
    <3>1. i - 1 \in 0..(n - 1) /\ (i - 1) + 1 = i
      BY <1>1
    <3> QED
      BY <1>14, <3>1
  <2> QED
    BY <1>10, <2>1
<1> QED
  BY <1>2, <1>12, <1>13, <1>15 DEF n

(* Flattening with one piece more.                                         *)
LEMMA FlattenAppend ==
  ASSUME NEW S, NEW seqs \in Seq(Seq(S)), NEW e \in Seq(S)
  PROVE  /\ FlattenSeq(seqs) \in Seq(S)
         /\ FlattenSeq(Append(seqs, e)) = FlattenSeq(seqs) \o e
<1> DEFINE n == Len(seqs)
           more == Append(seqs, e)
<1>1. /\ n \in Nat /\ more \in Seq(Seq(S)) /\ more # <<>> /\ Len(more) = n + 1
      /\ \A i \in 1..n : more[i] = seqs[i]
      /\ more[n + 1] = e
  BY AppendProperties, LenProperties
<1> HIDE DEF more
<1>2. PICK g \in [1..Len(more) -> Seq(S)] :
        /\ FlattenSeq(more) = g[Len(more)]
        /\ g[1] = more[1]
        /\ \A i \in 2..Len(more) : g[i] = g[i - 1] \o more[i]
  <2>1. more \in Seq(Seq(S))
    BY <1>1
  <2>2. more # <<>>
    BY <1>1
  <2> QED
    BY <2>1, <2>2, FlattenEquations
<1>3. CASE n = 0
  <2>1. seqs = <<>> /\ FlattenSeq(seqs) = <<>>
    BY <1>3, EmptySeq DEF FlattenSeq
  <2>2. FlattenSeq(more) = e
    BY <1>1, <1>2, <1>3
  <2>3. <<>> \in Seq(S) /\ <<>> \o e = e
    BY EmptySeq, ConcatEmptySeq
  <2> QED
    BY <2>1, <2>2, <2>3 DEF more
<1>4. CASE n # 0
  <2>1. seqs # <<>>
    BY <1>4, EmptySeq
  <2>2. PICK f \in [1..Len(seqs) -> Seq(S)] :
          /\ FlattenSeq(seqs) = f[Len(seqs)]
          /\ f[1] = seqs[1]
          /\ \A i \in 2..Len(seqs) : f[i] = f[i - 1] \o seqs[i]
    BY <2>1, FlattenEquations
  <2> DEFINE Same == {k \in 0..(n - 1) : g[k + 1] = f[k + 1]}
  <2> HIDE DEF n
  <2>3. 0 \in Same
    <3>1. 0 \in 0..(n - 1) /\ 0 + 1 = 1 /\ 1 \in 1..n
      BY <1>1, <1>4
    <3> QED
      BY <1>1, <1>2, <2>2, <3>1
  <2>4. ASSUME NEW k \in 0..((n - 1) - 1), k \in Same PROVE k + 1 \in Same
    <3> DEFINE i == (k + 1) + 1
    <3>1. i \in 2..n /\ i \in 2..(n + 1) /\ i \in 1..n /\ i - 1 = k + 1 /\ k + 1 \in 0..(n - 1)
      BY <1>1
    <3> HIDE DEF i
    <3>2. g[i] = g[k + 1] \o more[i] /\ f[i] = f[k + 1] \o seqs[i]
      BY <1>1, <1>2, <2>2, <3>1 DEF n
    <3>3. g[i] = f[i]
      BY <1>1, <2>4, <3>1, <3>2
    <3> QED
      BY <3>1, <3>3 DEF i
  <2>5. 0..(n - 1) \subseteq Same
    <3> HIDE DEF Same
    <3>1. n - 1 \in Nat
      BY <1>1, <1>4
    <3> QED
      BY <2>3, <2>4, <3>1, UpTo
  <2>6. g[n] = f[n]
    <3>1. n - 1 \in 0..(n - 1) /\ (n - 1) + 1 = n
      BY <1>1, <1>4
    <3> QED
      BY <2>5, <3>1
  <2>7. FlattenSeq(more) = g[n] \o e
    <3>1. n + 1 \in 2..Len(more) /\ (n + 1) - 1 = n
      BY <1>1, <1>4
    <3> QED
      BY <1>1, <1>2, <3>1
  <2>8. FlattenSeq(seqs) = f[n] /\ f[n] \in Seq(S)
    <3>1. n \in 1..n
      BY <1>1, <1>4
    <3> QED
      BY <2>2, <3>1 DEF n
  <2> QED
    BY <2>6, <2>7, <2>8 DEF more
<1> QED
  BY <1>3, <1>4

(* The string of a path and of one with a name more.                       *)
LEMMA StrAppend ==
  ASSUME NEW q \in Seq(Names), NEW x \in Names
  PROVE  /\ Str(Append(q, x)) = Str(q) \o (<<Slash>> \o x)
         /\ Str(q) \in Seq(Signs)
<1> DEFINE Pieces(p) == [k \in DOMAIN p |-> <<Slash>> \o p[k]]
<1>1. <<Slash>> \in Seq(Signs)
  <2>1. Slash \in Signs
    BY DEF Signs
  <2> QED
    BY <2>1, Single
<1>2. \A n \in Names : <<Slash>> \o n \in Seq(Signs)
  BY <1>1, NameFacts, ConcatProperties
<1>3. ASSUME NEW p \in Seq(Names)
      PROVE  /\ Pieces(p) \in Seq(Seq(Signs)) /\ Len(Pieces(p)) = Len(p)
             /\ \A k \in 1..Len(p) : Pieces(p)[k] = <<Slash>> \o p[k]
             /\ Str(p) = FlattenSeq(Pieces(p))
  <2>1. Len(p) \in Nat /\ DOMAIN p = 1..Len(p) /\ \A k \in 1..Len(p) : p[k] \in Names
    BY LenProperties
  <2>2. Pieces(p) \in [1..Len(p) -> Seq(Signs)]
    BY <1>2, <2>1
  <2>3. Pieces(p) \in Seq(Seq(Signs))
    BY <2>1, <2>2, SeqDef
  <2>4. Len(Pieces(p)) = Len(p)
    BY <2>1, <2>2, <2>3, LenProperties
  <2>5. \A k \in 1..Len(p) : Pieces(p)[k] = <<Slash>> \o p[k]
    BY <2>1
  <2>6. Str(p) = FlattenSeq(Pieces(p))
    <3>1. CASE p # <<>>
      BY <3>1 DEF Str, String
    <3>2. CASE p = <<>>
      <4> HIDE DEF Pieces
      <4>1. Len(Pieces(p)) = 0
        BY <2>4, <3>2, EmptySeq
      <4>2. Pieces(p) = <<>>
        BY <2>3, <4>1, EmptySeq
      <4>3. FlattenSeq(<<>>) = <<>>
        BY EmptySeq DEF FlattenSeq
      <4> QED
        BY <3>2, <4>2, <4>3 DEF Str
    <3> QED
      BY <3>1, <3>2
  <2> HIDE DEF Pieces
  <2> QED
    BY <2>3, <2>4, <2>5, <2>6
<1> HIDE DEF Pieces
<1> DEFINE p == Append(q, x)
           e == <<Slash>> \o x
           all == Append(Pieces(q), e)
<1>4. /\ p \in Seq(Names) /\ Len(p) = Len(q) + 1 /\ Len(q) \in Nat
      /\ \A k \in 1..Len(q) : p[k] = q[k]
      /\ p[Len(q) + 1] = x
  BY AppendProperties, LenProperties
<1>5. e \in Seq(Signs)
  BY <1>2
<1>6. Pieces(q) \in Seq(Seq(Signs)) /\ Len(Pieces(q)) = Len(q)
  BY <1>3
<1> HIDE DEF p
<1>7. Pieces(p) = all
  <2>1. /\ all \in Seq(Seq(Signs)) /\ Len(all) = Len(q) + 1
        /\ \A k \in 1..Len(q) : all[k] = Pieces(q)[k]
        /\ all[Len(q) + 1] = e
    <3> HIDE DEF e
    <3>1. /\ all \in Seq(Seq(Signs)) /\ Len(all) = Len(Pieces(q)) + 1
          /\ \A k \in 1..Len(Pieces(q)) : all[k] = Pieces(q)[k]
          /\ all[Len(Pieces(q)) + 1] = e
      BY <1>5, <1>6, AppendProperties
    <3> QED
      BY <1>6, <3>1
  <2>2. Pieces(p) \in Seq(Seq(Signs)) /\ Len(Pieces(p)) = Len(p)
    BY <1>3, <1>4
  <2> HIDE DEF all
  <2>3. ASSUME NEW k \in 1..Len(p) PROVE Pieces(p)[k] = all[k]
    <3>1. Pieces(p)[k] = <<Slash>> \o p[k]
      BY <1>3, <1>4
    <3>2. CASE k \in 1..Len(q)
      <4>1. Pieces(q)[k] = <<Slash>> \o q[k]
        BY <1>3, <3>2
      <4> QED
        BY <1>4, <2>1, <3>1, <3>2, <4>1
    <3>3. CASE k = Len(q) + 1
      BY <1>4, <2>1, <3>1, <3>3
    <3> QED
      BY <1>4, <3>2, <3>3
  <2>4. Len(Pieces(p)) = Len(all)
    BY <1>4, <2>1, <2>2
  <2> QED
    BY <2>1, <2>2, <2>3, <2>4, SeqEqual
<1>8. FlattenSeq(all) = FlattenSeq(Pieces(q)) \o e /\ FlattenSeq(Pieces(q)) \in Seq(Signs)
  <2> HIDE DEF e
  <2> QED
    BY <1>5, <1>6, FlattenAppend
<1> QED
  BY <1>3, <1>4, <1>7, <1>8 DEF p

(* The string of a path, and with a slash behind it.                       *)
LEMMA StrTyped ==
  ASSUME NEW p \in Seq(Names)
  PROVE  /\ Str(p) \in Seq(Signs) /\ <<Slash>> \in Seq(Signs)
         /\ Closed(p) \in Seq(Signs) /\ Closed(p) # <<>> /\ Str(<<>>) = <<>>
<1>1. <<Slash>> \in Seq(Signs) /\ <<Slash>> # <<>>
  <2>1. Slash \in Signs
    BY DEF Signs
  <2> QED
    BY <2>1, Single
<1>2. Str(<<>>) = <<>> /\ <<>> \in Seq(Signs)
  BY EmptySeq DEF Str
<1>3. Str(p) \in Seq(Signs)
  <2>1. CASE p = <<>>
    BY <1>2, <2>1
  <2>2. CASE p # <<>>
    <3>1. Last(p) \in Names
      BY <2>2, FrontLast
    <3> QED
      BY <3>1, StrAppend
  <2> QED
    BY <2>1, <2>2
<1> DEFINE a == Str(p)
           b == <<Slash>>
<1>4. a \in Seq(Signs) /\ b \in Seq(Signs) /\ b # <<>>
  BY <1>1, <1>3
<1>5. Closed(p) = a \o b
  BY DEF Closed
<1> HIDE DEF a, b
<1>6. a \o b \in Seq(Signs)
  BY <1>4, ConcatProperties
<1>7. a \o b # <<>>
  BY <1>4, ConcatEqualIffEmpty
<1> QED
  BY <1>1, <1>2, <1>3, <1>5, <1>6, <1>7

(* Three strings can be put together in either order.                      *)
LEMMA SignsRegroup == \A a, b, c \in Seq(Signs) : Regroups(a, b, c)
  BY ConcatAssociative DEF Regroups

(* The string of two paths one below the other.                            *)
LEMMA StrConcat ==
  ASSUME NEW d \in Seq(Names), NEW e \in Seq(Names)
  PROVE  Str(d \o e) = Str(d) \o Str(e)
<1> DEFINE Fine(f) == Str(d \o f) = Str(d) \o Str(f)
           Done == {n \in 0..Len(e) : \A f \in Seq(Names) : Len(f) = n => Fine(f)}
<1>0. Len(e) \in Nat
  BY LenProperties
<1>1. 0 \in Done
  <2>1. ASSUME NEW f \in Seq(Names), Len(f) = 0 PROVE Fine(f)
    <3>1. f = <<>>
      BY <2>1, EmptySeq
    <3>2. d \o <<>> = d
      BY ConcatEmptySeq
    <3>3. Str(d) \o <<>> = Str(d)
      BY StrTyped, ConcatEmptySeq
    <3>4. Str(<<>>) = <<>>
      BY StrTyped
    <3> QED
      BY <3>1, <3>2, <3>3, <3>4
  <2>2. 0 \in 0..Len(e)
    BY <1>0
  <2> QED
    BY <2>1, <2>2
<1>2. ASSUME NEW n \in 0..(Len(e) - 1), n \in Done PROVE n + 1 \in Done
  <2>1. ASSUME NEW f \in Seq(Names), Len(f) = n + 1 PROVE Fine(f)
    <3> DEFINE q == Front(f)
               x == Last(f)
               sx == <<Slash>> \o x
    <3>1. f # <<>>
      BY <2>1, EmptySeq
    <3>2. q \in Seq(Names) /\ x \in Names /\ Len(q) = Len(f) - 1 /\ f = Append(q, x)
      BY <3>1, FrontLast
    <3> HIDE DEF q, x
    <3>3. Len(q) = n
      BY <2>1, <3>2
    <3>4. Str(d \o q) = Str(d) \o Str(q)
      BY <1>2, <3>2, <3>3
    <3>5. d \o q \in Seq(Names)
      BY <3>2, ConcatProperties
    <3>6. d \o f = Append(d \o q, x)
      <4>1. <<x>> \in Seq(Names) /\ f = q \o <<x>>
        BY <3>2, AppendIsConcat, Single
      <4>2. Append(d \o q, x) = (d \o q) \o <<x>>
        BY <3>2, <3>5, AppendIsConcat
      <4> DEFINE tail == <<x>>
      <4> HIDE DEF tail
      <4>3. (d \o q) \o tail = d \o (q \o tail)
        <5>1. tail \in Seq(Names)
          BY <4>1 DEF tail
        <5>2. q \in Seq(Names)
          BY <3>2
        <5> HIDE DEF Done, Fine
        <5>3. Regroups(d, q, tail)
          BY <5>1, <5>2, NamesRegroup
        <5> QED
          BY <5>3 DEF Regroups
      <4> QED
        BY <4>1, <4>2, <4>3 DEF tail
    <3>7. Str(d \o f) = Str(d \o q) \o sx
      BY <3>2, <3>5, <3>6, StrAppend
    <3>8. Str(f) = Str(q) \o sx
      BY <3>2, StrAppend
    <3>9. sx \in Seq(Signs)
      <4>1. x \in Seq(Signs)
        BY <3>2, NameFacts
      <4>2. <<Slash>> \in Seq(Signs)
        BY StrTyped
      <4> QED
        BY <4>1, <4>2, ConcatProperties
    <3>10. Str(d) \in Seq(Signs) /\ Str(q) \in Seq(Signs)
      BY <3>2, StrTyped
    <3> HIDE DEF sx
    <3>11. (Str(d) \o Str(q)) \o sx = Str(d) \o (Str(q) \o sx)
      <4> DEFINE a == Str(d)
                 b == Str(q)
      <4>1. a \in Seq(Signs)
        BY <3>10
      <4>2. b \in Seq(Signs)
        BY <3>10
      <4> HIDE DEF a, b, Done, Fine
      <4>3. Regroups(a, b, sx)
        BY <3>9, <4>1, <4>2, SignsRegroup
      <4> QED
        BY <4>3 DEF Regroups, a, b
    <3>12. Str(d \o f) = (Str(d) \o Str(q)) \o sx
      BY <3>4, <3>7
    <3>13. Str(d) \o Str(f) = Str(d) \o (Str(q) \o sx)
      BY <3>8
    <3> QED
      BY <3>11, <3>12, <3>13
  <2>2. n + 1 \in 0..Len(e)
    BY <1>0
  <2> QED
    BY <2>1, <2>2
<1>3. Len(e) \in Done
  <2> HIDE DEF Done
  <2>1. 0..Len(e) \subseteq Done
    BY <1>0, <1>1, <1>2, UpTo
  <2> QED
    BY <1>0, <2>1
<1> QED
  BY <1>3

(* A path that is not the root begins with a slash and a name.             *)
LEMMA StrFirst ==
  ASSUME NEW y \in Names, NEW s \in Seq(Names), NEW e, e = <<y>> \o s
  PROVE  /\ e \in Seq(Names) /\ e # <<>>
         /\ Str(e) = <<Slash>> \o (y \o Str(s))
<1>1. <<y>> \in Seq(Names) /\ <<>> \in Seq(Names)
  BY Single, EmptySeq
<1>2. e \in Seq(Names) /\ e # <<>>
  BY <1>1, Reordered
<1>3. Str(<<y>>) = <<Slash>> \o y
  <2>1. Append(<<>>, y) = <<y>>
    OBVIOUS
  <2>2. Str(Append(<<>>, y)) = Str(<<>>) \o (<<Slash>> \o y)
    BY <1>1, StrAppend
  <2>3. <<Slash>> \o y \in Seq(Signs)
    <3>1. y \in Seq(Signs) /\ <<Slash>> \in Seq(Signs)
      BY <1>1, NameFacts, StrTyped
    <3> QED
      BY <3>1, ConcatProperties
  <2>4. <<>> \o (<<Slash>> \o y) = <<Slash>> \o y
    <3> DEFINE b == <<Slash>> \o y
    <3>1. b \in Seq(Signs)
      BY <2>3
    <3> HIDE DEF b
    <3>2. <<>> \o b = b
      BY <3>1, ConcatEmptySeq
    <3> QED
      BY <3>2 DEF b
  <2> QED
    BY <1>1, <2>1, <2>2, <2>4, StrTyped
<1>4. Str(e) = Str(<<y>>) \o Str(s)
  BY <1>1, StrConcat
<1> DEFINE b == <<Slash>>
<1>5. b \in Seq(Signs) /\ y \in Seq(Signs) /\ Str(s) \in Seq(Signs)
  BY NameFacts, StrTyped
<1>6. Str(<<y>>) = b \o y
  BY <1>3
<1> HIDE DEF b
<1>7. (b \o y) \o Str(s) = b \o (y \o Str(s))
  <2>1. Regroups(b, y, Str(s))
    BY <1>5, SignsRegroup
  <2> QED
    BY <2>1 DEF Regroups
<1>8. Str(e) = b \o (y \o Str(s))
  BY <1>4, <1>6, <1>7
<1> QED
  BY <1>2, <1>8 DEF b


(* A path that is not empty has a first name.                              *)
LEMMA PathCases ==
  ASSUME NEW e \in Seq(Names), e # <<>>
  PROVE  \E y \in Names, s \in Seq(Names) : e = <<y>> \o s /\ e = Led(y, s)
<1> DEFINE y == Head(e)
           s == Tail(e)
<1>1. y \in Names /\ s \in Seq(Names)
  BY HeadTailProperties
<1>2. e = <<y>> \o s
  OBVIOUS
<1>3. e = Led(y, s)
  BY <1>2 DEF Led
<1> HIDE DEF y, s
<1> QED
  BY <1>1, <1>2, <1>3

(* A path with a name put in front is one name longer.                     *)
LEMMA LedLength ==
  \A x \in Names, r \in Seq(Names) : Len(Led(x, r)) = Len(r) + 1
<1> SUFFICES ASSUME NEW x \in Names, NEW r \in Seq(Names)
             PROVE  Len(Led(x, r)) = Len(r) + 1
  OBVIOUS
<1> DEFINE one == <<x>>
<1>1. one \in Seq(Names) /\ Len(one) = 1
  BY Single
<1>2. Led(x, r) = one \o r
  BY DEF Led
<1> HIDE DEF one
<1>3. Len(one \o r) = Len(one) + Len(r)
  BY <1>1, ConcatProperties
<1>4. Len(r) \in Nat
  BY LenProperties
<1> QED
  BY <1>1, <1>2, <1>3, <1>4

(* A name put in front of two paths put together.                          *)
LEMMA LedRegroup ==
  \A x \in Names, r, e \in Seq(Names) : Led(x, Joined(r, e)) = Joined(Led(x, r), e)
<1> SUFFICES ASSUME NEW x \in Names, NEW r \in Seq(Names), NEW e \in Seq(Names)
             PROVE  Led(x, Joined(r, e)) = Joined(Led(x, r), e)
  OBVIOUS
<1> DEFINE one == <<x>>
<1>1. one \in Seq(Names)
  BY Single
<1> HIDE DEF one
<1>2. Regroups(one, r, e)
  BY <1>1, NamesRegroup
<1> QED
  BY <1>2 DEF Regroups, Joined, Led, one

(* Concatenation of strings.                                               *)
LEMMA SignsConcat ==
  /\ \A a, b, c \in Seq(Signs) : (a \o b) \o c = a \o (b \o c)
  /\ \A a, b \in Seq(Signs) : a \o b \in Seq(Signs)
  /\ \A a, b, c \in Seq(Signs) : a \o b = a \o c => b = c
<1>1. \A a, b, c \in Seq(Signs) : (a \o b) \o c = a \o (b \o c)
  BY ConcatAssociative
<1>2. \A a, b \in Seq(Signs) : a \o b \in Seq(Signs)
  BY ConcatProperties
<1>3. \A a, b, c \in Seq(Signs) : a \o b = a \o c => b = c
  BY ConcatSimplifications
<1> QED
  BY <1>1, <1>2, <1>3

(* What follows the string of a directory and its slash.                   *)
LEMMA ClosedSplit ==
  ASSUME NEW d \in Seq(Names), NEW y \in Names, NEW s \in Seq(Names), NEW e,
         e = Led(y, s)
  PROVE  /\ Str(d \o e) = Closed(d) \o (y \o Str(s))
         /\ Closed(d \o e) = Closed(d) \o (y \o Closed(s))
         /\ Str(d \o e) = Joined(Closed(d), y \o Str(s))
<1> DEFINE A == Str(d)
           B == <<Slash>>
           Z == Str(s)
<1>1. A \in Seq(Signs) /\ B \in Seq(Signs) /\ Z \in Seq(Signs)
  BY StrTyped
<1>2. y \in Seq(Signs)
  BY NameFacts
<1>3. Closed(d) = A \o B /\ Closed(s) = Z \o B /\ Closed(d \o e) = Str(d \o e) \o B
  BY DEF Closed
<1>4. e \in Seq(Names) /\ Str(e) = B \o (y \o Z)
  <2>1. e = <<y>> \o s
    BY DEF Led
  <2> QED
    BY <2>1, StrFirst
<1>5. Str(d \o e) = A \o (B \o (y \o Z))
  BY <1>4, StrConcat
<1> HIDE DEF A, B, Z
<1>6. y \o Z \in Seq(Signs) /\ A \o B \in Seq(Signs)
  BY <1>1, <1>2, ConcatProperties
<1> DEFINE W == y \o Z
           V == A \o B
<1>7. W \in Seq(Signs) /\ V \in Seq(Signs)
  BY <1>6
<1>8. W \o B = y \o (Z \o B)
  <2>1. Regroups(y, Z, B)
    BY <1>1, <1>2, SignsRegroup
  <2> QED
    BY <2>1 DEF Regroups
<1> HIDE DEF W
<1>9. V \o W = A \o (B \o W)
  <2>1. Regroups(A, B, W)
    BY <1>1, <1>7, SignsRegroup
  <2> QED
    BY <2>1 DEF Regroups
<1> HIDE DEF V
<1>10. (V \o W) \o B = V \o (W \o B)
  <2>1. V \in Seq(Signs)
    BY <1>7
  <2>2. W \in Seq(Signs)
    BY <1>7
  <2>3. B \in Seq(Signs)
    BY <1>1
  <2>4. Regroups(V, W, B)
    BY <2>1, <2>2, <2>3, SignsRegroup
  <2> QED
    BY <2>4 DEF Regroups
<1>11. Str(d \o e) = V \o W
  BY <1>5, <1>9 DEF W
<1>12. Closed(d \o e) = V \o (W \o B)
  BY <1>3, <1>10, <1>11
<1> QED
  <2>1. Str(d \o e) = Joined(V, W)
    BY <1>11 DEF Joined
  <2>2. Str(d \o e) = Joined(Closed(d), y \o Str(s))
    BY <1>3, <2>1 DEF V, W, Z
  <2> QED
    BY <1>3, <1>8, <1>11, <1>12, <2>2 DEF V, W, Z

(* The string of a path from its front: a slash and the first name.        *)
LEMMA ClosedFirst ==
  /\ Closed(<<>>) = <<Slash>>
  /\ \A y \in Names, s \in Seq(Names) :
       Closed(<<y>> \o s) = <<Slash>> \o (y \o Closed(s))
  /\ \A s \in Seq(Names) : Closed(s)[1] = Slash
<1>1. <<>> \in Seq(Names) /\ <<Slash>> \in Seq(Signs)
  BY EmptySeq, StrTyped
<1>2. Closed(<<>>) = <<Slash>>
  <2> DEFINE B == <<Slash>>
  <2>1. B \in Seq(Signs)
    BY <1>1
  <2>2. Closed(<<>>) = <<>> \o B
    BY <1>1, StrTyped DEF Closed
  <2> HIDE DEF B
  <2>3. <<>> \o B = B
    BY <2>1, ConcatEmptySeq
  <2> QED
    BY <2>2, <2>3 DEF B
<1>3. ASSUME NEW y \in Names, NEW s \in Seq(Names)
      PROVE  Closed(<<y>> \o s) = <<Slash>> \o (y \o Closed(s))
  <2> DEFINE e == <<y>> \o s
  <2>1. e = <<y>> \o s /\ e = Led(y, s)
    BY DEF Led
  <2> HIDE DEF e
  <2>2. e \in Seq(Names)
    BY <2>1, StrFirst
  <2>3. <<>> \o e = e
    BY <2>2, ConcatEmptySeq
  <2>4. Closed(<<>> \o e) = Closed(<<>>) \o (y \o Closed(s))
    BY <1>1, <2>1, ClosedSplit
  <2>5. Closed(e) = <<Slash>> \o (y \o Closed(s))
    BY <1>2, <2>3, <2>4
  <2> QED
    BY <2>1, <2>5
<1>4. ASSUME NEW s \in Seq(Names) PROVE Closed(s)[1] = Slash
  <2>1. CASE s = <<>>
    BY <1>2, <2>1
  <2>2. CASE s # <<>>
    <3>1. PICK y \in Names, r \in Seq(Names) : s = <<y>> \o r
      BY <2>2, PathCases
    <3> DEFINE w == y \o Closed(r)
    <3>2. w \in Seq(Signs)
      <4>1. y \in Seq(Signs) /\ Closed(r) \in Seq(Signs)
        BY NameFacts, StrTyped
      <4> QED
        BY <4>1, ConcatProperties
    <3>3. Closed(s) = <<Slash>> \o w
      BY <1>3, <3>1
    <3> HIDE DEF w
    <3>4. Slash \in Signs
      BY DEF Signs
    <3>5. <<>> \in Seq(Signs)
      BY EmptySeq
    <3> DEFINE c == Closed(s)
    <3>6. c = <<Slash>> \o w
      BY <3>3
    <3> HIDE DEF c
    <3>7. c \in Seq(Signs) /\ c # <<>> /\ Head(c) = Slash
      BY <3>2, <3>4, <3>5, <3>6, Reordered
    <3>8. Head(c) = c[1]
      BY <3>7
    <3> QED
      BY <3>7, <3>8 DEF c
  <2> QED
    BY <2>1, <2>2
<1> QED
  BY <1>2, <1>3, <1>4

(* A prefix that begins with the name x leaves a path that does.            *)
LEMMA ClosedPeel ==
  ASSUME NEW x \in Names, NEW r \in Seq(Names), NEW q \in Seq(Names),
         NEW v \in Seq(Signs), Closed(q) = Joined(Closed(Led(x, r)), v)
  PROVE  \E s \in Seq(Names) : q = Led(x, s) /\ Closed(s) = Joined(Closed(r), v)
<1> DEFINE B == <<Slash>>
           K == Closed(r)
           X == x \o K
<1>1. B \in Seq(Signs) /\ Len(B) = 1 /\ K \in Seq(Signs) /\ x \in Seq(Signs)
      /\ K # <<>> /\ K[1] = Slash
  <2>1. Len(B) = 1
    OBVIOUS
  <2> QED
    BY <2>1, NameFacts, StrTyped, ClosedFirst
<1>2. Closed(Led(x, r)) = B \o X
  BY ClosedFirst DEF Led
<1> DEFINE Q == Closed(q)
<1>3. Q = (B \o X) \o v
  BY <1>2 DEF Joined
<1> HIDE DEF B, K, Q
<1>4. X \in Seq(Signs) /\ X # <<>>
  BY <1>1, ConcatProperties, ConcatEqualIffEmpty
<1> HIDE DEF X
<1>5. X \o v \in Seq(Signs) /\ Q = B \o (X \o v)
  <2>1. B \in Seq(Signs)
    BY <1>1
  <2>2. X \in Seq(Signs)
    BY <1>4
  <2>3. v \in Seq(Signs)
    OBVIOUS
  <2>4. Regroups(B, X, v)
    BY <2>1, <2>2, <2>3, SignsRegroup
  <2>5. X \o v \in Seq(Signs)
    BY <2>2, SignsConcat
  <2> QED
    BY <1>3, <2>4, <2>5 DEF Regroups
<1>6. q # <<>>
  <2> SUFFICES ASSUME q = <<>> PROVE FALSE
    OBVIOUS
  <2>1. Q = B
    BY ClosedFirst DEF Q, B
  <2>2. X \o v = <<>>
    BY <1>1, <1>5, <2>1, ConcatSimplifications
  <2> QED
    BY <1>4, <2>2, ConcatSimplifications
<1>7. PICK y \in Names, s \in Seq(Names) : q = <<y>> \o s /\ q = Led(y, s)
  BY <1>6, PathCases
<1> DEFINE M == Closed(s)
<1>8. M \in Seq(Signs) /\ y \in Seq(Signs) /\ M # <<>> /\ M[1] = Slash
  BY NameFacts, StrTyped, ClosedFirst
<1>9. Q = B \o (y \o M)
  BY <1>7, ClosedFirst DEF Q, B
<1> HIDE DEF M
<1>10. y \o M \in Seq(Signs)
  BY <1>8, ConcatProperties
<1>11. y \o M = X \o v
  <2> DEFINE a == y \o M
             b == X \o v
  <2>1. Q = Joined(B, a) /\ Q = Joined(B, b)
    BY <1>5, <1>9 DEF Joined
  <2>2. a \in Seq(Signs) /\ b \in Seq(Signs)
    BY <1>5, <1>10
  <2> HIDE DEF a, b
  <2>3. a = b
    BY <1>1, <2>1, <2>2, SignsCancel
  <2> QED
    BY <2>3 DEF a, b
<1>12. X \o v = x \o (K \o v)
  <2>1. x \in Seq(Signs)
    BY <1>1
  <2>2. K \in Seq(Signs)
    BY <1>1
  <2>3. v \in Seq(Signs)
    OBVIOUS
  <2>4. Regroups(x, K, v)
    BY <2>1, <2>2, <2>3, SignsRegroup
  <2> QED
    BY <2>4 DEF Regroups, X
<1> DEFINE N == K \o v
<1>13. N \in Seq(Signs) /\ N # <<>> /\ N[1] = Slash
  <2>1. /\ N \in Seq(Signs) /\ Len(N) = Len(K) + Len(v)
        /\ \A i \in 1..(Len(K) + Len(v)) : N[i] = IF i <= Len(K) THEN K[i] ELSE v[i - Len(K)]
    BY <1>1, ConcatProperties
  <2>2. Len(K) \in Nat \ {0} /\ Len(v) \in Nat
    BY <1>1, EmptySeq, LenProperties
  <2> HIDE DEF N
  <2>3. N[1] = K[1]
    BY <2>1, <2>2
  <2>4. Len(N) # 0
    BY <2>1, <2>2
  <2> QED
    BY <1>1, <2>1, <2>3, <2>4, EmptySeq
<1>14. Joined(y, M) = Joined(x, N)
  BY <1>11, <1>12 DEF Joined
<1> HIDE DEF N
<1>15. y = x /\ M = N
  BY <1>8, <1>13, <1>14, NameEnds
<1>16. Closed(s) = Joined(Closed(r), v)
  BY <1>15 DEF M, N, K, Joined
<1>17. q = Led(x, s)
  BY <1>7, <1>15
<1> QED
  BY <1>16, <1>17

(* A string prefix that ends with a slash is a prefix of names.            *)
LEMMA ClosedPrefix ==
  ASSUME NEW d \in Seq(Names), NEW p \in Seq(Names), NEW z \in Seq(Signs),
         Closed(p) = Closed(d) \o z
  PROVE  \E e \in Seq(Names) : p = d \o e
<1> DEFINE L == Len(d)
           Fine(c) == \A q \in Seq(Names), v \in Seq(Signs) :
                        Closed(q) = Joined(Closed(c), v) =>
                          \E e \in Seq(Names) : q = Joined(c, e)
           Done == {n \in 0..L : \A c \in Seq(Names) : Len(c) = n => Fine(c)}
<1>0. L \in Nat
  BY LenProperties
<1> HIDE DEF L
<1>1. 0 \in Done
  <2>1. ASSUME NEW c \in Seq(Names), Len(c) = 0 PROVE Fine(c)
    <3>1. c = <<>>
      BY <2>1, EmptySeq
    <3>2. \A q \in Seq(Names) : q = Joined(c, q)
      BY <3>1, ConcatEmptySeq DEF Joined
    <3> QED
      BY <3>2
  <2>2. 0 \in 0..L
    BY <1>0
  <2> QED
    BY <2>1, <2>2
<1>2. ASSUME NEW n \in 0..(L - 1), n \in Done PROVE n + 1 \in Done
  <2>1. ASSUME NEW c \in Seq(Names), Len(c) = n + 1, NEW q \in Seq(Names),
               NEW v \in Seq(Signs), Closed(q) = Joined(Closed(c), v)
        PROVE  \E e \in Seq(Names) : q = Joined(c, e)
    <3>1. c # <<>>
      BY <2>1, EmptySeq
    <3>2. PICK x \in Names, r \in Seq(Names) : c = Led(x, r)
      BY <3>1, PathCases
    <3>3. Len(r) = n
      <4>1. Len(c) = Len(r) + 1
        BY <3>2, LedLength
      <4>2. Len(r) \in Nat
        BY LenProperties
      <4>3. n \in Nat
        BY <1>0
      <4> QED
        BY <2>1, <4>1, <4>2, <4>3
    <3>4. Fine(r)
      BY <1>2, <3>3
    <3>5. PICK s \in Seq(Names) : q = Led(x, s) /\ Closed(s) = Joined(Closed(r), v)
      BY <2>1, <3>2, ClosedPeel
    <3>6. PICK e \in Seq(Names) : s = Joined(r, e)
      BY <3>4, <3>5
    <3>7. Led(x, Joined(r, e)) = Joined(Led(x, r), e)
      BY LedRegroup
    <3> QED
      BY <3>2, <3>5, <3>6, <3>7
  <2>2. n + 1 \in 0..L
    BY <1>0
  <2> QED
    BY <2>1, <2>2
<1>3. L \in Done
  <2> HIDE DEF Done
  <2>1. 0..L \subseteq Done
    BY <1>0, <1>1, <1>2, UpTo
  <2>2. L \in 0..L
    BY <1>0
  <2> QED
    BY <2>1, <2>2
<1>4. Fine(d)
  BY <1>3 DEF L
<1>5. Closed(p) = Joined(Closed(d), z)
  BY DEF Joined
<1>6. PICK e \in Seq(Names) : p = Joined(d, e)
  BY <1>4, <1>5
<1>7. p = d \o e
  BY <1>6 DEF Joined
<1> QED
  BY <1>7

RootString == <<Slash>>

(* Only the root directory has the separator for its string.               *)
LEMMA StringFacts ==
  /\ String(<<>>) = RootString /\ Closed(<<>>) = RootString
  /\ \A p \in Seq(Names) :
       p # <<>> => String(p) = Str(p) /\ String(p) # RootString
  /\ \A p \in Seq(Names) : String(p) \in Seq(Signs)
<1>1. String(<<>>) = RootString /\ Closed(<<>>) = RootString
  BY ClosedFirst DEF String, RootString
<1>2. ASSUME NEW p \in Seq(Names), p # <<>>
      PROVE  String(p) = Str(p) /\ String(p) # RootString
  <2>1. PICK y \in Names, s \in Seq(Names) : p = <<y>> \o s
    BY <1>2, PathCases
  <2> DEFINE B == <<Slash>>
             Z == Str(s)
             W == y \o Z
  <2>2. Str(p) = B \o W
    BY <2>1, StrFirst
  <2>3. B \in Seq(Signs) /\ Z \in Seq(Signs) /\ y \in Seq(Signs) /\ y # <<>>
    BY StrTyped, NameFacts
  <2> HIDE DEF Z, B
  <2>4. W \in Seq(Signs)
    BY <2>3, SignsConcat
  <2>5. W # <<>>
    BY <2>3, ConcatSimplifications
  <2> HIDE DEF W
  <2>6. B \o W # B
    BY <2>3, <2>4, <2>5, ConcatSimplifications
  <2>7. Str(p) # RootString
    BY <2>2, <2>6 DEF RootString, B
  <2> QED
    BY <1>2, <2>7 DEF Str
<1>3. ASSUME NEW p \in Seq(Names) PROVE String(p) \in Seq(Signs)
  <2>1. CASE p = <<>>
    BY <1>1, <2>1, StrTyped DEF RootString
  <2>2. CASE p # <<>>
    BY <1>2, <2>2, StrTyped
  <2> QED
    BY <2>1, <2>2
<1> QED
  BY <1>1, <1>2, <1>3

(* The test on strings is the test on names: this is what the separator    *)
(* behind the directory and the case of the root directory are for         *)
(* (pathguard.go, within).                                                 *)
LEMMA WithinIsBelow ==
  ASSUME NEW d \in Seq(Names), NEW p \in Seq(Names)
  PROVE  within(d, p) <=> Below(d, p)
<1> DEFINE B == <<Slash>>
<1>1. <<>> \in Seq(Names) /\ B \in Seq(Signs) /\ <<>> \in Seq(Signs)
  BY EmptySeq, StrTyped
<1>2. CASE d = <<>>
  <2>1. p = <<>> \o p
    BY ConcatEmptySeq
  <2>2. Below(d, p)
    BY <1>2, <2>1, BelowIs
  <2> QED
    BY <1>2, <2>2 DEF within
<1>3. CASE d # <<>>
  <2> DEFINE D == String(d)
             P == String(p)
             C == Closed(d)
  <2>1. D = Str(d) /\ D # RootString /\ D \in Seq(Signs) /\ P \in Seq(Signs)
    BY <1>3, StringFacts
  <2>2. C = D \o B /\ C \in Seq(Signs)
    BY <2>1, StrTyped DEF Closed
  <2>3. p = <<>> => P = RootString
    BY StringFacts
  <2>4. p # <<>> => P = Str(p) /\ Closed(p) = P \o B
    BY StringFacts DEF Closed
  <2>5. within(d, p) <=> P = D \/ IsPrefix(C, P)
    BY <1>3, <2>2 DEF within
  <2> HIDE DEF C, P, D, B
  <2>7. ASSUME P = D PROVE Below(d, p)
    <3>1. p # <<>>
      BY <2>1, <2>3, <2>7
    <3>2. Closed(p) = C
      BY <2>2, <2>4, <2>7, <3>1
    <3>3. C \o <<>> = C
      BY <2>2, ConcatEmptySeq
    <3>4. Closed(p) = Closed(d) \o <<>>
      BY <3>2, <3>3 DEF C
    <3>5. \E e \in Seq(Names) : p = d \o e
      BY <1>1, <3>4, ClosedPrefix
    <3> QED
      BY <3>5, BelowIs
  <2>8. ASSUME IsPrefix(C, P) PROVE Below(d, p)
    <3>1. PICK z \in Seq(Signs) : P = C \o z
      <4>1. C \in Seq(Signs)
        BY <2>2
      <4>2. P \in Seq(Signs)
        BY <2>1
      <4> QED
        BY <2>8, <4>1, <4>2, PrefixIs
    <3>2. p # <<>>
      <4> SUFFICES ASSUME p = <<>> PROVE FALSE
        OBVIOUS
      <4>1. Closed(<<>>) = Closed(d) \o z
        <5>1. Closed(<<>>) = P
          BY <2>3, StringFacts
        <5> QED
          BY <3>1, <5>1 DEF C
      <4>2. PICK e \in Seq(Names) : <<>> = d \o e
        BY <1>1, <4>1, ClosedPrefix
      <4> QED
        BY <1>3, <4>2, ConcatSimplifications
    <3>3. (C \o z) \o B = C \o (z \o B) /\ z \o B \in Seq(Signs)
      <4>1. Regroups(C, z, B)
        BY <1>1, <2>2, SignsRegroup
      <4>2. z \o B \in Seq(Signs)
        BY <1>1, <2>2, SignsConcat
      <4> QED
        BY <4>1, <4>2 DEF Regroups
    <3>4. Closed(p) = Closed(d) \o (z \o B)
      BY <2>4, <3>1, <3>2, <3>3 DEF C
    <3> DEFINE zz == z \o B
    <3>5. zz \in Seq(Signs) /\ Closed(p) = Closed(d) \o zz
      BY <3>3, <3>4
    <3> HIDE DEF zz
    <3>6. \E e \in Seq(Names) : p = d \o e
      BY <3>5, ClosedPrefix
    <3> QED
      BY <3>6, BelowIs
  <2>9. ASSUME Below(d, p) PROVE P = D \/ IsPrefix(C, P)
    <3>1. PICK e \in Seq(Names) : p = d \o e
      BY <2>9, BelowIs
    <3>2. CASE e = <<>>
      <4>1. p = d
        BY <3>1, <3>2, ConcatEmptySeq
      <4> QED
        BY <4>1 DEF P, D
    <3>3. CASE e # <<>>
      <4>1. PICK y \in Names, s \in Seq(Names) : e = Led(y, s)
        BY <3>3, PathCases
      <4> DEFINE w == y \o Str(s)
      <4>2. Str(p) = Joined(C, w)
        <5>1. y \in Names
          BY <4>1
        <5>2. s \in Seq(Names)
          BY <4>1
        <5>3. Str(d \o e) = Joined(Closed(d), w)
          BY <4>1, <5>1, <5>2, ClosedSplit
        <5> QED
          BY <3>1, <5>3 DEF C
      <4>3. y \in Seq(Signs) /\ Str(s) \in Seq(Signs)
        BY NameFacts, StrTyped
      <4>4. w \in Seq(Signs)
        BY <4>3, SignsConcat
      <4> HIDE DEF w
      <4>5. p # <<>>
        BY <1>3, <3>1, ConcatEqualIffEmpty, ConcatSimplifications
      <4>6. P = C \o w
        BY <2>4, <4>2, <4>5 DEF Joined
      <4> QED
        BY <2>1, <2>2, <4>4, <4>6, PrefixIs
    <3> QED
      BY <3>2, <3>3
  <2> QED
    BY <2>5, <2>7, <2>8, <2>9
<1> QED
  BY <1>2, <1>3

-----------------------------------------------------------------------------
(* Routing.                                                                *)

(* What follows a prefix is what was put behind it.                        *)
LEMMA RestIs ==
  ASSUME NEW C \in Seq(Signs), NEW w \in Seq(Signs)
  PROVE  SubSeq(Joined(C, w), Len(C) + 1, Len(Joined(C, w))) = w
<1> DEFINE m == Len(C)
           n == Len(w)
           j == C \o w
           r == SubSeq(j, m + 1, m + n)
<1>1. m \in Nat /\ n \in Nat
  BY LenProperties
<1>2. j \in Seq(Signs) /\ Len(j) = m + n
  BY ConcatProperties
<1>3. \A i \in 1..n : j[m + i] = w[i]
  BY ConcatProperties
<1>4. Joined(C, w) = j
  BY DEF Joined
<1> HIDE DEF j, m, n
<1>5. \A i \in (m + 1)..(m + n) : j[i] \in Signs
  <2>1. \A i \in 1..Len(j) : j[i] \in Signs
    BY <1>2, ElementOfSeq
  <2> QED
    BY <1>1, <1>2, <2>1
<1>6. r \in Seq(Signs) /\ Len(r) = n /\ \A i \in 1..n : r[i] = w[i]
  <2>1. /\ SubSeq(j, m + 1, m + n) \in Seq(Signs)
        /\ Len(SubSeq(j, m + 1, m + n))
             = IF m + 1 <= m + n THEN (m + n) - (m + 1) + 1 ELSE 0
        /\ \A i \in 1..((m + n) - (m + 1) + 1) :
             SubSeq(j, m + 1, m + n)[i] = j[(m + 1) + i - 1]
    BY <1>1, <1>5, SubSeqProperties
  <2> HIDE DEF r
  <2>2. r \in Seq(Signs) /\ Len(r) = n
    BY <1>1, <2>1 DEF r
  <2>3. \A i \in 1..n : r[i] = j[m + i]
    BY <1>1, <2>1 DEF r
  <2> QED
    BY <1>3, <2>2, <2>3
<1> HIDE DEF r
<1>7. Len(r) = Len(w) /\ r \in Seq(Signs) /\ \A i \in 1..Len(r) : r[i] = w[i]
  BY <1>6 DEF n
<1>8. r = w
  BY <1>7, SeqEqual
<1> QED
  BY <1>2, <1>4, <1>8 DEF m, n, r

(* The string of a path below a directory: the directory, a slash and a    *)
(* relative name that neither starts with a slash nor is a dot.            *)
LEMMA Beyond ==
  ASSUME NEW d \in Seq(Names), NEW p \in Seq(Names), Below(d, p), p # d
  PROVE  \E w \in Seq(Signs) : /\ String(p) = Joined(Closed(d), w)
                               /\ w # <<>> /\ w # Dot /\ Head(w) # Slash
<1>1. PICK e \in Seq(Names) : p = d \o e
  BY BelowIs
<1>2. e # <<>>
  BY <1>1, ConcatEmptySeq
<1>3. PICK y \in Names, s \in Seq(Names) : e = Led(y, s)
  BY <1>2, PathCases
<1> DEFINE Z == Str(s)
           w == y \o Z
<1>4. y \in Seq(Signs) /\ y # <<>> /\ y # Dot /\ Z \in Seq(Signs)
      /\ \A i \in 1..Len(y) : y[i] # Slash
  BY NameFacts, StrTyped
<1>5. Str(d \o e) = Joined(Closed(d), w)
  BY <1>3, ClosedSplit
<1>6. p # <<>>
  BY <1>1, <1>2, ConcatSimplifications
<1>7. String(p) = Joined(Closed(d), w)
  BY <1>1, <1>5, <1>6, StringFacts
<1>8. Z = <<>> => w = y
  BY <1>4, ConcatEmptySeq
<1> HIDE DEF Z
<1>9. Len(y) \in Nat \ {0} /\ Len(Z) \in Nat /\ (Z # <<>> => Len(Z) \in Nat \ {0})
  BY <1>4, EmptySeq, LenProperties
<1>10. w \in Seq(Signs) /\ Len(w) = Len(y) + Len(Z)
  BY <1>4, ConcatProperties
<1>11. \A i \in 1..(Len(y) + Len(Z)) : i <= Len(y) => w[i] = y[i]
  BY <1>4, ConcatProperties
<1> HIDE DEF w
<1>12. w[1] # Slash
  <2>1. 1 \in 1..(Len(y) + Len(Z)) /\ 1 <= Len(y) /\ 1 \in 1..Len(y)
    BY <1>9
  <2> QED
    BY <1>4, <1>11, <2>1
<1>13. w # <<>>
  <2> DEFINE m == Len(w)
  <2>1. m > 0
    BY <1>9, <1>10
  <2>2. w = <<>> => m = 0
    OBVIOUS
  <2> HIDE DEF m
  <2> QED
    BY <2>1, <2>2
<1>14. w # Dot
  <2>1. CASE Z = <<>>
    BY <1>4, <1>8, <2>1
  <2>2. CASE Z # <<>>
    <3> DEFINE m == Len(w)
    <3>1. m > 1
      BY <1>9, <1>10, <2>2
    <3>2. w = Dot => m = 1
      BY DEF Dot
    <3> HIDE DEF m
    <3> QED
      BY <3>1, <3>2
  <2> QED
    BY <2>1, <2>2
<1> QED
  BY <1>7, <1>10, <1>12, <1>13, <1>14

(* The relative name leads from the directory back to the path             *)
(* (rootpool.go, relName).                                                 *)
LEMMA RelNameIs ==
  ASSUME NEW d \in Seq(Names), NEW p \in Seq(Names), Below(d, p)
  PROVE  LET rel == relName(d, p)
         IN  IF rel = Dot THEN p = d
             ELSE /\ String(p) = (IF d = <<>> THEN <<>> ELSE String(d))
                                 \o <<Slash>> \o rel
                  /\ Head(rel) # Slash
<1> DEFINE rel == relName(d, p)
<1>1. CASE p = d
  BY <1>1 DEF relName
<1>2. CASE p # d
  <2>1. PICK w \in Seq(Signs) : /\ String(p) = Joined(Closed(d), w)
                                /\ w # <<>> /\ w # Dot /\ Head(w) # Slash
    BY <1>2, Beyond
  <2> DEFINE A == IF d = <<>> THEN <<>> ELSE String(d)
             B == <<Slash>>
             C == Closed(d)
             prefix == IF d = <<>> THEN <<Slash>> ELSE String(d) \o <<Slash>>
  <2>2. A = Str(d)
    BY DEF Str
  <2>3. C = A \o B
    BY <2>2 DEF Closed
  <2>4. prefix = C
    <3>1. CASE d = <<>>
      BY <3>1, ClosedFirst
    <3>2. CASE d # <<>>
      BY <2>3, <3>2
    <3> QED
      BY <3>1, <3>2
  <2>5. rel = SubSeq(String(p), Len(C) + 1, Len(String(p)))
    <3>1. rel = SubSeq(String(p), Len(prefix) + 1, Len(String(p)))
      BY <1>2 DEF relName
    <3> HIDE DEF prefix, C
    <3> QED
      BY <2>4, <3>1
  <2>6. C \in Seq(Signs)
    BY StrTyped
  <2>7. rel = w
    <3> HIDE DEF C, rel
    <3>1. SubSeq(Joined(C, w), Len(C) + 1, Len(Joined(C, w))) = w
      BY <2>6, RestIs
    <3>2. String(p) = Joined(C, w)
      BY <2>1 DEF C
    <3> QED
      BY <2>5, <3>1, <3>2
  <2>8. String(p) = C \o rel
    BY <2>1, <2>7 DEF Joined
  <2> HIDE DEF A, B, C, rel
  <2>9. String(p) = A \o B \o rel
    BY <2>3, <2>8
  <2> QED
    BY <2>1, <2>7, <2>9 DEF A, B, rel
<1> QED
  BY <1>1, <1>2

(* The string of a directory is shorter than that of a path below it.      *)
LEMMA LongerBelow ==
  ASSUME NEW d \in Seq(Names), NEW p \in Seq(Names), Below(d, p), p # d
  PROVE  /\ Len(String(d)) \in Nat /\ Len(String(p)) \in Nat
         /\ Len(String(d)) < Len(String(p))
<1> DEFINE D == String(d)
           P == String(p)
           C == Closed(d)
           B == <<Slash>>
           dn == Len(D)
           pn == Len(P)
           cn == Len(C)
<1>1. D \in Seq(Signs) /\ P \in Seq(Signs) /\ C \in Seq(Signs) /\ B \in Seq(Signs)
  BY StringFacts, StrTyped
<1>2. dn \in Nat /\ pn \in Nat /\ cn \in Nat
  BY <1>1, LenProperties
<1>3. dn <= cn
  <2>1. CASE d = <<>>
    <3>1. C = D
      BY <2>1, StringFacts
    <3> HIDE DEF C, D
    <3> QED
      BY <1>2, <3>1
  <2>2. CASE d # <<>>
    <3>1. C = D \o B
      BY <2>2, StringFacts DEF Closed
    <3> HIDE DEF C, D, B
    <3>2. Len(D \o B) = Len(D) + Len(B)
      BY <1>1, ConcatProperties
    <3>3. Len(B) \in Nat
      BY <1>1, LenProperties
    <3>4. cn = dn + Len(B)
      BY <3>1, <3>2
    <3> QED
      BY <1>2, <3>3, <3>4
  <2> QED
    BY <2>1, <2>2
<1>4. PICK w \in Seq(Signs) : P = Joined(C, w) /\ w # <<>>
  BY Beyond
<1>5. pn = cn + Len(w)
  <2> HIDE DEF P, C
  <2>1. Len(C \o w) = Len(C) + Len(w)
    BY <1>1, ConcatProperties
  <2>2. P = C \o w
    BY <1>4 DEF Joined
  <2> QED
    BY <2>1, <2>2
<1>6. Len(w) \in Nat \ {0}
  BY <1>4, EmptySeq
<1>7. dn < pn
  <2> HIDE DEF dn, pn, cn
  <2> QED
    BY <1>2, <1>3, <1>5, <1>6
<1> QED
  BY <1>2, <1>7

(* Of finitely many numbers one is the largest.                            *)
LEMMA Largest ==
  ASSUME NEW n \in Nat, NEW f, \A k \in 1..n : f[k] \in Nat,
         NEW over, over \subseteq 1..n, over # {}
  PROVE  \E k \in over : \A j \in over : f[j] <= f[k]
<1> DEFINE Good(S) == \E k \in S : \A j \in S : f[j] <= f[k]
           Done == {m \in 0..n : \A S \in SUBSET (1..m) : S # {} => Good(S)}
<1>1. 0 \in Done
  <2>1. \A S \in SUBSET (1..0) : S = {}
    OBVIOUS
  <2> HIDE DEF Good
  <2>2. \A S \in SUBSET (1..0) : S # {} => Good(S)
    BY <2>1
  <2>3. 0 \in 0..n
    OBVIOUS
  <2> QED
    BY <2>2, <2>3
<1>2. ASSUME NEW m \in 0..(n - 1), m \in Done PROVE m + 1 \in Done
  <2>1. ASSUME NEW S \in SUBSET (1..(m + 1)), S # {} PROVE Good(S)
    <3> DEFINE T == S \ {m + 1}
    <3>1. T \in SUBSET (1..m) /\ m + 1 \in 1..n
      OBVIOUS
    <3>2. CASE T = {}
      <4>1. S = {m + 1}
        BY <2>1, <3>2
      <4>2. f[m + 1] <= f[m + 1]
        BY <3>1
      <4> QED
        BY <4>1, <4>2
    <3>3. CASE m + 1 \notin S
      <4>1. T = S
        BY <3>3
      <4> HIDE DEF T, Good
      <4> QED
        BY <1>2, <2>1, <3>1, <4>1
    <3>4. CASE T # {} /\ m + 1 \in S
      <4>1. Good(T)
        <5> HIDE DEF T, Good
        <5> QED
          BY <1>2, <3>1, <3>4
      <4>2. PICK k \in T : \A j \in T : f[j] <= f[k]
        BY <4>1
      <4>3. \A j \in T : f[j] \in Nat
        BY <3>1
      <4>4. f[k] \in Nat /\ f[m + 1] \in Nat
        BY <3>1, <4>2, <4>3
      <4>5. S = T \cup {m + 1}
        BY <3>4
      <4> HIDE DEF T
      <4>6. CASE f[m + 1] <= f[k]
        BY <4>2, <4>5, <4>6
      <4>7. CASE f[k] <= f[m + 1]
        <5>1. \A j \in S : f[j] <= f[m + 1]
          BY <4>2, <4>3, <4>4, <4>5, <4>7
        <5> QED
          BY <3>4, <5>1
      <4> QED
        BY <4>4, <4>6, <4>7
    <3> QED
      BY <3>2, <3>3, <3>4
  <2>2. m + 1 \in 0..n
    OBVIOUS
  <2> HIDE DEF Good
  <2> QED
    BY <2>1, <2>2
<1>3. n \in Done
  <2> HIDE DEF Done
  <2>1. 0..n \subseteq Done
    BY <1>1, <1>2, UpTo
  <2> QED
    BY <2>1
<1> QED
  BY <1>3

(* Of two directories over a path the one with the longer string lies      *)
(* below the other.                                                        *)
LEMMA OverOnePath ==
  ASSUME NEW d \in Seq(Names), NEW c \in Seq(Names), NEW p \in Seq(Names),
         Below(d, p), Below(c, p), Len(String(c)) <= Len(String(d))
  PROVE  Len(c) <= Len(d)
<1>1. Len(d) \in Nat /\ Len(c) \in Nat /\ Len(p) \in Nat
  BY LenProperties
<1> SUFFICES ASSUME Len(c) > Len(d) PROVE FALSE
  BY <1>1
<1>2. Below(d, c)
  <2>1. Len(d) <= Len(p) /\ Len(c) <= Len(p)
    BY DEF Below
  <2>2. SubSeq(p, 1, Len(d)) = d /\ SubSeq(p, 1, Len(c)) = c
    BY DEF Below
  <2>3. \A i \in 1..Len(d) : d[i] = p[i] /\ c[i] = p[i]
    <3>1. \A i \in 1..Len(p) : p[i] \in Names
      BY ElementOfSeq
    <3>2. \A n \in 1..Len(p) : \A i \in 1..n : SubSeq(p, 1, n)[i] = p[i]
      <4>1. ASSUME NEW n \in 1..Len(p), NEW i \in 1..n PROVE SubSeq(p, 1, n)[i] = p[i]
        <5>1. \A k \in 1..n : p[k] \in Names
          BY <1>1, <3>1
        <5>2. \A k \in 1..(n - 1 + 1) : SubSeq(p, 1, n)[k] = p[1 + k - 1]
          BY <1>1, <5>1, SubSeqProperties
        <5> QED
          BY <1>1, <5>2
      <4> QED
        BY <4>1
    <3>3. ASSUME NEW i \in 1..Len(d) PROVE d[i] = p[i] /\ c[i] = p[i]
      <4>1. Len(d) \in 1..Len(p) /\ Len(c) \in 1..Len(p) /\ i \in 1..Len(c)
        BY <1>1, <2>1
      <4>2. SubSeq(p, 1, Len(d))[i] = p[i] /\ SubSeq(p, 1, Len(c))[i] = p[i]
        BY <3>2, <4>1
      <4> QED
        BY <2>2, <4>2
    <3> QED
      BY <3>3
  <2> DEFINE s == SubSeq(c, 1, Len(d))
  <2>4. s \in Seq(Names) /\ Len(s) = Len(d) /\ \A i \in 1..Len(d) : s[i] = c[i]
    <3>1. \A i \in 1..Len(d) : c[i] \in Names
      <4>1. \A i \in 1..Len(c) : c[i] \in Names
        BY ElementOfSeq
      <4> QED
        BY <1>1, <4>1
    <3>2. /\ SubSeq(c, 1, Len(d)) \in Seq(Names)
          /\ Len(SubSeq(c, 1, Len(d))) = IF 1 <= Len(d) THEN Len(d) - 1 + 1 ELSE 0
          /\ \A i \in 1..(Len(d) - 1 + 1) : SubSeq(c, 1, Len(d))[i] = c[1 + i - 1]
      BY <1>1, <3>1, SubSeqProperties
    <3> HIDE DEF s
    <3>3. s \in Seq(Names) /\ Len(s) = Len(d)
      BY <1>1, <3>2 DEF s
    <3>4. \A i \in 1..Len(d) : s[i] = c[i]
      BY <1>1, <3>2 DEF s
    <3> QED
      BY <3>3, <3>4
  <2> HIDE DEF s
  <2>5. s = d
    BY <2>3, <2>4, SeqEqual
  <2> QED
    BY <1>1, <2>5 DEF Below, s
<1>3. c # d
  <2> DEFINE m == Len(c)
             n == Len(d)
  <2>1. m \in Nat /\ n \in Nat /\ m > n
    BY <1>1
  <2>2. c = d => m = n
    OBVIOUS
  <2> HIDE DEF m, n
  <2> QED
    BY <2>1, <2>2
<1> DEFINE dn == Len(String(d))
           cn == Len(String(c))
<1>4. dn \in Nat /\ cn \in Nat /\ dn < cn
  BY <1>2, <1>3, LongerBelow
<1>5. cn <= dn
  OBVIOUS
<1> HIDE DEF dn, cn
<1> QED
  BY <1>4, <1>5

(* A path below an allowed directory belongs to the innermost one          *)
(* (rootpool.go, owner).                                                   *)
LEMMA OwnerIs ==
  ASSUME dirs \in Seq(Seq(Names)), NEW p \in Seq(Names),
         \E k \in DOMAIN dirs : Below(dirs[k], p)
  PROVE  /\ owner(p) \in Seq(Names) /\ Below(owner(p), p)
         /\ \A k \in DOMAIN dirs : Below(dirs[k], p) => Len(dirs[k]) <= Len(owner(p))
<1> DEFINE n == Len(dirs)
           over == {k \in DOMAIN dirs : within(dirs[k], p)}
           f == [k \in 1..n |-> Len(String(dirs[k]))]
           Top(k) == k \in over /\ \A j \in over :
                       Len(String(dirs[j])) <= Len(String(dirs[k]))
           best == CHOOSE k \in over : \A j \in over :
                     Len(String(dirs[j])) <= Len(String(dirs[k]))
<1>1. n \in Nat /\ DOMAIN dirs = 1..n
  BY LenProperties
<1>2. \A k \in 1..n : dirs[k] \in Seq(Names)
  BY ElementOfSeq
<1>3. \A k \in 1..n : within(dirs[k], p) <=> Below(dirs[k], p)
  BY <1>2, WithinIsBelow
<1>4. \A k \in 1..n : f[k] \in Nat
  <2>1. ASSUME NEW k \in 1..n PROVE Len(String(dirs[k])) \in Nat
    <3>1. dirs[k] \in Seq(Names)
      BY <1>2
    <3>2. String(dirs[k]) \in Seq(Signs)
      BY <3>1, StringFacts
    <3> QED
      BY <3>2, LenProperties
  <2> QED
    BY <2>1
<1>5. over \subseteq 1..n /\ over # {}
  BY <1>1, <1>3
<1>6. \E k \in over : \A j \in over : f[j] <= f[k]
  <2> HIDE DEF n, over, f
  <2> QED
    BY <1>1, <1>4, <1>5, Largest
<1>7. \E k \in over : \A j \in over : Len(String(dirs[j])) <= Len(String(dirs[k]))
  <2>1. \A k \in over : f[k] = Len(String(dirs[k]))
    BY <1>5
  <2> HIDE DEF over, f
  <2> QED
    BY <1>6, <2>1
<1>8. /\ best \in over
      /\ \A j \in over : Len(String(dirs[j])) <= Len(String(dirs[best]))
  <2> HIDE DEF over
  <2> QED
    BY <1>7
<1>9. owner(p) = dirs[best]
  BY DEF owner
<1> HIDE DEF best
<1>10. best \in 1..n /\ dirs[best] \in Seq(Names) /\ Below(dirs[best], p)
  BY <1>1, <1>2, <1>3, <1>8
<1>11. ASSUME NEW k \in DOMAIN dirs, Below(dirs[k], p)
       PROVE  Len(dirs[k]) <= Len(dirs[best])
  <2>1. k \in over
    BY <1>1, <1>3, <1>11
  <2>2. Len(String(dirs[k])) <= Len(String(dirs[best]))
    BY <1>8, <2>1
  <2>3. dirs[k] \in Seq(Names)
    BY <1>1, <1>2
  <2> DEFINE c == dirs[k]
             d == dirs[best]
  <2>4. /\ c \in Seq(Names) /\ d \in Seq(Names) /\ Below(c, p) /\ Below(d, p)
        /\ Len(String(c)) <= Len(String(d))
    BY <1>10, <1>11, <2>2, <2>3
  <2> HIDE DEF c, d
  <2>5. Len(c) <= Len(d)
    BY <2>4, OverOnePath
  <2> QED
    BY <2>5 DEF c, d
<1> QED
  BY <1>9, <1>10, <1>11

-----------------------------------------------------------------------------
(* Clean and the allowed directories.                                      *)

(* A cleaned path has no . and no .. left in it.                           *)
LEMMA CleanTyped ==
  ASSUME NEW parts \in Seq(Names \cup {Dot, Up})
  PROVE  Clean(parts) \in Seq(Names)
<1> DEFINE n == Len(parts)
           S == Seq(Names)
           After(k, before) == IF parts[k] = Dot THEN before
                               ELSE IF parts[k] # Up THEN Append(before, parts[k])
                               ELSE IF before = <<>> THEN <<>> ELSE Front(before)
           step == [k \in 1..n |-> [before \in S |-> After(k, before)]]
           Right(f) == [k \in 0..n |-> IF k = 0 THEN <<>> ELSE step[k][f[k - 1]]]
           Code(f) == [k \in 0..n |-> IF k = 0 THEN <<>> ELSE After(k, f[k - 1])]
           done == CHOOSE f : f = Code(f)
<1>1. n \in Nat /\ <<>> \in S
  BY LenProperties, EmptySeq
<1>2. \A k \in 1..n : parts[k] \in Names \cup {Dot, Up}
  BY ElementOfSeq
<1>3. ASSUME NEW k \in 1..n, NEW before \in S PROVE After(k, before) \in S
  <2>1. CASE parts[k] = Dot
    BY <2>1
  <2>2. CASE parts[k] # Dot /\ parts[k] # Up
    <3>1. parts[k] \in Names
      BY <1>2, <2>2
    <3>2. Append(before, parts[k]) \in S
      BY <3>1, OneMore
    <3> QED
      BY <2>2, <3>2
  <2>3. CASE parts[k] # Dot /\ parts[k] = Up
    <3>1. before # <<>> => Front(before) \in S
      BY FrontLast
    <3> QED
      BY <1>1, <2>3, <3>1
  <2> QED
    BY <2>1, <2>2, <2>3
<1>4. Clean(parts) = done[n]
  BY DEF Clean
<1> HIDE DEF After, n, S
<1>5. step \in [1..n -> [S -> S]]
  BY <1>3
<1> HIDE DEF step
<1>6. PICK f \in [0..n -> S] : Recurses(f, n, <<>>, step)
  BY <1>1, <1>5, Recursion
<1>7. f = Code(f)
  <2>1. ASSUME NEW k \in 0..n PROVE f[k] = Code(f)[k]
    <3>1. CASE k = 0
      BY <1>6, <3>1 DEF Recurses
    <3>2. CASE k # 0
      <4>1. k \in 1..n /\ k - 1 \in 0..n
        BY <1>1, <3>2
      <4>2. f[k - 1] \in S
        BY <4>1
      <4>3. f[k] = step[k][f[k - 1]]
        BY <1>6, <4>1 DEF Recurses
      <4>4. step[k][f[k - 1]] = After(k, f[k - 1])
        BY <4>1, <4>2 DEF step
      <4> QED
        BY <3>2, <4>3, <4>4
    <3> QED
      BY <3>1, <3>2
  <2> QED
    BY <2>1
<1>8. done = Code(done)
  <2> HIDE DEF Code
  <2> QED
    BY <1>7
<1>9. /\ done[0] = <<>>
      /\ \A k \in 1..n : done[k] = After(k, done[k - 1])
  <2> HIDE DEF done
  <2>1. 0 \in 0..n /\ \A k \in 1..n : k \in 0..n /\ k # 0
    BY <1>1
  <2> QED
    BY <1>8, <2>1
<1> HIDE DEF done
<1>10. \A k \in 0..n : done[k] \in S
  <2>1. done[0] \in S
    BY <1>1, <1>9
  <2>2. \A k \in 1..n : done[k - 1] \in S => done[k] \in S
    BY <1>3, <1>9
  <2> QED
    BY <1>1, <2>1, <2>2, RecursionTyped
<1>11. n \in 0..n
  BY <1>1
<1> QED
  BY <1>4, <1>10, <1>11 DEF S

(* The paths that clients name, cleaned.                                   *)
LEMMA NamedTyped ==
  ASSUME NEW raw \in RawPaths
  PROVE  Clean(Expanded(raw)) \in Seq(Names)
<1> DEFINE S == Names \cup {Dot, Up}
<1>1. raw.parts \in Seq(S) /\ Home \in Seq(Names)
  BY GuardAssumption, PathsAre
<1>2. Home \in Seq(S)
  <2>1. Names \subseteq S
    OBVIOUS
  <2> HIDE DEF S
  <2> QED
    BY <1>1, <2>1, SeqMonotonic
<1>3. Expanded(raw) \in Seq(S)
  <2> HIDE DEF S
  <2>1. Home \o raw.parts \in Seq(S)
    BY <1>1, <1>2, ConcatProperties
  <2> QED
    BY <1>1, <2>1 DEF Expanded
<1> QED
  BY <1>3, CleanTyped

(* EvalSymlinks is resolution in the tree there is.                        *)
LEMMA EvalHere ==
  /\ \A path : EvalSymlinks(path) = EvalSymlinksIn(tree, path)
  /\ \A p : Kind(p) = KindIn(tree, p)
<1>1. \A p : Kind(p) = KindIn(tree, p)
  BY DEF Kind, KindIn
<1>2. ASSUME NEW path
      PROVE  EvalSymlinks(path) = EvalSymlinksIn(tree, path)
  BY DEF EvalSymlinks, EvalSymlinksIn, EvalIn, Start, Halt, HaltIn, Onward,
         OnwardIn, Answer, AnswerIn, Kind, KindIn
<1> QED
  BY <1>1, <1>2

(* Resolution begins with a walk.                                          *)
LEMMA StartTyped ==
  ASSUME NEW p \in Seq(Names)
  PROVE  /\ Start(p) \in Walks
         /\ Start(p).at = <<>> /\ Start(p).rest = p /\ Start(p).links = 0
<1>1. <<>> \in Seq(Names) /\ 0 \in 0..MaxLinks
  BY EmptySeq, GuardAssumption
<1> QED
  BY <1>1 DEF Start, Walks

(* What resolves is a path.                                                *)
LEMMA ResolvedTyped ==
  ASSUME NEW t, TreeOK(t), NEW p \in Seq(Names)
  PROVE  /\ EvalSymlinksIn(t, p).path \in Seq(Names)
         /\ EvalSymlinksIn(t, p).err \in {"none", "ENOTDIR", "ENOENT", "ELOOP"}
<1>1. Start(p) \in Walks
  BY StartTyped
<1>2. EvalIn(t)[Start(p)]
        \in [err: {"none", "ENOTDIR", "ENOENT", "ELOOP"}, path: Seq(Names)]
  BY <1>1, EvalTyped
<1> QED
  BY <1>2 DEF EvalSymlinksIn

(* The allowed directories are directories (pathguard.go, New).            *)
LEMMA NewTyped ==
  ASSUME TreeOK(tree), NEW list \in Seq(Seq(Names)), New(list)
  PROVE  /\ dirs \in Seq(Seq(Names))
         /\ \A k \in DOMAIN dirs : KindIn(tree, dirs[k]) = "dir"
<1> DEFINE n == Len(list)
           D == {q \in Seq(Names) : KindIn(tree, q) = "dir"}
           S == Seq(D)
           real == [k \in DOMAIN list |-> EvalSymlinks(list[k])]
           After(k, before) == IF real[k].path \in ToSet(before) THEN before
                               ELSE Append(before, real[k].path)
           step == [k \in 1..n |-> [before \in S |-> After(k, before)]]
           Code(f) == [k \in 0..n |-> IF k = 0 THEN <<>> ELSE After(k, f[k - 1])]
           kept == CHOOSE f : f = Code(f)
<1>1. n \in Nat /\ DOMAIN list = 1..n /\ <<>> \in S
  BY LenProperties, EmptySeq
<1>2. ASSUME NEW k \in 1..n PROVE real[k].path \in D
  <2>1. list[k] \in Seq(Names)
    BY ElementOfSeq
  <2>2. real[k] = EvalSymlinksIn(tree, list[k])
    BY <1>1, EvalHere
  <2>3. real[k].path \in Seq(Names)
    BY <2>1, <2>2, ResolvedTyped
  <2>4. KindIn(tree, real[k].path) = "dir"
    BY <1>1, EvalHere DEF New
  <2> HIDE DEF real
  <2> QED
    BY <2>3, <2>4
<1>3. dirs = kept[n]
  BY DEF New
<1> HIDE DEF real, n
<1>4. ASSUME NEW k \in 1..n, NEW before \in S PROVE After(k, before) \in S
  <2>1. real[k].path \in D
    BY <1>2
  <2> HIDE DEF D
  <2>2. Append(before, real[k].path) \in S
    BY <2>1, OneMore
  <2> QED
    BY <2>2
<1> HIDE DEF After, S
<1>5. step \in [1..n -> [S -> S]]
  BY <1>4
<1> HIDE DEF step
<1>6. PICK f \in [0..n -> S] : Recurses(f, n, <<>>, step)
  BY <1>1, <1>5, Recursion
<1>7. f = Code(f)
  <2>1. ASSUME NEW k \in 0..n PROVE f[k] = Code(f)[k]
    <3>1. CASE k = 0
      BY <1>6, <3>1 DEF Recurses
    <3>2. CASE k # 0
      <4>1. k \in 1..n /\ k - 1 \in 0..n
        BY <1>1, <3>2
      <4>2. f[k - 1] \in S
        BY <4>1
      <4>3. f[k] = step[k][f[k - 1]]
        BY <1>6, <4>1 DEF Recurses
      <4>4. step[k][f[k - 1]] = After(k, f[k - 1])
        BY <4>1, <4>2 DEF step
      <4> QED
        BY <3>2, <4>3, <4>4
    <3> QED
      BY <3>1, <3>2
  <2> QED
    BY <2>1
<1>8. kept = Code(kept)
  <2> HIDE DEF Code
  <2> QED
    BY <1>7
<1>9. /\ kept[0] = <<>>
      /\ \A k \in 1..n : kept[k] = After(k, kept[k - 1])
  <2> HIDE DEF kept
  <2>1. 0 \in 0..n /\ \A k \in 1..n : k \in 0..n /\ k # 0
    BY <1>1
  <2> QED
    BY <1>8, <2>1
<1> HIDE DEF kept
<1>10. \A k \in 0..n : kept[k] \in S
  <2>1. kept[0] \in S
    BY <1>1, <1>9
  <2>2. \A k \in 1..n : kept[k - 1] \in S => kept[k] \in S
    BY <1>4, <1>9
  <2> QED
    BY <1>1, <2>1, <2>2, RecursionTyped
<1>11. n \in 0..n
  BY <1>1
<1>12. dirs \in Seq(D)
  BY <1>3, <1>10, <1>11 DEF S
<1>13. \A k \in DOMAIN dirs : dirs[k] \in D
  <2> HIDE DEF D
  <2> QED
    BY <1>12, ElementOfSeq, LenProperties
<1>14. dirs \in Seq(Seq(Names))
  <2>1. D \subseteq Seq(Names)
    OBVIOUS
  <2> HIDE DEF D
  <2> QED
    BY <1>12, <2>1, SeqMonotonic
<1> QED
  BY <1>13, <1>14

-----------------------------------------------------------------------------
(* The invariant: what a request resolved leads, in the tree there is now, *)
(* below an allowed directory or nowhere.                                  *)

Inside(p) == \E k \in DOMAIN dirs : Below(dirs[k], p)

Settled(t, p) ==
  /\ p \in Seq(Names) /\ Inside(p)
  /\ p # <<>> => KindIn(t, Front(p)) = "dir"
  /\ EvalSymlinksIn(t, p).err = "none" => Inside(EvalSymlinksIn(t, p).path)

GuardInv ==
  /\ TreeOK(tree)
  /\ dirs \in Seq(Seq(Names))
  /\ \A r \in Reqs : req[r].at = "resolved" => Settled(tree, req[r].path)
  /\ DOMAIN req = Reqs

(* The test of the code is that on names.                                  *)
LEMMA AnyWithinIs ==
  ASSUME dirs \in Seq(Seq(Names)), NEW p \in Seq(Names)
  PROVE  anyWithin(p) <=> Inside(p)
<1>1. \A k \in DOMAIN dirs : dirs[k] \in Seq(Names)
  BY ElementOfSeq, LenProperties
<1>2. \A k \in DOMAIN dirs : within(dirs[k], p) <=> Below(dirs[k], p)
  BY <1>1, WithinIsBelow
<1> QED
  BY <1>2 DEF anyWithin, Inside

(* An entry that is there is settled when it lies below a directory.       *)
LEMMA EntrySettled ==
  ASSUME NEW t, TreeOK(t), NEW p \in Seq(Names),
         KindIn(t, p) \in {"file", "dir"}, Inside(p)
  PROVE  Settled(t, p)
<1>1. EvalSymlinksIn(t, p) = [err |-> "none", path |-> p]
  BY ResolvesToItself
<1>2. EvalSymlinksIn(t, p).path = p
  BY <1>1
<1>3. p # <<>> => KindIn(t, Front(p)) = "dir"
  BY TreeFacts
<1> QED
  BY <1>2, <1>3 DEF Settled

(* A name in a directory is below what the directory is below.             *)
LEMMA BelowParent ==
  ASSUME NEW d \in Seq(Names), NEW q \in Seq(Names), NEW x \in Names, Below(d, q)
  PROVE  Below(d, Append(q, x))
<1> DEFINE one == <<x>>
           c == Append(q, x)
<1>1. PICK e \in Seq(Names) : q = Joined(d, e)
  BY BelowIs DEF Joined
<1>2. one \in Seq(Names) /\ c \in Seq(Names)
  BY Single, OneMore
<1>3. c = q \o one
  BY AppendIsConcat
<1> HIDE DEF one, c
<1> DEFINE u == e \o one
<1>4. u \in Seq(Names)
  BY <1>2, ConcatProperties
<1>5. (d \o e) \o one = d \o u
  <2>1. Regroups(d, e, one)
    BY <1>2, NamesRegroup
  <2> QED
    BY <2>1 DEF Regroups
<1>6. c = d \o u
  BY <1>1, <1>3, <1>5 DEF Joined
<1> HIDE DEF u
<1>7. Below(d, c)
  BY <1>2, <1>4, <1>6, BelowIs
<1> QED
  BY <1>7 DEF c

(* What Validate accepts is settled: the path a file or a directory        *)
(* resolves to, or a missing name in a directory that is inside            *)
(* (pathguard.go, Validate and validateNewPath).                           *)
LEMMA ValidateSettles ==
  ASSUME TreeOK(tree), dirs \in Seq(Seq(Names)), NEW raw \in RawPaths,
         Validate(raw).err = "none"
  PROVE  Settled(tree, Validate(raw).path)
<1> DEFINE path == Clean(Expanded(raw))
           real == EvalSymlinksIn(tree, path)
           t == tree
<1>1. path \in Seq(Names)
  BY NamedTyped
<1> HIDE DEF path
<1>2. real.path \in Seq(Names)
  BY <1>1, ResolvedTyped
<1>3. CASE real.err = "none" /\ anyWithin(real.path) /\ Validate(raw) = Accepted(real.path)
  <2>1. Validate(raw).path = real.path
    BY <1>3 DEF Accepted
  <2>2. KindIn(t, real.path) \in {"file", "dir"}
    <3>1. Start(path) \in Walks /\ Start(path).at = <<>>
      BY <1>1, StartTyped
    <3>2. KindIn(t, Start(path).at) \in {"file", "dir"}
      BY <3>1, TreeFacts
    <3>3. EvalIn(t)[Start(path)].err = "none"
      BY <1>3 DEF EvalSymlinksIn
    <3> HIDE DEF t
    <3>4. KindIn(t, EvalIn(t)[Start(path)].path) \in {"file", "dir"}
      BY <3>1, <3>2, <3>3, ArrivesAtEntry DEF t
    <3> QED
      BY <3>4 DEF EvalSymlinksIn, t
  <2>3. Inside(real.path)
    BY <1>2, <1>3, AnyWithinIs
  <2> HIDE DEF real
  <2>4. Settled(tree, real.path)
    BY <1>2, <2>2, <2>3, EntrySettled
  <2> QED
    BY <2>1, <2>4
<1>4. CASE real.err = "ENOENT" /\ Validate(raw) = validateNewPath(path)
  <2> DEFINE parent == EvalSymlinksIn(tree, Front(path))
             q == parent.path
             c == Append(q, Last(path))
  <2>1. parent.err = "none" /\ anyWithin(q) /\ Validate(raw).path = c
    <3>1. EvalSymlinks(Front(path)) = parent
      BY EvalHere
    <3> HIDE DEF parent
    <3> QED
      BY <1>4, <3>1 DEF validateNewPath, Accepted, Refused
  <2>2. path # <<>>
    <3> SUFFICES ASSUME path = <<>> PROVE FALSE
      OBVIOUS
    <3>1. KindIn(tree, path) = "dir"
      BY TreeFacts
    <3>2. real = [err |-> "none", path |-> path]
      BY <1>1, <3>1, ResolvesToItself
    <3> QED
      BY <1>4, <3>2
  <2>3. Front(path) \in Seq(Names)
    BY <1>1, <2>2, FrontLast
  <2>4. q \in Seq(Names)
    BY <2>3, ResolvedTyped
  <2>5. parent = [err |-> "none", path |-> q]
    <3>1. Start(Front(path)) \in Walks
      BY <2>3, StartTyped
    <3>2. parent \in [err: {"none", "ENOTDIR", "ENOENT", "ELOOP"}, path: Seq(Names)]
      BY <3>1, EvalTyped DEF EvalSymlinksIn
    <3> HIDE DEF parent
    <3> QED
      BY <2>1, <3>2
  <2>6. /\ KindIn(tree, q) = "dir" /\ Last(path) \in Names
        /\ EvalSymlinksIn(tree, c).err # "none"
    <3> HIDE DEF q
    <3>1. EvalSymlinksIn(tree, Front(path)) = [err |-> "none", path |-> q]
      BY <2>5
    <3>2. EvalSymlinksIn(tree, path).err = "ENOENT"
      BY <1>4
    <3> QED
      BY <1>1, <3>1, <3>2, MissingInParent
  <2>7. Inside(q)
    BY <2>1, <2>4, AnyWithinIs
  <2> HIDE DEF q
  <2>8. c \in Seq(Names) /\ Front(c) = q
    BY <2>4, <2>6, OneMore
  <2>9. Inside(c)
    <3>1. PICK k \in DOMAIN dirs : Below(dirs[k], q)
      BY <2>7 DEF Inside
    <3>2. dirs[k] \in Seq(Names)
      BY ElementOfSeq, LenProperties
    <3>3. Below(dirs[k], c)
      BY <2>4, <2>6, <3>1, <3>2, BelowParent
    <3> QED
      BY <3>3 DEF Inside
  <2>10. Settled(tree, c)
    <3> HIDE DEF c
    <3> QED
      BY <2>6, <2>8, <2>9 DEF Settled
  <2> QED
    BY <2>1, <2>10
<1>5. \/ real.err = "none" /\ anyWithin(real.path) /\ Validate(raw) = Accepted(real.path)
      \/ real.err = "ENOENT" /\ Validate(raw) = validateNewPath(path)
  <2>1. EvalSymlinks(path) = real
    BY EvalHere
  <2>2. Validate(raw).err = "none"
    OBVIOUS
  <2> HIDE DEF real
  <2>3. \A err : Refused(err).err = err
    BY DEF Refused
  <2> QED
    BY <2>1, <2>2, <2>3 DEF Validate, path
<1> QED
  BY <1>3, <1>4, <1>5

(* A file or directory that another request creates, itself inside, leads  *)
(* no path out: a walk that ended at its absence now ends in it, however   *)
(* many links it came over.                                                *)
LEMMA SettledGrown ==
  ASSUME NEW t, NEW u, NEW c, Grown(t, u, c), Inside(c),
         NEW p, Settled(t, p)
  PROVE  Settled(u, p)
<1>1. TreeOK(t) /\ KindIn(t, c) = "absent"
  BY DEF Grown
<1>2. p \in Seq(Names) /\ Inside(p)
  BY DEF Settled
<1>3. ASSUME p # <<>> PROVE KindIn(u, Front(p)) = "dir"
  <2>1. KindIn(t, Front(p)) = "dir"
    BY <1>3 DEF Settled
  <2>2. Front(p) # c
    BY <1>1, <2>1
  <2> QED
    BY <2>1, <2>2, GrownFacts
<1>4. Start(p) \in Walks /\ KindIn(t, Start(p).at) \in {"file", "dir"}
  BY <1>1, <1>2, StartTyped, TreeFacts
<1>5. \/ EvalIn(u)[Start(p)] = EvalIn(t)[Start(p)]
      \/ EvalIn(u)[Start(p)].err = "none" => EvalIn(u)[Start(p)].path = c
  BY <1>4, EvalGrown
<1>6. EvalSymlinksIn(u, p).err = "none" => Inside(EvalSymlinksIn(u, p).path)
  BY <1>5 DEF Settled, EvalSymlinksIn
<1> QED
  BY <1>2, <1>3, <1>6 DEF Settled

(* The server starts on a tree, and New has resolved the directories.      *)
LEMMA GuardInitInv == GuardInit => GuardInv
<1> SUFFICES ASSUME GuardInit PROVE GuardInv
  OBVIOUS
<1>1. TreeOK(tree)
  BY GuardAssumption DEF GuardInit, TreeOK
<1>2. PICK list \in AllowedLists : New(list)
  BY DEF GuardInit
<1>3. list \in Seq(Seq(Names))
  BY GuardAssumption
<1>4. dirs \in Seq(Seq(Names))
  BY <1>1, <1>2, <1>3, NewTyped
<1>5. req = [r \in Reqs |-> NoReq]
  BY DEF GuardInit
<1>6. DOMAIN req = Reqs /\ \A r \in Reqs : req[r].at # "resolved"
  BY <1>5 DEF NoReq
<1> QED
  BY <1>1, <1>4, <1>6 DEF GuardInv

(* Receive: what it resolved is settled (pathguard.go, Validate).          *)
LEMMA ReceiveStep ==
  ASSUME GuardInv, NEW r \in Reqs, NEW raw \in RawPaths, Receive(r, raw)
  PROVE  GuardInv'
<1> DEFINE verdict == Validate(raw)
           after == [at |-> IF verdict.err = "none" THEN "resolved" ELSE "refused",
                     path |-> verdict.path, err |-> verdict.err]
<1>1. req' = [req EXCEPT ![r] = after] /\ UNCHANGED <<tree, dirs>>
  BY DEF Receive
<1>2. TreeOK(tree) /\ dirs \in Seq(Seq(Names)) /\ DOMAIN req = Reqs
  BY DEF GuardInv
<1>3. after.at = "resolved" => Settled(tree, after.path)
  <2>1. after.at = "resolved" => verdict.err = "none"
    OBVIOUS
  <2> QED
    BY <1>2, <2>1, ValidateSettles
<1> HIDE DEF after
<1>4. \A s \in Reqs : req'[s].at = "resolved" => Settled(tree, req'[s].path)
  BY <1>1, <1>2, <1>3 DEF GuardInv
<1>5. \A s \in Reqs : req'[s].at = "resolved" => Settled(tree, req[s].path)'
  <2>1. ASSUME NEW s \in Reqs, req'[s].at = "resolved"
        PROVE  Settled(tree, req[s].path)'
    <3>1. Settled(tree, req'[s].path)
      BY <1>4, <2>1
    <3> QED
      BY <1>1, <3>1 DEF Settled, Inside
  <2> QED
    BY <2>1
<1>6. DOMAIN req' = Reqs
  BY <1>1, <1>2
<1> QED
  BY <1>1, <1>2, <1>5, <1>6 DEF GuardInv

(* Create: the tree is what it was, or has a new entry (the exclusive      *)
(* create of write, and mkdir).                                            *)
LEMMA CreateGrows ==
  ASSUME GuardInv, NEW r \in Reqs, NEW kind \in {"file", "dir"}, Create(r, kind)
  PROVE  tree' = tree \/ Grown(tree, tree', req[r].path)
<1> DEFINE c == req[r].path
           u == tree'
<1>1. TreeOK(tree)
  BY DEF GuardInv
<1>2. \/ u = tree
      \/ /\ c \in Paths /\ Kind(c) = "absent" /\ Kind(Front(c)) = "dir"
         /\ u = [tree EXCEPT ![c] = [kind |-> kind, to |-> <<>>]]
  BY DEF Create
<1>3. KindIn(tree, <<>>) = "dir"
  BY <1>1, TreeFacts
<1> HIDE DEF c, u
<1>4. u = tree \/ Grown(tree, u, c)
  BY <1>1, <1>2, <1>3, EvalHere DEF Grown
<1> QED
  BY <1>4 DEF c, u

(* Create: the new entry is at a settled path, so every settled path stays *)
(* so (the exclusive create of write, and mkdir).                          *)
LEMMA CreateStep ==
  ASSUME GuardInv, NEW r \in Reqs, NEW kind \in {"file", "dir"}, Create(r, kind)
  PROVE  GuardInv'
<1> DEFINE c == req[r].path
           u == tree'
<1>1. req' = [req EXCEPT ![r] = NoReq] /\ dirs' = dirs /\ req[r].at = "resolved"
  BY DEF Create
<1>2. TreeOK(tree) /\ dirs \in Seq(Seq(Names)) /\ DOMAIN req = Reqs
  BY DEF GuardInv
<1>3. Settled(tree, c)
  BY <1>1 DEF GuardInv
<1>4. u = tree \/ Grown(tree, u, c)
  BY CreateGrows
<1>5. Inside(c)
  BY <1>3 DEF Settled
<1>6. TreeOK(u)
  <2> HIDE DEF c, u
  <2> QED
    BY <1>2, <1>4, GrownFacts
<1>7. ASSUME NEW p, Settled(tree, p) PROVE Settled(u, p)
  <2> HIDE DEF c, u
  <2> QED
    BY <1>4, <1>5, <1>7, SettledGrown
<1>8. \A s \in Reqs : req'[s].at = "resolved" =>
                        req'[s] = req[s] /\ req[s].at = "resolved"
  BY <1>1, <1>2 DEF NoReq
<1>9. \A s \in Reqs : req'[s].at = "resolved" => Settled(u, req'[s].path)
  BY <1>7, <1>8 DEF GuardInv
<1>10. ASSUME NEW s \in Reqs, req'[s].at = "resolved"
       PROVE  Settled(tree, req[s].path)'
  <2>1. Settled(u, req'[s].path)
    BY <1>9, <1>10
  <2> QED
    BY <1>1, <2>1 DEF Settled, Inside
<1>11. DOMAIN req' = Reqs
  BY <1>1, <1>2
<1>12. TreeOK(tree)' /\ (dirs \in Seq(Seq(Names)))'
  BY <1>1, <1>2, <1>6
<1> QED
  BY <1>10, <1>11, <1>12 DEF GuardInv

(* Return: a request less.                                                 *)
LEMMA ReturnStep ==
  ASSUME GuardInv, NEW r \in Reqs, Return(r)
  PROVE  GuardInv'
<1>1. req' = [req EXCEPT ![r] = NoReq] /\ UNCHANGED <<tree, dirs>>
  BY DEF Return
<1>2. DOMAIN req = Reqs
  BY DEF GuardInv
<1>3. \A s \in Reqs : req'[s].at = "resolved" =>
                        req'[s] = req[s] /\ req[s].at = "resolved"
  BY <1>1, <1>2 DEF NoReq
<1>4. ASSUME NEW s \in Reqs, req'[s].at = "resolved"
      PROVE  Settled(tree, req[s].path)'
  <2>1. Settled(tree, req'[s].path)
    BY <1>3, <1>4 DEF GuardInv
  <2> QED
    BY <1>1, <2>1 DEF Settled, Inside
<1>5. DOMAIN req' = Reqs
  BY <1>1, <1>2
<1> QED
  BY <1>1, <1>4, <1>5 DEF GuardInv

(* A search only reads.                                                    *)
LEMMA SearchStep ==
  ASSUME GuardInv, UNCHANGED guardVars
  PROVE  GuardInv'
<1>1. tree' = tree /\ dirs' = dirs /\ req' = req
  BY DEF guardVars
<1> QED
  BY <1>1 DEF GuardInv, Settled, Inside

(* The invariant of the guard, for every tree, list of directories and     *)
(* path that is named.                                                     *)
THEOREM GuardInvariant == Spec => []GuardInv
<1>1. Init => GuardInv
  BY GuardInitInv DEF Init
<1>2. GuardInv /\ [Next]_vars => GuardInv'
  <2> SUFFICES ASSUME GuardInv, [Next]_vars PROVE GuardInv'
    OBVIOUS
  <2>1. ASSUME NEW r \in Reqs, Request(r) PROVE GuardInv'
    <3>1. \/ \E raw \in RawPaths : Receive(r, raw)
          \/ \E kind \in {"file", "dir"} : Create(r, kind)
          \/ Return(r)
      BY <2>1 DEF Request
    <3>2. ASSUME NEW raw \in RawPaths, Receive(r, raw) PROVE GuardInv'
      BY <3>2, ReceiveStep
    <3>3. ASSUME NEW kind \in {"file", "dir"}, Create(r, kind) PROVE GuardInv'
      BY <3>3, CreateStep
    <3>4. ASSUME Return(r) PROVE GuardInv'
      BY <3>4, ReturnStep
    <3> QED
      BY <3>1, <3>2, <3>3, <3>4
  <2>2. ASSUME \/ \E call \in Searches, raw \in SearchPaths : StartSearch(call, raw)
               \/ NextRoot \/ Visit \/ TimeOut
               \/ AnswerGlob \/ AnswerGrep \/ GrepRG \/ EndSearch
               \/ UNCHANGED vars
        PROVE  UNCHANGED guardVars
    BY <2>2 DEF StartSearch, NextRoot, Visit, TimeOut, AnswerGlob, AnswerGrep,
                GrepRG, EndSearch, vars
  <2>3. ASSUME UNCHANGED guardVars PROVE GuardInv'
    BY <2>3, SearchStep
  <2> QED
    BY <2>1, <2>2, <2>3 DEF Next
<1> QED
  BY <1>1, <1>2, PTL DEF Spec

(* What was accepted lies, and leads, below an allowed directory, also     *)
(* when other requests have created entries since (pathguard.go).          *)
THEOREM AcceptedCorrect == Spec => []AcceptedInside
<1>1. GuardInv => AcceptedInside
  <2> SUFFICES ASSUME GuardInv, NEW r \in Reqs, req[r].at = "resolved"
               PROVE  LET path == req[r].path
                          real == EvalSymlinks(path)
                      IN  /\ \E k \in DOMAIN dirs : Below(dirs[k], path)
                          /\ path # <<>> => EvalSymlinks(Front(path)).err = "none"
                          /\ real.err = "none" =>
                               \E k \in DOMAIN dirs : Below(dirs[k], real.path)
    BY DEF AcceptedInside
  <2> DEFINE p == req[r].path
  <2>1. Settled(tree, p) /\ TreeOK(tree)
    BY DEF GuardInv
  <2> HIDE DEF p
  <2>2. Inside(p)
    BY <2>1 DEF Settled
  <2>3. ASSUME p # <<>> PROVE EvalSymlinks(Front(p)).err = "none"
    <3>1. KindIn(tree, Front(p)) = "dir" /\ Front(p) \in Seq(Names)
      BY <2>1, <2>3, FrontLast DEF Settled
    <3>2. EvalSymlinksIn(tree, Front(p)) = [err |-> "none", path |-> Front(p)]
      BY <2>1, <3>1, ResolvesToItself
    <3> QED
      BY <3>2, EvalHere
  <2>4. EvalSymlinks(p).err = "none" => Inside(EvalSymlinks(p).path)
    BY <2>1, EvalHere DEF Settled
  <2> QED
    BY <2>2, <2>3, <2>4 DEF Inside, p
<1> QED
  BY <1>1, GuardInvariant, PTL

(* One file has one resolved path: a settled path that is no link is what  *)
(* it resolves to, or would resolve to (pathguard.go, validateNewPath).    *)
THEOREM SameKeyCorrect == Spec => []SameFileSameKey
<1>1. ASSUME GuardInv, NEW p, Settled(tree, p), Kind(p) # "link"
      PROVE  EvalSymlinks(p).path = p
  <2>1. TreeOK(tree) /\ p \in Seq(Names)
    BY <1>1 DEF GuardInv, Settled
  <2>2. KindIn(tree, p) \in {"absent", "file", "dir"}
    BY <1>1, <2>1, TreeFacts, EvalHere
  <2>3. p = <<>> => KindIn(tree, p) = "dir"
    BY <2>1, TreeFacts
  <2>4. p # <<>> => KindIn(tree, Front(p)) = "dir"
    BY <1>1 DEF Settled
  <2>5. \/ EvalSymlinksIn(tree, p) = [err |-> "none", path |-> p]
        \/ EvalSymlinksIn(tree, p) = [err |-> "ENOENT", path |-> p]
    BY <2>1, <2>2, <2>3, <2>4, ResolvesToItself
  <2> QED
    BY <2>5, EvalHere
<1>2. GuardInv => SameFileSameKey
  <2> SUFFICES ASSUME GuardInv, NEW r \in Reqs, NEW s \in Reqs,
                      req[r].at = "resolved", req[s].at = "resolved",
                      Kind(req[r].path) # "link", Kind(req[s].path) # "link",
                      EvalSymlinks(req[r].path).path = EvalSymlinks(req[s].path).path
               PROVE  req[r].path = req[s].path
    BY DEF SameFileSameKey
  <2>1. Settled(tree, req[r].path) /\ Settled(tree, req[s].path)
    BY DEF GuardInv
  <2> QED
    BY <1>1, <2>1
<1> QED
  BY <1>2, GuardInvariant, PTL

(* A resolved path is reached through the innermost allowed directory over *)
(* it, by a relative name that leads back to it (rootpool.go).             *)
THEOREM RoutedCorrect == Spec => []RoutedExactly
<1>1. GuardInv => RoutedExactly
  <2> SUFFICES ASSUME GuardInv, NEW r \in Reqs, req[r].at = "resolved"
               PROVE  LET path == req[r].path
                          dir == owner(path)
                          rel == relName(dir, path)
                      IN  /\ Below(dir, path)
                          /\ \A k \in DOMAIN dirs :
                               Below(dirs[k], path) => Len(dirs[k]) <= Len(dir)
                          /\ IF rel = Dot THEN path = dir
                             ELSE /\ String(path)
                                       = (IF dir = <<>> THEN <<>> ELSE String(dir))
                                         \o <<Slash>> \o rel
                                  /\ Head(rel) # Slash
    BY DEF RoutedExactly
  <2> DEFINE p == req[r].path
             d == owner(p)
  <2>1. Settled(tree, p) /\ dirs \in Seq(Seq(Names))
    BY DEF GuardInv
  <2> HIDE DEF p
  <2>2. p \in Seq(Names) /\ \E k \in DOMAIN dirs : Below(dirs[k], p)
    BY <2>1 DEF Settled, Inside
  <2>3. /\ d \in Seq(Names) /\ Below(d, p)
        /\ \A k \in DOMAIN dirs : Below(dirs[k], p) => Len(dirs[k]) <= Len(d)
    BY <2>1, <2>2, OwnerIs
  <2> HIDE DEF d
  <2>4. LET rel == relName(d, p)
        IN  IF rel = Dot THEN p = d
            ELSE /\ String(p) = (IF d = <<>> THEN <<>> ELSE String(d))
                                \o <<Slash>> \o rel
                 /\ Head(rel) # Slash
    BY <2>2, <2>3, RelNameIs
  <2> QED
    BY <2>3, <2>4 DEF d, p
<1> QED
  BY <1>1, GuardInvariant, PTL

-----------------------------------------------------------------------------
(* Orders: a relation that puts the members of a set in line, and the line *)
(* of a finite set.                                                        *)

Orders(R, S) ==
  /\ \A x \in S : <<x, x>> \notin R
  /\ \A x, y, z \in S : <<x, y>> \in R /\ <<y, z>> \in R => <<x, z>> \in R
  /\ \A x, y \in S : x # y => <<x, y>> \in R \/ <<y, x>> \in R

Preceding(R, S, x) == {y \in S : <<y, x>> \in R}

Lined(R, S) == [k \in 1..Cardinality(S) |->
                  CHOOSE x \in S : Cardinality(Preceding(R, S, x)) = k - 1]

\* f is the line of S: every member once, in order.
InLine(f, R, S) ==
  /\ f \in [1..Cardinality(S) -> S]
  /\ \A x \in S : \E k \in 1..Cardinality(S) : f[k] = x
  /\ \A j, k \in 1..Cardinality(S) : j < k => <<f[j], f[k]>> \in R

(* The number of the members before one is its place in the line.          *)
LEMMA LinedUp ==
  ASSUME NEW S, IsFiniteSet(S), NEW R, Orders(R, S)
  PROVE  InLine(Lined(R, S), R, S)
<1> DEFINE n == Cardinality(S)
           before(x) == Preceding(R, S, x)
           rank == [x \in S |-> Cardinality(before(x)) + 1]
<1>1. n \in Nat
  BY FS_CardinalityType
<1>2. \A x \in S : /\ IsFiniteSet(before(x)) /\ Cardinality(before(x)) \in Nat
                   /\ Cardinality(before(x)) < n
  <2> SUFFICES ASSUME NEW x \in S
               PROVE  /\ IsFiniteSet(before(x)) /\ Cardinality(before(x)) \in Nat
                      /\ Cardinality(before(x)) < n
    OBVIOUS
  <2>1. before(x) \in SUBSET S /\ before(x) # S
    BY DEF Orders, Preceding
  <2> HIDE DEF before
  <2>2. /\ IsFiniteSet(before(x)) /\ Cardinality(before(x)) <= n
        /\ n # Cardinality(before(x))
    BY <2>1, FS_Subset
  <2>3. Cardinality(before(x)) \in Nat
    BY <2>2, FS_CardinalityType
  <2> QED
    BY <1>1, <2>2, <2>3
<1>3. \A x, y \in S : <<x, y>> \in R => Cardinality(before(x)) < Cardinality(before(y))
  <2> SUFFICES ASSUME NEW x \in S, NEW y \in S, <<x, y>> \in R
               PROVE  Cardinality(before(x)) < Cardinality(before(y))
    OBVIOUS
  <2>1. before(x) \in SUBSET before(y) /\ x \in before(y) /\ x \notin before(x)
    BY DEF Orders, Preceding
  <2> HIDE DEF before
  <2>2. IsFiniteSet(before(y)) /\ before(y) # before(x)
    BY <1>2, <2>1
  <2>3. /\ Cardinality(before(x)) <= Cardinality(before(y))
        /\ Cardinality(before(y)) # Cardinality(before(x))
    BY <2>1, <2>2, FS_Subset
  <2> QED
    BY <1>2, <2>3
<1> HIDE DEF before
<1>4. rank \in [S -> 1..n]
  BY <1>1, <1>2
<1>5. \A x, y \in S : <<x, y>> \in R => rank[x] < rank[y]
  BY <1>2, <1>3
<1>6. \A x \in S, k \in 1..n : Cardinality(before(x)) = k - 1 <=> rank[x] = k
  BY <1>1, <1>2
<1> HIDE DEF rank
<1>7. \A x, y \in S : rank[x] = rank[y] => x = y
  <2> SUFFICES ASSUME NEW x \in S, NEW y \in S, rank[x] = rank[y], x # y
               PROVE  FALSE
    OBVIOUS
  <2>1. <<x, y>> \in R \/ <<y, x>> \in R
    BY DEF Orders
  <2>2. rank[x] \in Nat /\ rank[y] \in Nat
    BY <1>1, <1>4
  <2> QED
    BY <1>5, <2>1, <2>2
<1>8. \A k \in 1..n : \E x \in S : rank[x] = k
  <2>1. rank \in Injection(S, 1..n)
    BY <1>4, <1>7 DEF Injection, IsInjective
  <2>2. IsFiniteSet(1..n) /\ Cardinality(1..n) = n
    BY <1>1, FS_Interval
  <2>3. rank \in Surjection(S, 1..n)
    BY <2>1, <2>2, FS_Injection
  <2> QED
    BY <2>3 DEF Surjection
<1> DEFINE f == Lined(R, S)
<1>9. \A k \in 1..n : f[k] \in S /\ rank[f[k]] = k
  <2> SUFFICES ASSUME NEW k \in 1..n PROVE f[k] \in S /\ rank[f[k]] = k
    OBVIOUS
  <2>1. f[k] = CHOOSE x \in S : Cardinality(before(x)) = k - 1
    BY DEF Lined, before
  <2>2. \E x \in S : Cardinality(before(x)) = k - 1
    BY <1>6, <1>8
  <2>3. f[k] \in S /\ Cardinality(before(f[k])) = k - 1
    <3> HIDE DEF f
    <3> QED
      BY <2>1, <2>2
  <2> QED
    BY <1>6, <2>3
<1>10. f \in [1..n -> S]
  <2>1. f = [k \in 1..n |-> f[k]]
    BY DEF Lined
  <2> HIDE DEF f
  <2> QED
    BY <1>9, <2>1
<1> HIDE DEF f
<1>11. \A x \in S : f[rank[x]] = x /\ rank[x] \in 1..n
  BY <1>4, <1>7, <1>9
<1>12. \A j, k \in 1..n : j < k => <<f[j], f[k]>> \in R
  <2> SUFFICES ASSUME NEW j \in 1..n, NEW k \in 1..n, j < k
               PROVE  <<f[j], f[k]>> \in R
    OBVIOUS
  <2>1. /\ f[j] \in S /\ f[k] \in S /\ rank[f[j]] = j /\ rank[f[k]] = k
        /\ j \in Nat /\ k \in Nat
    BY <1>1, <1>9
  <2>2. f[j] # f[k]
    BY <2>1
  <2>3. ~ (<<f[k], f[j]>> \in R)
    BY <1>5, <2>1
  <2> QED
    BY <2>1, <2>2, <2>3 DEF Orders
<1> QED
  BY <1>10, <1>11, <1>12, Zenon DEF InLine, n, f

(* Two sequences begin alike, name by name.                                *)
LEMMA SameStart ==
  ASSUME NEW D, NEW s \in Seq(D), NEW t \in Seq(D),
         NEW m \in Nat, m <= Len(s), m <= Len(t)
  PROVE  SubSeq(s, 1, m) = SubSeq(t, 1, m) <=> \A i \in 1..m : s[i] = t[i]
<1> DEFINE x == SubSeq(s, 1, m)
           y == SubSeq(t, 1, m)
<1>1. ASSUME NEW u \in Seq(D), m <= Len(u)
      PROVE  /\ SubSeq(u, 1, m) \in Seq(D) /\ Len(SubSeq(u, 1, m)) = m
             /\ \A i \in 1..m : SubSeq(u, 1, m)[i] = u[i]
  <2>0. Len(u) \in Nat /\ m \in Int /\ 1 \in Int
    BY LenProperties
  <2>1. \A i \in 1..m : u[i] \in D
    <3>1. \A i \in 1..m : i \in 1..Len(u)
      BY <1>1, <2>0
    <3> QED
      BY <3>1, ElementOfSeq
  <2>2. /\ SubSeq(u, 1, m) \in Seq(D)
        /\ Len(SubSeq(u, 1, m)) = IF 1 <= m THEN m - 1 + 1 ELSE 0
        /\ \A i \in 1..(m - 1 + 1) : SubSeq(u, 1, m)[i] = u[1 + i - 1]
    BY <2>0, <2>1, SubSeqProperties
  <2> QED
    BY <2>2
<1>2. /\ x \in Seq(D) /\ y \in Seq(D) /\ Len(x) = m /\ Len(y) = m
      /\ \A i \in 1..m : x[i] = s[i] /\ y[i] = t[i]
  BY <1>1
<1> HIDE DEF x, y
<1>3. (\A i \in 1..m : s[i] = t[i]) => x = y
  BY <1>2, SeqEqual
<1> QED
  BY <1>2, <1>3 DEF x, y

\* s comes before t by the k-th place: up to there they are the same, and
\* there s ends or has what comes before.
LexAt(R, s, t, k) ==
  /\ k - 1 <= Len(s) /\ k <= Len(t)
  /\ \A i \in 1..(k - 1) : s[i] = t[i]
  /\ k <= Len(s) => <<s[k], t[k]>> \in R

LexIn(R, s, t) == \E k \in Nat \ {0} : LexAt(R, s, t, k)
Lex(R, D) == {st \in Seq(D) \X Seq(D) : LexIn(R, st[1], st[2])}

(* Sequences over an ordered set are ordered.                              *)
LEMMA LexOrders ==
  ASSUME NEW D, NEW R, Orders(R, D)
  PROVE  Orders(Lex(R, D), Seq(D))
<1>0. \A s \in Seq(D) : /\ Len(s) \in Nat
                        /\ \A i \in Nat \ {0} : i <= Len(s) => s[i] \in D
  <2> SUFFICES ASSUME NEW s \in Seq(D)
               PROVE  /\ Len(s) \in Nat
                      /\ \A i \in Nat \ {0} : i <= Len(s) => s[i] \in D
    OBVIOUS
  <2>1. Len(s) \in Nat /\ \A i \in 1..Len(s) : s[i] \in D
    BY LenProperties, ElementOfSeq
  <2> QED
    BY <2>1
<1>1. \A s \in Seq(D) : ~LexIn(R, s, s)
  <2> SUFFICES ASSUME NEW s \in Seq(D), NEW k \in Nat \ {0}, LexAt(R, s, s, k)
               PROVE  FALSE
    BY DEF LexIn
  <2>1. k <= Len(s) /\ <<s[k], s[k]>> \in R
    BY DEF LexAt
  <2> QED
    BY <1>0, <2>1 DEF Orders
<1>2. \A s, t, u \in Seq(D) : LexIn(R, s, t) /\ LexIn(R, t, u) => LexIn(R, s, u)
  <2> SUFFICES ASSUME NEW s \in Seq(D), NEW t \in Seq(D), NEW u \in Seq(D),
                      NEW k \in Nat \ {0}, LexAt(R, s, t, k),
                      NEW m \in Nat \ {0}, LexAt(R, t, u, m)
               PROVE  LexIn(R, s, u)
    BY DEF LexIn
  <2>1. /\ Len(s) \in Nat /\ Len(t) \in Nat /\ Len(u) \in Nat
        /\ k - 1 <= Len(s) /\ k <= Len(t) /\ m - 1 <= Len(t) /\ m <= Len(u)
        /\ \A i \in 1..(k - 1) : s[i] = t[i]
        /\ \A i \in 1..(m - 1) : t[i] = u[i]
        /\ k <= Len(s) => <<s[k], t[k]>> \in R
        /\ m <= Len(t) => <<t[m], u[m]>> \in R
    BY <1>0 DEF LexAt
  <2>2. CASE k < m
    <3>1. k <= Len(u) /\ \A i \in 1..(k - 1) : s[i] = u[i]
      BY <2>1, <2>2
    <3>2. t[k] = u[k]
      BY <2>1, <2>2
    <3>3. k <= Len(s) => <<s[k], u[k]>> \in R
      BY <2>1, <3>2, Zenon
    <3>4. LexAt(R, s, u, k)
      BY <2>1, <3>1, <3>3 DEF LexAt
    <3> QED
      BY <3>4 DEF LexIn
  <2>3. CASE m < k
    <3>1. m - 1 <= Len(s) /\ \A i \in 1..(m - 1) : s[i] = u[i]
      BY <2>1, <2>3
    <3>2. s[m] = t[m] /\ <<t[m], u[m]>> \in R
      BY <2>1, <2>3
    <3>3. <<s[m], u[m]>> \in R
      BY <3>2, Zenon
    <3>4. LexAt(R, s, u, m)
      BY <2>1, <3>1, <3>3 DEF LexAt
    <3> QED
      BY <3>4 DEF LexIn
  <2>4. CASE m = k
    <3>1. k <= Len(s) => <<s[k], u[k]>> \in R
      <4> SUFFICES ASSUME k <= Len(s) PROVE <<s[k], u[k]>> \in R
        OBVIOUS
      <4>1. s[k] \in D /\ t[k] \in D /\ u[k] \in D
        BY <1>0, <2>1, <2>4
      <4>2. <<s[k], t[k]>> \in R /\ <<t[k], u[k]>> \in R
        BY <2>1, <2>4
      <4> QED
        BY <4>1, <4>2 DEF Orders
    <3>2. LexAt(R, s, u, k)
      BY <2>1, <2>4, <3>1 DEF LexAt
    <3> QED
      BY <3>2 DEF LexIn
  <2> QED
    BY <2>2, <2>3, <2>4
<1>3. \A s, t \in Seq(D) : s # t => LexIn(R, s, t) \/ LexIn(R, t, s)
  <2> SUFFICES ASSUME NEW s \in Seq(D), NEW t \in Seq(D), s # t
               PROVE  LexIn(R, s, t) \/ LexIn(R, t, s)
    OBVIOUS
  <2> DEFINE Parts == {k \in Nat \ {0} : k - 1 = Len(s) \/ k - 1 = Len(t) \/ s[k] # t[k]}
  <2>1. Len(s) \in Nat /\ Len(t) \in Nat
    BY <1>0
  <2>2. Parts # {} /\ Parts \subseteq Nat
    <3>1. Len(s) + 1 \in Parts
      BY <2>1
    <3> QED
      BY <3>1
  <2>3. PICK k \in Parts : \A i \in Parts : k <= i
    <3> HIDE DEF Parts
    <3> QED
      BY <2>2, LeastNat
  <2>4. /\ k \in Nat \ {0} /\ k - 1 <= Len(s) /\ k - 1 <= Len(t)
        /\ \A i \in 1..(k - 1) : s[i] = t[i]
    <3>1. k <= Len(s) + 1 /\ k <= Len(t) + 1
      <4>1. Len(s) + 1 \in Parts /\ Len(t) + 1 \in Parts
        BY <2>1
      <4> QED
        BY <2>3, <4>1
    <3>2. k \in Nat \ {0}
      OBVIOUS
    <3>3. \A i \in 1..(k - 1) : i \in Nat \ {0} /\ i < k /\ i \notin Parts
      BY <2>3, <3>2
    <3> QED
      BY <2>1, <3>1, <3>2, <3>3
  <2>5. CASE k - 1 = Len(s) /\ k - 1 = Len(t)
    <3>1. Len(s) = Len(t) /\ \A i \in 1..Len(s) : s[i] = t[i]
      BY <2>4, <2>5
    <3> QED
      BY <3>1, SeqEqual
  <2>6. CASE k - 1 = Len(s) /\ k <= Len(t)
    <3>1. LexAt(R, s, t, k)
      BY <2>1, <2>4, <2>6 DEF LexAt
    <3> QED
      BY <2>4, <3>1 DEF LexIn
  <2>7. CASE k - 1 = Len(t) /\ k <= Len(s)
    <3>1. LexAt(R, t, s, k)
      BY <2>1, <2>4, <2>7 DEF LexAt
    <3> QED
      BY <2>4, <3>1 DEF LexIn
  <2>8. CASE k <= Len(s) /\ k <= Len(t)
    <3>1. s[k] # t[k] /\ s[k] \in D /\ t[k] \in D
      BY <1>0, <2>1, <2>4, <2>8
    <3>2. <<s[k], t[k]>> \in R \/ <<t[k], s[k]>> \in R
      BY <3>1 DEF Orders
    <3>3. LexAt(R, s, t, k) \/ LexAt(R, t, s, k)
      BY <2>1, <2>4, <2>8, <3>2 DEF LexAt
    <3> QED
      BY <2>4, <3>3 DEF LexIn
  <2> QED
    BY <2>1, <2>4, <2>5, <2>6, <2>7, <2>8
<1> QED
  BY <1>1, <1>2, <1>3 DEF Orders, Lex

(* The order of the code: a prefix comes first, or the first letter that   *)
(* is different decides.                                                   *)
LEMMA LexIs ==
  ASSUME NEW D, NEW R, NEW s \in Seq(D), NEW t \in Seq(D)
  PROVE  LexIn(R, s, t) <=>
           \/ IsStrictPrefix(s, t)
           \/ \E k \in DOMAIN s \cap DOMAIN t :
                /\ SubSeq(s, 1, k - 1) = SubSeq(t, 1, k - 1)
                /\ <<s[k], t[k]>> \in R
<1>1. /\ Len(s) \in Nat /\ DOMAIN s = 1..Len(s)
      /\ Len(t) \in Nat /\ DOMAIN t = 1..Len(t)
  BY LenProperties
<1>2. IsStrictPrefix(s, t) <=> LexAt(R, s, t, Len(s) + 1)
  <2> DEFINE n == Len(s)
             Alike == \A i \in 1..n : s[i] = t[i]
  <2>1. n \in Nat
    BY <1>1
  <2>2. n <= Len(t) => (SubSeq(s, 1, n) = SubSeq(t, 1, n) <=> Alike)
    <3> HIDE DEF n
    <3>1. n <= Len(s)
      BY <1>1 DEF n
    <3> QED
      BY <2>1, <3>1, SameStart
  <2>3. ASSUME Len(s) = Len(t), Alike PROVE s = t
    <3>1. s \in Seq(D) /\ t \in Seq(D)
      OBVIOUS
    <3>2. \A i \in 1..Len(s) : s[i] = t[i]
      BY <2>3
    <3> HIDE DEF n, Alike
    <3> QED
      BY <2>3, <3>1, <3>2, SeqEqual, Zenon
  <2>4. LexAt(R, s, t, n + 1) <=> n + 1 <= Len(t) /\ Alike
    <3>1. (n + 1) - 1 = n /\ n <= Len(s) /\ ~(n + 1 <= Len(s))
      BY <1>1
    <3> HIDE DEF n
    <3> QED
      BY <3>1, Zenon DEF LexAt
  <2>5. \A i, j \in Nat : i + 1 <= j <=> i <= j /\ i # j
    OBVIOUS
  <2>6. IsStrictPrefix(s, t) <=> n <= Len(t) /\ SubSeq(s, 1, n) = SubSeq(t, 1, n) /\ s # t
    BY DEF IsStrictPrefix, IsPrefix
  <2> HIDE DEF Alike, n
  <2>7. n + 1 <= Len(t) <=> n <= Len(t) /\ n # Len(t)
    BY <1>1, <2>1, <2>5, Zenon
  <2>8. s = t => n = Len(t)
    BY DEF n
  <2>9. Len(s) = Len(t) <=> n = Len(t)
    BY DEF n
  <2>10. IsStrictPrefix(s, t) <=> n + 1 <= Len(t) /\ Alike
    BY <2>2, <2>3, <2>6, <2>7, <2>8, <2>9, Zenon
  <2> QED
    BY <2>4, <2>10, Zenon DEF n
<1>3. ASSUME NEW k \in Nat \ {0}, k <= Len(s), k <= Len(t)
      PROVE  LexAt(R, s, t, k) <=> /\ SubSeq(s, 1, k - 1) = SubSeq(t, 1, k - 1)
                                   /\ <<s[k], t[k]>> \in R
  <2> DEFINE m == k - 1
  <2>1. m \in Nat /\ m <= Len(s) /\ m <= Len(t)
    BY <1>1, <1>3
  <2>2. SubSeq(s, 1, m) = SubSeq(t, 1, m) <=> \A i \in 1..m : s[i] = t[i]
    <3> HIDE DEF m
    <3> QED
      BY <2>1, SameStart
  <2> QED
    BY <1>1, <1>3, <2>2 DEF LexAt
<1>4. ASSUME LexIn(R, s, t)
      PROVE  \/ IsStrictPrefix(s, t)
             \/ \E k \in DOMAIN s \cap DOMAIN t :
                  /\ SubSeq(s, 1, k - 1) = SubSeq(t, 1, k - 1)
                  /\ <<s[k], t[k]>> \in R
  <2>1. PICK k \in Nat \ {0} : LexAt(R, s, t, k)
    BY <1>4 DEF LexIn
  <2>2. k <= Len(t) /\ (k = Len(s) + 1 \/ k <= Len(s))
    BY <1>1, <2>1 DEF LexAt
  <2>3. CASE k = Len(s) + 1
    BY <1>2, <2>1, <2>3
  <2>4. CASE k <= Len(s)
    <3>1. k \in DOMAIN s \cap DOMAIN t
      BY <1>1, <2>2, <2>4
    <3>2. SubSeq(s, 1, k - 1) = SubSeq(t, 1, k - 1) /\ <<s[k], t[k]>> \in R
      BY <1>3, <2>1, <2>2, <2>4
    <3> QED
      BY <3>1, <3>2, Zenon
  <2> QED
    BY <2>2, <2>3, <2>4
<1>5. IsStrictPrefix(s, t) => LexIn(R, s, t)
  <2>1. Len(s) + 1 \in Nat \ {0}
    BY <1>1
  <2> QED
    BY <1>2, <2>1 DEF LexIn
<1>6. ASSUME NEW k \in DOMAIN s \cap DOMAIN t,
             SubSeq(s, 1, k - 1) = SubSeq(t, 1, k - 1), <<s[k], t[k]>> \in R
      PROVE  LexIn(R, s, t)
  <2>1. k \in Nat \ {0} /\ k <= Len(s) /\ k <= Len(t)
    BY <1>1
  <2>2. LexAt(R, s, t, k)
    BY <1>3, <1>6, <2>1
  <2> QED
    BY <2>1, <2>2 DEF LexIn
<1> QED
  BY <1>4, <1>5, <1>6

-----------------------------------------------------------------------------
(* The orders of the code: of strings, of paths, of what glob lists.       *)

LetterOrder == {xy \in Signs \X Signs : LetterBefore(xy[1], xy[2])}
NameOrder == Lex(LetterOrder, Signs)
PathOrder == Lex(NameOrder, Seq(Signs))

(* Letters come before each other as Letters lists them.                   *)
LEMMA LettersOrder == Orders(LetterOrder, Signs)
<1>1. /\ Len(Letters) \in Nat /\ DOMAIN Letters = 1..Len(Letters)
  BY SearchAssumption, LenProperties
<1>2. \A j, k \in DOMAIN Letters : Letters[j] = Letters[k] => j = k
  BY SearchAssumption DEF IsInjective
<1>3. \A x \in Signs : \E j \in DOMAIN Letters : Letters[j] = x
  BY SearchAssumption DEF Signs, ToSet
<1>4. \A j \in DOMAIN Letters : j \in Nat
  BY <1>1
<1>5. \A x, y \in Signs : <<x, y>> \in LetterOrder <=>
        \E j, k \in DOMAIN Letters : j < k /\ Letters[j] = x /\ Letters[k] = y
  BY DEF LetterOrder, LetterBefore
<1>6. \A x \in Signs : <<x, x>> \notin LetterOrder
  BY <1>2, <1>4, <1>5
<1>7. ASSUME NEW x \in Signs, NEW y \in Signs, NEW z \in Signs,
             <<x, y>> \in LetterOrder, <<y, z>> \in LetterOrder
      PROVE  <<x, z>> \in LetterOrder
  <2>1. PICK i, j \in DOMAIN Letters : i < j /\ Letters[i] = x /\ Letters[j] = y
    BY <1>5, <1>7
  <2>2. PICK k, l \in DOMAIN Letters : k < l /\ Letters[k] = y /\ Letters[l] = z
    BY <1>5, <1>7
  <2>3. j = k
    BY <1>2, <2>1, <2>2
  <2>4. i < l
    BY <1>4, <2>1, <2>2, <2>3
  <2> QED
    BY <1>5, <2>1, <2>2, <2>4
<1>8. ASSUME NEW x \in Signs, NEW y \in Signs, x # y
      PROVE  <<x, y>> \in LetterOrder \/ <<y, x>> \in LetterOrder
  <2>1. PICK j \in DOMAIN Letters : Letters[j] = x
    BY <1>3
  <2>2. PICK k \in DOMAIN Letters : Letters[k] = y
    BY <1>3
  <2>3. j < k \/ k < j
    BY <1>4, <1>8, <2>1, <2>2
  <2> QED
    BY <1>5, <2>1, <2>2, <2>3
<1> QED
  BY <1>6, <1>7, <1>8 DEF Orders

(* Strings, and paths as sequences of strings, are ordered.                *)
LEMMA StringsOrder ==
  /\ Orders(NameOrder, Seq(Signs))
  /\ \A s, t \in Seq(Signs) : StringBefore(s, t) <=> <<s, t>> \in NameOrder
  /\ Orders(PathOrder, Seq(Seq(Signs)))
  /\ \A p, q \in Seq(Seq(Signs)) : WalkBefore(p, q) <=> <<p, q>> \in PathOrder
<1>1. Orders(NameOrder, Seq(Signs))
  BY LettersOrder, LexOrders DEF NameOrder
<1>2. Orders(PathOrder, Seq(Seq(Signs)))
  BY <1>1, LexOrders DEF PathOrder
<1>3. ASSUME NEW s \in Seq(Signs), NEW t \in Seq(Signs)
      PROVE  StringBefore(s, t) <=> <<s, t>> \in NameOrder
  <2>1. \A k \in DOMAIN s \cap DOMAIN t :
          LetterBefore(s[k], t[k]) <=> <<s[k], t[k]>> \in LetterOrder
    <3>1. \A k \in DOMAIN s \cap DOMAIN t : s[k] \in Signs /\ t[k] \in Signs
      BY LenProperties, ElementOfSeq
    <3> QED
      BY <3>1 DEF LetterOrder
  <2>2. StringBefore(s, t) <=>
          \/ IsStrictPrefix(s, t)
          \/ \E k \in DOMAIN s \cap DOMAIN t :
               SubSeq(s, 1, k - 1) = SubSeq(t, 1, k - 1) /\ LetterBefore(s[k], t[k])
    BY DEF StringBefore, LexBefore
  <2>3. StringBefore(s, t) <=> LexIn(LetterOrder, s, t)
    BY <2>1, <2>2, LexIs, Zenon
  <2>4. <<s, t>> \in NameOrder <=> LexIn(LetterOrder, s, t)
    BY DEF NameOrder, Lex
  <2> QED
    BY <2>3, <2>4
<1>4. ASSUME NEW p \in Seq(Seq(Signs)), NEW q \in Seq(Seq(Signs))
      PROVE  WalkBefore(p, q) <=> <<p, q>> \in PathOrder
  <2> DEFINE D == Seq(Signs)
  <2>1. \A k \in DOMAIN p \cap DOMAIN q :
          StringBefore(p[k], q[k]) <=> <<p[k], q[k]>> \in NameOrder
    <3>1. \A k \in DOMAIN p \cap DOMAIN q : p[k] \in D /\ q[k] \in D
      <4> HIDE DEF D
      <4>1. p \in Seq(D) /\ q \in Seq(D)
        BY DEF D
      <4> QED
        BY <4>1, LenProperties, ElementOfSeq
    <3> QED
      BY <1>3, <3>1
  <2>2. WalkBefore(p, q) <=>
          \/ IsStrictPrefix(p, q)
          \/ \E k \in DOMAIN p \cap DOMAIN q :
               SubSeq(p, 1, k - 1) = SubSeq(q, 1, k - 1) /\ StringBefore(p[k], q[k])
    BY DEF WalkBefore, LexBefore
  <2>3. WalkBefore(p, q) <=> LexIn(NameOrder, p, q)
    BY <2>1, <2>2, LexIs, Zenon
  <2>4. <<p, q>> \in PathOrder <=> LexIn(NameOrder, p, q)
    BY DEF PathOrder, Lex
  <2> QED
    BY <2>3, <2>4
<1> QED
  BY <1>1, <1>2, <1>3, <1>4

Present(t) == {p \in Paths : t[p].kind # "absent"}

Children(t, dir) == {q \in Paths : q # <<>> /\ Front(q) = dir /\ KindIn(t, q) # "absent"}

(* What os.ReadDir returns: the entries of the directory, each of them.    *)
LEMMA EnteredIs ==
  ASSUME IsFiniteSet(Present(tree)), NEW dir
  PROVE  /\ Entered(dir) \in Seq(Children(tree, dir))
         /\ \A q \in Children(tree, dir) :
              \E k \in 1..Len(Entered(dir)) : Entered(dir)[k] = q
<1> DEFINE S == Children(tree, dir)
           n == Cardinality(S)
<1>1. S = {q \in Paths : q # <<>> /\ Front(q) = dir /\ Kind(q) # "absent"}
  BY EvalHere DEF Children
<1>2. S \subseteq Present(tree)
  BY DEF Children, Present, KindIn
<1>3. S \subseteq Seq(Seq(Signs))
  <2>1. S \subseteq Seq(Names)
    BY PathsAre DEF Children
  <2>2. Names \subseteq Seq(Signs)
    BY NameFacts
  <2>3. Seq(Names) \subseteq Seq(Seq(Signs))
    BY <2>2, SeqMonotonic
  <2> QED
    BY <2>1, <2>3
<1> HIDE DEF S
<1>4. IsFiniteSet(S) /\ n \in Nat
  BY <1>2, FS_Subset, FS_CardinalityType
<1>5. Entered(dir) = Lined(PathOrder, S)
  <2>1. \A x \in S : {y \in S : WalkBefore(y, x)} = Preceding(PathOrder, S, x)
    BY <1>3, StringsOrder DEF Preceding
  <2>2. Entered(dir) = [k \in 1..Cardinality(S) |->
                          CHOOSE x \in S : Cardinality({y \in S : WalkBefore(y, x)}) = k - 1]
    BY <1>1 DEF Entered, Sorted
  <2> QED
    BY <2>1, <2>2, Zenon DEF Lined
<1>6. Orders(PathOrder, S)
  BY <1>3, StringsOrder DEF Orders
<1>7. InLine(Entered(dir), PathOrder, S)
  BY <1>4, <1>5, <1>6, LinedUp
<1> DEFINE f == Entered(dir)
<1> HIDE DEF f, n
<1>8. f \in [1..n -> S] /\ \A q \in S : \E k \in 1..n : f[k] = q
  BY <1>7 DEF InLine, f, n
<1>9. f \in Seq(S) /\ Len(f) = n
  BY <1>4, <1>8, SeqDef, LenProperties
<1> QED
  BY <1>8, <1>9 DEF f, S

-----------------------------------------------------------------------------
(* What glob lists: newest first, up to the cap.                           *)

(* Newer is an order of the files, up to those that are equally new and    *)
(* have the same name (glob.go, sort.Slice).                               *)
LEMMA NewerOrder ==
  /\ \A p \in Paths : ~Newer(p, p)
  /\ \A p, q, r \in Paths : Newer(p, q) /\ Newer(q, r) => Newer(p, r)
  /\ \A p, q, r \in Paths : ~Newer(p, q) /\ ~Newer(q, r) => ~Newer(p, r)
<1> DEFINE m(p) == MtimeOf[p]
           Before(p, q) == <<String(p), String(q)>> \in NameOrder
<1>1. \A p \in Paths : m(p) \in Nat /\ String(p) \in Seq(Signs)
  BY SearchAssumption, StringFacts, PathsAre
<1>2. \A p, q \in Paths : Newer(p, q) <=> m(p) > m(q) \/ (m(p) = m(q) /\ Before(p, q))
  BY <1>1, StringsOrder DEF Newer
<1>3. /\ \A p \in Paths : ~Before(p, p)
      /\ \A p, q, r \in Paths : Before(p, q) /\ Before(q, r) => Before(p, r)
      /\ \A p, q, r \in Paths : ~Before(p, q) /\ ~Before(q, r) => ~Before(p, r)
  <2>1. Orders(NameOrder, Seq(Signs))
    BY StringsOrder
  <2>2. \A p \in Paths : ~Before(p, p)
    BY <1>1, <2>1, Zenon DEF Orders
  <2>3. \A p, q, r \in Paths : Before(p, q) /\ Before(q, r) => Before(p, r)
    BY <1>1, <2>1, Zenon DEF Orders
  <2>4. \A p, q \in Paths : ~Before(p, q) => Before(q, p) \/ String(p) = String(q)
    BY <1>1, <2>1, Zenon DEF Orders
  <2>5. ASSUME NEW p \in Paths, NEW q \in Paths, NEW r \in Paths,
               ~Before(p, q), ~Before(q, r)
        PROVE  ~Before(p, r)
    <3>1. CASE String(p) = String(q)
      BY <2>5, <3>1
    <3>2. CASE String(q) = String(r)
      BY <2>5, <3>2
    <3>3. CASE Before(q, p) /\ Before(r, q)
      <4>1. Before(r, p)
        BY <2>3, <3>3
      <4>2. Before(p, r) => Before(p, p)
        BY <2>3, <4>1
      <4> QED
        BY <2>2, <4>2
    <3> QED
      BY <2>4, <2>5, <3>1, <3>2, <3>3
  <2> QED
    BY <2>2, <2>3, <2>5
<1> HIDE DEF m, Before
<1>4. \A p \in Paths : ~Newer(p, p)
  BY <1>1, <1>2, <1>3
<1>5. \A p, q, r \in Paths : Newer(p, q) /\ Newer(q, r) => Newer(p, r)
  BY <1>1, <1>2, <1>3
<1>6. \A p, q, r \in Paths : ~Newer(p, q) /\ ~Newer(q, r) => ~Newer(p, r)
  BY <1>1, <1>2, <1>3
<1> QED
  BY <1>4, <1>5, <1>6

(* Sorting loses nothing, adds nothing, and puts the newer file first.     *)
LEMMA NewestFacts ==
  ASSUME NEW found \in Seq(Paths)
  PROVE  /\ Newest(found) \in Seq(Paths) /\ Len(Newest(found)) = Len(found)
         /\ \A k \in 1..Len(found) :
              /\ \E i \in 1..Len(found) : Newest(found)[k] = found[i]
              /\ \E i \in 1..Len(found) : found[k] = Newest(found)[i]
         /\ \A j, k \in 1..Len(found) :
              j < k => ~Newer(Newest(found)[k], Newest(found)[j])
<1> DEFINE n == Len(found)
           S == DOMAIN found
           Earlier(i, j) == \/ Newer(found[i], found[j])
                            \/ ~Newer(found[j], found[i]) /\ i < j
           R == {ij \in S \X S : Earlier(ij[1], ij[2])}
           order == Lined(R, S)
           f == Newest(found)
<1>1. n \in Nat /\ S = 1..n /\ \A i \in S : found[i] \in Paths
  BY LenProperties, ElementOfSeq
<1>2. \A i, j \in S : <<i, j>> \in R <=> Earlier(i, j)
  OBVIOUS
<1>3. IsFiniteSet(S) /\ Cardinality(S) = n
  <2>1. 1 \in Int /\ n \in Int
    BY <1>1
  <2>2. IsFiniteSet(1..n) /\ Cardinality(1..n) = IF 1 > n THEN 0 ELSE n - 1 + 1
    BY <2>1, FS_Interval, Zenon
  <2> HIDE DEF n, S
  <2> QED
    BY <1>1, <2>2
<1>4. f = [k \in S |-> found[order[k]]]
  <2> DEFINE B(x) == {y \in S : Earlier(y, x)}
             P(x) == Preceding(R, S, x)
             b(i) == CHOOSE x \in S : Cardinality(B(x)) = i - 1
             p(i) == CHOOSE x \in S : Cardinality(P(x)) = i - 1
             g == [i \in 1..Cardinality(S) |-> b(i)]
  <2>1. \A x \in S : B(x) = P(x)
    BY DEF Preceding
  <2>2. f = [k \in S |-> found[g[k]]]
    BY Zenon DEF Newest, Sorted
  <2>3. order = [i \in 1..Cardinality(S) |-> p(i)]
    BY Zenon DEF Lined
  <2> HIDE DEF order, f, R, S, B, P
  <2>4. g = order
    <3>1. \A i : b(i) = p(i)
      <4>1. \A i, x : (x \in S /\ Cardinality(B(x)) = i - 1)
                      <=> (x \in S /\ Cardinality(P(x)) = i - 1)
        BY <2>1, Zenon
      <4> QED
        BY <4>1
    <3> HIDE DEF b, p
    <3> QED
      BY <2>3, <3>1
  <2> HIDE DEF g
  <2> QED
    BY <2>2, <2>4, Zenon
<1> HIDE DEF R
<1>5. Orders(R, S)
  <2> DEFINE Over(i, j) == Newer(found[i], found[j])
  <2>1. \A i \in S : ~Over(i, i)
    BY <1>1, NewerOrder
  <2>2. \A i, j, k \in S : Over(i, j) /\ Over(j, k) => Over(i, k)
    BY <1>1, NewerOrder
  <2>3. \A i, j, k \in S : ~Over(i, j) /\ ~Over(j, k) => ~Over(i, k)
    BY <1>1, NewerOrder
  <2>4. \A i, j \in S : <<i, j>> \in R <=> Over(i, j) \/ (~Over(j, i) /\ i < j)
    BY <1>2
  <2>5. \A i \in S : i \in Nat
    BY <1>1
  <2> HIDE DEF Over, S
  <2>6. \A i \in S : <<i, i>> \notin R
    BY <2>1, <2>4, <2>5
  <2>7. \A i, j, k \in S : <<i, j>> \in R /\ <<j, k>> \in R => <<i, k>> \in R
    BY <2>2, <2>3, <2>4, <2>5
  <2>8. \A i, j \in S : i # j => <<i, j>> \in R \/ <<j, i>> \in R
    BY <2>4, <2>5
  <2> QED
    BY <2>6, <2>7, <2>8 DEF Orders
<1>6. InLine(order, R, S)
  <2> HIDE DEF S
  <2> QED
    BY <1>3, <1>5, LinedUp
<1> HIDE DEF order
<1>7. /\ order \in [S -> S]
      /\ \A x \in S : \E k \in S : order[k] = x
      /\ \A j, k \in S : j < k => <<order[j], order[k]>> \in R
  <2> HIDE DEF S
  <2>1. 1..Cardinality(S) = S
    BY <1>1, <1>3
  <2> QED
    BY <1>6, <2>1 DEF InLine
<1>8. \A k \in S : f[k] = found[order[k]] /\ order[k] \in S
  BY <1>4, <1>7
<1>9. f \in Seq(Paths) /\ Len(f) = n
  <2>1. f \in [1..n -> Paths]
    BY <1>1, <1>4, <1>7
  <2> HIDE DEF f, n
  <2> QED
    BY <1>1, <2>1, SeqDef, LenProperties
<1>10. \A k \in S : /\ \E i \in S : f[k] = found[i]
                    /\ \E i \in S : found[k] = f[i]
  <2> HIDE DEF S, f
  <2> SUFFICES ASSUME NEW k \in S
               PROVE  /\ \E i \in S : f[k] = found[i]
                      /\ \E i \in S : found[k] = f[i]
    OBVIOUS
  <2>1. order[k] \in S /\ f[k] = found[order[k]]
    BY <1>8
  <2>2. PICK i \in S : order[i] = k
    BY <1>7, Zenon
  <2>3. f[i] = found[k]
    BY <1>8, <2>2, Zenon
  <2> QED
    BY <2>1, <2>3, Zenon
<1>11. \A j, k \in S : j < k => ~Newer(f[k], f[j])
  <2> SUFFICES ASSUME NEW j \in S, NEW k \in S, j < k PROVE ~Newer(f[k], f[j])
    OBVIOUS
  <2> DEFINE a == order[j]
             b == order[k]
  <2>1. a \in S /\ b \in S /\ <<a, b>> \in R /\ f[j] = found[a] /\ f[k] = found[b]
    BY <1>7, <1>8
  <2> HIDE DEF a, b, S, f
  <2>2. Newer(found[a], found[b]) \/ ~Newer(found[b], found[a])
    BY <1>2, <2>1
  <2>3. ~(Newer(found[a], found[b]) /\ Newer(found[b], found[a]))
    BY <1>1, <2>1, NewerOrder
  <2>4. ~Newer(found[b], found[a])
    BY <2>2, <2>3
  <2> QED
    BY <2>1, <2>4, Zenon
<1> HIDE DEF f
<1> QED
  BY <1>1, <1>9, <1>10, <1>11, Zenon DEF f, n

\* What was found is listed, up to the cap; the newest stays.
Capping(found, results) ==
  /\ results \in Seq(Paths)
  /\ ToSet(results) \subseteq ToSet(found)
  /\ \A j, k \in DOMAIN results : j < k => ~Newer(results[k], results[j])
  /\ Len(found) <= GlobMaxResults => ToSet(found) \subseteq ToSet(results)
  /\ \A p \in ToSet(found) \ ToSet(results) :
       \A q \in ToSet(results) : ~Newer(p, q)

(* The answer of glob, from what the walk found.                           *)
LEMMA CappedFacts ==
  ASSUME NEW found \in Seq(Paths)
  PROVE  Capping(found, Capped(found))
<1> DEFINE n == Len(found)
           m == Min({n, GlobMaxResults})
           f == Newest(found)
           results == SubSeq(f, 1, m)
<1>1. n \in Nat /\ GlobMaxResults \in Nat
  BY SearchAssumption, LenProperties
<1>2. m \in Nat /\ m <= n /\ (n <= GlobMaxResults => m = n)
  BY <1>1 DEF Min
<1>3. /\ f \in Seq(Paths) /\ Len(f) = n
      /\ \A k \in 1..n : /\ \E i \in 1..n : f[k] = found[i]
                         /\ \E i \in 1..n : found[k] = f[i]
      /\ \A j, k \in 1..n : j < k => ~Newer(f[k], f[j])
  BY NewestFacts
<1> HIDE DEF m, f
<1>4. /\ results \in Seq(Paths) /\ Len(results) = m
      /\ \A k \in 1..m : results[k] = f[k]
  <2>1. \A k \in 1..m : f[k] \in Paths
    <3>1. \A k \in 1..m : k \in 1..Len(f)
      BY <1>1, <1>2, <1>3
    <3> QED
      BY <1>3, <3>1, ElementOfSeq
  <2>2. m \in Int /\ 1 \in Int
    BY <1>2
  <2>3. /\ SubSeq(f, 1, m) \in Seq(Paths)
        /\ Len(SubSeq(f, 1, m)) = IF 1 <= m THEN m - 1 + 1 ELSE 0
        /\ \A k \in 1..(m - 1 + 1) : SubSeq(f, 1, m)[k] = f[1 + k - 1]
    BY <2>1, <2>2, SubSeqProperties
  <2> QED
    BY <1>2, <2>3
<1> HIDE DEF results
<1>5. DOMAIN results = 1..m /\ DOMAIN found = 1..n
  BY <1>4, LenProperties
<1>6. /\ \A p : p \in ToSet(results) <=> \E k \in 1..m : f[k] = p
      /\ \A p : p \in ToSet(found) <=> \E i \in 1..n : found[i] = p
  BY <1>4, <1>5 DEF ToSet
<1>7. \A k \in 1..m : k \in 1..n
  BY <1>1, <1>2
<1>8. ToSet(results) \subseteq ToSet(found)
  BY <1>3, <1>6, <1>7
<1>9. \A j, k \in DOMAIN results : j < k => ~Newer(results[k], results[j])
  BY <1>3, <1>4, <1>5, <1>7
<1>10. n <= GlobMaxResults => ToSet(found) \subseteq ToSet(results)
  BY <1>2, <1>3, <1>6
<1>11. ASSUME NEW p \in ToSet(found) \ ToSet(results), NEW q \in ToSet(results)
       PROVE  ~Newer(p, q)
  <2>1. PICK j \in 1..m : f[j] = q
    BY <1>6
  <2>2. PICK k \in 1..n : f[k] = p
    <3>1. PICK i \in 1..n : found[i] = p
      BY <1>6
    <3> QED
      BY <1>3, <3>1, Zenon
  <2>3. k \notin 1..m
    BY <1>6, <1>11, <2>2
  <2>4. j \in 1..n /\ j < k
    BY <1>1, <1>2, <2>3
  <2> QED
    BY <1>3, <2>1, <2>2, <2>4
<1>12. Capped(found) = results
  BY DEF Capped, results, m, f
<1> QED
  BY <1>4, <1>8, <1>9, <1>10, <1>11, <1>12, Zenon DEF Capping, n

-----------------------------------------------------------------------------
(* The way from a root down to an entry.                                   *)

(* The beginning of a path.                                                *)
LEMMA CutFacts ==
  ASSUME NEW p \in Seq(Names), NEW n \in Nat, n <= Len(p)
  PROVE  /\ SubSeq(p, 1, n) \in Seq(Names) /\ Len(SubSeq(p, 1, n)) = n
         /\ \A i \in 1..n : SubSeq(p, 1, n)[i] = p[i]
<1>0. Len(p) \in Nat /\ n \in Int /\ 1 \in Int
  BY LenProperties
<1>1. \A i \in 1..n : p[i] \in Names
  <2>1. \A i \in 1..n : i \in 1..Len(p)
    BY <1>0
  <2> QED
    BY <2>1, ElementOfSeq
<1>2. /\ SubSeq(p, 1, n) \in Seq(Names)
      /\ Len(SubSeq(p, 1, n)) = IF 1 <= n THEN n - 1 + 1 ELSE 0
      /\ \A i \in 1..(n - 1 + 1) : SubSeq(p, 1, n)[i] = p[1 + i - 1]
  BY <1>0, <1>1, SubSeqProperties
<1> QED
  BY <1>2

(* The beginning of a beginning.                                           *)
LEMMA CutTwice ==
  ASSUME NEW p \in Seq(Names), NEW m \in Nat, m <= Len(p), NEW n \in Nat, n <= m
  PROVE  SubSeq(SubSeq(p, 1, m), 1, n) = SubSeq(p, 1, n)
<1> DEFINE q == SubSeq(p, 1, m)
           r == SubSeq(q, 1, n)
           s == SubSeq(p, 1, n)
<1>1. q \in Seq(Names) /\ Len(q) = m /\ \A i \in 1..m : q[i] = p[i]
  BY CutFacts
<1>2. Len(p) \in Nat /\ n <= Len(p)
  BY LenProperties
<1>3. s \in Seq(Names) /\ Len(s) = n /\ \A i \in 1..n : s[i] = p[i]
  BY <1>2, CutFacts
<1> HIDE DEF q, s
<1>4. r \in Seq(Names) /\ Len(r) = n /\ \A i \in 1..n : r[i] = q[i]
  BY <1>1, CutFacts
<1> HIDE DEF r
<1>5. \A i \in 1..n : r[i] = s[i]
  BY <1>1, <1>3, <1>4
<1>6. r = s
  BY <1>3, <1>4, <1>5, SeqEqual
<1> QED
  BY <1>6 DEF q, r, s

(* The path before the last name is a beginning.                           *)
LEMMA CutFront ==
  ASSUME NEW p \in Seq(Names), NEW n \in Nat, n + 1 <= Len(p)
  PROVE  /\ SubSeq(p, 1, n + 1) # <<>>
         /\ Front(SubSeq(p, 1, n + 1)) = SubSeq(p, 1, n)
<1> DEFINE q == SubSeq(p, 1, n + 1)
<1>1. n + 1 \in Nat /\ n <= n + 1 /\ n + 1 # 0
  OBVIOUS
<1>2. q \in Seq(Names) /\ Len(q) = n + 1
  BY <1>1, CutFacts
<1>3. q # <<>>
  BY <1>1, <1>2, EmptySeq
<1>4. SubSeq(q, 1, n) = SubSeq(p, 1, n)
  BY <1>1, CutTwice
<1> HIDE DEF q
<1>5. Len(q) - 1 = n
  BY <1>2
<1>6. Front(q) = SubSeq(p, 1, n)
  BY <1>4, <1>5 DEF Front
<1> QED
  BY <1>3, <1>6 DEF q

(* What lies over an entry is a directory.                                 *)
LEMMA Above ==
  ASSUME NEW t, TreeOK(t), NEW p \in Seq(Names), KindIn(t, p) # "absent",
         NEW n \in Nat, n < Len(p)
  PROVE  KindIn(t, SubSeq(p, 1, n)) = "dir"
<1> DEFINE l == Len(p)
           cut(k) == SubSeq(p, 1, k)
           Dirs == {j \in Nat : j < l => KindIn(t, cut(l - 1 - j)) = "dir"}
<1>1. l \in Nat /\ l # 0
  BY LenProperties
<1>2. cut(l) = p
  BY SubSeqFull
<1>3. ASSUME NEW k \in Nat, k + 1 <= l, KindIn(t, cut(k + 1)) # "absent"
      PROVE  KindIn(t, cut(k)) = "dir"
  <2>1. cut(k + 1) \in Seq(Names)
    BY <1>3, CutFacts
  <2>2. cut(k + 1) # <<>> /\ Front(cut(k + 1)) = cut(k)
    BY <1>3, CutFront
  <2> HIDE DEF cut
  <2>3. KindIn(t, Front(cut(k + 1))) = "dir"
    BY <1>3, <2>1, <2>2, TreeFacts, Zenon
  <2> QED
    BY <2>2, <2>3, Zenon
<1> HIDE DEF l, cut
<1>4. 0 \in Dirs
  <2>1. (l - 1) + 1 = l /\ l - 1 \in Nat /\ l - 1 - 0 = l - 1 /\ l - 1 + 1 <= l
    BY <1>1
  <2>2. KindIn(t, cut((l - 1) + 1)) # "absent"
    BY <1>2, <2>1, Zenon
  <2>3. KindIn(t, cut(l - 1)) = "dir"
    BY <1>3, <2>1, <2>2, Zenon
  <2>4. KindIn(t, cut(l - 1 - 0)) = "dir"
    BY <2>1, <2>3, Zenon
  <2> QED
    BY <2>4
<1>5. \A j \in 0..(l - 1) : j \in Dirs => j + 1 \in Dirs
  <2> SUFFICES ASSUME NEW j \in 0..(l - 1), j \in Dirs, j + 1 < l
               PROVE  KindIn(t, cut(l - 1 - (j + 1))) = "dir"
    BY <1>1
  <2> DEFINE k == l - 1 - (j + 1)
  <2>1. k \in Nat /\ k + 1 = l - 1 - j /\ k + 1 <= l /\ j < l
    BY <1>1
  <2> HIDE DEF k
  <2>2. KindIn(t, cut(k + 1)) = "dir"
    BY <2>1
  <2>3. KindIn(t, cut(k)) = "dir"
    <3>1. KindIn(t, cut(k + 1)) # "absent"
      BY <2>2
    <3> QED
      BY <1>3, <2>1, <3>1, Zenon
  <2> QED
    BY <2>3 DEF k
<1>6. 0..l \subseteq Dirs
  <2> HIDE DEF Dirs
  <2> QED
    BY <1>1, <1>4, <1>5, UpTo
<1>7. /\ l - 1 - n \in 0..l /\ l - 1 - n < l /\ l - 1 - (l - 1 - n) = n
  BY <1>1 DEF l
<1>8. KindIn(t, cut(l - 1 - (l - 1 - n))) = "dir"
  <2>1. l - 1 - n \in Dirs
    <3> HIDE DEF Dirs
    <3> QED
      BY <1>6, <1>7
  <2> QED
    BY <1>7, <2>1, Zenon
<1>9. KindIn(t, cut(n)) = "dir"
  BY <1>7, <1>8, Zenon
<1> QED
  BY <1>9 DEF cut

(* From a directory over an entry the next step towards it.                *)
LEMMA NextOnWay ==
  ASSUME NEW h \in Seq(Names), NEW p \in Seq(Names), Below(h, p), h # p
  PROVE  LET c == SubSeq(p, 1, Len(h) + 1)
         IN  /\ Len(h) \in Nat /\ Len(h) < Len(p) /\ h = SubSeq(p, 1, Len(h))
             /\ c \in Seq(Names) /\ c # <<>> /\ Front(c) = h /\ Below(c, p)
<1> DEFINE n == Len(h)
           c == SubSeq(p, 1, n + 1)
<1>1. n \in Nat /\ Len(p) \in Nat /\ n <= Len(p) /\ SubSeq(p, 1, n) = h
  BY LenProperties DEF Below
<1>2. n # Len(p)
  BY <1>1, SubSeqFull
<1>3. n < Len(p) /\ n + 1 \in Nat /\ n + 1 <= Len(p)
  BY <1>1, <1>2
<1> HIDE DEF n
<1>4. c \in Seq(Names) /\ Len(c) = n + 1
  BY <1>3, CutFacts
<1>5. c # <<>> /\ Front(c) = h
  BY <1>1, <1>3, CutFront
<1>6. Below(c, p)
  BY <1>3, <1>4 DEF Below
<1> QED
  BY <1>1, <1>3, <1>4, <1>5, <1>6 DEF n

Readable(root, p) ==
  \A n \in Len(root)..(Len(p) - 1) : SubSeq(p, 1, n) \notin Unreadable

(* What a directory holds is reached over it.                              *)
LEMMA ChildOnWay ==
  ASSUME NEW root \in Seq(Names), NEW q \in Seq(Names), q # <<>>,
         Below(root, Front(q)), Readable(root, Front(q)), Front(q) \notin Unreadable
  PROVE  Below(root, q) /\ Readable(root, q)
<1> DEFINE h == Front(q)
           l == Len(q)
<1>1. /\ h \in Seq(Names) /\ Last(q) \in Names /\ Len(h) = l - 1
      /\ l \in Nat \ {0} /\ q = Append(h, Last(q))
  BY FrontLast
<1>2. Below(root, q)
  BY <1>1, BelowParent
<1>3. h = SubSeq(q, 1, l - 1)
  BY DEF Front
<1>4. ASSUME NEW n \in Len(root)..(l - 1) PROVE SubSeq(q, 1, n) \notin Unreadable
  <2>1. n \in Nat
    BY <1>1, LenProperties
  <2>2. CASE n = l - 1
    BY <1>3, <2>2
  <2>3. CASE n # l - 1
    <3>1. n \in Len(root)..(Len(h) - 1) /\ n <= l - 1 /\ l - 1 \in Nat /\ l - 1 <= Len(q)
      BY <1>1, <2>1, <2>3, LenProperties
    <3>2. SubSeq(h, 1, n) = SubSeq(q, 1, n)
      BY <1>3, <2>1, <3>1, CutTwice
    <3> QED
      BY <3>1, <3>2 DEF Readable
  <2> QED
    BY <2>2, <2>3
<1> QED
  BY <1>2, <1>4 DEF Readable

(* A directory on the way to a file that can be reached can be read.       *)
LEMMA ReadableOnWay ==
  ASSUME NEW root \in Seq(Names), NEW h \in Seq(Names), NEW p \in Seq(Names),
         Below(root, h), Below(h, p), h # p, Readable(root, p)
  PROVE  h \notin Unreadable
<1>1. Len(h) \in Nat /\ Len(h) < Len(p) /\ h = SubSeq(p, 1, Len(h))
  BY NextOnWay
<1>2. Len(root) \in Nat /\ Len(p) \in Nat /\ Len(root) <= Len(h)
  BY LenProperties DEF Below
<1>3. Len(h) \in Len(root)..(Len(p) - 1)
  BY <1>1, <1>2
<1> QED
  BY <1>1, <1>3 DEF Readable

(* A path without . and .. is clean.                                       *)
LEMMA CleanIs ==
  ASSUME NEW p \in Seq(Names)
  PROVE  Clean(p) = p
<1> DEFINE n == Len(p)
           cut(k) == SubSeq(p, 1, k)
           After(k, before) == IF p[k] = Dot THEN before
                               ELSE IF p[k] # Up THEN Append(before, p[k])
                               ELSE IF before = <<>> THEN <<>> ELSE Front(before)
           Code(f) == [k \in 0..n |-> IF k = 0 THEN <<>> ELSE After(k, f[k - 1])]
           done == CHOOSE f : f = Code(f)
           g == [k \in 0..n |-> cut(k)]
<1>1. n \in Nat /\ \A k \in 1..n : p[k] \in Names
  BY LenProperties, ElementOfSeq
<1>2. \A k \in 1..n : p[k] # Dot /\ p[k] # Up
  BY <1>1, NameFacts
<1>3. \A before : \A k \in 1..n : After(k, before) = Append(before, p[k])
  BY <1>2
<1>4. Clean(p) = done[n]
  BY DEF Clean
<1>5. cut(0) = <<>> /\ cut(n) = p
  <2>1. 1 \in Int /\ 0 \in Int /\ 0 < 1
    OBVIOUS
  <2>2. SubSeq(p, 1, 0) = <<>>
    BY <2>1, SubSeqEmpty
  <2> QED
    BY <2>2, SubSeqFull
<1>6. \A k \in 1..n : cut(k) = Append(cut(k - 1), p[k])
  <2> SUFFICES ASSUME NEW k \in 1..n PROVE cut(k) = Append(cut(k - 1), p[k])
    OBVIOUS
  <2> DEFINE m == k - 1
             c == SubSeq(p, 1, m + 1)
  <2>1. m \in Nat /\ m + 1 = k /\ m + 1 <= Len(p) /\ m + 1 \in Nat /\ m + 1 \in 1..(m + 1)
    BY <1>1
  <2> HIDE DEF m
  <2>2. c \in Seq(Names) /\ Len(c) = m + 1 /\ c[m + 1] = p[m + 1]
    BY <2>1, CutFacts
  <2>3. c # <<>> /\ Front(c) = SubSeq(p, 1, m)
    BY <2>1, CutFront
  <2>4. Last(c) = p[m + 1]
    BY <2>2 DEF Last
  <2> HIDE DEF c
  <2>5. c = Append(Front(c), Last(c))
    BY <2>2, <2>3, FrontLast
  <2>6. c = Append(SubSeq(p, 1, m), p[m + 1])
    BY <2>3, <2>4, <2>5, Zenon
  <2> QED
    BY <2>1, <2>6 DEF c, m
<1> HIDE DEF n, cut, After
<1>7. g = Code(g)
  <2>1. ASSUME NEW k \in 0..n
        PROVE  cut(k) = IF k = 0 THEN <<>> ELSE After(k, g[k - 1])
    <3>1. CASE k = 0
      BY <1>5, <3>1
    <3>2. CASE k # 0
      <4>1. k \in 1..n /\ k - 1 \in 0..n
        BY <1>1, <3>2
      <4>2. g[k - 1] = cut(k - 1)
        BY <4>1
      <4> QED
        BY <1>3, <1>6, <3>2, <4>1, <4>2
    <3> QED
      BY <3>1, <3>2
  <2> QED
    BY <2>1
<1>8. done = Code(done)
  <2> HIDE DEF Code, g
  <2> QED
    BY <1>7
<1> HIDE DEF done, g
<1>9. \A k \in 0..n : done[k] = IF k = 0 THEN <<>> ELSE After(k, done[k - 1])
  BY <1>8
<1> DEFINE Alike == {k \in Nat : k <= n => done[k] = cut(k)}
<1>10. 0 \in Alike
  BY <1>1, <1>5, <1>9
<1>11. \A k \in 0..(n - 1) : k \in Alike => k + 1 \in Alike
  <2> SUFFICES ASSUME NEW k \in 0..(n - 1), k \in Alike PROVE done[k + 1] = cut(k + 1)
    BY <1>1
  <2>1. k + 1 \in 0..n /\ k + 1 \in 1..n /\ k + 1 # 0 /\ (k + 1) - 1 = k /\ k <= n
    BY <1>1
  <2>2. done[k + 1] = After(k + 1, done[k])
    BY <1>9, <2>1
  <2>3. done[k] = cut(k)
    BY <2>1
  <2>4. cut(k + 1) = Append(cut(k), p[k + 1])
    BY <1>6, <2>1
  <2> QED
    BY <1>3, <2>1, <2>2, <2>3, <2>4
<1>12. 0..n \subseteq Alike
  <2> HIDE DEF Alike
  <2> QED
    BY <1>1, <1>10, <1>11, UpTo
<1>13. done[n] = cut(n)
  BY <1>1, <1>12
<1> QED
  BY <1>4, <1>5, <1>13

(* An entry inside, which is no link, is accepted under its own name.      *)
LEMMA AcceptedAsIs ==
  ASSUME TreeOK(tree), dirs \in Seq(Seq(Names)), NEW p \in Seq(Names),
         KindIn(tree, p) \in {"file", "dir"}, Inside(p)
  PROVE  Validate([form |-> "absolute", parts |-> p]) = Accepted(p)
<1> DEFINE raw == [form |-> "absolute", parts |-> p]
<1>1. Expanded(raw) = p
  BY DEF Expanded
<1>2. Clean(Expanded(raw)) = p
  BY <1>1, CleanIs
<1>3. EvalSymlinks(p) = [err |-> "none", path |-> p]
  BY ResolvesToItself, EvalHere
<1>4. EvalSymlinks(p).err = "none" /\ EvalSymlinks(p).path = p
  BY <1>3
<1>5. anyWithin(p)
  BY AnyWithinIs
<1>6. raw.form = "absolute"
  OBVIOUS
<1> HIDE DEF raw
<1>7. Validate(raw) = Accepted(p)
  BY <1>2, <1>4, <1>5, <1>6 DEF Validate
<1> QED
  BY <1>7 DEF raw

-----------------------------------------------------------------------------
(* The walk of glob, by the parts of its state: the roots and the tree it  *)
(* began with, what it has found, and what it still has to visit.          *)

\* What was there is there, and of the same kind.
Kept(t, u) == \A p : KindIn(t, p) # "absent" => KindIn(u, p) = KindIn(t, p)

InsideOf(list, p) == \E k \in DOMAIN list : Below(list[k], p)

\* A file below a root that the pattern matches and the walk can reach.
Wanted(t, pattern, root, p) ==
  /\ p \in Paths /\ KindIn(t, p) \notin {"absent", "dir"}
  /\ WalkedTo(root, p) /\ Rel(root, p) \in pattern

RootsOK(roots, was, t, list) ==
  /\ TreeOK(was) /\ Kept(was, t)
  /\ roots \in Seq(Seq(Names))
  /\ \A k \in 1..Len(roots) : KindIn(t, roots[k]) = "dir" /\ InsideOf(list, roots[k])

FoundOK(found, roots, pattern, t) ==
  /\ found \in Seq(Paths)
  /\ \A i \in 1..Len(found) :
       \E k \in 1..Len(roots) : Wanted(t, pattern, roots[k], found[i])

Begun(left, roots) == Len(roots) - Len(left)

OnWay(root, p, t) == Below(root, p) /\ Readable(root, p) /\ KindIn(t, p) # "absent"

TodoOK(todo, root, t) ==
  /\ todo \in Seq(Paths)
  /\ \A j \in 1..Len(todo) : OnWay(root, todo[j], t)

LeftOK(left, todo, root, roots) ==
  /\ left \in Seq(Seq(Names)) /\ Begun(left, roots) \in Nat
  /\ \A j \in 1..Len(left) : left[j] = roots[Begun(left, roots) + j]
  /\ todo # <<>> => Begun(left, roots) # 0 /\ root = roots[Begun(left, roots)]

\* p is found, or still ahead.
FoundOrAhead(found, todo, p) ==
  p \in ToSet(found) \/ \E j \in 1..Len(todo) : Below(todo[j], p)

\* Nothing that was there has been missed under the first d roots.
SeenOK(was, roots, pattern, d, found, todo) ==
  \A p : \A k \in 1..Len(roots) :
    Wanted(was, pattern, roots[k], p) =>
      /\ k < d => p \in ToSet(found)
      /\ k = d => FoundOrAhead(found, todo, p)

AllFound(was, roots, pattern, found) ==
  \A p : \A k \in 1..Len(roots) :
    Wanted(was, pattern, roots[k], p) => p \in ToSet(found)

(* What the walk has seen stays true while the tree grows.                 *)
LEMMA WalkKept ==
  ASSUME NEW t, NEW u, Kept(t, u), NEW roots, NEW was, NEW list, NEW found,
         NEW pattern, NEW todo, NEW root
  PROVE  /\ RootsOK(roots, was, t, list) => RootsOK(roots, was, u, list)
         /\ FoundOK(found, roots, pattern, t) => FoundOK(found, roots, pattern, u)
         /\ TodoOK(todo, root, t) => TodoOK(todo, root, u)
<1>1. RootsOK(roots, was, t, list) => RootsOK(roots, was, u, list)
  <2>1. Kept(was, t) => Kept(was, u)
    BY DEF Kept
  <2>2. \A k \in 1..Len(roots) : KindIn(t, roots[k]) = "dir" => KindIn(u, roots[k]) = "dir"
    BY DEF Kept
  <2> QED
    BY <2>1, <2>2, Zenon DEF RootsOK
<1>2. FoundOK(found, roots, pattern, t) => FoundOK(found, roots, pattern, u)
  <2>1. \A r, p : Wanted(t, pattern, r, p) => Wanted(u, pattern, r, p)
    BY DEF Wanted, Kept
  <2> QED
    BY <2>1, Zenon DEF FoundOK
<1>3. TodoOK(todo, root, t) => TodoOK(todo, root, u)
  <2>1. \A p : OnWay(root, p, t) => OnWay(root, p, u)
    BY DEF OnWay, Kept
  <2> QED
    BY <2>1, Zenon DEF TodoOK
<1> QED
  BY <1>1, <1>2, <1>3

(* The next root: it is to be visited, and the ones before it are done     *)
(* (glob.go, the loop over the roots).                                     *)
LEMMA RootNext ==
  ASSUME NEW roots, NEW was, NEW t, NEW list, RootsOK(roots, was, t, list),
         NEW left, NEW root, LeftOK(left, <<>>, root, roots), left # <<>>,
         TreeOK(t)
  PROVE  /\ TodoOK(<<Head(left)>>, Head(left), t)
         /\ LeftOK(Tail(left), <<Head(left)>>, Head(left), roots)
         /\ \A pattern, found :
              SeenOK(was, roots, pattern, Begun(left, roots), found, <<>>)
              => SeenOK(was, roots, pattern, Begun(Tail(left), roots), found, <<Head(left)>>)
<1> DEFINE d == Begun(left, roots)
           r == Head(left)
           rest == Tail(left)
           todo == <<r>>
<1>1. /\ roots \in Seq(Seq(Names)) /\ left \in Seq(Seq(Names)) /\ d \in Nat
      /\ Len(roots) \in Nat /\ Len(left) \in Nat /\ Len(left) # 0
      /\ d = Len(roots) - Len(left)
      /\ \A j \in 1..Len(left) : left[j] = roots[d + j]
  <2>1. roots \in Seq(Seq(Names)) /\ left \in Seq(Seq(Names))
    BY DEF RootsOK, LeftOK
  <2>2. Len(roots) \in Nat /\ Len(left) \in Nat /\ Len(left) # 0
    BY <2>1, LenProperties, EmptySeq
  <2> QED
    BY <2>1, <2>2 DEF LeftOK, Begun
<1>2. r = left[1] /\ 1 \in 1..Len(left)
  BY <1>1
<1>3. /\ rest \in Seq(Seq(Names)) /\ Len(rest) = Len(left) - 1
      /\ \A j \in 1..Len(rest) : rest[j] = left[j + 1]
  BY <1>1, HeadTailProperties
<1> HIDE DEF r, rest, d
<1>4. d + 1 \in 1..Len(roots) /\ r = roots[d + 1]
  BY <1>1, <1>2
<1>5. Begun(rest, roots) = d + 1
  BY <1>1, <1>3 DEF Begun
<1>6. /\ r \in Seq(Names) /\ KindIn(t, r) = "dir" /\ r \in Paths
  <2>1. r \in Seq(Names)
    BY <1>1, <1>4, ElementOfSeq
  <2>2. KindIn(t, r) = "dir"
    BY <1>4 DEF RootsOK
  <2> QED
    BY <2>1, <2>2, TreeFacts
<1>7. todo \in Seq(Paths) /\ Len(todo) = 1 /\ todo[1] = r /\ todo # <<>>
  <2>1. todo \in Seq(Paths)
    BY <1>6, Single
  <2> QED
    BY <2>1
<1>8. OnWay(r, r, t)
  <2>1. Len(r) \in Nat /\ SubSeq(r, 1, Len(r)) = r
    BY <1>6, LenProperties, SubSeqFull
  <2>2. Below(r, r) /\ Readable(r, r)
    BY <2>1 DEF Below, Readable
  <2> QED
    BY <1>6, <2>2 DEF OnWay
<1> HIDE DEF todo
<1>9. TodoOK(todo, r, t)
  <2>1. \A j \in 1..Len(todo) : todo[j] = r
    BY <1>7
  <2> QED
    BY <1>7, <1>8, <2>1, Zenon DEF TodoOK
<1>10. LeftOK(rest, todo, r, roots)
  <2>1. \A j \in 1..Len(rest) : rest[j] = roots[(d + 1) + j]
    <3> SUFFICES ASSUME NEW j \in 1..Len(rest) PROVE rest[j] = roots[(d + 1) + j]
      OBVIOUS
    <3>1. j + 1 \in 1..Len(left) /\ d + (j + 1) = (d + 1) + j
      BY <1>1, <1>3
    <3>2. rest[j] = left[j + 1] /\ left[j + 1] = roots[d + (j + 1)]
      BY <1>1, <1>3, <3>1, Zenon
    <3> QED
      BY <3>1, <3>2, Zenon
  <2>2. d + 1 \in Nat /\ d + 1 # 0
    BY <1>1
  <2> QED
    BY <1>3, <1>4, <1>5, <2>1, <2>2, Zenon DEF LeftOK
<1>11. ASSUME NEW pattern, NEW found, SeenOK(was, roots, pattern, d, found, <<>>)
       PROVE  SeenOK(was, roots, pattern, Begun(rest, roots), found, todo)
  <2> SUFFICES ASSUME NEW k \in 1..Len(roots), NEW p, Wanted(was, pattern, roots[k], p)
               PROVE  /\ k < d + 1 => p \in ToSet(found)
                      /\ k = d + 1 => FoundOrAhead(found, todo, p)
    BY <1>5, Zenon DEF SeenOK
  <2>1. /\ k < d => p \in ToSet(found)
        /\ k = d => FoundOrAhead(found, <<>>, p)
    BY <1>11, Zenon DEF SeenOK
  <2>2. FoundOrAhead(found, <<>>, p) => p \in ToSet(found)
    <3>1. \A j : j \notin 1..Len(<<>>)
      BY EmptySeq
    <3> QED
      BY <3>1, Zenon DEF FoundOrAhead
  <2>3. k < d + 1 => k < d \/ k = d
    <3>1. \A i, j \in Nat : i < j + 1 => i < j \/ i = j
      OBVIOUS
    <3>2. k \in Nat /\ d \in Nat
      BY <1>1
    <3> QED
      BY <3>1, <3>2, Zenon
  <2>4. ASSUME k = d + 1 PROVE FoundOrAhead(found, todo, p)
    <3>1. Below(r, p)
      BY <1>4, <2>4 DEF Wanted, WalkedTo
    <3>2. 1 \in 1..Len(todo) /\ Below(todo[1], p)
      BY <1>7, <3>1
    <3> QED
      BY <3>2, Zenon DEF FoundOrAhead
  <2> QED
    BY <2>1, <2>2, <2>3, <2>4
<1>12. \A pattern, found :
         SeenOK(was, roots, pattern, d, found, <<>>)
         => SeenOK(was, roots, pattern, Begun(rest, roots), found, todo)
  BY <1>11
<1> QED
  BY <1>9, <1>10, <1>12 DEF r, rest, todo, d

\* What the visit of an entry leaves to be visited.
Under(h) == IF Kind(h) = "dir" /\ h \notin Unreadable THEN Entered(h) ELSE <<>>

(* The entries of a directory are on the way as the directory is.          *)
LEMMA UnderOK ==
  ASSUME TreeOK(tree), IsFiniteSet(Present(tree)), NEW root \in Seq(Names),
         NEW h \in Paths, OnWay(root, h, tree)
  PROVE  /\ TodoOK(Under(h), root, tree)
         /\ KindIn(tree, h) = "dir" /\ h \notin Unreadable =>
              \A q \in Children(tree, h) : \E k \in 1..Len(Under(h)) : Under(h)[k] = q
<1> DEFINE u == Under(h)
<1>1. Kind(h) = KindIn(tree, h)
  BY EvalHere
<1>2. CASE ~(Kind(h) = "dir" /\ h \notin Unreadable)
  <2>1. u = <<>>
    BY <1>2 DEF Under
  <2>2. <<>> \in Seq(Paths) /\ \A j : j \notin 1..Len(<<>>)
    BY EmptySeq
  <2>3. TodoOK(u, root, tree)
    BY <2>1, <2>2, Zenon DEF TodoOK
  <2> QED
    BY <1>1, <1>2, <2>3
<1>3. CASE Kind(h) = "dir" /\ h \notin Unreadable
  <2>1. u = Entered(h)
    BY <1>3 DEF Under
  <2>2. /\ u \in Seq(Children(tree, h))
        /\ \A q \in Children(tree, h) : \E k \in 1..Len(u) : u[k] = q
    BY <2>1, EnteredIs, Zenon
  <2>3. \A q \in Children(tree, h) : q \in Paths /\ OnWay(root, q, tree)
    <3> SUFFICES ASSUME NEW q \in Children(tree, h)
                 PROVE  q \in Paths /\ OnWay(root, q, tree)
      OBVIOUS
    <3>1. /\ q \in Paths /\ q \in Seq(Names) /\ q # <<>> /\ Front(q) = h
          /\ KindIn(tree, q) # "absent"
      BY PathsAre DEF Children
    <3>2. Below(root, q) /\ Readable(root, q)
      BY <1>3, <3>1, ChildOnWay DEF OnWay
    <3> QED
      BY <3>1, <3>2 DEF OnWay
  <2> HIDE DEF u
  <2>4. \A k \in 1..Len(u) : u[k] \in Children(tree, h)
    BY <2>2, ElementOfSeq
  <2>5. u \in Seq(Paths)
    <3>1. Children(tree, h) \subseteq Paths
      BY <2>3
    <3> QED
      BY <2>2, <3>1, SeqMonotonic
  <2>6. TodoOK(u, root, tree)
    BY <2>3, <2>4, <2>5, Zenon DEF TodoOK
  <2> QED
    BY <2>2, <2>6 DEF u
<1> QED
  BY <1>2, <1>3

\* c holds what a holds and what b holds.
Holding(c, a, b) ==
  /\ \A j \in 1..Len(c) : \/ \E i \in 1..Len(a) : c[j] = a[i]
                          \/ \E i \in 1..Len(b) : c[j] = b[i]
  /\ \A i \in 1..Len(a) : \E j \in 1..Len(c) : c[j] = a[i]
  /\ \A i \in 1..Len(b) : \E j \in 1..Len(c) : c[j] = b[i]

(* A sequence of two parts.                                                *)
LEMMA PartsOf ==
  ASSUME NEW D, NEW a \in Seq(D), NEW b \in Seq(D)
  PROVE  a \o b \in Seq(D) /\ Holding(a \o b, a, b)
<1> DEFINE c == a \o b
           m == Len(a)
           n == Len(b)
<1>1. /\ c \in Seq(D) /\ Len(c) = m + n /\ m \in Nat /\ n \in Nat
      /\ \A i \in 1..(m + n) : c[i] = IF i <= m THEN a[i] ELSE b[i - m]
  BY ConcatProperties, LenProperties
<1> HIDE DEF c, m, n
<1>2. \A j \in 1..Len(c) : \/ \E i \in 1..m : c[j] = a[i]
                           \/ \E i \in 1..n : c[j] = b[i]
  <2> SUFFICES ASSUME NEW j \in 1..Len(c)
               PROVE  (\E i \in 1..m : c[j] = a[i]) \/ (\E i \in 1..n : c[j] = b[i])
    OBVIOUS
  <2>1. CASE j <= m
    <3>1. j \in 1..m /\ c[j] = a[j]
      BY <1>1, <2>1
    <3> QED
      BY <3>1, Zenon
  <2>2. CASE ~(j <= m)
    <3>1. j - m \in 1..n /\ c[j] = b[j - m]
      BY <1>1, <2>2
    <3> QED
      BY <3>1, Zenon
  <2> QED
    BY <2>1, <2>2
<1>3. ASSUME NEW i \in 1..m PROVE \E j \in 1..Len(c) : c[j] = a[i]
  <2>1. i \in 1..Len(c) /\ c[i] = a[i]
    BY <1>1
  <2> QED
    BY <2>1, Zenon
<1>4. ASSUME NEW i \in 1..n PROVE \E j \in 1..Len(c) : c[j] = b[i]
  <2>1. m + i \in 1..Len(c) /\ c[m + i] = b[i]
    BY <1>1
  <2> QED
    BY <2>1, Zenon
<1> QED
  BY <1>1, <1>2, <1>3, <1>4, Zenon DEF c, m, n, Holding

\* Visiting the first of todo, with what it holds put before the rest.
Visited(todo) == Under(Head(todo)) \o Tail(todo)

(* After a visit everything to be visited is on the way, and what was      *)
(* below the entry is below one of those it holds, unless it is the entry. *)
LEMMA VisitedOK ==
  ASSUME TreeOK(tree), IsFiniteSet(Present(tree)), NEW root \in Seq(Names),
         NEW todo, todo # <<>>, TodoOK(todo, root, tree)
  PROVE  /\ Head(todo) \in Paths /\ OnWay(root, Head(todo), tree)
         /\ TodoOK(Visited(todo), root, tree)
         /\ \A p : p \in Seq(Names) /\ KindIn(tree, p) # "absent" /\ Readable(root, p)
                     /\ (\E j \in 1..Len(todo) : Below(todo[j], p))
                   => p = Head(todo) \/ \E j \in 1..Len(Visited(todo)) : Below(Visited(todo)[j], p)
<1> DEFINE h == Head(todo)
           rest == Tail(todo)
           u == Under(h)
           next == Visited(todo)
<1>1. /\ todo \in Seq(Paths) /\ \A j \in 1..Len(todo) : OnWay(root, todo[j], tree)
  BY DEF TodoOK
<1>2. Len(todo) \in Nat /\ Len(todo) # 0
  BY <1>1, LenProperties, EmptySeq
<1>3. h = todo[1] /\ 1 \in 1..Len(todo)
  BY <1>1, <1>2
<1>4. /\ h \in Paths /\ rest \in Seq(Paths) /\ Len(rest) = Len(todo) - 1
      /\ \A i \in 1..Len(rest) : rest[i] = todo[i + 1]
  BY <1>1, HeadTailProperties
<1>5. next = u \o rest
  BY DEF Visited
<1> HIDE DEF h, rest, next
<1>6. OnWay(root, h, tree)
  BY <1>1, <1>3, Zenon
<1>7. /\ TodoOK(u, root, tree)
      /\ KindIn(tree, h) = "dir" /\ h \notin Unreadable =>
           \A q \in Children(tree, h) : \E k \in 1..Len(u) : u[k] = q
  BY <1>4, <1>6, UnderOK, Zenon
<1> HIDE DEF u
<1>8. u \in Seq(Paths) /\ \A j \in 1..Len(u) : OnWay(root, u[j], tree)
  BY <1>7 DEF TodoOK
<1>9. next \in Seq(Paths) /\ Holding(next, u, rest)
  BY <1>4, <1>5, <1>8, PartsOf, Zenon
<1>10. \A i \in 1..Len(rest) : OnWay(root, rest[i], tree)
  <2>1. \A i \in 1..Len(rest) : i + 1 \in 1..Len(todo)
    BY <1>2, <1>4
  <2> QED
    BY <1>1, <1>4, <2>1, Zenon
<1>11. TodoOK(next, root, tree)
  BY <1>8, <1>9, <1>10, Zenon DEF TodoOK, Holding
<1>12. ASSUME NEW p, p \in Seq(Names), KindIn(tree, p) # "absent", Readable(root, p),
              NEW j \in 1..Len(todo), Below(todo[j], p), p # h
       PROVE  \E i \in 1..Len(next) : Below(next[i], p)
  <2>1. CASE j = 1
    <3> DEFINE c == SubSeq(p, 1, Len(h) + 1)
    <3>1. h \in Seq(Names) /\ Below(h, p) /\ Below(root, h)
      BY <1>3, <1>4, <1>6, <1>12, <2>1, PathsAre DEF OnWay
    <3>2. /\ Len(h) \in Nat /\ Len(h) < Len(p) /\ h = SubSeq(p, 1, Len(h))
          /\ c \in Seq(Names) /\ c # <<>> /\ Front(c) = h /\ Below(c, p)
      BY <1>12, <3>1, NextOnWay
    <3>3. KindIn(tree, SubSeq(p, 1, Len(h))) = "dir"
      BY <1>12, <3>2, Above
    <3>4. KindIn(tree, h) = "dir" /\ h \notin Unreadable
      BY <1>12, <3>1, <3>2, <3>3, ReadableOnWay
    <3>5. KindIn(tree, c) # "absent"
      <4>1. Len(h) + 1 = Len(p) \/ Len(h) + 1 < Len(p)
        BY <3>2, LenProperties
      <4>2. CASE Len(h) + 1 = Len(p)
        <5>1. c = p
          BY <4>2, <1>12, SubSeqFull
        <5> QED
          BY <1>12, <5>1
      <4>3. CASE Len(h) + 1 < Len(p)
        <5>1. Len(h) + 1 \in Nat
          BY <3>2
        <5>2. KindIn(tree, c) = "dir"
          BY <1>12, <4>3, <5>1, Above
        <5> QED
          BY <5>2
      <4> QED
        BY <4>1, <4>2, <4>3
    <3> HIDE DEF c
    <3>6. c \in Children(tree, h)
      BY <3>2, <3>5, TreeFacts DEF Children
    <3>7. PICK k \in 1..Len(u) : u[k] = c
      BY <1>7, <3>4, <3>6, Zenon
    <3>8. PICK i \in 1..Len(next) : next[i] = u[k]
      BY <1>9, Zenon DEF Holding
    <3> QED
      BY <3>2, <3>7, <3>8, Zenon
  <2>2. CASE j # 1
    <3>1. j - 1 \in 1..Len(rest) /\ (j - 1) + 1 = j
      BY <1>2, <1>4, <2>2
    <3>2. rest[j - 1] = todo[j]
      BY <1>4, <3>1, Zenon
    <3>3. PICK i \in 1..Len(next) : next[i] = rest[j - 1]
      BY <1>9, <3>1, Zenon DEF Holding
    <3> QED
      BY <1>12, <3>2, <3>3, Zenon
  <2> QED
    BY <2>1, <2>2
<1>13. \A p : p \in Seq(Names) /\ KindIn(tree, p) # "absent" /\ Readable(root, p)
                /\ (\E j \in 1..Len(todo) : Below(todo[j], p))
              => p = h \/ \E j \in 1..Len(next) : Below(next[j], p)
  BY <1>12, Zenon
<1> QED
  BY <1>4, <1>6, <1>11, <1>13, Zenon DEF h, next

\* What is found when h has been visited.
FoundBy(h, root, pattern, found) ==
  IF Kind(h) # "dir" /\ Rel(root, h) \in pattern THEN Append(found, h) ELSE found

(* A visit: the entry is found if it is a file that matches, and nothing   *)
(* that was there is lost (glob.go, the function passed to WalkDir).       *)
LEMMA VisitFinds ==
  ASSUME TreeOK(tree), IsFiniteSet(Present(tree)),
         NEW roots, NEW was, NEW list, RootsOK(roots, was, tree, list),
         NEW left, NEW root, NEW todo, todo # <<>>, TodoOK(todo, root, tree),
         LeftOK(left, todo, root, roots),
         NEW pattern, NEW found, FoundOK(found, roots, pattern, tree)
  PROVE  /\ FoundOK(FoundBy(Head(todo), root, pattern, found), roots, pattern, tree)
         /\ TodoOK(Visited(todo), root, tree)
         /\ SeenOK(was, roots, pattern, Begun(left, roots), found, todo)
            => SeenOK(was, roots, pattern, Begun(left, roots),
                      FoundBy(Head(todo), root, pattern, found), Visited(todo))
<1> DEFINE d == Begun(left, roots)
           h == Head(todo)
           rest == Visited(todo)
           next == FoundBy(h, root, pattern, found)
           matches == Kind(h) # "dir" /\ Rel(root, h) \in pattern
<1>1. d \in 1..Len(roots) /\ root = roots[d]
  <2>1. /\ left \in Seq(Seq(Names)) /\ d \in Nat /\ d # 0 /\ root = roots[d]
    BY DEF LeftOK
  <2>2. Len(left) \in Nat /\ Len(roots) \in Nat
    BY <2>1, LenProperties DEF RootsOK
  <2> QED
    BY <2>1, <2>2 DEF Begun
<1>2. root \in Seq(Names) /\ KindIn(tree, root) = "dir"
  <2>1. roots \in Seq(Seq(Names)) /\ KindIn(tree, roots[d]) = "dir"
    BY <1>1, Zenon DEF RootsOK
  <2> HIDE DEF d
  <2> QED
    BY <1>1, <2>1, ElementOfSeq
<1>3. /\ h \in Paths /\ OnWay(root, h, tree)
      /\ TodoOK(rest, root, tree)
      /\ \A p : p \in Seq(Names) /\ KindIn(tree, p) # "absent" /\ Readable(root, p)
                  /\ (\E j \in 1..Len(todo) : Below(todo[j], p))
                => p = h \/ \E j \in 1..Len(rest) : Below(rest[j], p)
  BY <1>2, VisitedOK, Zenon
<1>4. Kind(h) = KindIn(tree, h)
  BY EvalHere
<1>5. next = IF matches THEN Append(found, h) ELSE found
  BY DEF FoundBy
<1> HIDE DEF d, h, rest, matches, next
<1>6. found \in Seq(Paths) /\ \A i \in 1..Len(found) :
        \E k \in 1..Len(roots) : Wanted(tree, pattern, roots[k], found[i])
  BY DEF FoundOK
<1>7. ASSUME matches
      PROVE  /\ FoundOK(next, roots, pattern, tree) /\ ToSet(found) \subseteq ToSet(next)
             /\ h \in ToSet(next)
  <2>1. next = Append(found, h)
    BY <1>5, <1>7 DEF matches
  <2>2. Wanted(tree, pattern, roots[d], h)
    <3>1. Below(root, h) /\ Readable(root, h) /\ KindIn(tree, h) # "absent"
      BY <1>3 DEF OnWay
    <3>2. WalkedTo(root, h)
      BY <1>2, <1>4, <1>7, <3>1 DEF WalkedTo, Readable, matches
    <3> QED
      BY <1>1, <1>3, <1>4, <1>7, <3>1, <3>2 DEF Wanted, matches
  <2>3. /\ next \in Seq(Paths) /\ Len(next) = Len(found) + 1
        /\ \A i \in 1..Len(found) : next[i] = found[i]
        /\ next[Len(found) + 1] = h
    BY <1>3, <1>6, <2>1, AppendProperties
  <2>4. Len(found) \in Nat
    BY <1>6, LenProperties
  <2>5. \A i \in 1..Len(next) : i \in 1..Len(found) \/ i = Len(found) + 1
    BY <2>3, <2>4
  <2>6. \A i \in 1..Len(next) :
          \E k \in 1..Len(roots) : Wanted(tree, pattern, roots[k], next[i])
    BY <1>1, <1>6, <2>2, <2>3, <2>5, Zenon
  <2>7. FoundOK(next, roots, pattern, tree)
    BY <2>3, <2>6, Zenon DEF FoundOK
  <2>8. ToSet(found) \subseteq ToSet(next) /\ h \in ToSet(next)
    <3>1. DOMAIN found = 1..Len(found) /\ DOMAIN next = 1..Len(next)
      BY <1>6, <2>3, LenProperties
    <3>2. Len(found) + 1 \in 1..Len(next) /\ \A i \in 1..Len(found) : i \in 1..Len(next)
      BY <2>3, <2>4
    <3> QED
      BY <2>3, <3>1, <3>2, Zenon DEF ToSet
  <2> QED
    BY <2>7, <2>8
<1>8. ASSUME ~matches
      PROVE  FoundOK(next, roots, pattern, tree) /\ ToSet(found) \subseteq ToSet(next)
  <2>1. next = found
    BY <1>5, <1>8
  <2> QED
    BY <2>1
<1>9. /\ FoundOK(next, roots, pattern, tree) /\ ToSet(found) \subseteq ToSet(next)
      /\ matches => h \in ToSet(next)
  BY <1>7, <1>8
<1>10. ASSUME SeenOK(was, roots, pattern, d, found, todo)
       PROVE  SeenOK(was, roots, pattern, d, next, rest)
  <2> SUFFICES ASSUME NEW p, NEW k \in 1..Len(roots), Wanted(was, pattern, roots[k], p)
               PROVE  /\ k < d => p \in ToSet(next)
                      /\ k = d => FoundOrAhead(next, rest, p)
    BY Zenon DEF SeenOK
  <2>1. /\ k < d => p \in ToSet(found)
        /\ k = d => FoundOrAhead(found, todo, p)
    BY <1>10, Zenon DEF SeenOK
  <2>2. k < d => p \in ToSet(next)
    BY <1>9, <2>1
  <2>3. ASSUME k = d, p \in ToSet(found) PROVE FoundOrAhead(next, rest, p)
    BY <1>9, <2>3, Zenon DEF FoundOrAhead
  <2>4. ASSUME k = d, NEW j \in 1..Len(todo), Below(todo[j], p)
        PROVE  FoundOrAhead(next, rest, p)
    <3>1. /\ p \in Paths /\ KindIn(was, p) \notin {"absent", "dir"}
          /\ WalkedTo(root, p) /\ Rel(root, p) \in pattern
      BY <1>1, <2>4 DEF Wanted
    <3>2. KindIn(tree, p) = KindIn(was, p)
      BY <3>1 DEF RootsOK, Kept
    <3>3. Readable(root, p) /\ p \in Seq(Names)
      BY <3>1, PathsAre DEF WalkedTo, Readable
    <3>4. p = h \/ \E i \in 1..Len(rest) : Below(rest[i], p)
      BY <1>3, <2>4, <3>1, <3>2, <3>3, Zenon
    <3>5. p = h => matches
      BY <1>4, <3>1, <3>2 DEF matches
    <3>6. p = h => p \in ToSet(next)
      BY <1>9, <3>5
    <3> QED
      BY <3>4, <3>6, Zenon DEF FoundOrAhead
  <2> QED
    BY <2>1, <2>2, <2>3, <2>4, Zenon DEF FoundOrAhead
<1> QED
  BY <1>3, <1>9, <1>10, Zenon DEF d, h, rest, next

(* Before the first root nothing is found and nothing is missed.           *)
LEMMA WalkBegins ==
  ASSUME NEW roots \in Seq(Seq(Names)), NEW was, NEW t, NEW pattern, NEW root
  PROVE  /\ FoundOK(<<>>, roots, pattern, t) /\ TodoOK(<<>>, root, t)
         /\ LeftOK(roots, <<>>, root, roots)
         /\ SeenOK(was, roots, pattern, Begun(roots, roots), <<>>, <<>>)
<1>1. <<>> \in Seq(Paths) /\ \A j : j \notin 1..Len(<<>>)
  BY EmptySeq
<1>2. Len(roots) \in Nat /\ Begun(roots, roots) = 0
  BY LenProperties DEF Begun
<1>3. FoundOK(<<>>, roots, pattern, t) /\ TodoOK(<<>>, root, t)
  BY <1>1, Zenon DEF FoundOK, TodoOK
<1>4. LeftOK(roots, <<>>, root, roots)
  <2>1. \A j \in 1..Len(roots) : 0 + j = j
    BY <1>2
  <2> QED
    BY <1>2, <2>1 DEF LeftOK
<1>5. \A k \in 1..Len(roots) : ~(k < 0) /\ k # 0
  BY <1>2
<1>6. SeenOK(was, roots, pattern, 0, <<>>, <<>>)
  BY <1>5, Zenon DEF SeenOK
<1> QED
  BY <1>2, <1>3, <1>4, <1>6

(* Behind the last root everything is found.                               *)
LEMMA WalkEnds ==
  ASSUME NEW roots \in Seq(Seq(Names)), NEW was, NEW pattern, NEW found,
         SeenOK(was, roots, pattern, Begun(<<>>, roots), found, <<>>)
  PROVE  AllFound(was, roots, pattern, found)
<1>1. Begun(<<>>, roots) = Len(roots) /\ Len(roots) \in Nat
  <2>1. Len(roots) \in Nat /\ Len(<<>>) = 0
    BY LenProperties, EmptySeq
  <2> QED
    BY <2>1 DEF Begun
<1>2. \A k \in 1..Len(roots) : k < Len(roots) \/ k = Len(roots)
  BY <1>1
<1>3. \A p : FoundOrAhead(found, <<>>, p) => p \in ToSet(found)
  <2>1. \A j : j \notin 1..Len(<<>>)
    BY EmptySeq
  <2> QED
    BY <2>1, Zenon DEF FoundOrAhead
<1>4. SeenOK(was, roots, pattern, Len(roots), found, <<>>)
  BY <1>1
<1> QED
  BY <1>2, <1>3, <1>4, Zenon DEF SeenOK, AllFound

-----------------------------------------------------------------------------
(* The invariant of a search by glob, in the tree t and with the allowed   *)
(* directories list.                                                       *)

\* While it walks.
WalkOK(s, t) ==
  /\ TodoOK(s.todo, s.root, t) /\ LeftOK(s.left, s.todo, s.root, s.roots)
  /\ s.todo = <<>> \/ ~s.stopped
  /\ \/ s.stopped
     \/ SeenOK(s.was, s.roots, s.call.pattern, Begun(s.left, s.roots), s.found, s.todo)

\* When it has answered.
AnswerOK(s) ==
  /\ Capping(s.found, s.results)
  /\ "limit" \in s.notes \/ Len(s.found) <= GlobMaxResults
  /\ "scan" \in s.notes \/ AllFound(s.was, s.roots, s.call.pattern, s.found)

GlobOK(s, t, list) ==
  \/ s.at = "done" /\ s.err # "none"
  \/ /\ RootsOK(s.roots, s.was, t, list) /\ FoundOK(s.found, s.roots, s.call.pattern, t)
     /\ \/ s.at = "walk" /\ WalkOK(s, t)
        \/ s.at = "done" /\ AnswerOK(s)

Globbing(s) == s.at # "idle" /\ s.call.tool = "glob"

SearchInv ==
  /\ DOMAIN search = DOMAIN NoSearch
  /\ IsFiniteSet(Present(tree))
  /\ \A k \in DOMAIN dirs : KindIn(tree, dirs[k]) = "dir"
  /\ Globbing(search) => GlobOK(search, tree, dirs)

(* A tree that has grown by one entry has kept what it had.                *)
LEMMA GrownKept ==
  ASSUME NEW t, NEW u, NEW c, Grown(t, u, c), IsFiniteSet(Present(t))
  PROVE  Kept(t, u) /\ IsFiniteSet(Present(u))
<1>1. KindIn(t, c) = "absent" /\ c \in Paths
  BY DEF Grown
<1>2. \A p : p # c => KindIn(u, p) = KindIn(t, p)
  BY GrownFacts
<1>3. Kept(t, u)
  BY <1>1, <1>2 DEF Kept
<1>4. Present(u) \subseteq Present(t) \cup {c}
  BY <1>2 DEF Present, KindIn
<1>5. IsFiniteSet(Present(t) \cup {c})
  BY FS_AddElement
<1>6. IsFiniteSet(Present(u))
  BY <1>4, <1>5, FS_Subset
<1> QED
  BY <1>3, <1>6

(* While requests create entries a search keeps what it knows.             *)
LEMMA SearchKept ==
  ASSUME SearchInv, Kept(tree, tree'), IsFiniteSet(Present(tree')),
         UNCHANGED <<dirs, search>>
  PROVE  SearchInv'
<1> DEFINE t == tree
           u == tree'
<1>1. dirs' = dirs /\ search' = search
  OBVIOUS
<1>2. \A k \in DOMAIN dirs : KindIn(u, dirs[k]) = "dir"
  BY DEF SearchInv, Kept
<1>3. GlobOK(search, t, dirs) => GlobOK(search, u, dirs)
  <2> HIDE DEF t, u
  <2>0. Kept(t, u)
    BY DEF t, u
  <2>1. /\ RootsOK(search.roots, search.was, t, dirs)
           => RootsOK(search.roots, search.was, u, dirs)
        /\ FoundOK(search.found, search.roots, search.call.pattern, t)
           => FoundOK(search.found, search.roots, search.call.pattern, u)
        /\ TodoOK(search.todo, search.root, t) => TodoOK(search.todo, search.root, u)
    BY <2>0, WalkKept, Zenon
  <2>2. WalkOK(search, t) => WalkOK(search, u)
    BY <2>1, Zenon DEF WalkOK
  <2> QED
    BY <2>1, <2>2, Zenon DEF GlobOK
<1>4. Globbing(search) => GlobOK(search, u, dirs)
  BY <1>3 DEF SearchInv
<1>5. IsFiniteSet(Present(tree))'
  OBVIOUS
<1>6. (\A k \in DOMAIN dirs : KindIn(tree, dirs[k]) = "dir")'
  BY <1>1, <1>2
<1>7. (Globbing(search) => GlobOK(search, tree, dirs))'
  BY <1>1, <1>4
<1>8. (DOMAIN search = DOMAIN NoSearch)'
  BY <1>1 DEF SearchInv
<1> QED
  BY <1>5, <1>6, <1>7, <1>8 DEF SearchInv

(* The roots a search begins with: the allowed directories, or the         *)
(* directory that was named (glob.go and grep.go, searchRoots).            *)
LEMMA SearchRootsOK ==
  ASSUME GuardInv, \A k \in DOMAIN dirs : KindIn(tree, dirs[k]) = "dir",
         NEW raw \in SearchPaths, searchRoots(raw).err = "none"
  PROVE  RootsOK(searchRoots(raw).roots, tree, tree, dirs)
<1>1. TreeOK(tree) /\ dirs \in Seq(Seq(Names)) /\ Kept(tree, tree)
  BY DEF GuardInv, Kept
<1>2. CASE raw = NoPath
  <2>1. searchRoots(raw).roots = dirs
    BY <1>2 DEF searchRoots
  <2>2. DOMAIN dirs = 1..Len(dirs)
    BY <1>1, LenProperties
  <2>3. ASSUME NEW k \in 1..Len(dirs) PROVE InsideOf(dirs, dirs[k])
    <3>1. dirs[k] \in Seq(Names)
      BY <1>1, <2>3, ElementOfSeq
    <3>2. Below(dirs[k], dirs[k])
      BY <3>1, LenProperties, SubSeqFull DEF Below
    <3> QED
      BY <2>2, <3>2, Zenon DEF InsideOf
  <2> QED
    BY <1>1, <2>1, <2>2, <2>3, Zenon DEF RootsOK
<1>3. CASE raw # NoPath
  <2> DEFINE p == Validate(raw).path
  <2>1. raw \in RawPaths
    BY <1>3, SearchAssumption
  <2>2. Validate(raw).err = "none" /\ Kind(p) = "dir" /\ searchRoots(raw).roots = <<p>>
    <3>1. CASE Validate(raw).err # "none"
      BY <1>3, <3>1 DEF searchRoots
    <3>2. CASE Validate(raw).err = "none"
      BY <1>3, <3>2 DEF searchRoots
    <3> QED
      BY <3>1, <3>2
  <2>3. Settled(tree, p)
    BY <1>1, <2>1, <2>2, ValidateSettles
  <2> HIDE DEF p
  <2>4. p \in Seq(Names) /\ InsideOf(dirs, p)
    BY <2>3 DEF Settled, Inside, InsideOf
  <2>5. KindIn(tree, p) = "dir"
    BY <2>2, EvalHere
  <2> DEFINE one == <<p>>
  <2>6. one \in Seq(Seq(Names)) /\ Len(one) = 1 /\ one[1] = p
    <3>1. one \in Seq(Seq(Names))
      BY <2>4, Single
    <3> QED
      BY <3>1
  <2>7. searchRoots(raw).roots = one
    BY <2>2
  <2> HIDE DEF one
  <2>8. \A k \in 1..Len(one) : one[k] = p
    BY <2>6
  <2> QED
    BY <1>1, <2>4, <2>5, <2>6, <2>7, <2>8, Zenon DEF RootsOK
<1> QED
  BY <1>2, <1>3

(* What a step of the search has to show.                                  *)
LEMMA SearchMoves ==
  ASSUME SearchInv, UNCHANGED guardVars,
         DOMAIN search' = DOMAIN NoSearch,
         Globbing(search') => GlobOK(search', tree, dirs)
  PROVE  SearchInv'
<1>1. tree' = tree /\ dirs' = dirs
  BY DEF guardVars
<1>2. (DOMAIN search = DOMAIN NoSearch)'
  OBVIOUS
<1>3. (Globbing(search) => GlobOK(search, tree, dirs))'
  BY <1>1
<1>4. (IsFiniteSet(Present(tree)))'
  BY <1>1 DEF SearchInv
<1>5. (\A k \in DOMAIN dirs : KindIn(tree, dirs[k]) = "dir")'
  BY <1>1 DEF SearchInv
<1> QED
  BY <1>2, <1>3, <1>4, <1>5 DEF SearchInv

(* A search begins.                                                        *)
LEMMA StartSearchStep ==
  ASSUME GuardInv, SearchInv, NEW call \in Searches, NEW raw \in SearchPaths,
         StartSearch(call, raw)
  PROVE  SearchInv'
<1> DEFINE start == searchRoots(raw)
           s == search'
<1>1. /\ UNCHANGED guardVars
      /\ s = [NoSearch EXCEPT
                !.at = IF start.err # "none" THEN "done"
                       ELSE IF call.tool = "grep" /\ call.rg THEN "rg"
                       ELSE "walk",
                !.call = call, !.was = tree, !.roots = start.roots,
                !.left = start.roots, !.err = start.err]
  BY DEF StartSearch
<1> HIDE DEF start, s
<1>2. /\ DOMAIN s = DOMAIN NoSearch
      /\ s.at = IF start.err # "none" THEN "done"
                ELSE IF call.tool = "grep" /\ call.rg THEN "rg" ELSE "walk"
      /\ s.call = call /\ s.was = tree /\ s.roots = start.roots
      /\ s.left = start.roots /\ s.err = start.err
      /\ s.root = <<>> /\ s.todo = <<>> /\ s.found = <<>>
  BY <1>1 DEF NoSearch
<1>3. ASSUME Globbing(s) PROVE GlobOK(s, tree, dirs)
  <2>1. CASE start.err # "none"
    BY <1>2, <2>1 DEF GlobOK
  <2>2. CASE start.err = "none"
    <3>1. s.at = "walk"
      BY <1>2, <1>3, <2>2 DEF Globbing
    <3>2. RootsOK(start.roots, tree, tree, dirs)
      BY <2>2, SearchRootsOK DEF SearchInv, start
    <3>3. start.roots \in Seq(Seq(Names))
      BY <3>2 DEF RootsOK
    <3>4. /\ FoundOK(<<>>, start.roots, call.pattern, tree) /\ TodoOK(<<>>, <<>>, tree)
          /\ LeftOK(start.roots, <<>>, <<>>, start.roots)
          /\ SeenOK(tree, start.roots, call.pattern, Begun(start.roots, start.roots),
                    <<>>, <<>>)
      BY <3>3, WalkBegins, Zenon
    <3>5. WalkOK(s, tree)
      BY <1>2, <3>4 DEF WalkOK
    <3> QED
      BY <1>2, <3>1, <3>2, <3>4, <3>5 DEF GlobOK
  <2> QED
    BY <2>1, <2>2
<1> QED
  BY <1>1, <1>2, <1>3, SearchMoves DEF s

(* The next root.                                                          *)
LEMMA NextRootStep ==
  ASSUME GuardInv, SearchInv, NextRoot
  PROVE  SearchInv'
<1> DEFINE s == search
           u == search'
           r == Head(s.left)
<1>1. /\ UNCHANGED guardVars
      /\ s.at = "walk" /\ s.todo = <<>> /\ s.left # <<>> /\ ~s.stopped
      /\ u = [s EXCEPT !.root = r, !.left = Tail(s.left), !.todo = <<r>>]
  BY DEF NextRoot
<1>2. DOMAIN s = DOMAIN NoSearch
  BY DEF SearchInv
<1> HIDE DEF s, u
<1>3. /\ DOMAIN u = DOMAIN NoSearch
      /\ u.root = Head(s.left) /\ u.left = Tail(s.left) /\ u.todo = <<Head(s.left)>>
      /\ u.at = s.at /\ u.call = s.call /\ u.was = s.was /\ u.roots = s.roots
      /\ u.found = s.found /\ u.err = s.err /\ u.stopped = s.stopped
  BY <1>1, <1>2 DEF NoSearch
<1>4. ASSUME Globbing(u) PROVE GlobOK(u, tree, dirs)
  <2>1. GlobOK(s, tree, dirs)
    BY <1>3, <1>4 DEF SearchInv, Globbing, s
  <2>2. /\ RootsOK(s.roots, s.was, tree, dirs)
        /\ FoundOK(s.found, s.roots, s.call.pattern, tree) /\ WalkOK(s, tree)
    BY <1>1, <2>1 DEF GlobOK
  <2>3. /\ LeftOK(s.left, <<>>, s.root, s.roots)
        /\ SeenOK(s.was, s.roots, s.call.pattern, Begun(s.left, s.roots), s.found, <<>>)
    BY <1>1, <2>2 DEF WalkOK
  <2>4. TreeOK(tree)
    BY DEF GuardInv
  <2>5. /\ TodoOK(u.todo, u.root, tree) /\ LeftOK(u.left, u.todo, u.root, s.roots)
        /\ SeenOK(s.was, s.roots, s.call.pattern, Begun(u.left, s.roots), s.found, u.todo)
    <3>1. /\ TodoOK(<<Head(s.left)>>, Head(s.left), tree)
          /\ LeftOK(Tail(s.left), <<Head(s.left)>>, Head(s.left), s.roots)
          /\ \A pattern, found :
               SeenOK(s.was, s.roots, pattern, Begun(s.left, s.roots), found, <<>>)
               => SeenOK(s.was, s.roots, pattern, Begun(Tail(s.left), s.roots), found,
                         <<Head(s.left)>>)
      BY <1>1, <2>2, <2>3, <2>4, RootNext, Zenon
    <3>2. SeenOK(s.was, s.roots, s.call.pattern, Begun(Tail(s.left), s.roots), s.found,
                 <<Head(s.left)>>)
      BY <2>3, <3>1, Zenon
    <3> QED
      BY <1>3, <3>1, <3>2
  <2>6. WalkOK(u, tree)
    BY <1>1, <1>3, <2>5 DEF WalkOK
  <2> QED
    BY <1>1, <1>3, <2>2, <2>6 DEF GlobOK
<1> QED
  BY <1>1, <1>3, <1>4, SearchMoves DEF u

(* The visit of an entry by glob.                                          *)
LEMMA GlobVisitStep ==
  ASSUME GuardInv, SearchInv, Visit, search.call.tool = "glob"
  PROVE  SearchInv'
<1> DEFINE s == search
           u == search'
           h == Head(s.todo)
           stop == s.scanned + 1 >= GlobScanLimit
           next == FoundBy(h, s.root, s.call.pattern, s.found)
<1>1. /\ UNCHANGED guardVars
      /\ s.at = "walk" /\ s.todo # <<>>
      /\ u = [s EXCEPT !.scanned = @ + 1, !.stopped = stop, !.found = next,
                       !.todo = IF stop THEN <<>> ELSE Visited(s.todo)]
  BY DEF Visit, GlobVisit, Deeper, Visited, Under, FoundBy
<1>2. DOMAIN s = DOMAIN NoSearch
  BY DEF SearchInv
<1> HIDE DEF s, u, stop, next, h
<1>3. /\ DOMAIN u = DOMAIN NoSearch
      /\ u.todo = (IF stop THEN <<>> ELSE Visited(s.todo))
      /\ u.found = next /\ u.stopped = stop
      /\ u.root = s.root /\ u.left = s.left
      /\ u.at = s.at /\ u.call = s.call /\ u.was = s.was /\ u.roots = s.roots
  BY <1>1, <1>2 DEF NoSearch
<1>4. GlobOK(s, tree, dirs)
  BY <1>1 DEF SearchInv, Globbing, s
<1>5. /\ RootsOK(s.roots, s.was, tree, dirs)
      /\ FoundOK(s.found, s.roots, s.call.pattern, tree) /\ WalkOK(s, tree)
  BY <1>1, <1>4 DEF GlobOK
<1>6. /\ TodoOK(s.todo, s.root, tree) /\ LeftOK(s.left, s.todo, s.root, s.roots)
  BY <1>5 DEF WalkOK
<1>7. TreeOK(tree) /\ IsFiniteSet(Present(tree))
  BY DEF GuardInv, SearchInv
<1>8. /\ FoundOK(next, s.roots, s.call.pattern, tree)
      /\ TodoOK(Visited(s.todo), s.root, tree)
      /\ SeenOK(s.was, s.roots, s.call.pattern, Begun(s.left, s.roots), s.found, s.todo)
         => SeenOK(s.was, s.roots, s.call.pattern, Begun(s.left, s.roots), next,
                   Visited(s.todo))
  <2>1. s.todo # <<>> /\ RootsOK(s.roots, s.was, tree, dirs)
    BY <1>1, <1>5
  <2>2. FoundOK(s.found, s.roots, s.call.pattern, tree)
    BY <1>5
  <2> QED
    BY <1>6, <1>7, <2>1, <2>2, VisitFinds, Zenon DEF next, h
<1>9. TodoOK(u.todo, s.root, tree)
  <2>1. TodoOK(<<>>, s.root, tree)
    <3>1. <<>> \in Seq(Paths) /\ \A j : j \notin 1..Len(<<>>)
      BY EmptySeq
    <3> QED
      BY <3>1, Zenon DEF TodoOK
  <2> QED
    BY <1>3, <1>8, <2>1
<1>10. LeftOK(s.left, u.todo, s.root, s.roots)
  BY <1>1, <1>6 DEF LeftOK
<1>11. \/ u.stopped
       \/ SeenOK(s.was, s.roots, s.call.pattern, Begun(s.left, s.roots), next, u.todo)
  <2>1. CASE stop
    BY <1>3, <2>1
  <2>2. CASE ~stop
    <3>1. u.todo = Visited(s.todo)
      BY <1>3, <2>2
    <3>2. ~s.stopped
      BY <1>1, <1>5 DEF WalkOK
    <3> QED
      BY <1>5, <1>8, <3>1, <3>2 DEF WalkOK
  <2> QED
    BY <2>1, <2>2
<1>12. WalkOK(u, tree)
  <2>1. u.todo = <<>> \/ ~u.stopped
    BY <1>3
  <2> QED
    BY <1>3, <1>9, <1>10, <1>11, <2>1 DEF WalkOK
<1>13. GlobOK(u, tree, dirs)
  BY <1>1, <1>3, <1>5, <1>8, <1>12 DEF GlobOK
<1> QED
  BY <1>1, <1>3, <1>13, SearchMoves DEF u

(* The answer of glob.                                                     *)
LEMMA AnswerGlobStep ==
  ASSUME GuardInv, SearchInv, AnswerGlob
  PROVE  SearchInv'
<1> DEFINE s == search
           u == search'
           notes == {note \in {"limit", "scan"} :
                       \/ note = "limit" /\ Len(s.found) > GlobMaxResults
                       \/ note = "scan" /\ s.stopped}
<1>1. /\ UNCHANGED guardVars /\ s.call.tool = "glob"
      /\ s.at = "walk" /\ s.todo = <<>> /\ (s.left = <<>> \/ s.stopped)
      /\ u = [s EXCEPT !.at = "done", !.results = Capped(s.found), !.notes = notes]
  BY DEF AnswerGlob, WalkEnded
<1>2. /\ "scan" \in notes <=> s.stopped
      /\ "limit" \in notes <=> Len(s.found) > GlobMaxResults
  OBVIOUS
<1>3. DOMAIN s = DOMAIN NoSearch
  BY DEF SearchInv
<1> HIDE DEF s, u, notes
<1>4. /\ DOMAIN u = DOMAIN NoSearch
      /\ u.at = "done" /\ u.results = Capped(s.found) /\ u.notes = notes
      /\ u.call = s.call /\ u.was = s.was /\ u.roots = s.roots /\ u.found = s.found
  BY <1>1, <1>3 DEF NoSearch
<1>5. GlobOK(s, tree, dirs)
  BY <1>1 DEF SearchInv, Globbing, s
<1>6. /\ RootsOK(s.roots, s.was, tree, dirs)
      /\ FoundOK(s.found, s.roots, s.call.pattern, tree) /\ WalkOK(s, tree)
  BY <1>1, <1>5 DEF GlobOK
<1>7. s.found \in Seq(Paths) /\ s.roots \in Seq(Seq(Names))
  BY <1>6 DEF FoundOK, RootsOK
<1>8. "limit" \in notes \/ Len(s.found) <= GlobMaxResults
  <2>1. Len(s.found) \in Nat /\ GlobMaxResults \in Nat
    BY <1>7, LenProperties, SearchAssumption
  <2> QED
    BY <1>2, <2>1
<1>9. "scan" \in notes \/ AllFound(s.was, s.roots, s.call.pattern, s.found)
  <2>1. CASE s.stopped
    BY <1>2, <2>1
  <2>2. CASE ~s.stopped
    <3>1. s.left = <<>>
      BY <1>1, <2>2
    <3>2. SeenOK(s.was, s.roots, s.call.pattern, Begun(<<>>, s.roots), s.found, <<>>)
      BY <1>1, <1>6, <2>2, <3>1 DEF WalkOK
    <3>3. AllFound(s.was, s.roots, s.call.pattern, s.found)
      BY <1>7, <3>2, WalkEnds, Zenon
    <3> QED
      BY <3>3
  <2> QED
    BY <2>1, <2>2
<1>10. Capping(s.found, Capped(s.found))
  BY <1>7, CappedFacts
<1>11. AnswerOK(u)
  BY <1>4, <1>8, <1>9, <1>10 DEF AnswerOK
<1>12. GlobOK(u, tree, dirs)
  BY <1>4, <1>6, <1>11 DEF GlobOK
<1> QED
  BY <1>1, <1>4, <1>12, SearchMoves DEF u

(* The other steps of a search are those of grep, or its end.              *)
LEMMA OtherStep ==
  ASSUME GuardInv, SearchInv,
         \/ Visit /\ search.call.tool # "glob"
         \/ TimeOut \/ AnswerGrep \/ GrepRG \/ EndSearch
  PROVE  SearchInv'
<1>1. DOMAIN search = DOMAIN NoSearch
  BY DEF SearchInv
<1>2. CASE Visit /\ search.call.tool # "glob"
  <2>1. UNCHANGED guardVars /\ DOMAIN search' = DOMAIN search /\ search'.call = search.call
    BY <1>1, <1>2 DEF Visit, GrepVisit, NoSearch
  <2>2. ~Globbing(search')
    BY <1>2, <2>1 DEF Globbing
  <2> QED
    BY <1>1, <2>1, <2>2, SearchMoves
<1>3. CASE TimeOut
  <2>1. UNCHANGED guardVars /\ DOMAIN search' = DOMAIN search /\ search'.call = search.call
    BY <1>1, <1>3 DEF TimeOut, NoSearch
  <2>2. ~Globbing(search')
    BY <1>3, <2>1 DEF Globbing, TimeOut
  <2> QED
    BY <1>1, <2>1, <2>2, SearchMoves
<1>4. \A lines, timedOut, notes :
        search' = GrepAnswer(lines, timedOut, notes) =>
          DOMAIN search' = DOMAIN search /\ search'.call = search.call
  BY <1>1 DEF GrepAnswer, NoSearch
<1>5. CASE AnswerGrep
  <2>1. UNCHANGED guardVars /\ search.call.tool = "grep"
        /\ DOMAIN search' = DOMAIN search /\ search'.call = search.call
    BY <1>4, <1>5, Zenon DEF AnswerGrep
  <2>2. ~Globbing(search')
    BY <2>1 DEF Globbing
  <2> QED
    BY <1>1, <2>1, <2>2, SearchMoves
<1>6. CASE GrepRG
  <2>1. search.at = "rg" /\ UNCHANGED guardVars
    BY <1>6 DEF GrepRG
  <2>2. DOMAIN search' = DOMAIN search /\ search'.call = search.call
    <3>1. ASSUME NEW exit, search' = [search EXCEPT !.at = "done", !.err = exit]
          PROVE  DOMAIN search' = DOMAIN search /\ search'.call = search.call
      BY <1>1, <3>1 DEF NoSearch
    <3> QED
      BY <1>4, <1>6, <3>1, Zenon DEF GrepRG
  <2>3. ~GlobOK(search, tree, dirs)
    BY <2>1 DEF GlobOK
  <2>4. ~(search.call.tool = "glob")
    BY <2>1, <2>3 DEF SearchInv, Globbing
  <2>5. ~Globbing(search')
    BY <2>2, <2>4 DEF Globbing
  <2> QED
    BY <1>1, <2>1, <2>2, <2>5, SearchMoves
<1>7. CASE EndSearch
  <2>1. UNCHANGED guardVars /\ search' = NoSearch
    BY <1>7 DEF EndSearch
  <2>2. ~Globbing(search')
    BY <2>1 DEF Globbing, NoSearch
  <2> QED
    BY <1>1, <2>1, <2>2, SearchMoves
<1> QED
  BY <1>2, <1>3, <1>5, <1>6, <1>7

(* A request: it may create an entry.                                      *)
LEMMA RequestStep ==
  ASSUME GuardInv, SearchInv, NEW r \in Reqs, Request(r)
  PROVE  SearchInv'
<1>1. search' = search /\ dirs' = dirs
  BY DEF Request, Receive, Create, Return
<1>2. Kept(tree, tree') /\ IsFiniteSet(Present(tree'))
  <2>1. CASE tree' = tree
    BY <2>1 DEF Kept, SearchInv
  <2>2. CASE \E kind \in {"file", "dir"} : Create(r, kind)
    <3>1. PICK kind \in {"file", "dir"} : Create(r, kind)
      BY <2>2
    <3>2. tree' = tree \/ Grown(tree, tree', req[r].path)
      BY <3>1, CreateGrows
    <3>3. CASE Grown(tree, tree', req[r].path)
      <4>1. IsFiniteSet(Present(tree))
        BY DEF SearchInv
      <4> QED
        BY <3>3, <4>1, GrownKept, Zenon
    <3> QED
      BY <2>1, <3>2, <3>3
  <2>3. CASE (\E raw \in RawPaths : Receive(r, raw)) \/ Return(r)
    BY <2>1, <2>3 DEF Receive, Return
  <2> QED
    BY <2>2, <2>3 DEF Request
<1> QED
  BY <1>1, <1>2, SearchKept

(* The search begins idle, in a finite tree.                               *)
LEMMA SearchInitInv == Init => SearchInv
<1> SUFFICES ASSUME Init PROVE SearchInv
  OBVIOUS
<1>1. search = NoSearch
  BY DEF Init
<1>2. ~Globbing(search)
  BY <1>1 DEF Globbing, NoSearch
<1>3. TreeOK(tree) /\ tree \in Trees
  BY GuardAssumption DEF Init, GuardInit, TreeOK
<1>4. IsFiniteSet(Present(tree))
  BY <1>3, SearchAssumption DEF Present
<1>5. PICK list \in AllowedLists : New(list)
  BY DEF Init, GuardInit
<1>6. list \in Seq(Seq(Names))
  BY GuardAssumption
<1>7. \A k \in DOMAIN dirs : KindIn(tree, dirs[k]) = "dir"
  BY <1>3, <1>5, <1>6, NewTyped, Zenon
<1> QED
  BY <1>1, <1>2, <1>4, <1>7 DEF SearchInv

(* The invariant of a search by glob: what it found matches and is there,  *)
(* and what it has not found of what was there is still ahead of it.       *)
THEOREM SearchInvariant == Spec => []SearchInv
<1>1. Init => SearchInv
  BY SearchInitInv
<1>2. GuardInv /\ SearchInv /\ [Next]_vars => SearchInv'
  <2> SUFFICES ASSUME GuardInv, SearchInv, [Next]_vars PROVE SearchInv'
    OBVIOUS
  <2>1. CASE \E r \in Reqs : Request(r)
    BY <2>1, RequestStep
  <2>2. CASE \E call \in Searches, raw \in SearchPaths : StartSearch(call, raw)
    BY <2>2, StartSearchStep
  <2>3. CASE NextRoot
    BY <2>3, NextRootStep
  <2>4. CASE Visit
    BY <2>4, GlobVisitStep, OtherStep
  <2>5. CASE AnswerGlob
    BY <2>5, AnswerGlobStep
  <2>6. CASE TimeOut \/ AnswerGrep \/ GrepRG \/ EndSearch
    BY <2>6, OtherStep
  <2>7. CASE UNCHANGED vars
    <3>1. UNCHANGED guardVars /\ search' = search
      BY <2>7 DEF vars
    <3>2. DOMAIN search' = DOMAIN NoSearch
      BY <3>1 DEF SearchInv
    <3>3. Globbing(search') => GlobOK(search', tree, dirs)
      BY <3>1 DEF SearchInv
    <3> QED
      BY <3>1, <3>2, <3>3, SearchMoves
  <2> QED
    BY <2>1, <2>2, <2>3, <2>4, <2>5, <2>6, <2>7 DEF Next
<1> QED
  BY <1>1, <1>2, GuardInvariant, PTL DEF Spec

(* Below what is below a directory.                                        *)
LEMMA BelowTwice ==
  ASSUME NEW d \in Seq(Names), NEW r \in Seq(Names), NEW p \in Seq(Names),
         Below(d, r), Below(r, p)
  PROVE  Below(d, p)
<1>1. /\ Len(d) \in Nat /\ Len(r) \in Nat /\ Len(p) \in Nat
      /\ Len(d) <= Len(r) /\ Len(r) <= Len(p)
      /\ SubSeq(r, 1, Len(d)) = d /\ SubSeq(p, 1, Len(r)) = r
  BY LenProperties DEF Below
<1>2. SubSeq(SubSeq(p, 1, Len(r)), 1, Len(d)) = SubSeq(p, 1, Len(d))
  BY <1>1, CutTwice, Zenon
<1>3. Len(d) <= Len(p)
  BY <1>1
<1> QED
  BY <1>1, <1>2, <1>3, Zenon DEF Below

(* What glob lists matches and is there, newest first; what it leaves out  *)
(* is noted, or older than all it lists; and a read may name what it lists *)
(* unless it is a link (glob.go, Glob).                                    *)
THEOREM GlobCorrect == Spec => []GlobCompleteUnlessNoted
<1> DEFINE roots == search.roots
           pattern == search.call.pattern
           found == search.found
           results == search.results
           Matching(t) == {p \in Within(t, roots) :
                             \E k \in DOMAIN roots :
                               WalkedTo(roots[k], p) /\ Rel(roots[k], p) \in pattern}
<1>1. ASSUME GuardInv, SearchInv, search.at = "done", search.err = "none",
             search.call.tool = "glob"
      PROVE  /\ Listed \subseteq Matching(tree)
             /\ \A j, k \in DOMAIN results :
                  j < k => ~Newer(results[k], results[j])
             /\ search.notes = {} => Matching(search.was) \subseteq Listed
             /\ "scan" \notin search.notes =>
                  \A p \in Matching(search.was) \ Listed :
                    \A q \in Listed : ~Newer(p, q)
             /\ \A p \in Listed : Kind(p) # "link" =>
                  Validate([form |-> "absolute", parts |-> p]) = Accepted(p)
  <2>1. /\ RootsOK(roots, search.was, tree, dirs)
        /\ FoundOK(found, roots, pattern, tree) /\ AnswerOK(search)
    BY <1>1 DEF SearchInv, Globbing, GlobOK
  <2>2. TreeOK(tree) /\ dirs \in Seq(Seq(Names))
    BY <1>1 DEF GuardInv
  <2>3. Listed = ToSet(results)
    BY DEF Listed
  <2>4. /\ Capping(found, results)
        /\ "limit" \in search.notes \/ Len(found) <= GlobMaxResults
        /\ "scan" \in search.notes \/ AllFound(search.was, roots, pattern, found)
    BY <2>1 DEF AnswerOK
  <2>5. roots \in Seq(Seq(Names)) /\ DOMAIN roots = 1..Len(roots)
    BY <2>1, LenProperties DEF RootsOK
  <2>6. ASSUME NEW t, NEW p
        PROVE  p \in Matching(t)
               <=> \E k \in 1..Len(roots) : Wanted(t, pattern, roots[k], p)
    <3>1. p \in Matching(t) <=>
            /\ p \in Paths /\ t[p].kind \notin {"absent", "dir"}
            /\ \E k \in 1..Len(roots) : WalkedTo(roots[k], p)
            /\ \E k \in 1..Len(roots) : WalkedTo(roots[k], p) /\ Rel(roots[k], p) \in pattern
      <4> HIDE DEF roots, pattern
      <4> QED
        BY <2>5 DEF Within
    <3>2. p \in Paths => KindIn(t, p) = t[p].kind
      BY DEF KindIn
    <3> HIDE DEF Matching, roots, pattern
    <3> QED
      BY <3>1, <3>2 DEF Wanted
  <2> HIDE DEF Matching, roots, pattern, found, results
  <2>7. \A p \in ToSet(found) :
          \E k \in 1..Len(roots) : Wanted(tree, pattern, roots[k], p)
    <3>1. found \in Seq(Paths) /\ DOMAIN found = 1..Len(found)
      BY <2>1, LenProperties DEF FoundOK
    <3>2. \A i \in 1..Len(found) :
            \E k \in 1..Len(roots) : Wanted(tree, pattern, roots[k], found[i])
      BY <2>1 DEF FoundOK
    <3> QED
      BY <3>1, <3>2, Zenon DEF ToSet
  <2>8. Listed \subseteq ToSet(found)
    BY <2>3, <2>4 DEF Capping
  <2>9. Listed \subseteq Matching(tree)
    BY <2>6, <2>7, <2>8
  <2>10. "scan" \notin search.notes => Matching(search.was) \subseteq ToSet(found)
    BY <2>4, <2>6 DEF AllFound
  <2>11. search.notes = {} => Matching(search.was) \subseteq Listed
    <3>1. Len(found) <= GlobMaxResults => ToSet(found) \subseteq Listed
      BY <2>3, <2>4 DEF Capping
    <3> QED
      BY <2>4, <2>10, <3>1
  <2>12. "scan" \notin search.notes =>
           \A p \in Matching(search.was) \ Listed : \A q \in Listed : ~Newer(p, q)
    BY <2>3, <2>4, <2>10 DEF Capping
  <2>13. \A j, k \in DOMAIN results : j < k => ~Newer(results[k], results[j])
    BY <2>4 DEF Capping
  <2>14. ASSUME NEW p \in Listed, Kind(p) # "link"
         PROVE  Validate([form |-> "absolute", parts |-> p]) = Accepted(p)
    <3>1. PICK k \in 1..Len(roots) : Wanted(tree, pattern, roots[k], p)
      BY <2>7, <2>8
    <3>2. /\ p \in Paths /\ p \in Seq(Names) /\ KindIn(tree, p) \notin {"absent", "dir"}
          /\ Below(roots[k], p)
      BY <3>1, PathsAre DEF Wanted, WalkedTo
    <3>3. KindIn(tree, p) \in {"file", "dir"}
      BY <2>2, <2>14, <3>2, EvalHere DEF TreeOK, Entries, KindIn
    <3>4. roots[k] \in Seq(Names) /\ InsideOf(dirs, roots[k])
      BY <2>1, <2>5, <3>1, ElementOfSeq DEF RootsOK
    <3>5. PICK m \in DOMAIN dirs : Below(dirs[m], roots[k])
      BY <3>4 DEF InsideOf
    <3>6. dirs[m] \in Seq(Names)
      BY <2>2, <3>5, ElementOfSeq, LenProperties
    <3>7. Below(dirs[m], p)
      BY <3>2, <3>4, <3>5, <3>6, BelowTwice
    <3>8. Inside(p)
      BY <3>7 DEF Inside
    <3> QED
      BY <2>2, <3>2, <3>3, <3>8, AcceptedAsIs
  <2> QED
    BY <2>9, <2>11, <2>12, <2>13, <2>14
<1>2. GuardInv /\ SearchInv => GlobCompleteUnlessNoted
  BY <1>1, Zenon DEF GlobCompleteUnlessNoted
<1> HIDE DEF Matching, roots, pattern, found, results
<1> QED
  BY <1>2, GuardInvariant, SearchInvariant, PTL
===============================================================================
