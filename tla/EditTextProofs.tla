---------------------------- MODULE EditTextProofs ----------------------------
(***************************************************************************)
(* Proofs about the text of one file, for every alphabet, content and list *)
(* of edits.  The edit engine (internal/editengine/engine.go): its types,  *)
(* among them that replacing yields a text again; that the counting loop   *)
(* finds every match that can be replaced; that what it counted is what is *)
(* replaced; and that the lines it names in a refusal are those of read.   *)
(* The pages of read (internal/lineio/lineio.go) and the warnings about    *)
(* control characters (internal/contentwarn/contentwarn.go).  What a       *)
(* recursive function computes is shown by induction on sets of natural    *)
(* numbers, from the fact that a nonempty one has a least element.         *)
(***************************************************************************)
EXTENDS EditText, TLAPS, WellFoundedInduction, SequenceTheorems,
        FunctionTheorems, FiniteSetTheorems

-----------------------------------------------------------------------------
(* Numbers.                                                                *)

(* A nonempty set of natural numbers has a least element.                  *)
LEMMA LeastNat ==
  ASSUME NEW S, S \subseteq Nat, S # {}
  PROVE  \E m \in S : \A k \in S : m <= k
<1> DEFINE R == {ss \in Nat \X Nat : ss[1] < ss[2]}
<1>1. IsWellFoundedOn(R, Nat)
  BY NatLessThanWellFounded DEF OpToRel
<1>2. \A k, m \in Nat : <<k, m>> \in R <=> k < m
  OBVIOUS
<1> HIDE DEF R
<1>3. PICK m \in S : \A k \in S : <<k, m>> \notin R
  BY <1>1, WFMin
<1>4. ASSUME NEW k \in S PROVE m <= k
  <2>1. k \in Nat /\ m \in Nat
    OBVIOUS
  <2>2. ~ (k < m)
    BY <1>2, <1>3, <2>1
  <2> QED
    BY <2>1, <2>2
<1> QED
  BY <1>4

(* Min of a nonempty set of natural numbers is its least element.          *)
LEMMA MinOfNat ==
  ASSUME NEW S, S \subseteq Nat, S # {}
  PROVE  Min(S) \in S /\ \A k \in S : Min(S) <= k
<1> DEFINE IsLeast(m) == \A k \in S : m <= k
<1>1. \E m \in S : IsLeast(m)
  BY LeastNat
<1>2. Min(S) = CHOOSE m \in S : IsLeast(m)
  BY DEF Min
<1> HIDE DEF IsLeast
<1>3. Min(S) \in S /\ IsLeast(Min(S))
  BY <1>1, <1>2
<1> QED
  BY <1>3 DEF IsLeast

(* A property that holds of 0 and passes from each number to the next      *)
(* holds up to n: induction on a set, in place of a predicate.             *)
LEMMA UpTo ==
  ASSUME NEW n \in Nat, NEW S, 0 \in S, \A k \in 0..(n - 1) : k \in S => k + 1 \in S
  PROVE  0..n \subseteq S
<1> DEFINE Wrong == (0..n) \ S
<1> SUFFICES ASSUME Wrong # {} PROVE FALSE
  OBVIOUS
<1>0. Wrong \subseteq Nat
  OBVIOUS
<1>1. PICK m \in Wrong : \A k \in Wrong : m <= k
  <2> HIDE DEF Wrong
  <2> QED
    BY <1>0, LeastNat
<1>2. m \in 1..n
  BY <1>1
<1>3. m - 1 \in S /\ m - 1 \in 0..(n - 1)
  BY <1>1, <1>2
<1> QED
  BY <1>1, <1>2, <1>3

-----------------------------------------------------------------------------
(* The numbers of a finite set in order.                                   *)

\* How many numbers of the set go up to t.
CountTo(S, t) == Cardinality({j \in S : j <= t})

(* The count starts at zero and ends with the size of the set.             *)
LEMMA CountEnds ==
  ASSUME NEW n \in Nat, NEW S, S \subseteq 1..n
  PROVE  /\ IsFiniteSet(S) /\ Cardinality(S) \in Nat
         /\ CountTo(S, 0) = 0 /\ CountTo(S, n) = Cardinality(S)
         /\ \A t : CountTo(S, t) \in Nat
<1> DEFINE Upto(t) == {j \in S : j <= t}
<1>0. \A j \in S : j \in Nat /\ j # 0 /\ j <= n /\ ~(j <= 0)
  OBVIOUS
<1>1. IsFiniteSet(S) /\ Cardinality(S) \in Nat
  <2>1. IsFiniteSet(1..n)
    BY FS_Interval
  <2>2. IsFiniteSet(S)
    BY <2>1, FS_Subset
  <2> QED
    BY <2>2, FS_CardinalityType
<1>2. \A t : IsFiniteSet(Upto(t)) /\ Cardinality(Upto(t)) \in Nat
  <2>1. \A t : Upto(t) \in SUBSET S
    OBVIOUS
  <2> HIDE DEF Upto
  <2>2. \A t : IsFiniteSet(Upto(t))
    BY <1>1, <2>1, FS_Subset
  <2> QED
    BY <2>2, FS_CardinalityType
<1>3. Upto(0) = {} /\ Upto(n) = S
  BY <1>0, Zenon
<1>4. Cardinality(Upto(0)) = 0
  BY <1>3, FS_EmptySet
<1>7. \A t : CountTo(S, t) = Cardinality(Upto(t))
  BY DEF CountTo
<1> HIDE DEF Upto
<1> QED
  BY <1>1, <1>2, <1>3, <1>4, <1>7

(* It grows by one at each number of the set.                              *)
LEMMA CountSteps ==
  ASSUME NEW n \in Nat, NEW S, S \subseteq 1..n, NEW t \in Nat
  PROVE  CountTo(S, t + 1) =
           IF t + 1 \in S THEN CountTo(S, t) + 1 ELSE CountTo(S, t)
<1> DEFINE Upto(u) == {j \in S : j <= u}
<1>0. \A j \in S : j \in Nat
  OBVIOUS
<1>2. IsFiniteSet(Upto(t)) /\ Cardinality(Upto(t)) \in Nat
  <2>1. Upto(t) \in SUBSET S /\ IsFiniteSet(S)
    BY CountEnds
  <2> HIDE DEF Upto
  <2> QED
    BY <2>1, FS_Subset, FS_CardinalityType
<1>5. CASE t + 1 \in S
  <2>1. /\ \A j \in S : j <= t + 1 <=> j <= t \/ j = t + 1
        /\ ~(t + 1 <= t)
    BY <1>0
  <2>2. Upto(t + 1) = Upto(t) \cup {t + 1} /\ t + 1 \notin Upto(t)
    BY <1>5, <2>1, Zenon
  <2>3. CountTo(S, t + 1) = Cardinality(Upto(t + 1))
        /\ CountTo(S, t) = Cardinality(Upto(t))
    BY DEF CountTo
  <2> HIDE DEF Upto
  <2> QED
    BY <1>2, <1>5, <2>2, <2>3, FS_AddElement
<1>6. CASE t + 1 \notin S
  <2>1. \A j \in S : j <= t + 1 <=> j <= t
    BY <1>0, <1>6
  <2>2. Upto(t + 1) = Upto(t)
    BY <2>1
  <2> QED
    BY <1>6, <2>2 DEF CountTo
<1> QED
  BY <1>5, <1>6

(* The count does not fall, and passes a number of the set by growing.     *)
LEMMA CountGrows ==
  ASSUME NEW n \in Nat, NEW S, S \subseteq 1..n, NEW s \in Nat, NEW t \in Nat,
         s <= t
  PROVE  /\ CountTo(S, s) <= CountTo(S, t)
         /\ (\E i \in S : s < i /\ i <= t) => CountTo(S, s) < CountTo(S, t)
<1> DEFINE Upto(k) == {j \in S : j <= k}
<1>1. \A k : IsFiniteSet(Upto(k)) /\ Cardinality(Upto(k)) \in Nat
  <2>1. \A k : Upto(k) \in SUBSET S
    OBVIOUS
  <2> HIDE DEF Upto
  <2>2. IsFiniteSet(S)
    BY CountEnds
  <2>3. \A k : IsFiniteSet(Upto(k))
    BY <2>1, <2>2, FS_Subset
  <2> QED
    BY <2>3, FS_CardinalityType
<1>2. Upto(s) \in SUBSET Upto(t)
  <2>1. \A j \in S : j <= s => j <= t
    OBVIOUS
  <2> QED
    BY <2>1, Zenon
<1>3. (\E i \in S : s < i /\ i <= t) => Upto(s) # Upto(t)
  OBVIOUS
<1> HIDE DEF Upto
<1>4. /\ Cardinality(Upto(s)) <= Cardinality(Upto(t))
      /\ Cardinality(Upto(s)) = Cardinality(Upto(t)) => Upto(s) = Upto(t)
  BY <1>1, <1>2, FS_Subset
<1> QED
  BY <1>1, <1>3, <1>4 DEF CountTo, Upto

(* InOrder lists the numbers of the set, the k-th at place k, the smaller  *)
(* before the larger.                                                      *)
LEMMA InOrderFacts ==
  ASSUME NEW n \in Nat, NEW S, S \subseteq 1..n
  PROVE  /\ InOrder(S) \in [1..Cardinality(S) -> S]
         /\ \A k \in 1..Cardinality(S) : CountTo(S, InOrder(S)[k]) = k
         /\ \A i \in S : /\ CountTo(S, i) \in 1..Cardinality(S)
                         /\ InOrder(S)[CountTo(S, i)] = i
         /\ \A j, k \in 1..Cardinality(S) :
              j < k => InOrder(S)[j] < InOrder(S)[k]
<1> DEFINE m == Cardinality(S)
           Place(k) == {i \in S : CountTo(S, i) = k}
           Reached(k) == {t \in 0..n : k <= CountTo(S, t)}
<1>1. /\ m \in Nat /\ CountTo(S, 0) = 0 /\ CountTo(S, n) = m
      /\ \A t : CountTo(S, t) \in Nat
  BY CountEnds
<1>2. ASSUME NEW k \in 1..m PROVE Place(k) # {}
  <2>1. n \in Reached(k) /\ Reached(k) \subseteq Nat
    BY <1>1
  <2>2. PICK t \in Reached(k) : \A u \in Reached(k) : t <= u
    <3> HIDE DEF Reached
    <3> QED
      BY <2>1, LeastNat
  <2>3. t # 0
    BY <1>1, <2>2
  <2>4. PICK u \in Nat : u + 1 = t
    <3>1. t - 1 \in Nat /\ (t - 1) + 1 = t
      BY <2>2, <2>3
    <3> QED
      BY <3>1
  <2>5. ~(k <= CountTo(S, u))
    BY <2>2, <2>4
  <2>6. CountTo(S, u) \in Nat /\ CountTo(S, t) \in Nat /\ k <= CountTo(S, t)
    BY <1>1, <2>2
  <2>7. /\ t \in S => CountTo(S, t) = CountTo(S, u) + 1
        /\ t \notin S => CountTo(S, t) = CountTo(S, u)
    <3>1. CountTo(S, u + 1) =
            IF u + 1 \in S THEN CountTo(S, u) + 1 ELSE CountTo(S, u)
      BY CountSteps
    <3> QED
      BY <2>4, <3>1, Zenon
  <2>8. t \in S /\ CountTo(S, t) = k
    BY <1>1, <2>5, <2>6, <2>7
  <2> QED
    BY <2>8
<1>3. ASSUME NEW i \in S, NEW j \in S, i < j PROVE CountTo(S, i) < CountTo(S, j)
  <2>1. i \in Nat /\ j \in Nat /\ i <= j /\ j <= j
    BY <1>3
  <2> QED
    BY <1>3, <2>1, CountGrows, Zenon
<1>4. ASSUME NEW i \in S, NEW j \in S, CountTo(S, i) = CountTo(S, j) PROVE i = j
  <2>1. i \in Nat /\ j \in Nat /\ CountTo(S, i) \in Nat
    BY <1>1
  <2> QED
    BY <1>3, <1>4, <2>1
<1> DEFINE q == InOrder(S)
<1>5. q = [k \in 1..m |-> CHOOSE i \in S : CountTo(S, i) = k]
  BY DEF InOrder, CountTo
<1>6. ASSUME NEW k \in 1..m PROVE q[k] \in S /\ CountTo(S, q[k]) = k
  <2> HIDE DEF q, m
  <2>1. q[k] = CHOOSE i \in S : CountTo(S, i) = k
    BY <1>5
  <2>2. \E i \in S : CountTo(S, i) = k
    BY <1>2
  <2> QED
    BY <2>1, <2>2
<1>7. q \in [1..m -> S]
  <2> HIDE DEF m
  <2> QED
    BY <1>5, <1>6
<1>8. ASSUME NEW i \in S PROVE CountTo(S, i) \in 1..m /\ q[CountTo(S, i)] = i
  <2>1. i \in 1..n
    OBVIOUS
  <2>2. 0 \in Nat /\ 0 <= i /\ i <= i /\ i <= n /\ i \in Nat /\ 0 < i
    BY <2>1
  <2>3. CountTo(S, 0) < CountTo(S, i)
    BY <2>2, CountGrows, Zenon
  <2>4. CountTo(S, i) <= CountTo(S, n)
    BY <2>2, CountGrows, Zenon
  <2>5. CountTo(S, i) \in 1..m
    BY <1>1, <2>2, <2>3, <2>4
  <2> HIDE DEF q, m
  <2>6. q[CountTo(S, i)] \in S /\ CountTo(S, q[CountTo(S, i)]) = CountTo(S, i)
    BY <1>6, <2>5, Zenon
  <2>7. q[CountTo(S, i)] = i
    BY <1>4, <2>6, Zenon
  <2> QED
    BY <2>5, <2>7
<1>9. ASSUME NEW j \in 1..m, NEW k \in 1..m, j < k PROVE q[j] < q[k]
  <2>1. q[j] \in S /\ q[k] \in S /\ CountTo(S, q[j]) = j /\ CountTo(S, q[k]) = k
    BY <1>6
  <2> HIDE DEF q, m
  <2>2. q[j] \in Nat /\ q[k] \in Nat /\ j \in Nat /\ k \in Nat
    <3>1. \A i \in S : i \in Nat
      OBVIOUS
    <3>2. j \in Nat /\ k \in Nat
      BY <1>1
    <3> QED
      BY <2>1, <3>1, <3>2
  <2>3. ~(q[k] < q[j]) /\ q[j] # q[k]
    BY <1>3, <1>9, <2>1, <2>2
  <2> QED
    BY <2>2, <2>3
<1> QED
  BY <1>6, <1>7, <1>8, <1>9

-----------------------------------------------------------------------------
(* The lines of a text (lineio.go, splitLines).                            *)

\* Where the newlines are that end a line before the last, and the places
\* between which splitLines cuts.
Breaks(text) == {i \in DOMAIN Body(text) : Body(text)[i] = NL}
Between(inner, end) == <<0>> \o inner \o <<end>>
Cuts(text) == Between(InOrder(Breaks(text)), Len(Body(text)) + 1)

(* The body of a text is the text, or the text without the newline that    *)
(* ends it.                                                                *)
LEMMA BodyFacts ==
  ASSUME NEW text \in Seq(Chars), text # <<>>
  PROVE  /\ Body(text) \in Seq(Chars) /\ Len(Body(text)) \in Nat
         /\ Len(Body(text)) <= Len(text) /\ Len(text) <= Len(Body(text)) + 1
         /\ \A i \in 1..Len(Body(text)) : Body(text)[i] = text[i]
         /\ Len(Body(text)) # Len(text) => text[Len(text)] = NL
<1>1. Len(text) \in Nat /\ Len(text) # 0
  BY EmptySeq, LenProperties
<1>2. CASE Last(text) = NL
  <2> DEFINE n == Len(text)
             body == SubSeq(text, 1, n - 1)
  <2>1. Body(text) = body /\ text[n] = NL
    BY <1>2 DEF Body, Last, Front
  <2>2. n \in Nat /\ n # 0 /\ n - 1 \in 0..n
    BY <1>1
  <2>3. \A i \in 1..(n - 1) : text[i] \in Chars
    BY <2>2, ElementOfSeq
  <2> HIDE DEF n
  <2>4. body \in Seq(Chars) /\ Len(body) = n - 1
        /\ \A i \in 1..(n - 1) : body[i] = text[i]
    BY <2>2, <2>3, SubSeqProperties
  <2> HIDE DEF body
  <2>5. n = Len(text)
    BY DEF n
  <2> QED
    BY <2>1, <2>2, <2>4, <2>5
<1>3. CASE Last(text) # NL
  <2>1. Body(text) = text
    BY <1>3 DEF Body
  <2> QED
    BY <1>1, <2>1
<1> QED
  BY <1>2, <1>3

(* What lies between zero and the end, place by place.                     *)
LEMMA BetweenFacts ==
  ASSUME NEW m \in Nat, NEW inner \in [1..m -> Nat], NEW end \in Nat
  PROVE  /\ Len(Between(inner, end)) = m + 2
         /\ Between(inner, end)[1] = 0 /\ Between(inner, end)[m + 2] = end
         /\ \A k \in 1..m : Between(inner, end)[k + 1] = inner[k]
<1>1. inner \in Seq(Nat) /\ Len(inner) = m
  BY SeqDef, LenProperties
<1> DEFINE zero == <<0>>
           last == <<end>>
           front == zero \o inner
<1>2. zero \in Seq(Nat) /\ Len(zero) = 1 /\ zero[1] = 0
  OBVIOUS
<1>3. last \in Seq(Nat) /\ Len(last) = 1 /\ last[1] = end
  OBVIOUS
<1>4. Between(inner, end) = front \o last
  BY DEF Between
<1> HIDE DEF zero, last
<1>5. /\ front \in Seq(Nat) /\ Len(front) = 1 + m
      /\ \A k \in 1..(1 + m) :
           front[k] = IF k <= 1 THEN zero[k] ELSE inner[k - 1]
  <2>1. /\ front \in Seq(Nat) /\ Len(front) = Len(zero) + Len(inner)
        /\ \A k \in 1..(Len(zero) + Len(inner)) :
             front[k] = IF k <= Len(zero) THEN zero[k] ELSE inner[k - Len(zero)]
    BY <1>1, <1>2, ConcatProperties, Zenon
  <2> HIDE DEF front
  <2> QED
    BY <1>1, <1>2, <2>1, Zenon
<1> HIDE DEF front
<1>6. /\ Len(front \o last) = (1 + m) + 1
      /\ \A k \in 1..((1 + m) + 1) :
           (front \o last)[k] = IF k <= 1 + m THEN front[k] ELSE last[k - (1 + m)]
  <2>1. /\ Len(front \o last) = Len(front) + Len(last)
        /\ \A k \in 1..(Len(front) + Len(last)) :
             (front \o last)[k] =
               IF k <= Len(front) THEN front[k] ELSE last[k - Len(front)]
    BY <1>3, <1>5, ConcatProperties, Zenon
  <2> QED
    BY <1>3, <1>5, <2>1, Zenon
<1>7. /\ Len(Between(inner, end)) = (1 + m) + 1
      /\ \A k \in 1..((1 + m) + 1) :
           Between(inner, end)[k] =
             IF k <= 1 + m THEN front[k] ELSE last[k - (1 + m)]
  BY <1>4, <1>6
<1>8. 1 \in 1..(1 + m) /\ 1 \in 1..((1 + m) + 1) /\ 1 <= 1 + m
  OBVIOUS
<1>9. Between(inner, end)[1] = 0
  BY <1>2, <1>5, <1>7, <1>8
<1>10. Between(inner, end)[m + 2] = end
  <2>1. m + 2 \in 1..((1 + m) + 1) /\ ~(m + 2 <= 1 + m) /\ (m + 2) - (1 + m) = 1
    OBVIOUS
  <2> QED
    BY <1>3, <1>7, <2>1
<1>11. ASSUME NEW k \in 1..m PROVE Between(inner, end)[k + 1] = inner[k]
  <2>1. k + 1 \in 1..((1 + m) + 1) /\ k + 1 \in 1..(1 + m) /\ k + 1 <= 1 + m
        /\ ~(k + 1 <= 1) /\ (k + 1) - 1 = k
    OBVIOUS
  <2> QED
    BY <1>5, <1>7, <2>1
<1>12. (1 + m) + 1 = m + 2
  OBVIOUS
<1> QED
  BY <1>7, <1>9, <1>10, <1>11, <1>12

(* The places splitLines cuts at rise from zero to the end of the body,    *)
(* and those between are the newlines.                                     *)
LEMMA CutsFacts ==
  ASSUME NEW text \in Seq(Chars), text # <<>>
  PROVE  /\ Breaks(text) \subseteq 1..Len(Body(text))
         /\ Cardinality(Breaks(text)) \in Nat
         /\ Len(Cuts(text)) = Cardinality(Breaks(text)) + 2
         /\ Cuts(text)[1] = 0
         /\ Cuts(text)[Cardinality(Breaks(text)) + 2] = Len(Body(text)) + 1
         /\ \A k \in 1..Cardinality(Breaks(text)) :
              Cuts(text)[k + 1] = InOrder(Breaks(text))[k]
<1> DEFINE body == Body(text)
           S == Breaks(text)
           m == Cardinality(S)
           end == Len(body) + 1
           q == InOrder(S)
<1>1. body \in Seq(Chars) /\ Len(body) \in Nat
  BY BodyFacts
<1>2. DOMAIN body = 1..Len(body)
  <2> HIDE DEF body
  <2> QED
    BY <1>1, LenProperties
<1>3. S \subseteq 1..Len(body)
  BY <1>2 DEF Breaks
<1> HIDE DEF body, S
<1>4. m \in Nat
  BY <1>1, <1>3, CountEnds
<1>5. q \in [1..m -> S]
  BY <1>1, <1>3, InOrderFacts
<1>6. S \subseteq Nat /\ end \in Nat
  BY <1>1, <1>3
<1> HIDE DEF m, q
<1>7. q \in [1..m -> Nat]
  BY <1>5, <1>6
<1> HIDE DEF end
<1>8. Cuts(text) = Between(q, end)
  BY DEF Cuts, q, S, end, body
<1>9. /\ Len(Between(q, end)) = m + 2
      /\ Between(q, end)[1] = 0 /\ Between(q, end)[m + 2] = end
      /\ \A k \in 1..m : Between(q, end)[k + 1] = q[k]
  BY <1>4, <1>6, <1>7, BetweenFacts
<1> QED
  BY <1>3, <1>4, <1>8, <1>9, Zenon DEF m, q, S, end, body

\* The line in which the place behind the first h characters lies.
LineAt(text, h) == 1 + CountTo(Breaks(text), h)

(* Every place of the body lies in one line: at or behind the cut the line *)
(* begins with and before the next.                                        *)
LEMMA LineAtFacts ==
  ASSUME NEW text \in Seq(Chars), text # <<>>, NEW h \in 0..Len(Body(text))
  PROVE  /\ LineAt(text, h) \in 1..(Cardinality(Breaks(text)) + 1)
         /\ Cuts(text)[LineAt(text, h)] \in Nat
         /\ Cuts(text)[LineAt(text, h)] <= h
         /\ Cuts(text)[LineAt(text, h) + 1] \in Nat
         /\ h < Cuts(text)[LineAt(text, h) + 1]
<1> DEFINE S == Breaks(text)
           m == Cardinality(S)
           q == InOrder(S)
           c == Cuts(text)
           end == Len(Body(text))
           n == CountTo(S, h)
<1>1. end \in Nat /\ h \in Nat /\ h <= end
  BY BodyFacts
<1>2. /\ S \subseteq 1..end /\ m \in Nat
      /\ c[1] = 0 /\ c[m + 2] = end + 1
      /\ \A k \in 1..m : c[k + 1] = q[k]
  BY CutsFacts
<1> HIDE DEF c, S, end
<1>3. n \in Nat /\ n <= m
  <2>1. CountTo(S, h) <= CountTo(S, end) /\ CountTo(S, end) = m
        /\ CountTo(S, h) \in Nat
    BY <1>1, <1>2, CountGrows, CountEnds
  <2> QED
    BY <2>1
<1>4. /\ q \in [1..m -> S]
      /\ \A k \in 1..m : CountTo(S, q[k]) = k
  BY <1>1, <1>2, InOrderFacts
<1>5. S \subseteq Nat
  BY <1>1, <1>2
<1> HIDE DEF q, m
<1>6. ASSUME NEW k \in 1..m
      PROVE  /\ q[k] \in Nat
             /\ k <= n => q[k] <= h
             /\ n < k => h < q[k]
  <2>1. q[k] \in S /\ q[k] \in Nat /\ CountTo(S, q[k]) = k
    BY <1>4, <1>5
  <2>2. h <= q[k] => CountTo(S, h) <= CountTo(S, q[k])
    BY <1>1, <1>2, <2>1, CountGrows
  <2>3. q[k] <= h => CountTo(S, q[k]) <= CountTo(S, h)
    BY <1>1, <1>2, <2>1, CountGrows
  <2>4. h < q[k] => CountTo(S, h) < CountTo(S, q[k])
    <3> SUFFICES ASSUME h < q[k] PROVE CountTo(S, h) < CountTo(S, q[k])
      OBVIOUS
    <3>1. h <= q[k] /\ q[k] <= q[k]
      BY <1>1, <2>1
    <3>2. \E i \in S : h < i /\ i <= q[k]
      BY <2>1, <3>1
    <3> QED
      BY <1>1, <1>2, <2>1, <3>1, <3>2, CountGrows
  <2> HIDE DEF n
  <2>5. /\ h < q[k] => n < k
        /\ q[k] <= h => k <= n
    BY <2>1, <2>3, <2>4 DEF n
  <2>6. k \in Nat
    OBVIOUS
  <2> QED
    BY <1>1, <1>3, <2>1, <2>5, <2>6
<1> HIDE DEF n
<1>7. c[n + 1] \in Nat /\ c[n + 1] <= h
  <2>1. CASE n = 0
    BY <1>1, <1>2, <2>1
  <2>2. CASE n # 0
    <3>1. n \in 1..m /\ n <= n
      BY <1>3, <2>2
    <3> QED
      BY <1>2, <1>6, <3>1
  <2> QED
    BY <2>1, <2>2
<1>8. c[n + 2] \in Nat /\ h < c[n + 2]
  <2>1. CASE n = m
    BY <1>1, <1>2, <2>1
  <2>2. CASE n # m
    <3>1. n + 1 \in 1..m /\ n < n + 1 /\ (n + 1) + 1 = n + 2
      BY <1>2, <1>3, <2>2 DEF m
    <3>2. c[(n + 1) + 1] = q[n + 1]
      BY <1>2, <3>1
    <3> QED
      BY <1>6, <3>1, <3>2
  <2> QED
    BY <2>1, <2>2
<1>9. LineAt(text, h) = 1 + n
  BY DEF LineAt, n, S
<1>10. 1 + n = n + 1 /\ (1 + n) + 1 = n + 2 /\ 1 + n \in 1..(m + 1)
  BY <1>2, <1>3
<1>11. /\ LineAt(text, h) \in 1..(m + 1)
       /\ LineAt(text, h) = n + 1 /\ LineAt(text, h) + 1 = n + 2
  BY <1>9, <1>10
<1> QED
  BY <1>7, <1>8, <1>11, Zenon DEF c, m, S

(* The lines are what stands between the cuts.                             *)
LEMMA LinesFacts ==
  ASSUME NEW text \in Seq(Chars), text # <<>>
  PROVE  /\ Len(splitLines(text)) = Cardinality(Breaks(text)) + 1
         /\ splitLines(text) \in Seq(Seq(Chars))
         /\ \A n \in 1..(Cardinality(Breaks(text)) + 1) :
              /\ Cuts(text)[n] \in Nat /\ Cuts(text)[n + 1] \in Nat
              /\ Cuts(text)[n] < Cuts(text)[n + 1]
              /\ Cuts(text)[n + 1] <= Len(Body(text)) + 1
              /\ Len(splitLines(text)[n]) = Cuts(text)[n + 1] - Cuts(text)[n] - 1
              /\ \A j \in 1..Len(splitLines(text)[n]) :
                   splitLines(text)[n][j] = Body(text)[Cuts(text)[n] + j]
<1> DEFINE S == Breaks(text)
           m == Cardinality(S)
           q == InOrder(S)
           c == Cuts(text)
           body == Body(text)
           end == Len(body)
           lines == splitLines(text)
<1>1. body \in Seq(Chars) /\ end \in Nat
  BY BodyFacts
<1>2. /\ S \subseteq 1..end /\ m \in Nat /\ Len(c) = m + 2
      /\ c[1] = 0 /\ c[m + 2] = end + 1
      /\ \A k \in 1..m : c[k + 1] = q[k]
  BY CutsFacts
<1>3. lines = [k \in 1..(Len(c) - 1) |-> SubSeq(body, c[k] + 1, c[k + 1] - 1)]
  BY DEF splitLines, Cuts, Between, Breaks
<1> HIDE DEF c, S, body, lines, end
<1>4. /\ q \in [1..m -> S]
      /\ \A j, k \in 1..m : j < k => q[j] < q[k]
  BY <1>1, <1>2, InOrderFacts
<1> HIDE DEF q, m
<1>5. ASSUME NEW k \in 1..m PROVE q[k] \in Nat /\ 1 <= q[k] /\ q[k] <= end
  <2>1. q[k] \in 1..end
    BY <1>2, <1>4
  <2> QED
    BY <1>1, <2>1
<1>6. ASSUME NEW n \in 1..(m + 1)
      PROVE  /\ c[n] \in Nat /\ c[n + 1] \in Nat
             /\ c[n] < c[n + 1] /\ c[n + 1] <= end + 1
  <2>0. m \in Nat
    BY <1>2
  <2>1. CASE n = 1 /\ m = 0
    <3>1. c[1] = 0 /\ c[1 + 1] = end + 1
      BY <1>2, <2>1
    <3> QED
      BY <1>1, <2>1, <3>1
  <2>2. CASE n = 1 /\ m # 0
    <3>1. 1 \in 1..m
      BY <2>0, <2>2
    <3>2. c[1] = 0 /\ c[1 + 1] = q[1]
      BY <1>2, <3>1
    <3> QED
      BY <1>1, <1>5, <2>2, <3>1, <3>2
  <2>3. CASE n # 1 /\ n = m + 1
    <3>1. m \in 1..m /\ n + 1 = m + 2
      BY <2>0, <2>3
    <3>2. c[n] = q[m] /\ c[n + 1] = end + 1
      BY <1>2, <2>3, <3>1
    <3> QED
      BY <1>1, <1>5, <3>1, <3>2
  <2>4. CASE n # 1 /\ n # m + 1
    <3>1. n - 1 \in 1..m /\ n \in 1..m /\ (n - 1) + 1 = n /\ n - 1 < n
      BY <2>0, <2>4
    <3>2. c[n] = q[n - 1] /\ c[n + 1] = q[n]
      <4>1. c[(n - 1) + 1] = q[n - 1]
        BY <1>2, <3>1
      <4> QED
        BY <1>2, <3>1, <4>1
    <3>3. q[n - 1] < q[n]
      BY <1>4, <3>1
    <3> QED
      BY <1>1, <1>5, <3>1, <3>2, <3>3
  <2> QED
    BY <2>1, <2>2, <2>3, <2>4
<1>7. Len(c) - 1 = m + 1
  BY <1>2
<1>8. ASSUME NEW n \in 1..(m + 1)
      PROVE  /\ lines[n] \in Seq(Chars) /\ Len(lines[n]) = c[n + 1] - c[n] - 1
             /\ \A j \in 1..Len(lines[n]) : lines[n][j] = body[c[n] + j]
  <2>1. lines[n] = SubSeq(body, c[n] + 1, c[n + 1] - 1)
    BY <1>3, <1>7
  <2> DEFINE from == c[n] + 1
             to == c[n + 1] - 1
  <2>2. /\ from \in Nat /\ to \in Nat /\ 1 <= from /\ to <= end
        /\ to - from + 1 = c[n + 1] - c[n] - 1
        /\ from <= to => to - from + 1 \in Nat
        /\ ~(from <= to) => to - from + 1 = 0
    <3>1. /\ c[n] \in Nat /\ c[n + 1] \in Nat
          /\ c[n] < c[n + 1] /\ c[n + 1] <= end + 1
      BY <1>6
    <3>2. ASSUME NEW a \in Nat, NEW b \in Nat, a < b, b <= end + 1
          PROVE  /\ a + 1 \in Nat /\ b - 1 \in Nat /\ 1 <= a + 1 /\ b - 1 <= end
                 /\ (b - 1) - (a + 1) + 1 = b - a - 1
                 /\ a + 1 <= b - 1 => (b - 1) - (a + 1) + 1 \in Nat
                 /\ ~(a + 1 <= b - 1) => (b - 1) - (a + 1) + 1 = 0
      BY <1>1, <3>2
    <3> QED
      BY <3>1, <3>2, Zenon
  <2>3. \A j \in Int : from + j - 1 = c[n] + j
    <3>1. c[n] \in Nat
      BY <1>6
    <3> QED
      BY <3>1
  <2> HIDE DEF from, to
  <2>4. \A i \in from..to : body[i] \in Chars
    <3>1. \A i \in from..to : i \in 1..Len(body)
      BY <1>1, <2>2 DEF end
    <3>2. \A i \in 1..Len(body) : body[i] \in Chars
      BY <1>1, ElementOfSeq
    <3> QED
      BY <3>1, <3>2, Zenon
  <2>5. /\ SubSeq(body, from, to) \in Seq(Chars)
        /\ Len(SubSeq(body, from, to)) = IF from <= to THEN to - from + 1 ELSE 0
        /\ \A i \in 1..(to - from + 1) :
             SubSeq(body, from, to)[i] = body[from + i - 1]
    BY <2>2, <2>4, SubSeqProperties
  <2>6. Len(SubSeq(body, from, to)) = to - from + 1
    BY <2>2, <2>5
  <2>7. lines[n] = SubSeq(body, from, to)
    BY <2>1 DEF from, to
  <2>8. /\ lines[n] \in Seq(Chars) /\ Len(lines[n]) = to - from + 1
        /\ \A i \in 1..(to - from + 1) : lines[n][i] = body[from + i - 1]
    BY <2>5, <2>6, <2>7, Zenon
  <2>9. \A i \in 1..(to - from + 1) : from + i - 1 = c[n] + i
    BY <2>3
  <2>10. to - from + 1 = c[n + 1] - c[n] - 1
    BY <2>2
  <2> QED
    BY <2>8, <2>9, <2>10, Zenon
<1>9. lines \in [1..(m + 1) -> Seq(Chars)]
  BY <1>3, <1>7, <1>8
<1>10. lines \in Seq(Seq(Chars)) /\ Len(lines) = m + 1
  <2> DEFINE k == m + 1
  <2>1. k \in Nat /\ lines \in [1..k -> Seq(Chars)]
    BY <1>2, <1>9
  <2> HIDE DEF k
  <2>2. lines \in Seq(Seq(Chars))
    BY <2>1, SeqDef
  <2>3. Len(lines) = k
    BY <2>1, <2>2, LenProperties
  <2> QED
    BY <2>2, <2>3 DEF k
<1> QED
  BY <1>6, <1>8, <1>10, Zenon DEF lines, m, S, c, body, end

-----------------------------------------------------------------------------
(* The lines an ambiguity error names.                                     *)

(* The number lineNumbers gives a place is that of the line splitLines     *)
(* puts it in.                                                             *)
LEMMA NumberIsLine ==
  ASSUME NEW text \in Seq(Chars), text # <<>>, NEW h \in 0..Len(Body(text))
  PROVE  1 + Cardinality({i \in 1..h : text[i] = NL}) = LineAt(text, h)
<1> DEFINE body == Body(text)
<1>1. /\ Breaks(text) \subseteq 1..Len(body)
      /\ Len(body) \in Nat /\ body \in Seq(Chars)
      /\ \A i \in 1..Len(body) : body[i] = text[i]
  BY CutsFacts, BodyFacts
<1>2. \A i : i \in Breaks(text) <=> i \in 1..Len(body) /\ body[i] = NL
  <2>1. DOMAIN body = 1..Len(body)
    <3> HIDE DEF body
    <3> QED
      BY <1>1, LenProperties
  <2> QED
    BY <2>1, Zenon DEF Breaks
<1> HIDE DEF body
<1>3. \A i : i \in 1..h <=> i \in 1..Len(body) /\ i <= h
  BY <1>1 DEF body
<1>4. \A i : i \in 1..h /\ text[i] = NL <=> i \in Breaks(text) /\ i <= h
  BY <1>1, <1>2, <1>3, Zenon
<1>5. {i \in 1..h : text[i] = NL} = {j \in Breaks(text) : j <= h}
  BY <1>4, Zenon
<1> QED
  BY <1>5, Zenon DEF LineAt, CountTo

\* Where the lines start, as AmbiguousLinesReadable counts.
StartFrom(lines, f, n) ==
  IF n = 1 THEN 0 ELSE f[n - 1] + Len(lines[n - 1]) + 1

(* Counting the lengths of the lines and the newlines between them leads   *)
(* to the cuts.                                                            *)
LEMMA StartsAreCuts ==
  ASSUME NEW text \in Seq(Chars), text # <<>>, NEW f,
         f = [n \in 1..Len(splitLines(text)) |->
                StartFrom(splitLines(text), f, n)]
  PROVE  \A n \in 1..Len(splitLines(text)) : f[n] = Cuts(text)[n]
<1> DEFINE c == Cuts(text)
           lines == splitLines(text)
           m == Cardinality(Breaks(text))
           Same == {d \in 0..m : f[d + 1] = c[d + 1]}
<1>1. m \in Nat /\ c[1] = 0
  BY CutsFacts
<1>2. /\ Len(lines) = m + 1
      /\ \A n \in 1..(m + 1) : /\ c[n] \in Nat /\ c[n + 1] \in Nat
                               /\ Len(lines[n]) = c[n + 1] - c[n] - 1
  BY LinesFacts
<1>3. \A n \in 1..(m + 1) : f[n] = StartFrom(lines, f, n)
  BY <1>2
<1> HIDE DEF c, lines, m
<1>4. 0 \in Same
  <2>1. 1 \in 1..(m + 1) /\ 0 \in 0..m /\ 0 + 1 = 1
    BY <1>1
  <2>2. f[1] = 0
    BY <1>3, <2>1 DEF StartFrom
  <2> QED
    BY <1>1, <2>1, <2>2
<1>5. ASSUME NEW d \in 0..(m - 1), d \in Same PROVE d + 1 \in Same
  <2> DEFINE n == d + 1
  <2>1. /\ n \in Nat /\ n \in 1..(m + 1) /\ n + 1 \in 1..(m + 1) /\ n \in 0..m
        /\ n + 1 # 1 /\ (n + 1) - 1 = n
    BY <1>1
  <2>2. f[n] = c[n]
    BY <1>5
  <2> HIDE DEF n
  <2>3. f[n + 1] = f[n] + Len(lines[n]) + 1
    BY <1>3, <2>1 DEF StartFrom
  <2>4. /\ c[n] \in Nat /\ c[n + 1] \in Nat
        /\ Len(lines[n]) = c[n + 1] - c[n] - 1
    BY <1>2, <2>1
  <2>5. f[n + 1] = c[n + 1]
    BY <2>2, <2>3, <2>4
  <2> QED
    BY <2>1, <2>5 DEF n
<1>6. 0..m \subseteq Same
  <2> HIDE DEF Same
  <2> QED
    BY <1>1, <1>4, <1>5, UpTo
<1>7. ASSUME NEW n \in 1..(m + 1) PROVE f[n] = c[n]
  <2>1. n - 1 \in 0..m /\ (n - 1) + 1 = n
    BY <1>1
  <2>2. n - 1 \in Same
    BY <1>6, <2>1
  <2> QED
    BY <2>1, <2>2
<1> QED
  BY <1>2, <1>7, Zenon DEF c, lines

(* The recursion that counts them has a solution, so it counts them.       *)
LEMMA StartsCounted ==
  ASSUME NEW text \in Seq(Chars), text # <<>>
  PROVE  LET lines == splitLines(text)
             start[n \in 1..Len(lines)] ==
               IF n = 1 THEN 0 ELSE start[n - 1] + Len(lines[n - 1]) + 1
         IN  \A n \in 1..Len(lines) : start[n] = Cuts(text)[n]
<1> DEFINE lines == splitLines(text)
           c == Cuts(text)
           m == Cardinality(Breaks(text))
           Counting(f) == [n \in 1..Len(lines) |-> StartFrom(lines, f, n)]
           start == CHOOSE f : f = Counting(f)
           g == [n \in 1..Len(lines) |-> c[n]]
<1>1. m \in Nat /\ c[1] = 0
  BY CutsFacts
<1>2. /\ Len(lines) = m + 1
      /\ \A n \in 1..(m + 1) : /\ c[n] \in Nat /\ c[n + 1] \in Nat
                               /\ Len(lines[n]) = c[n + 1] - c[n] - 1
  BY LinesFacts
<1> HIDE DEF lines, c, m
<1>3. ASSUME NEW n \in 1..(m + 1) PROVE c[n] = StartFrom(lines, g, n)
  <2>1. CASE n = 1
    BY <1>1, <2>1 DEF StartFrom
  <2>2. CASE n # 1
    <3> DEFINE k == n - 1
    <3>1. k \in 1..(m + 1) /\ k + 1 = n /\ k \in 1..Len(lines)
      BY <1>1, <1>2, <2>2
    <3>2. g[k] = c[k]
      BY <3>1
    <3>3. c[k] \in Nat /\ c[k + 1] \in Nat /\ Len(lines[k]) = c[k + 1] - c[k] - 1
      BY <1>2, <3>1
    <3>4. StartFrom(lines, g, n) = g[k] + Len(lines[k]) + 1
      BY <2>2 DEF StartFrom
    <3> HIDE DEF k, g
    <3> QED
      BY <3>1, <3>2, <3>3, <3>4
  <2> QED
    BY <2>1, <2>2
<1>4. g = Counting(g)
  <2> HIDE DEF g
  <2>1. \A n \in 1..Len(lines) : g[n] = StartFrom(lines, g, n)
    BY <1>2, <1>3 DEF g
  <2>2. g = [n \in 1..Len(lines) |-> g[n]]
    BY Zenon DEF g
  <2> QED
    BY <2>1, <2>2, Zenon
<1>5. start = Counting(start)
  <2> HIDE DEF g, Counting
  <2> QED
    BY <1>4, Zenon
<1> HIDE DEF start
<1>6. \A n \in 1..Len(lines) : start[n] = c[n]
  BY <1>5, StartsAreCuts, Zenon DEF lines, c
<1> QED
  BY <1>6, Zenon DEF start, lines, c, StartFrom

-----------------------------------------------------------------------------
(* What read shows (lineio.go, Render).                                    *)

(* Max of a nonempty set of numbers up to n is its greatest element.       *)
LEMMA MaxUpTo ==
  ASSUME NEW n \in Nat, NEW S, S \subseteq 0..n, S # {}
  PROVE  Max(S) \in S /\ \A k \in S : k <= Max(S)
<1> DEFINE IsGreatest(m) == \A k \in S : m >= k
           Gaps == {n - k : k \in S}
<1>1. Gaps \subseteq Nat /\ Gaps # {}
  <2>1. \A k \in S : n - k \in Nat
    OBVIOUS
  <2> QED
    BY <2>1, Zenon
<1>2. PICK r \in Gaps : \A d \in Gaps : r <= d
  <2> HIDE DEF Gaps
  <2> QED
    BY <1>1, LeastNat
<1>3. PICK m \in S : r = n - m
  BY <1>2
<1>4. ASSUME NEW k \in S PROVE m >= k
  <2>1. n - k \in Gaps
    OBVIOUS
  <2>2. n - m <= n - k
    BY <1>2, <1>3, <2>1
  <2>3. m \in 0..n /\ k \in 0..n
    OBVIOUS
  <2> QED
    BY <2>2, <2>3
<1>5. \E j \in S : IsGreatest(j)
  BY <1>4
<1>6. Max(S) = CHOOSE j \in S : IsGreatest(j)
  BY DEF Max
<1> HIDE DEF IsGreatest
<1>7. Max(S) \in S /\ IsGreatest(Max(S))
  BY <1>5, <1>6
<1>8. \A k \in S : Max(S) >= k
  BY <1>7 DEF IsGreatest
<1>9. \A k \in S : k \in Nat
  OBVIOUS
<1> QED
  BY <1>7, <1>8, <1>9

\* Adding up g[1], g[2] and so on.
Sums(g, f) == [k \in Nat |-> IF k = 0 THEN 0 ELSE f[k - 1] + g[k]]

(* The recursion that adds up has a solution.                              *)
LEMMA SumsExist ==
  ASSUME NEW g
  PROVE  \E f : f = Sums(g, f)
<1> DEFINE Good(n, f) == f[0] = 0 /\ \A k \in 1..n : f[k] = f[k - 1] + g[k]
           Some(n) == CHOOSE f : Good(n, f)
           sums == [k \in Nat |-> Some(k)[k]]
<1>1. ASSUME NEW n \in Nat PROVE \E f : Good(n, f)
  <2> DEFINE Sofar == {m \in 0..n : \E f : Good(m, f)}
  <2>1. 0 \in Sofar
    <3> DEFINE f == [k \in 0..0 |-> 0]
    <3>1. Good(0, f)
      OBVIOUS
    <3> HIDE DEF f
    <3> QED
      BY <3>1
  <2>2. ASSUME NEW m \in 0..(n - 1), m \in Sofar PROVE m + 1 \in Sofar
    <3>1. PICK f : Good(m, f)
      BY <2>2
    <3> DEFINE h == [k \in 0..(m + 1) |-> IF k = m + 1 THEN f[m] + g[m + 1] ELSE f[k]]
    <3>2. h[m + 1] = f[m] + g[m + 1] /\ \A k \in 0..m : h[k] = f[k]
      OBVIOUS
    <3> HIDE DEF h
    <3>3. ASSUME NEW k \in 1..(m + 1) PROVE h[k] = h[k - 1] + g[k]
      <4>1. k - 1 \in 0..m /\ h[k - 1] = f[k - 1]
        BY <3>2
      <4>2. CASE k = m + 1
        <5>1. k - 1 = m
          BY <4>2
        <5> QED
          BY <3>2, <4>1, <4>2, <5>1
      <4>3. CASE k # m + 1
        <5>1. k \in 1..m /\ k \in 0..m
          BY <4>3
        <5> QED
          BY <3>1, <3>2, <4>1, <5>1
      <4> QED
        BY <4>2, <4>3
    <3>4. h[0] = 0
      BY <3>1, <3>2
    <3>5. m + 1 \in 0..n
      OBVIOUS
    <3> QED
      BY <3>3, <3>4, <3>5
  <2>3. 0..n \subseteq Sofar
    <3> HIDE DEF Sofar
    <3> QED
      BY <2>1, <2>2, UpTo
  <2>4. n \in 0..n
    OBVIOUS
  <2> HIDE DEF Good
  <2> QED
    BY <2>3, <2>4
<1>2. ASSUME NEW n \in Nat, NEW f, NEW h, Good(n, f), Good(n, h)
      PROVE  f[n] = h[n]
  <2> DEFINE Same == {m \in 0..n : f[m] = h[m]}
  <2>1. 0 \in Same
    BY <1>2
  <2>2. ASSUME NEW m \in 0..(n - 1), m \in Same PROVE m + 1 \in Same
    <3>1. m + 1 \in 1..n /\ (m + 1) - 1 = m /\ m + 1 \in 0..n
      OBVIOUS
    <3>2. f[m + 1] = f[m] + g[m + 1] /\ h[m + 1] = h[m] + g[m + 1]
      BY <1>2, <3>1
    <3> QED
      BY <2>2, <3>1, <3>2
  <2>3. 0..n \subseteq Same
    <3> HIDE DEF Same
    <3> QED
      BY <2>1, <2>2, UpTo
  <2>4. n \in 0..n
    OBVIOUS
  <2> QED
    BY <2>3, <2>4
<1>3. \A n \in Nat : Good(n, Some(n))
  <2> HIDE DEF Good
  <2> QED
    BY <1>1
<1>4. ASSUME NEW k \in Nat, k # 0 PROVE sums[k] = sums[k - 1] + g[k]
  <2>1. k - 1 \in Nat /\ k \in 1..k
    BY <1>4
  <2>2. Some(k)[k] = Some(k)[k - 1] + g[k]
    <3>1. Good(k, Some(k))
      BY <1>3
    <3> HIDE DEF Some
    <3> QED
      BY <2>1, <3>1
  <2>3. Good(k - 1, Some(k))
    <3>1. Good(k, Some(k))
      BY <1>3
    <3>2. \A j \in 1..(k - 1) : j \in 1..k
      BY <2>1
    <3> HIDE DEF Some
    <3> QED
      BY <3>1, <3>2
  <2>4. Good(k - 1, Some(k - 1))
    BY <1>3, <2>1
  <2> HIDE DEF Good, Some
  <2>5. Some(k)[k - 1] = Some(k - 1)[k - 1]
    BY <1>2, <2>1, <2>3, <2>4
  <2> QED
    BY <2>1, <2>2, <2>5
<1>5. sums[0] = 0
  <2>1. Good(0, Some(0))
    BY <1>3
  <2> HIDE DEF Some
  <2> QED
    BY <2>1
<1>6. sums = Sums(g, sums)
  <2>1. \A k \in Nat : sums[k] = IF k = 0 THEN 0 ELSE sums[k - 1] + g[k]
    <3> HIDE DEF sums
    <3> QED
      BY <1>4, <1>5
  <2>2. sums = [k \in Nat |-> sums[k]]
    <3> HIDE DEF Some
    <3> QED
      OBVIOUS
  <2> HIDE DEF sums
  <2> QED
    BY <2>1, <2>2, Zenon DEF Sums
<1> HIDE DEF sums
<1> QED
  BY <1>6

(* A sum of numbers between zero and w.                                    *)
LEMMA SumsBounded ==
  ASSUME NEW g, NEW f, f = Sums(g, f), NEW w \in Nat, NEW n \in Nat,
         \A k \in 1..n : g[k] \in 0..w
  PROVE  \A k \in 0..n : f[k] \in Nat /\ f[k] <= k * w
<1> DEFINE Fine == {k \in 0..n : f[k] \in Nat /\ f[k] <= k * w}
<1>0. f[0] = 0 /\ \A k \in Nat : k # 0 => f[k] = f[k - 1] + g[k]
  <2> DEFINE s == Sums(g, f)
  <2>1. s[0] = 0 /\ \A k \in Nat : k # 0 => s[k] = f[k - 1] + g[k]
    BY DEF Sums
  <2> HIDE DEF s
  <2>2. f = s
    BY DEF s
  <2> QED
    BY <2>1, <2>2, Zenon
<1>1. 0 \in Fine
  BY <1>0
<1>2. ASSUME NEW k \in 0..(n - 1), k \in Fine PROVE k + 1 \in Fine
  <2>1. k + 1 \in 1..n /\ k + 1 \in 0..n /\ k + 1 # 0 /\ (k + 1) - 1 = k /\ k \in Nat
    OBVIOUS
  <2>2. f[k + 1] = f[k] + g[k + 1]
    BY <1>0, <2>1
  <2>3. f[k] \in Nat /\ f[k] <= k * w /\ g[k + 1] \in 0..w
    BY <1>2, <2>1
  <2>4. (k + 1) * w = k * w + w /\ k * w \in Nat
    BY <2>1
  <2>5. f[k + 1] \in Nat /\ f[k + 1] <= (k + 1) * w
    <3> HIDE DEF Fine
    <3>1. \A a, b, c : a \in Nat /\ a <= c /\ b \in 0..w /\ c \in Nat
                       => a + b \in Nat /\ a + b <= c + w
      OBVIOUS
    <3> QED
      BY <2>2, <2>3, <2>4, <3>1, Zenon
  <2> QED
    BY <2>1, <2>5
<1>3. 0..n \subseteq Fine
  <2> HIDE DEF Fine
  <2> QED
    BY <1>1, <1>2, UpTo
<1> QED
  BY <1>3

(* A line without runs of invalid bytes is a line.                         *)
LEMMA SanitizeTyped ==
  ASSUME NEW ln \in Seq(Chars)
  PROVE  sanitize(ln) \in Seq(Chars) /\ Len(sanitize(ln)) \in Nat
<1> DEFINE kept == {i \in DOMAIN ln : ~(i > 1 /\ ln[i] = Bad /\ ln[i - 1] = Bad)}
           order == InOrder(kept)
           m == Cardinality(kept)
           n == Len(ln)
<1>1. n \in Nat /\ DOMAIN ln = 1..n /\ \A i \in 1..n : ln[i] \in Chars
  BY LenProperties, ElementOfSeq
<1>2. kept \subseteq 1..n
  BY <1>1
<1>3. sanitize(ln) = [k \in 1..Len(order) |-> ln[order[k]]]
  BY Zenon DEF sanitize
<1> HIDE DEF kept, n
<1>4. m \in Nat
  BY <1>1, <1>2, CountEnds
<1>5. order \in [1..m -> kept]
  BY <1>1, <1>2, InOrderFacts
<1> HIDE DEF order, m
<1>6. Len(order) = m
  <2>1. order \in Seq(kept)
    BY <1>4, <1>5, SeqDef
  <2> QED
    BY <1>4, <1>5, <2>1, LenProperties
<1>7. \A k \in 1..m : ln[order[k]] \in Chars
  BY <1>1, <1>2, <1>5
<1>8. sanitize(ln) \in [1..m -> Chars]
  BY <1>3, <1>6, <1>7
<1>9. sanitize(ln) \in Seq(Chars)
  BY <1>4, <1>8, SeqDef
<1> QED
  BY <1>9, LenProperties

(* What is shown of a line is the line without runs, or its beginning,     *)
(* which is a different line.                                              *)
LEMMA ShownFacts ==
  ASSUME NEW ln \in Seq(Chars)
  PROVE  /\ Shown(ln) \in Seq(Chars) /\ Len(Shown(ln)) \in 0..MaxLineChars
         /\ Cut(ln) => Shown(ln) # sanitize(ln)
         /\ ~Cut(ln) => Shown(ln) = sanitize(ln)
<1> DEFINE s == sanitize(ln)
           n == MaxLineChars
<1>1. s \in Seq(Chars) /\ Len(s) \in Nat
  BY SanitizeTyped
<1>2. n \in Nat /\ n # 0
  BY LineAssumption
<1>3. CASE Cut(ln)
  <2>1. Len(s) > n
    BY <1>3 DEF Cut
  <2>2. Shown(ln) = SubSeq(s, 1, n)
    BY <1>3 DEF Shown
  <2> HIDE DEF s, n
  <2>3. \A i \in 1..n : s[i] \in Chars
    <3>1. \A i \in 1..n : i \in 1..Len(s)
      BY <1>1, <1>2, <2>1
    <3> QED
      BY <1>1, <3>1, ElementOfSeq
  <2>4. SubSeq(s, 1, n) \in Seq(Chars) /\ Len(SubSeq(s, 1, n)) = n
    BY <1>2, <2>3, SubSeqProperties
  <2>5. Len(Shown(ln)) = n /\ n \in 0..n /\ n # Len(s)
    BY <1>1, <1>2, <2>1, <2>2, <2>4
  <2>6. Shown(ln) \in Seq(Chars) /\ Shown(ln) # s
    BY <2>2, <2>4, <2>5, Zenon
  <2> QED
    BY <1>3, <2>5, <2>6 DEF s, n
<1>4. CASE ~Cut(ln)
  <2>1. Len(s) \in 0..n
    BY <1>1, <1>2, <1>4 DEF Cut
  <2>2. Shown(ln) = s
    BY <1>4 DEF Shown
  <2> HIDE DEF s, n
  <2> QED
    BY <1>1, <1>4, <2>1, <2>2 DEF s, n
<1> QED
  BY <1>3, <1>4

(* A line number has no more digits than the largest.                      *)
LEMMA DigitsBound == \A n : Digits(n) \in 1..MaxDigits
<1> TAKE n
<1> DEFINE all == 1..(MaxDigits - 1)
           some == {d \in all : 10 ^ d <= n}
<1>1. MaxDigits \in Nat /\ MaxDigits # 0
  BY LineAssumption
<1>2. IsFiniteSet(all) /\ Cardinality(all) = MaxDigits - 1
  <2>1. /\ IsFiniteSet(1..(MaxDigits - 1))
        /\ Cardinality(1..(MaxDigits - 1)) =
             IF 1 > MaxDigits - 1 THEN 0 ELSE (MaxDigits - 1) - 1 + 1
    BY <1>1, FS_Interval
  <2> QED
    BY <1>1, <2>1
<1>3. Digits(n) = 1 + Cardinality(some)
  BY DEF Digits
<1>4. some \in SUBSET all
  BY Zenon
<1> HIDE DEF all, some
<1>5. Cardinality(some) \in Nat /\ Cardinality(some) <= MaxDigits - 1
  BY <1>2, <1>4, FS_Subset, FS_CardinalityType
<1> QED
  BY <1>1, <1>3, <1>5

(* The bytes of a line as Size adds them up.                               *)
LEMMA BytesFit ==
  ASSUME NEW s \in Seq(Chars), Len(s) \in 0..MaxLineChars
  PROVE  LET bytes[k \in Nat] ==
               IF k = 0 THEN 0 ELSE bytes[k - 1] + Width[s[k]]
         IN  /\ bytes[Len(s)] \in Nat
             /\ bytes[Len(s)] + MarkerWidth + MaxDigits + 2 <= MaxTotalBytes
<1> DEFINE Summing(f) == [k \in Nat |-> IF k = 0 THEN 0 ELSE f[k - 1] + Width[s[k]]]
           bytes == CHOOSE f : f = Summing(f)
           g == [k \in Nat |-> Width[s[k]]]
           n == Len(s)
           IsMax(w) == \A c \in Chars : Width[c] <= w
<1>1. n \in Nat /\ n <= MaxLineChars /\ MaxLineChars \in Nat /\ MarkerWidth \in Nat
      /\ MaxDigits \in Nat /\ Width \in [Chars -> 1..4] /\ Bad \in Chars
  BY LineAssumption
<1>2. ASSUME NEW f PROVE Summing(f) = Sums(g, f)
  <2>1. \A k \in Nat : g[k] = Width[s[k]]
    OBVIOUS
  <2> HIDE DEF g
  <2> QED
    BY <2>1, Zenon DEF Sums
<1>3. bytes = Summing(bytes)
  <2>1. PICK f : f = Sums(g, f)
    BY SumsExist
  <2>2. f = Summing(f)
    BY <1>2, <2>1, Zenon
  <2> HIDE DEF Summing
  <2> QED
    BY <2>2, Zenon
<1>4. bytes = Sums(g, bytes)
  <2> HIDE DEF bytes, Summing
  <2> QED
    BY <1>2, <1>3, Zenon
<1>5. PICK c \in Chars : IsMax(Width[c])
  <2> DEFINE some == {4 - Width[c] : c \in Chars}
  <2>1. some \subseteq Nat /\ some # {}
    <3>1. \A c \in Chars : 4 - Width[c] \in Nat
      BY <1>1
    <3> QED
      BY <1>1, <3>1, Zenon
  <2>2. PICK d \in some : \A e \in some : d <= e
    <3> HIDE DEF some
    <3> QED
      BY <2>1, LeastNat
  <2>3. PICK c \in Chars : d = 4 - Width[c]
    BY <2>2
  <2>4. ASSUME NEW b \in Chars PROVE Width[b] <= Width[c]
    <3>1. 4 - Width[c] <= 4 - Width[b]
      BY <2>2, <2>3
    <3>2. Width[b] \in 1..4 /\ Width[c] \in 1..4
      BY <1>1
    <3> QED
      BY <3>1, <3>2
  <2> QED
    BY <2>4
<1> DEFINE w == Width[c]
<1>6. /\ w \in 1..4 /\ w \in Nat
      /\ w * MaxLineChars + MarkerWidth + MaxDigits + 2 <= MaxTotalBytes
  <2>1. w \in 1..4
    BY <1>1
  <2>2. w * MaxLineChars + MarkerWidth + MaxDigits + 2 <= MaxTotalBytes
    BY LineAssumption, Zenon
  <2> HIDE DEF w
  <2> QED
    BY <2>1, <2>2
<1>7. ASSUME NEW k \in 1..n PROVE g[k] \in 0..w
  <2>1. s[k] \in Chars
    BY ElementOfSeq
  <2>2. g[k] = Width[s[k]] /\ Width[s[k]] \in 1..4 /\ Width[s[k]] <= w
    BY <1>1, <1>5, <2>1
  <2> QED
    BY <1>6, <2>2
<1> HIDE DEF g, n, bytes, IsMax, w
<1>8. n \in 0..n
  BY <1>1
<1>9. \A k \in 0..n : bytes[k] \in Nat /\ bytes[k] <= k * w
  BY <1>1, <1>4, <1>6, <1>7, SumsBounded
<1>10. bytes[n] \in Nat /\ bytes[n] <= n * w
  BY <1>8, <1>9
<1>11. n * w <= w * MaxLineChars
  <2>1. w = 1 \/ w = 2 \/ w = 3 \/ w = 4
    BY <1>6
  <2> QED
    BY <1>1, <2>1
<1>12. bytes[n] + MarkerWidth + MaxDigits + 2 <= MaxTotalBytes
  <2>1. MaxTotalBytes \in Nat
    BY LineAssumption
  <2>2. n * w \in Nat /\ w * MaxLineChars \in Nat
    BY <1>1, <1>6
  <2>3. \A a, b, d, e, m, t :
          /\ a \in Nat /\ b \in Nat /\ d \in Nat
          /\ e \in Nat /\ m \in Nat /\ t \in Nat
          /\ a <= b /\ b <= d /\ d + e + m + 2 <= t
          => a + e + m + 2 <= t
    OBVIOUS
  <2> QED
    BY <1>1, <1>6, <1>10, <1>11, <2>1, <2>2, <2>3, Zenon
<1> QED
  BY <1>10, <1>12, Zenon DEF bytes, n

(* A line as it is shown, with its number, fits a page of its own.         *)
LEMMA SizeFits ==
  ASSUME NEW ln \in Seq(Chars), NEW n
  PROVE  Size(n, ln) \in Nat /\ Size(n, ln) <= MaxTotalBytes
<1> DEFINE s == Shown(ln)
           bytes == CHOOSE f : f = [k \in Nat |->
                                      IF k = 0 THEN 0 ELSE f[k - 1] + Width[s[k]]]
           b == bytes[Len(s)]
           cut == IF Cut(ln) THEN MarkerWidth ELSE 0
<1>1. b \in Nat /\ b + MarkerWidth + MaxDigits + 2 <= MaxTotalBytes
  <2>1. s \in Seq(Chars) /\ Len(s) \in 0..MaxLineChars
    BY ShownFacts
  <2> HIDE DEF s
  <2> QED
    BY <2>1, BytesFit
<1>2. Size(n, ln) = Digits(n) + 1 + b + cut + 1
  BY Zenon DEF Size
<1>3. /\ MarkerWidth \in Nat /\ MaxTotalBytes \in Nat /\ MaxDigits \in Nat
      /\ cut \in 0..MarkerWidth
  BY LineAssumption
<1>4. Digits(n) \in 1..MaxDigits
  BY DigitsBound
<1> HIDE DEF b, cut
<1> QED
  BY <1>1, <1>2, <1>3, <1>4

\* A page of the lines from..to of which n fit.
Page(lines, from, limit, to, n) ==
  LET effective == IF limit > DefaultLines THEN DefaultLines ELSE limit
      last == IF n > 0 THEN from + n - 1 ELSE 0
      sizeStop == n < to - from + 1
      seen == from..(IF sizeStop THEN from + n ELSE to)
      truncated == \E i \in seen : Cut(lines[i])
  IN  [lines |-> [k \in 1..n |-> Shown(lines[from + k - 1])],
       first |-> IF n > 0 THEN from ELSE 0,
       last |-> last,
       total |-> Len(lines),
       truncated |-> truncated,
       reasons |-> (IF truncated THEN {"line length"} ELSE {})
              \cup (IF sizeStop THEN {"size"} ELSE {})
              \cup (IF ~sizeStop /\ n = effective /\ last < Len(lines)
                    THEN {IF limit > DefaultLines THEN "line limit"
                          ELSE "requested limit"}
                    ELSE {}),
       next |-> NextOffset(last, Len(lines), truncated)]

(* A page that starts inside the file shows at least one line, and no more *)
(* than there are or were asked for.                                       *)
LEMMA WindowIsPage ==
  ASSUME NEW lines \in Seq(Seq(Chars)), NEW from \in 1..Len(lines),
         NEW limit \in 1..(DefaultLines + 1)
  PROVE  \E to \in from..Len(lines) : \E n \in 1..(to - from + 1) :
           /\ Window(lines, from, limit) = Page(lines, from, limit, to, n)
           /\ \/ to = Len(lines)
              \/ to - from + 1 = IF limit > DefaultLines THEN DefaultLines ELSE limit
<1> DEFINE effective == IF limit > DefaultLines THEN DefaultLines ELSE limit
           to == IF from - 1 + effective > Len(lines) THEN Len(lines)
                 ELSE from - 1 + effective
           Summing(f) == [k \in Nat |->
                          IF k = 0 THEN 0
                          ELSE f[k - 1] + Size(from + k - 1, lines[from + k - 1])]
           used == CHOOSE f : f = Summing(f)
           g == [k \in Nat |-> Size(from + k - 1, lines[from + k - 1])]
           fit == {k \in 0..(to - from + 1) : used[k] <= MaxTotalBytes}
           n == Max(fit)
<1>1. Len(lines) \in Nat /\ from \in Nat /\ 1 <= from /\ from <= Len(lines)
  BY LenProperties
<1>2. effective \in Nat /\ 1 <= effective
  BY LineAssumption
<1>3. Window(lines, from, limit) = Page(lines, from, limit, to, n)
  BY Zenon DEF Window, Page, Emitted
<1> HIDE DEF effective
<1>4. /\ to \in from..Len(lines) /\ to - from + 1 \in Nat /\ 1 <= to - from + 1
      /\ to = Len(lines) \/ to - from + 1 = effective
  BY <1>1, <1>2
<1> HIDE DEF to
<1>5. ASSUME NEW f PROVE Summing(f) = Sums(g, f)
  <2>1. \A k \in Nat : g[k] = Size(from + k - 1, lines[from + k - 1])
    OBVIOUS
  <2> HIDE DEF g
  <2> QED
    BY <2>1, Zenon DEF Sums
<1>6. used = Sums(g, used)
  <2>1. PICK f : f = Sums(g, f)
    BY SumsExist
  <2>2. f = Summing(f)
    BY <1>5, <2>1, Zenon
  <2>3. used = Summing(used)
    <3> HIDE DEF Summing
    <3> QED
      BY <2>2, Zenon
  <2> HIDE DEF used, Summing
  <2> QED
    BY <1>5, <2>3, Zenon
<1>7. g[1] \in Nat /\ g[1] <= MaxTotalBytes
  <2>1. lines[from] \in Seq(Chars)
    BY ElementOfSeq
  <2>2. from + 1 - 1 = from
    BY <1>1
  <2>3. g[1] = Size(from, lines[from])
    BY <2>2
  <2> QED
    BY <2>1, <2>3, SizeFits
<1> HIDE DEF used, g
<1>8. used[0] = 0 /\ used[1] = used[0] + g[1]
  <2> DEFINE s == Sums(g, used)
  <2>1. s[0] = 0 /\ s[1] = used[1 - 1] + g[1]
    BY DEF Sums
  <2> HIDE DEF s
  <2>2. used = s
    BY <1>6 DEF s
  <2>3. 1 - 1 = 0
    OBVIOUS
  <2> QED
    BY <2>1, <2>2, <2>3, Zenon
<1>9. 1 \in fit
  <2>1. used[1] <= MaxTotalBytes
    BY <1>7, <1>8
  <2> QED
    BY <1>4, <2>1
<1>10. fit \subseteq 0..(to - from + 1)
  OBVIOUS
<1> HIDE DEF fit
<1>11. n \in fit /\ 1 <= n
  BY <1>4, <1>9, <1>10, MaxUpTo
<1> HIDE DEF n
<1>12. n \in 1..(to - from + 1)
  BY <1>4, <1>10, <1>11
<1> QED
  BY <1>3, <1>4, <1>12, Zenon DEF effective

\* The lines from this number on, in full.
RestOf(lines, from) ==
  [k \in 1..(Len(lines) - from + 1) |-> sanitize(lines[from + k - 1])]

\* What a page w from this number on says.
PageSays(w, lines, from) ==
  /\ w.lines # <<>> /\ w.first = from /\ w.last \in from..Len(lines)
  /\ w.next = 0 \/ w.next = w.last + 1
  /\ w.next = 0 <=> w.lines = RestOf(lines, from)
  /\ w.next # 0 => w.reasons # {} /\ (w.last = Len(lines) => w.truncated)

(* A page starts with the line asked for, and its footer is empty exactly  *)
(* when everything from there on is shown in full.                         *)
LEMMA PageFacts ==
  ASSUME NEW lines \in Seq(Seq(Chars)), NEW from \in 1..Len(lines),
         NEW limit \in 1..(DefaultLines + 1)
  PROVE  PageSays(Window(lines, from, limit), lines, from)
<1> SUFFICES ASSUME NEW w, w = Window(lines, from, limit)
             PROVE  PageSays(w, lines, from)
  OBVIOUS
<1> DEFINE effective == IF limit > DefaultLines THEN DefaultLines ELSE limit
           len == Len(lines)
           shown(n) == [k \in 1..n |-> Shown(lines[from + k - 1])]
           rest == [k \in 1..(len - from + 1) |-> sanitize(lines[from + k - 1])]
<1>0. PICK to \in from..len : \E n \in 1..(to - from + 1) :
        /\ w = Page(lines, from, limit, to, n)
        /\ to = len \/ to - from + 1 = effective
  BY WindowIsPage, Zenon
<1>1. PICK n \in 1..(to - from + 1) :
        /\ w = Page(lines, from, limit, to, n)
        /\ to = len \/ to - from + 1 = effective
  BY <1>0
<1> DEFINE last == from + n - 1
           sizeStop == n < to - from + 1
           seen == from..(IF sizeStop THEN from + n ELSE to)
           truncated == \E i \in seen : Cut(lines[i])
<1>2. /\ len \in Nat /\ from \in Nat /\ 1 <= from /\ from <= len
      /\ to \in Nat /\ from <= to /\ to <= len
      /\ n \in Nat /\ 1 <= n /\ n <= to - from + 1 /\ n > 0
  BY LenProperties
<1>3. /\ w.lines = shown(n) /\ w.first = from /\ w.last = last
      /\ w.next = NextOffset(last, len, truncated) /\ (truncated => w.truncated)
      /\ truncated => "line length" \in w.reasons
      /\ sizeStop => "size" \in w.reasons
      /\ ~sizeStop /\ n = effective /\ last < len => w.reasons # {}
  <2> HIDE DEF effective
  <2> DEFINE why == (IF truncated THEN {"line length"} ELSE {})
                    \cup (IF sizeStop THEN {"size"} ELSE {})
                    \cup (IF ~sizeStop /\ n = effective /\ last < len
                          THEN {IF limit > DefaultLines THEN "line limit"
                                ELSE "requested limit"}
                          ELSE {})
  <2> DEFINE page0 ==
               [lines |-> shown(n), first |-> from, last |-> last, total |-> len,
                truncated |-> truncated, reasons |-> why,
                next |-> NextOffset(last, len, truncated)]
  <2>1. w = page0
    BY <1>1, <1>2, Zenon DEF Page, effective
  <2> HIDE DEF last, len, sizeStop, truncated, shown
  <2>2. /\ truncated => "line length" \in why
        /\ sizeStop => "size" \in why
        /\ ~sizeStop /\ n = effective /\ last < len => why # {}
    OBVIOUS
  <2> HIDE DEF why
  <2>3. /\ page0.lines = shown(n) /\ page0.first = from /\ page0.last = last
        /\ page0.next = NextOffset(last, len, truncated)
        /\ page0.truncated = truncated
        /\ page0.reasons = why
    BY Zenon
  <2> HIDE DEF page0
  <2> QED
    BY <2>1, <2>2, <2>3, Zenon
<1> HIDE DEF len
<1>4. /\ last \in Nat /\ last \in from..len
      /\ len <= last <=> n = len - from + 1
  <2>1. \A f, l, t, m : /\ f \in Nat /\ l \in Nat /\ t \in Nat /\ m \in Nat
                        /\ 1 <= f /\ f <= t /\ t <= l /\ 1 <= m /\ m <= t - f + 1
                        => /\ f + m - 1 \in Nat /\ f + m - 1 \in f..l
                           /\ l <= f + m - 1 <=> m = l - f + 1
    OBVIOUS
  <2> QED
    BY <1>2, <2>1, Zenon
<1>5. n = len - from + 1 => to = len /\ ~sizeStop /\ seen = from..len
  BY <1>2
<1>6. n = len - from + 1 => (shown(n) = rest <=> ~truncated)
  <2> SUFFICES ASSUME n = len - from + 1 PROVE shown(n) = rest <=> ~truncated
    OBVIOUS
  <2>1. \A i \in from..len : /\ i - from + 1 \in 1..n
                             /\ from + (i - from + 1) - 1 = i
    BY <1>2
  <2>2. \A k \in 1..n : from + k - 1 \in from..len
    BY <1>2
  <2>3. \A i \in from..len : lines[i] \in Seq(Chars)
    <3>1. \A i \in from..len : i \in 1..len
      BY <1>2
    <3> QED
      BY <3>1, ElementOfSeq DEF len
  <2>4. \A i \in from..len : Shown(lines[i]) = sanitize(lines[i]) <=> ~Cut(lines[i])
    BY <2>3, ShownFacts
  <2>5. truncated <=> \E i \in from..len : Cut(lines[i])
    BY <1>5, Zenon
  <2>6. ASSUME \A i \in from..len : ~Cut(lines[i]) PROVE shown(n) = rest
    <3>1. \A k \in 1..n : Shown(lines[from + k - 1]) = sanitize(lines[from + k - 1])
      BY <2>2, <2>4, <2>6, Zenon
    <3> QED
      BY <3>1, Zenon
  <2>7. ASSUME NEW i \in from..len, Cut(lines[i]) PROVE shown(n) # rest
    <3> DEFINE k == i - from + 1
    <3>1. k \in 1..n /\ from + k - 1 = i
      BY <2>1
    <3> HIDE DEF k
    <3>2. shown(n)[k] = Shown(lines[i])
      BY <3>1, Zenon
    <3>3. rest[k] = sanitize(lines[i])
      BY <3>1, Zenon
    <3>4. Shown(lines[i]) # sanitize(lines[i])
      BY <2>4, <2>7
    <3> HIDE DEF shown, rest
    <3> QED
      BY <3>2, <3>3, <3>4, Zenon
  <2> HIDE DEF shown, rest, truncated
  <2> QED
    BY <2>5, <2>6, <2>7, Zenon
<1>7. n # len - from + 1 => shown(n) # rest
  <2> SUFFICES ASSUME shown(n) = rest PROVE n = len - from + 1
    OBVIOUS
  <2>1. DOMAIN shown(n) = 1..n /\ DOMAIN rest = 1..(len - from + 1)
    BY Zenon
  <2> HIDE DEF shown, rest
  <2>2. 1..n = 1..(len - from + 1)
    BY <2>1, Zenon
  <2>3. n \in 1..n /\ len - from + 1 \in 1..(len - from + 1)
    BY <1>2
  <2>4. n \in 1..(len - from + 1) /\ len - from + 1 \in 1..n
    BY <2>2, <2>3, Zenon
  <2>5. \A a, b : a \in 1..b /\ b \in 1..a => a = b
    OBVIOUS
  <2> QED
    BY <2>4, <2>5, Zenon
<1>8. sizeStop \/ n = effective \/ n = len - from + 1
  <2>1. \A f, t, m : /\ f \in Nat /\ t \in Nat /\ m \in Nat /\ m <= t - f + 1
                     => m < t - f + 1 \/ m = t - f + 1
    OBVIOUS
  <2>2. sizeStop \/ n = to - from + 1
    BY <1>2, <2>1, Zenon
  <2> HIDE DEF effective, sizeStop
  <2> QED
    BY <1>1, <2>2, Zenon
<1>9. last \in Nat /\ last + 1 # 0
  BY <1>4
<1>13. shown(n) # <<>>
  <2>1. DOMAIN shown(n) = 1..n /\ 1 \in 1..n /\ DOMAIN <<>> = {}
    BY <1>2
  <2> HIDE DEF shown
  <2> QED
    BY <2>1
<1> HIDE DEF shown, rest, truncated, effective, sizeStop, len, last
<1>10. w.next = 0 <=> w.lines = rest
  <2>1. last >= len <=> n = len - from + 1
    BY <1>2, <1>4
  <2>2. w.next = 0 <=> last >= len /\ ~truncated
    BY <1>3, <1>9, Zenon DEF NextOffset
  <2>3. w.lines = shown(n)
    BY <1>3, Zenon
  <2> QED
    BY <1>6, <1>7, <2>1, <2>2, <2>3, Zenon
<1>11. w.next = 0 \/ w.next = w.last + 1
  BY <1>3 DEF NextOffset
<1>12. w.next # 0 => w.reasons # {}
  <2>1. w.next # 0 => truncated \/ ~(last >= len)
    BY <1>3 DEF NextOffset
  <2>2. truncated \/ sizeStop => w.reasons # {}
    BY <1>3, Zenon
  <2>3. ~(last >= len) => last < len /\ n # len - from + 1
    BY <1>2, <1>4, <1>9
  <2> QED
    BY <1>3, <1>8, <2>1, <2>2, <2>3, Zenon
<1>14. w.next # 0 /\ w.last = len => w.truncated
  <2>1. last = len => last >= len
    BY <1>2, <1>9
  <2> QED
    BY <1>3, <2>1, Zenon DEF NextOffset
<1>15. w.lines # <<>>
  BY <1>3, <1>13, Zenon
<1> QED
  BY <1>3, <1>4, <1>10, <1>11, <1>12, <1>14, <1>15, Zenon
     DEF rest, len, RestOf, PageSays

\* What a read w of a file of these lines, from this number on, says.
AnswerSays(w, lines, from) ==
  /\ w.last \in 0..Len(lines)
  /\ w.next = 0 \/ w.next = w.last + 1
  /\ IF from <= Len(lines) THEN w.lines # <<>> /\ w.first = from
     ELSE w.lines = <<>> /\ w.last = 0
  /\ w.next = 0 <=> /\ w.lines = RestOf(lines, from)
                    /\ from <= Len(lines) \/ lines = <<>>
  /\ w.next # 0 => w.reasons # {} /\ (w.last = Len(lines) => w.truncated)

(* The lines of a text have a number.                                      *)
LEMMA LinesTyped ==
  ASSUME NEW text \in Seq(Chars)
  PROVE  splitLines(text) \in Seq(Seq(Chars)) /\ Len(splitLines(text)) \in Nat
<1> DEFINE lines == splitLines(text)
<1>1. CASE text = <<>>
  <2>1. lines = <<>>
    BY <1>1 DEF splitLines
  <2> QED
    BY <2>1, EmptySeq
<1>2. CASE text # <<>>
  <2>1. lines \in Seq(Seq(Chars))
    BY <1>2, LinesFacts
  <2> HIDE DEF lines
  <2> QED
    BY <2>1, LenProperties DEF lines
<1> QED
  BY <1>1, <1>2

(* What a read call answers: a page as above; when the offset is past the  *)
(* end, nothing, with the advice to start at line 1; and nothing for an    *)
(* empty file.                                                             *)
LEMMA RenderFacts ==
  ASSUME NEW text \in Seq(Chars), NEW from \in Nat, from # 0,
         NEW limit \in 1..(DefaultLines + 1)
  PROVE  AnswerSays(Render(text, from, limit), splitLines(text), from)
<1> SUFFICES ASSUME NEW w, w = Render(text, from, limit)
             PROVE  AnswerSays(w, splitLines(text), from)
  OBVIOUS
<1> DEFINE lines == splitLines(text)
           len == Len(lines)
           rest == RestOf(lines, from)
<1>1. lines \in Seq(Seq(Chars)) /\ len \in Nat
  BY LinesTyped
<1>2. w = IF from <= len THEN Window(lines, from, limit)
          ELSE IF lines = <<>> THEN NoPage
          ELSE [NoPage EXCEPT !.total = len, !.reasons = {"past end"}, !.next = 1]
  BY DEF Render
<1> HIDE DEF lines
<1>3. CASE from <= len
  <2>1. from \in 1..len /\ w = Window(lines, from, limit)
    BY <1>1, <1>2, <1>3
  <2>2. /\ w.lines # <<>> /\ w.first = from /\ w.last \in from..len
        /\ w.next = 0 \/ w.next = w.last + 1
        /\ w.next = 0 <=> w.lines = rest
        /\ w.next # 0 => w.reasons # {} /\ (w.last = len => w.truncated)
    <3>1. lines \in Seq(Seq(Chars)) /\ from \in 1..Len(lines)
      BY <1>1, <2>1, Zenon
    <3>2. w = Window(lines, from, limit)
      BY <2>1, Zenon
    <3>3. PageSays(Window(lines, from, limit), lines, from)
      BY <3>1, PageFacts, Zenon
    <3>4. PageSays(w, lines, from)
      BY <3>2, <3>3, Zenon
    <3> QED
      BY <3>4, Zenon DEF PageSays
  <2> HIDE DEF len, rest
  <2>3. w.last \in 0..len
    BY <1>1, <2>2
  <2> QED
    BY <1>1, <1>3, <2>2, <2>3, Zenon DEF len, rest, lines, AnswerSays
<1>4. CASE ~(from <= len)
  <2>1. 1..(len - from + 1) = {}
    BY <1>1, <1>4
  <2>2. rest = <<>>
    <3>1. 1..(len - from + 1) = 1..0
      BY <2>1
    <3>2. DOMAIN rest = 1..0 /\ rest \in [1..0 -> Seq(Chars)]
      BY <2>1, <3>1, Zenon DEF RestOf
    <3> HIDE DEF rest
    <3>3. rest \in Seq(Seq(Chars))
      BY <3>2, SeqDef
    <3>4. Len(rest) = 0
      BY <3>2, <3>3, LenProperties
    <3> QED
      BY <3>3, <3>4, EmptySeq
  <2>3. 0 \in 0..len
    BY <1>1
  <2> HIDE DEF rest, len
  <2>4. CASE lines = <<>>
    <3>1. w.lines = <<>> /\ w.last = 0 /\ w.next = 0
      BY <1>2, <1>4, <2>4 DEF NoPage
    <3> QED
      BY <1>1, <1>4, <2>2, <2>3, <2>4, <3>1, Zenon DEF len, rest, lines, AnswerSays
  <2>5. CASE lines # <<>>
    <3>1. w.lines = <<>> /\ w.last = 0 /\ w.next = 1 /\ w.reasons = {"past end"}
      BY <1>2, <1>4, <2>5, Zenon DEF NoPage
    <3>2. w.reasons # {}
      BY <3>1, Zenon
    <3>3. w.next # 0 /\ w.next = w.last + 1
      <4>1. w.next = 1 /\ w.last = 0
        BY <3>1, Zenon
      <4>2. 1 # 0 /\ 1 = 0 + 1
        OBVIOUS
      <4> QED
        BY <4>1, <4>2, Zenon
    <3>4. w.last # len
      <4>1. len # 0
        BY <1>1, <2>5, EmptySeq, LenProperties DEF len
      <4> QED
        BY <3>1, <4>1, Zenon
    <3> QED
      BY <1>1, <1>4, <2>3, <2>5, <3>1, <3>2, <3>3, <3>4, Zenon
         DEF len, rest, lines, AnswerSays
  <2> QED
    BY <2>4, <2>5
<1> QED
  BY <1>3, <1>4

-----------------------------------------------------------------------------
(* Replacing.                                                              *)

(* An occurrence of a text that is not empty lies inside the text it       *)
(* occurs in.                                                              *)
LEMMA OccursInside ==
  ASSUME NEW text \in Seq(Chars), NEW old \in Seq(Chars), old # <<>>,
         NEW i \in Nat, Occurs(text, old, i)
  PROVE  i < Len(text) /\ i + Len(old) \in (i + 1)..Len(text)
<1>1. Len(old) \in Nat /\ Len(old) # 0 /\ Len(text) \in Nat
  BY EmptySeq, LenProperties
<1> QED
  BY <1>1 DEF Occurs

\* The body of AllReplaced's recursion.
Rest(text, old, new, f, i) ==
  IF i = Len(text) THEN <<>>
  ELSE IF Occurs(text, old, i) THEN new \o f[i + Len(old)]
  ELSE <<text[i + 1]>> \o f[i + 1]

(* The body of the recursion uses values further on only, and is a text    *)
(* when these are.                                                         *)
LEMMA RestTyped ==
  ASSUME NEW text \in Seq(Chars), NEW old \in Seq(Chars),
         NEW new \in Seq(Chars), old # <<>>,
         NEW i \in 0..Len(text), NEW f,
         \A j \in (i + 1)..Len(text) : f[j] \in Seq(Chars)
  PROVE  Rest(text, old, new, f, i) \in Seq(Chars)
<1>1. CASE i = Len(text)
  BY <1>1, EmptySeq DEF Rest
<1>2. CASE i # Len(text) /\ Occurs(text, old, i)
  <2>1. i + Len(old) \in (i + 1)..Len(text)
    BY <1>2, OccursInside
  <2>2. new \o f[i + Len(old)] \in Seq(Chars)
    BY <2>1, ConcatProperties
  <2> QED
    BY <1>2, <2>2 DEF Rest
<1>3. CASE i # Len(text) /\ ~Occurs(text, old, i)
  <2>1. i + 1 \in (i + 1)..Len(text) /\ i + 1 \in 1..Len(text)
    BY <1>3, LenProperties
  <2>2. <<text[i + 1]>> \in Seq(Chars)
    BY <2>1, ElementOfSeq
  <2>3. <<text[i + 1]>> \o f[i + 1] \in Seq(Chars)
    BY <2>1, <2>2, ConcatProperties
  <2> QED
    BY <1>3, <2>3 DEF Rest
<1> QED
  BY <1>1, <1>2, <1>3

(* Two functions that agree further on give the body the same value.       *)
LEMMA RestLocal ==
  ASSUME NEW text \in Seq(Chars), NEW old \in Seq(Chars),
         NEW new \in Seq(Chars), old # <<>>,
         NEW i \in 0..Len(text), NEW f, NEW g,
         \A j \in (i + 1)..Len(text) : f[j] = g[j]
  PROVE  Rest(text, old, new, f, i) = Rest(text, old, new, g, i)
<1>1. CASE i = Len(text)
  BY <1>1 DEF Rest
<1>2. CASE i # Len(text) /\ Occurs(text, old, i)
  <2>1. i + Len(old) \in (i + 1)..Len(text)
    BY <1>2, OccursInside
  <2>2. f[i + Len(old)] = g[i + Len(old)]
    BY <2>1
  <2> QED
    BY <1>2, <2>2 DEF Rest
<1>3. CASE i # Len(text) /\ ~Occurs(text, old, i)
  <2>1. i + 1 \in (i + 1)..Len(text)
    BY <1>3, LenProperties
  <2>2. f[i + 1] = g[i + 1]
    BY <2>1
  <2> QED
    BY <1>3, <2>2 DEF Rest
<1> QED
  BY <1>1, <1>2, <1>3

(* The recursion of AllReplaced ends: there is a function that satisfies   *)
(* its equations, its values are texts, and AllReplaced takes it at 0.     *)
LEMMA AllReplacedEquations ==
  ASSUME NEW text \in Seq(Chars), NEW old \in Seq(Chars),
         NEW new \in Seq(Chars), old # <<>>
  PROVE  \E rest \in [0..Len(text) -> Seq(Chars)] :
           /\ AllReplaced(text, old, new) = rest[0]
           /\ \A i \in 0..Len(text) :
                rest[i] = Rest(text, old, new, rest, i)
<1> DEFINE L == Len(text)
           Value(f, i) == Rest(text, old, new, f, i)
           Good(m, f) == /\ f \in [m..L -> Seq(Chars)]
                         /\ \A i \in m..L : f[i] = Value(f, i)
           Sofar == {n \in 0..L : \E f : Good(L - n, f)}
<1>1. L \in Nat
  OBVIOUS
<1>2. ASSUME NEW m \in 0..L, NEW f, \A j \in (m + 1)..L : f[j] \in Seq(Chars)
      PROVE  Value(f, m) \in Seq(Chars)
  BY <1>2, RestTyped
<1>3. ASSUME NEW m \in 0..L, NEW f, NEW g, \A j \in (m + 1)..L : f[j] = g[j]
      PROVE  Value(f, m) = Value(g, m)
  BY <1>3, RestLocal
<1> DEFINE none == <<>>
<1>4. Value(none, L) = none
  BY DEF Rest
<1> DEFINE rest == CHOOSE h : h = [i \in 0..L |-> Value(h, i)]
<1>5. AllReplaced(text, old, new) = rest[0]
  BY DEF AllReplaced, Rest
<1> HIDE DEF Value, L, none
<1>6. 0 \in Sofar
  <2> DEFINE f == [i \in L..L |-> <<>>]
  <2>1. Value(f, L) = <<>>
    <3> HIDE DEF f
    <3>1. L \in 0..L /\ \A j \in (L + 1)..L : f[j] = none[j]
      BY <1>1
    <3>2. Value(f, L) = Value(none, L)
      BY <1>3, <3>1
    <3> QED
      BY <1>4, <3>2 DEF none
  <2>2. Good(L - 0, f)
    BY <1>1, <2>1, EmptySeq
  <2>3. 0 \in 0..L
    BY <1>1
  <2> HIDE DEF Good, f
  <2> QED
    BY <2>2, <2>3
<1>7. ASSUME NEW n \in 0..(L - 1), n \in Sofar PROVE n + 1 \in Sofar
  <2>1. PICK f : Good(L - n, f)
    BY <1>7
  <2> DEFINE m == L - (n + 1)
             g == [i \in m..L |-> IF i = m THEN Value(f, m) ELSE f[i]]
  <2>2. m \in 0..L /\ m + 1 = L - n /\ m # L /\ n + 1 \in 0..L
    BY <1>1
  <2>3. \A j \in (m + 1)..L : f[j] \in Seq(Chars) /\ f[j] = Value(f, j)
    BY <2>1, <2>2
  <2>4. Value(f, m) \in Seq(Chars)
    BY <1>2, <2>2, <2>3
  <2>5. /\ g \in [m..L -> Seq(Chars)]
        /\ g[m] = Value(f, m)
        /\ \A j \in (m + 1)..L : g[j] = f[j]
    <3> HIDE DEF m
    <3> QED
      BY <1>1, <2>2, <2>3, <2>4
  <2> HIDE DEF g, m
  <2>6. ASSUME NEW i \in m..L PROVE g[i] = Value(g, i)
    <3>1. i \in 0..L /\ \A j \in (i + 1)..L : g[j] = f[j]
      BY <1>1, <2>2, <2>5
    <3>2. Value(g, i) = Value(f, i)
      BY <1>3, <3>1
    <3>3. i = m \/ i \in (m + 1)..L
      BY <1>1, <2>2
    <3>4. g[i] = Value(f, i)
      BY <2>3, <2>5, <3>3
    <3> QED
      BY <3>2, <3>4
  <2>7. Good(m, g)
    BY <2>5, <2>6
  <2> QED
    BY <2>2, <2>7 DEF m
<1>8. PICK f : Good(0, f)
  <2>1. L \in Sofar
    <3> HIDE DEF Sofar
    <3>1. 0..L \subseteq Sofar
      BY <1>1, <1>6, <1>7, UpTo
    <3>2. L \in 0..L
      BY <1>1
    <3> QED
      BY <3>1, <3>2
  <2>2. L - L = 0
    BY <1>1
  <2> HIDE DEF Good
  <2> QED
    BY <2>1, <2>2
<1>9. rest = [i \in 0..L |-> Value(rest, i)]
  <2>1. f = [i \in 0..L |-> Value(f, i)]
    BY <1>8
  <2> QED
    BY <2>1
<1> HIDE DEF rest
<1> DEFINE Typed == {n \in 0..L : \A i \in (L - n)..L : rest[i] \in Seq(Chars)}
<1>10. 0 \in Typed
  <2>1. Value(rest, L) = none
    <3>1. L \in 0..L /\ \A j \in (L + 1)..L : rest[j] = none[j]
      BY <1>1
    <3>2. Value(rest, L) = Value(none, L)
      BY <1>3, <3>1
    <3> QED
      BY <1>4, <3>2
  <2>2. rest[L] = Value(rest, L)
    <3>1. \A i \in 0..L : rest[i] = Value(rest, i)
      BY <1>9
    <3>2. L \in 0..L
      BY <1>1
    <3> QED
      BY <3>1, <3>2
  <2>3. none \in Seq(Chars)
    BY EmptySeq DEF none
  <2>4. 0 \in 0..L /\ \A i \in (L - 0)..L : i = L
    BY <1>1
  <2>5. rest[L] \in Seq(Chars)
    BY <2>1, <2>2, <2>3
  <2> QED
    BY <2>4, <2>5
<1>11. ASSUME NEW n \in 0..(L - 1), n \in Typed PROVE n + 1 \in Typed
  <2> DEFINE m == L - (n + 1)
  <2>1. m \in 0..L /\ m + 1 = L - n /\ n + 1 \in 0..L
    BY <1>1
  <2>2. \A j \in (m + 1)..L : rest[j] \in Seq(Chars)
    BY <1>11, <2>1
  <2>3. rest[m] \in Seq(Chars)
    BY <1>2, <1>9, <2>1, <2>2
  <2>4. ASSUME NEW i \in m..L PROVE rest[i] \in Seq(Chars)
    <3> HIDE DEF m
    <3> QED
      BY <1>1, <2>1, <2>2, <2>3
  <2> QED
    BY <2>1, <2>4
<1>12. L \in Typed
  <2> HIDE DEF Typed
  <2>1. 0..L \subseteq Typed
    BY <1>1, <1>10, <1>11, UpTo
  <2>2. L \in 0..L
    BY <1>1
  <2> QED
    BY <2>1, <2>2
<1>13. \A i \in 0..L : rest[i] \in Seq(Chars) /\ rest[i] = Value(rest, i)
  <2>1. L - L = 0
    BY <1>1
  <2> QED
    BY <1>9, <1>12, <2>1
<1>14. rest \in [0..L -> Seq(Chars)]
  BY <1>9, <1>13
<1> QED
  BY <1>5, <1>13, <1>14 DEF Value, L

(* The places of a text that is not empty are places of the text it is     *)
(* searched in.                                                            *)
LEMMA FoundInside ==
  ASSUME NEW text \in Seq(Chars), NEW old \in Seq(Chars), old # <<>>,
         NEW from \in Nat
  PROVE  /\ Found(text, old, from) \subseteq from..(Len(text) - Len(old))
         /\ Found(text, old, from) \subseteq Nat
         /\ Found(text, old, from) # {} =>
              /\ Min(Found(text, old, from)) \in Found(text, old, from)
              /\ \A i \in Found(text, old, from) :
                   Min(Found(text, old, from)) <= i
<1>1. Len(text) \in Nat /\ Len(old) \in Nat
  OBVIOUS
<1>2. /\ Found(text, old, from) \subseteq from..(Len(text) - Len(old))
      /\ Found(text, old, from) \subseteq Nat
  BY <1>1 DEF Found
<1> QED
  BY <1>2, MinOfNat

(* The result of an edit that has a match is a text.                       *)
LEMMA ReplacedTyped ==
  ASSUME NEW text \in Seq(Chars),
         NEW e \in [old: Seq(Chars), new: Seq(Chars), all: BOOLEAN],
         e.old # <<>>, Found(text, e.old, 0) # {}
  PROVE  Replaced(text, e) \in Seq(Chars)
<1>1. e.old \in Seq(Chars) /\ e.new \in Seq(Chars)
  OBVIOUS
<1>2. CASE e.all
  <2>1. PICK rest \in [0..Len(text) -> Seq(Chars)] :
          AllReplaced(text, e.old, e.new) = rest[0]
    BY <1>1, AllReplacedEquations
  <2> QED
    BY <1>2, <2>1, LenProperties DEF Replaced
<1>3. CASE ~e.all
  <2> DEFINE i == Min(Found(text, e.old, 0))
             old == e.old
             new == e.new
  <2>1. i \in 0..(Len(text) - Len(old)) /\ Len(old) \in Nat
    BY <1>1, FoundInside
  <2>2. old \in Seq(Chars) /\ new \in Seq(Chars)
    BY <1>1
  <2> DEFINE whole ==
          SubSeq(text, 1, i) \o new \o SubSeq(text, i + Len(old) + 1, Len(text))
  <2>3. Replaced(text, e) = whole
    BY <1>3 DEF Replaced, FirstReplaced
  <2> HIDE DEF i, old, new, whole
  <2>4. SubSeq(text, 1, i) \in Seq(Chars)
    BY <2>1, <2>2, LenProperties, SubSeqProperties
  <2>5. SubSeq(text, i + Len(old) + 1, Len(text)) \in Seq(Chars)
    BY <2>1, <2>2, LenProperties, SubSeqProperties
  <2>6. SubSeq(text, 1, i) \o new \in Seq(Chars)
    BY <2>2, <2>4, ConcatProperties
  <2>7. whole \in Seq(Chars)
    BY <2>5, <2>6, ConcatProperties DEF whole
  <2> QED
    BY <2>3, <2>7
<1> QED
  BY <1>2, <1>3

-----------------------------------------------------------------------------
(* The engine.  While it searches, MatchesMaximal says what the loop has   *)
(* found so far; the types carry that the text searched for is not empty.  *)

(* Line numbers are natural numbers.                                       *)
LEMMA LineNumbersTyped ==
  ASSUME NEW text \in Seq(Chars), NEW offsets \in Seq(Nat)
  PROVE  lineNumbers(text, offsets) \in Seq(Nat)
<1>1. ASSUME NEW k \in DOMAIN offsets
      PROVE 1 + Cardinality({i \in 1..offsets[k] : text[i] = NL}) \in Nat
  <2>1. offsets[k] \in Nat
    BY ElementOfSeq, LenProperties
  <2>2. IsFiniteSet(1..offsets[k])
    BY <2>1, FS_Interval
  <2>3. IsFiniteSet({i \in 1..offsets[k] : text[i] = NL})
    BY <2>2, FS_Subset
  <2> QED
    BY <2>3, FS_CardinalityType
<1>2. lineNumbers(text, offsets) \in [1..Len(offsets) -> Nat]
  BY <1>1, LenProperties DEF lineNumbers
<1> QED
  <2> DEFINE f == lineNumbers(text, offsets)
             n == Len(offsets)
  <2>1. n \in Nat
    BY LenProperties
  <2>2. f \in [1..n -> Nat]
    BY <1>2
  <2> HIDE DEF f, n
  <2>3. f \in Seq(Nat)
    BY <2>1, <2>2, SeqDef
  <2> QED
    BY <2>3 DEF f

(* The first offsets are offsets.                                          *)
LEMMA FirstOffsetsTyped ==
  ASSUME NEW offsets \in Seq(Nat)
  PROVE  FirstOffsets(offsets) \in Seq(Nat)
<1>1. maxAmbiguousLines \in Nat /\ Len(offsets) \in Nat
  BY EditAssumption
<1>2. CASE Len(offsets) > maxAmbiguousLines
  <2>1. \A i \in 1..maxAmbiguousLines : offsets[i] \in Nat
    BY <1>1, <1>2, ElementOfSeq
  <2> QED
    BY <1>1, <1>2, <2>1, SubSeqProperties DEF FirstOffsets
<1> QED
  BY <1>2 DEF FirstOffsets

(* A bounded sequence is a sequence.                                       *)
LEMMA ContentsTyped == Contents \subseteq Seq(Chars)
<1> SUFFICES ASSUME NEW text \in Contents PROVE text \in Seq(Chars)
  OBVIOUS
<1>1. PICK m \in 0..MaxLength : text \in [1..m -> Chars]
  BY DEF Contents, BoundedSeq, SeqOf
<1>2. m \in Nat
  BY LengthAssumption
<1> QED
  BY <1>1, <1>2, SeqDef

EngineInv == EngineTypeOK /\ MatchesMaximal

(* While the engine works, its edit is one of the call's edits.            *)
LEMMA EditTyped ==
  ASSUME EngineTypeOK, phase \in {"scan", "decide", "applied"}
  PROVE  /\ edit \in [old: Seq(Chars), new: Seq(Chars), all: BOOLEAN]
         /\ edit.old \in Seq(Chars) /\ Len(edit.old) \in Nat
         /\ edit.old # <<>> /\ Len(edit.old) # 0
         /\ cur \in Seq(Chars)
<1>1. edit.old # <<>> /\ edit \in Edits \cup {NoEdit} /\ cur \in Seq(Chars)
  BY DEF EngineTypeOK
<1>2. edit \in Edits
  BY <1>1 DEF NoEdit
<1>3. edit \in [old: Seq(Chars), new: Seq(Chars), all: BOOLEAN]
  BY <1>2, EditAssumption
<1>4. edit.old \in Seq(Chars)
  BY <1>3
<1>5. Len(edit.old) \in Nat /\ Len(edit.old) # 0
  BY <1>1, <1>4, LenProperties, EmptySeq
<1> QED
  BY <1>1, <1>3, <1>4, <1>5

(* When the loop has found something there is something to replace.        *)
LEMMA HitsFound ==
  ASSUME EngineInv, phase = "decide", Len(hits) > 0
  PROVE  Found(cur, edit.old, 0) # {}
<1>1. hits \in Seq(Nat) /\ Len(hits) \in Nat
  BY DEF EngineInv, EngineTypeOK
<1>2. 1 \in DOMAIN hits /\ hits[1] \in Nat
  BY <1>1, ElementOfSeq, LenProperties
<1>3. Occurs(cur, edit.old, hits[1])
  BY <1>2 DEF EngineInv, MatchesMaximal
<1>4. Len(cur) \in Nat /\ Len(edit.old) \in Nat
  BY EditTyped, LenProperties DEF EngineInv
<1>5. hits[1] \in 0..(Len(cur) - Len(edit.old))
  BY <1>2, <1>3, <1>4 DEF Occurs
<1> QED
  BY <1>3, <1>5 DEF Found

(* The invariant holds of the client that has not begun.                   *)
LEMMA EngineInit == Init => EngineInv
<1> SUFFICES ASSUME Init PROVE EngineInv
  OBVIOUS
<1>1. EngineTypeOK
  BY EditAssumption, EmptySeq DEF Init, EngineTypeOK, NoAnswer
<1>2. MatchesMaximal
  BY DEF Init, MatchesMaximal
<1> QED
  BY <1>1, <1>2 DEF EngineInv

(* One round of the counting loop: a match found is the first one past the *)
(* last, so every occurrence in between would have been found instead.     *)
LEMMA CountMatchesKeeps ==
  ASSUME EngineInv, CountMatches
  PROVE  EngineInv'
<1> DEFINE n == Len(edit.old)
           F == Found(cur, edit.old, off)
<1>1. /\ hits \in Seq(Nat) /\ Len(hits) \in Nat /\ off \in Nat
      /\ DOMAIN hits = 1..Len(hits)
      /\ \A k \in DOMAIN hits : hits[k] \in Nat
  BY ElementOfSeq, LenProperties DEF EngineInv, EngineTypeOK
<1>2. /\ edit.old \in Seq(Chars) /\ n \in Nat /\ n # 0 /\ edit.old # <<>>
      /\ edit.old # edit.new
      /\ cur \in Seq(Chars) /\ Len(cur) \in Nat
  BY EditTyped, LenProperties DEF EngineInv, CountMatches, EngineTypeOK
<1>3. /\ phase = "scan" /\ cur' = cur /\ edit' = edit /\ content' = content
      /\ index' = index /\ answer' = answer
  BY DEF CountMatches
<1>4. /\ \A k \in DOMAIN hits :
           /\ Occurs(cur, edit.old, hits[k])
           /\ hits[k] + n <= off
           /\ k > 1 => hits[k - 1] + n <= hits[k]
      /\ \A i \in Found(cur, edit.old, 0) :
           \/ i >= off
           \/ \E k \in DOMAIN hits : hits[k] < i + n /\ i < hits[k] + n
  BY <1>3 DEF EngineInv, MatchesMaximal
<1>5. \A i \in Found(cur, edit.old, 0) : i \in Nat /\ (i >= off => i \in F)
  BY <1>1, <1>2 DEF Found
<1>6. CASE F = {}
  <2>1. phase' = "decide" /\ off' = off /\ hits' = hits
    BY <1>6 DEF CountMatches
  <2>2. EngineTypeOK'
    BY <1>2, <1>3, <2>1 DEF EngineInv, EngineTypeOK
  <2>3. \A i \in Found(cur, edit.old, 0) :
          \E k \in DOMAIN hits : hits[k] < i + n /\ i < hits[k] + n
    BY <1>4, <1>5, <1>6
  <2>4. MatchesMaximal'
    BY <1>3, <1>4, <2>1, <2>3 DEF MatchesMaximal
  <2> QED
    BY <2>2, <2>4 DEF EngineInv
<1>7. CASE F # {}
  <2> DEFINE i0 == Min(F)
  <2>1. /\ phase' = "scan" /\ hits' = Append(hits, i0) /\ off' = i0 + n
    BY <1>3, <1>7 DEF CountMatches
  <2>2. i0 \in F /\ \A i \in F : i0 <= i
    BY <1>1, <1>2, <1>7, FoundInside
  <2>3. i0 \in Nat /\ i0 >= off /\ Occurs(cur, edit.old, i0)
    BY <1>1, <1>2, <2>2 DEF Found
  <2> HIDE DEF i0, F, n
  <2>4. /\ hits' \in Seq(Nat) /\ DOMAIN hits' = 1..(Len(hits) + 1)
        /\ \A k \in 1..Len(hits) : hits'[k] = hits[k]
        /\ hits'[Len(hits) + 1] = i0
    BY <1>1, <2>1, <2>3, AppendProperties, LenProperties
  <2>5. EngineTypeOK'
    BY <1>2, <1>3, <2>1, <2>3, <2>4 DEF EngineInv, EngineTypeOK
  <2>6. ASSUME NEW k \in DOMAIN hits'
        PROVE  /\ Occurs(cur, edit.old, hits'[k])
               /\ hits'[k] + n <= off'
               /\ k > 1 => hits'[k - 1] + n <= hits'[k]
    <3>1. CASE k = Len(hits) + 1
      <4>1. k > 1 => k - 1 \in DOMAIN hits /\ hits'[k - 1] = hits[k - 1]
        BY <1>1, <2>4, <3>1
      <4>2. hits'[k] = i0 /\ i0 + n <= off'
        BY <1>2, <2>1, <2>3, <2>4, <3>1
      <4>3. k > 1 => hits[k - 1] \in Nat /\ hits[k - 1] + n <= off
        BY <1>1, <1>4, <4>1
      <4>4. k > 1 => hits[k - 1] + n <= i0
        BY <1>1, <1>2, <2>3, <4>3
      <4> QED
        BY <2>3, <4>1, <4>2, <4>4
    <3>2. CASE k # Len(hits) + 1
      <4>1. /\ k \in DOMAIN hits /\ hits'[k] = hits[k]
            /\ k > 1 => k - 1 \in DOMAIN hits /\ hits'[k - 1] = hits[k - 1]
        <5>1. /\ DOMAIN hits = 1..Len(hits) /\ Len(hits) \in Nat
              /\ k \in 1..(Len(hits) + 1)
          BY <1>1, <2>4
        <5>2. k \in 1..Len(hits) /\ (k > 1 => k - 1 \in 1..Len(hits))
          BY <3>2, <5>1
        <5> QED
          BY <2>4, <5>1, <5>2
      <4>2. hits[k] \in Nat /\ hits[k] + n <= off
        BY <1>1, <1>4, <4>1
      <4> QED
        BY <1>1, <1>2, <1>4, <2>1, <2>3, <4>1, <4>2
    <3> QED
      BY <3>1, <3>2
  <2>7. ASSUME NEW i \in Found(cur, edit.old, 0)
        PROVE  \/ i >= off'
               \/ \E k \in DOMAIN hits' : hits'[k] < i + n /\ i < hits'[k] + n
    <3>1. CASE i >= off
      <4>1. i \in F /\ i \in Nat /\ i0 <= i
        BY <1>5, <2>2, <3>1
      <4>2. CASE i >= i0 + n
        BY <2>1, <4>2
      <4>3. CASE i < i0 + n
        <5>1. i0 < i + n
          BY <1>2, <2>3, <4>1
        <5>2. Len(hits) + 1 \in DOMAIN hits'
          BY <1>1, <2>4
        <5> QED
          BY <2>4, <4>3, <5>1, <5>2
      <4> QED
        BY <1>2, <2>3, <4>1, <4>2, <4>3
    <3>2. CASE ~(i >= off)
      <4>1. PICK k \in DOMAIN hits : hits[k] < i + n /\ i < hits[k] + n
        BY <1>4, <3>2
      <4>2. k \in DOMAIN hits' /\ hits'[k] = hits[k]
        BY <1>1, <2>4
      <4> QED
        BY <4>1, <4>2
    <3> QED
      BY <3>1, <3>2
  <2>8. MatchesMaximal'
    BY <1>3, <2>1, <2>6, <2>7 DEF MatchesMaximal, n
  <2> QED
    BY <2>5, <2>8 DEF EngineInv
<1> QED
  BY <1>6, <1>7

(* Every step keeps the invariant: one case per action of the client and   *)
(* of the engine.                                                          *)
LEMMA EngineNext == EngineInv /\ [Next]_vars => EngineInv'
<1> SUFFICES ASSUME EngineInv, [Next]_vars PROVE EngineInv'
  OBVIOUS
<1> USE DEF EngineInv, pageVars, engineVars
<1>1. \A text \in Contents : text \in Seq(Chars)
  BY ContentsTyped
<1>2. /\ <<>> \in Seq(Chars) /\ <<>> \in Seq(Nat) /\ MaxEdits \in Nat \ {0}
      /\ NoEdit \in Edits \cup {NoEdit}
  BY EditAssumption, EmptySeq
<1>3. CASE StartReading \/ StopReading
  BY <1>3 DEF StartReading, StopReading, EngineTypeOK, MatchesMaximal
<1>4. ASSUME NEW limit, Read(limit) PROVE EngineInv'
  BY <1>4 DEF Read, ReadPage, EngineTypeOK, MatchesMaximal
<1>5. ASSUME NEW e \in Edits, StartEdit(e) PROVE EngineInv'
  BY <1>2, <1>5 DEF StartEdit, EngineTypeOK, MatchesMaximal
<1>6. ASSUME NEW e \in Edits, NextEdit(e), UNCHANGED pageVars PROVE EngineInv'
  BY <1>2, <1>6 DEF NextEdit, EngineTypeOK, MatchesMaximal
<1>7. CASE Apply
  <2>1. CASE phase' = "refused"
    <3>1. /\ UNCHANGED <<content, cur, edit, index, off, hits>>
          /\ \/ answer' = [err |-> "EEmptyOld", lines |-> <<>>]
             \/ answer' = [err |-> "ENoop", lines |-> <<>>]
      BY <1>7, <2>1 DEF Apply, Refuse
    <3>2. /\ answer'.err = "EEmptyOld" \/ answer'.err = "ENoop"
          /\ answer'.lines = <<>>
      BY <3>1
    <3>3. /\ content' = content /\ cur' = cur /\ edit' = edit
          /\ index' = index /\ off' = off /\ hits' = hits
      BY <3>1
    <3>4. EngineTypeOK'
      BY <1>2, <2>1, <3>2, <3>3 DEF EngineTypeOK
    <3>5. MatchesMaximal'
      BY <2>1 DEF MatchesMaximal
    <3> QED
      BY <3>4, <3>5
  <2>2. CASE phase' = "scan"
    <3>1. /\ edit.old # <<>> /\ edit.old # edit.new /\ off' = 0 /\ hits' = <<>>
          /\ UNCHANGED <<content, cur, edit, index, answer>>
      BY <1>7, <2>2 DEF Apply, Refuse
    <3>2. EngineTypeOK'
      BY <1>2, <2>2, <3>1 DEF EngineTypeOK
    <3>3. \A i \in Found(cur, edit.old, 0) : i >= 0
      BY DEF Found
    <3>4. MatchesMaximal'
      BY <2>2, <3>1, <3>3 DEF MatchesMaximal
    <3> QED
      BY <3>2, <3>4
  <2> QED
    BY <1>7, <2>1, <2>2 DEF Apply, Refuse
<1>8. CASE CountMatches
  BY <1>8, CountMatchesKeeps
<1>9. CASE Decide
  <2>1. CASE phase' = "refused"
    <3>1. lineNumbers(cur, FirstOffsets(hits)) \in Seq(Nat)
      BY LineNumbersTyped, FirstOffsetsTyped DEF EngineTypeOK
    <3>2. /\ phase = "decide"
          /\ UNCHANGED <<content, edit, index, cur, off, hits>>
      BY <1>9, <2>1 DEF Decide, Refuse
    <3> QED
      BY <1>2, <1>9, <2>1, <3>1, <3>2
         DEF Decide, Refuse, EngineTypeOK, MatchesMaximal
  <2>2. CASE phase' = "applied"
    <3>1. /\ phase = "decide" /\ Len(hits) > 0 /\ cur' = Replaced(cur, edit)
          /\ UNCHANGED <<content, edit, index, off, hits, answer>>
      BY <1>9, <2>2 DEF Decide, Refuse
    <3>2. Replaced(cur, edit) \in Seq(Chars)
      BY <3>1, EditTyped, HitsFound, ReplacedTyped
    <3>3. EngineTypeOK' /\ MatchesMaximal'
      BY <2>2, <3>1, <3>2 DEF EngineTypeOK, MatchesMaximal
    <3> QED
      BY <3>3
  <2> QED
    BY <1>9, <2>1, <2>2 DEF Decide, Refuse
<1>10. CASE FinishEdit \/ ReturnError \/ ReturnWarning
  <2>1. /\ phase' = "idle" /\ edit' = NoEdit /\ index' = 0 /\ off' = 0
        /\ hits' = <<>> /\ cur' = <<>> /\ answer' = NoAnswer
        /\ content' \in {content, cur}
    BY <1>10 DEF FinishEdit, ReturnError, ReturnWarning, Back
  <2>2. content' \in Seq(Chars)
    BY <2>1 DEF EngineTypeOK
  <2>3. answer'.err = "none" /\ answer'.lines \in Seq(Nat)
    BY <1>2, <2>1 DEF NoAnswer
  <2> QED
    BY <1>2, <2>1, <2>2, <2>3 DEF EngineTypeOK, MatchesMaximal
<1>11. ASSUME NEW text \in Contents, WriteText(text) PROVE EngineInv'
  BY <1>1, <1>11 DEF WriteText, EngineTypeOK, MatchesMaximal
<1>12. CASE UNCHANGED vars
  BY <1>12 DEF vars, EngineTypeOK, MatchesMaximal
<1> QED
  BY <1>3, <1>4, <1>5, <1>6, <1>7, <1>8, <1>9, <1>10, <1>11, <1>12
     DEF Next, Reading, Engine

(* Every variable of the edit engine has its type, the result of every     *)
(* replacement is a text, and the search never runs with an empty          *)
(* old_string (engine.go, ApplyOnce).                                      *)
THEOREM EngineTypeCorrect == Spec => []EngineTypeOK
<1>1. EngineInv => EngineTypeOK
  BY DEF EngineInv
<1> QED
  BY <1>1, EngineInit, EngineNext, PTL DEF Spec

(* The counting loop misses no match: what it counts are occurrences that  *)
(* do not overlap, and an occurrence it passed over overlaps one it        *)
(* counted, for every text and every old_string (engine.go, countMatches). *)
THEOREM MatchesCorrect == Spec => []MatchesMaximal
<1>1. EngineInv => MatchesMaximal
  BY DEF EngineInv
<1> QED
  BY <1>1, EngineInit, EngineNext, PTL DEF Spec

-----------------------------------------------------------------------------
(* What an ambiguity error says.                                           *)

\* An ambiguity error still has the content and the matches it was made of.
NamedLines ==
  answer.err = "EAmbiguous" =>
    /\ phase = "refused" /\ cur # <<>> /\ Len(hits) > 0
    /\ answer.lines = lineNumbers(cur, FirstOffsets(hits))
    /\ \A k \in DOMAIN hits : hits[k] < Len(cur)

(* Deciding that an edit is ambiguous says so of the matches counted.      *)
LEMMA AmbiguousNamed ==
  ASSUME EngineInv, phase = "decide", Len(hits) > 1
  PROVE  /\ cur # <<>> /\ Len(hits) > 0
         /\ \A k \in DOMAIN hits : hits[k] < Len(cur)
<1>1. /\ edit.old \in Seq(Chars) /\ edit.old # <<>> /\ cur \in Seq(Chars)
      /\ hits \in Seq(Nat)
  BY EditTyped DEF EngineInv, EngineTypeOK
<1>2. ASSUME NEW k \in DOMAIN hits PROVE hits[k] < Len(cur)
  <2>1. hits[k] \in Nat
    BY <1>1, LenProperties, ElementOfSeq
  <2>2. Occurs(cur, edit.old, hits[k])
    BY DEF EngineInv, MatchesMaximal
  <2> QED
    BY <1>1, <2>1, <2>2, OccursInside
<1>3. Len(hits) \in Nat /\ DOMAIN hits = 1..Len(hits)
  BY <1>1, LenProperties
<1>4. 1 \in DOMAIN hits /\ hits[1] \in Nat /\ Len(hits) > 0
  BY <1>1, <1>3, ElementOfSeq
<1>5. cur # <<>>
  <2>1. hits[1] < Len(cur)
    BY <1>2, <1>4
  <2>2. Len(cur) # 0
    BY <1>1, <1>4, <2>1, LenProperties
  <2> QED
    BY <2>2, EmptySeq
<1> QED
  BY <1>2, <1>4, <1>5

(* The error is made by Decide and lasts until it is answered.             *)
LEMMA NamedNext == EngineInv /\ NamedLines /\ [Next]_vars => NamedLines'
<1> SUFFICES ASSUME EngineInv, NamedLines, [Next]_vars PROVE NamedLines'
  OBVIOUS
<1> USE DEF pageVars, engineVars
<1>1. CASE answer'.err # "EAmbiguous"
  BY <1>1 DEF NamedLines
<1>2. CASE UNCHANGED answer /\ phase # "refused"
  <2>1. answer.err # "EAmbiguous"
    BY <1>2 DEF NamedLines
  <2>2. answer'.err # "EAmbiguous"
    BY <1>2, <2>1
  <2> QED
    BY <2>2 DEF NamedLines
<1>3. CASE UNCHANGED engineVars
  BY <1>3, Zenon DEF NamedLines
<1>4. CASE Apply
  <2>1. CASE phase' = "refused"
    <3>1. \/ answer' = [err |-> "EEmptyOld", lines |-> <<>>]
          \/ answer' = [err |-> "ENoop", lines |-> <<>>]
      BY <1>4, <2>1 DEF Apply, Refuse
    <3> QED
      BY <1>1, <3>1
  <2>2. CASE phase' # "refused"
    BY <1>2, <1>4, <2>2 DEF Apply, Refuse
  <2> QED
    BY <2>1, <2>2
<1>5. CASE Decide
  <2>1. CASE Refuse("ENoMatch", <<>>)
    <3>1. answer'.err = "ENoMatch"
      BY <2>1 DEF Refuse
    <3> QED
      BY <1>1, <3>1
  <2>2. CASE Len(hits) > 1 /\ phase = "decide"
             /\ Refuse("EAmbiguous", lineNumbers(cur, FirstOffsets(hits)))
    <3>1. /\ phase' = "refused" /\ cur' = cur /\ hits' = hits
          /\ answer' = [err |-> "EAmbiguous",
                        lines |-> lineNumbers(cur, FirstOffsets(hits))]
      BY <2>2, Zenon DEF Refuse
    <3>2. answer'.lines = lineNumbers(cur, FirstOffsets(hits))
      BY <3>1, Zenon
    <3>3. /\ cur # <<>> /\ Len(hits) > 0
          /\ \A k \in DOMAIN hits : hits[k] < Len(cur)
      BY <2>2, AmbiguousNamed
    <3> QED
      BY <3>1, <3>2, <3>3, Zenon DEF NamedLines
  <2>3. CASE phase = "decide" /\ UNCHANGED answer
    BY <1>2, <2>3
  <2> QED
    BY <1>5, <2>1, <2>2, <2>3, Zenon DEF Decide
<1>6. CASE FinishEdit \/ ReturnError \/ ReturnWarning
  <2>1. answer'.err = "none"
    BY <1>6 DEF FinishEdit, ReturnError, ReturnWarning, Back, NoAnswer
  <2> QED
    BY <1>1, <2>1
<1>7. CASE CountMatches
  BY <1>2, <1>7 DEF CountMatches
<1>8. CASE StartReading
  BY <1>2, <1>8 DEF StartReading
<1>9. CASE Reading
  BY <1>2, <1>9 DEF Reading, Read, StopReading
<1>10. ASSUME NEW e \in Edits, StartEdit(e) \/ NextEdit(e) PROVE NamedLines'
  BY <1>2, <1>10 DEF StartEdit, NextEdit
<1>11. ASSUME NEW text \in Contents, WriteText(text) PROVE NamedLines'
  BY <1>2, <1>11 DEF WriteText
<1>12. CASE UNCHANGED vars
  BY <1>3, <1>12 DEF vars
<1> QED
  BY <1>4, <1>5, <1>6, <1>7, <1>8, <1>9, <1>10, <1>11, <1>12, Zenon
     DEF Next, Engine

(* Each number named is that of the line its match starts in.              *)
LEMMA NamedReadable == EngineInv /\ NamedLines => AmbiguousLinesReadable
<1> SUFFICES ASSUME EngineInv, NamedLines, answer.err = "EAmbiguous"
             PROVE  AmbiguousLinesReadable
  BY DEF AmbiguousLinesReadable
<1> DEFINE lines == splitLines(cur)
           c == Cuts(cur)
           first == FirstOffsets(hits)
           Named(k) == LineAt(cur, hits[k])
<1>1. /\ cur \in Seq(Chars) /\ cur # <<>> /\ hits \in Seq(Nat)
      /\ Len(hits) \in Nat /\ Len(hits) > 0
      /\ answer.lines = lineNumbers(cur, first)
      /\ \A k \in DOMAIN hits : hits[k] < Len(cur)
  BY LenProperties DEF EngineInv, EngineTypeOK, NamedLines
<1>2. /\ first \in Seq(Nat) /\ Len(first) \in Nat /\ Len(first) > 0
      /\ Len(first) <= Len(hits)
      /\ \A k \in 1..Len(first) : first[k] = hits[k]
  <2>1. maxAmbiguousLines \in Nat /\ maxAmbiguousLines # 0
    BY EditAssumption
  <2>2. CASE Len(hits) > maxAmbiguousLines
    <3>1. \A i \in 1..maxAmbiguousLines : hits[i] \in Nat
      BY <1>1, <2>1, <2>2, ElementOfSeq
    <3>2. /\ SubSeq(hits, 1, maxAmbiguousLines) \in Seq(Nat)
          /\ Len(SubSeq(hits, 1, maxAmbiguousLines)) = maxAmbiguousLines
          /\ \A i \in 1..maxAmbiguousLines :
               SubSeq(hits, 1, maxAmbiguousLines)[i] = hits[i]
      BY <2>1, <3>1, SubSeqProperties
    <3>3. first = SubSeq(hits, 1, maxAmbiguousLines)
      BY <2>2 DEF FirstOffsets
    <3> HIDE DEF first
    <3> QED
      BY <1>1, <2>1, <2>2, <3>2, <3>3
  <2>3. CASE ~(Len(hits) > maxAmbiguousLines)
    <3>1. first = hits
      BY <2>3 DEF FirstOffsets
    <3> HIDE DEF first
    <3> QED
      BY <1>1, <3>1
  <2> QED
    BY <2>2, <2>3
<1>3. DOMAIN answer.lines = 1..Len(first)
  <2>1. DOMAIN first = 1..Len(first)
    <3> HIDE DEF first
    <3> QED
      BY <1>2, LenProperties
  <2> QED
    BY <1>1, <2>1 DEF lineNumbers
<1>4. ASSUME NEW k \in 1..Len(first)
      PROVE  hits[k] \in 0..Len(Body(cur)) /\ hits[k] \in Nat
  <2> HIDE DEF first
  <2>1. k \in 1..Len(hits)
    BY <1>1, <1>2
  <2>2. hits[k] \in Nat /\ hits[k] < Len(cur)
    BY <1>1, <2>1, ElementOfSeq, LenProperties
  <2>3. Len(Body(cur)) \in Nat /\ Len(cur) <= Len(Body(cur)) + 1
    BY <1>1, BodyFacts
  <2>4. Len(cur) \in Nat
    BY <1>1, LenProperties
  <2> QED
    BY <2>2, <2>3, <2>4
<1>5. ASSUME NEW k \in 1..Len(first) PROVE answer.lines[k] = Named(k)
  <2>1. k \in DOMAIN first /\ first[k] = hits[k]
    <3> HIDE DEF first
    <3> QED
      BY <1>2, LenProperties
  <2>2. answer.lines[k] = 1 + Cardinality({i \in 1..hits[k] : cur[i] = NL})
    BY <1>1, <2>1, Zenon DEF lineNumbers
  <2>3. 1 + Cardinality({i \in 1..hits[k] : cur[i] = NL}) = LineAt(cur, hits[k])
    BY <1>1, <1>4, NumberIsLine
  <2> QED
    BY <2>2, <2>3, Zenon
<1>6. ASSUME NEW k \in 1..Len(first)
      PROVE  /\ Named(k) \in 1..Len(lines)
             /\ c[Named(k)] <= hits[k]
             /\ hits[k] <= c[Named(k)] + Len(lines[Named(k)])
  <2> DEFINE n == Named(k)
             m == Cardinality(Breaks(cur))
  <2>1. /\ n \in 1..(m + 1) /\ c[n] \in Nat /\ c[n] <= hits[k]
        /\ c[n + 1] \in Nat /\ hits[k] < c[n + 1]
    BY <1>1, <1>4, LineAtFacts
  <2>2. Len(lines) = m + 1 /\ Len(lines[n]) = c[n + 1] - c[n] - 1
    BY <1>1, <2>1, LinesFacts
  <2>3. hits[k] \in Nat
    BY <1>4
  <2> HIDE DEF n, c, lines, m
  <2>4. \A a, b, h, l : /\ a \in Nat /\ b \in Nat /\ h \in Nat
                        /\ h < b /\ l = b - a - 1
                        => h <= a + l
    OBVIOUS
  <2>5. hits[k] <= c[n] + Len(lines[n])
    BY <2>1, <2>2, <2>3, <2>4, Zenon
  <2> QED
    BY <2>1, <2>2, <2>5, Zenon DEF n
<1> DEFINE start == CHOOSE f : f = [n \in 1..Len(lines) |->
                      IF n = 1 THEN 0 ELSE f[n - 1] + Len(lines[n - 1]) + 1]
<1>7. \A n \in 1..Len(lines) : start[n] = c[n]
  BY <1>1, StartsCounted, Zenon
<1>8. answer.lines # <<>>
  <2>1. 1 \in DOMAIN answer.lines
    BY <1>2, <1>3
  <2> QED
    BY <2>1
<1> HIDE DEF start, lines, c, first, Named
<1>9. \A k \in DOMAIN answer.lines :
        /\ answer.lines[k] \in 1..Len(lines)
        /\ start[answer.lines[k]] <= hits[k]
        /\ hits[k] <= start[answer.lines[k]] + Len(lines[answer.lines[k]])
  BY <1>3, <1>5, <1>6, <1>7, Zenon
<1> QED
  BY <1>8, <1>9, Zenon DEF AmbiguousLinesReadable, start, lines

(* The lines an ambiguity error names are the lines under which read shows *)
(* the first matches, for every content, edit and number of lines named    *)
(* (engine.go, lineNumbers; lineio.go, splitLines).                        *)
THEOREM AmbiguousLinesCorrect == Spec => []AmbiguousLinesReadable
<1>1. Init => NamedLines
  BY DEF Init, NamedLines, NoAnswer
<1> QED
  BY <1>1, EngineInit, EngineNext, NamedNext, NamedReadable, PTL DEF Spec

-----------------------------------------------------------------------------
(* What was counted is what is replaced.  The offsets the loop counts are  *)
(* the ones at which the recursion of AllReplaced puts the new text: each  *)
(* is an occurrence, and between the end of one and the start of the next  *)
(* there is none.                                                          *)

GapFree(text, old, lo, hi) == \A i \in lo..(hi - 1) : ~Occurs(text, old, i)
\* The end of the k-th match; the text begins with the end of none.
EndOf(old, offsets, k) == IF k = 0 THEN 0 ELSE offsets[k] + Len(old)
Leftmost(text, old, offsets) ==
  \A k \in DOMAIN offsets :
    /\ Occurs(text, old, offsets[k])
    /\ EndOf(old, offsets, k - 1) <= offsets[k]
    /\ GapFree(text, old, EndOf(old, offsets, k - 1), offsets[k])

\* Putting three texts together from the left or from the right.
Regroups(a, b, c) == (a \o b) \o c = a \o (b \o c)

(* Texts can be put together in either order.                              *)
LEMMA Associative ==
  \A a, b, c \in Seq(Chars) : Regroups(a, b, c)
  BY ConcatAssociative DEF Regroups

(* Where there is no occurrence the recursion copies.                      *)
LEMMA GapCopied ==
  ASSUME NEW text \in Seq(Chars), NEW old \in Seq(Chars),
         NEW new \in Seq(Chars), old # <<>>,
         NEW rest \in [0..Len(text) -> Seq(Chars)],
         \A i \in 0..Len(text) : rest[i] = Rest(text, old, new, rest, i),
         NEW hi \in 0..Len(text), NEW lo \in 0..hi,
         GapFree(text, old, lo, hi)
  PROVE  rest[lo] = SubSeq(text, lo + 1, hi) \o rest[hi]
<1> DEFINE Copied == {d \in 0..(hi - lo) :
              rest[hi - d] = SubSeq(text, hi - d + 1, hi) \o rest[hi]}
<1>1. Len(text) \in Nat /\ hi \in Nat /\ lo \in Nat /\ rest[hi] \in Seq(Chars)
  BY LenProperties
<1>2. 0 \in Copied
  <2>1. SubSeq(text, hi - 0 + 1, hi) = <<>>
    BY <1>1, SubSeqEmpty
  <2>2. rest[hi - 0] = <<>> \o rest[hi]
    BY <1>1, ConcatEmptySeq
  <2>3. 0 \in 0..(hi - lo)
    BY <1>1
  <2> QED
    BY <2>1, <2>2, <2>3
<1>3. ASSUME NEW d \in 0..(hi - lo - 1), d \in Copied PROVE d + 1 \in Copied
  <2> DEFINE i == hi - (d + 1)
  <2>1. /\ i \in 0..Len(text) /\ i + 1 = hi - d /\ i # Len(text)
        /\ i \in lo..(hi - 1) /\ d + 1 \in 0..(hi - lo)
        /\ i + 1 \in 1..Len(text) /\ hi \in (i + 1)..Len(text)
    BY <1>1
  <2>2. rest[i + 1] = SubSeq(text, i + 2, hi) \o rest[hi]
    <3>1. hi - d + 1 = i + 2
      BY <1>1
    <3> QED
      BY <1>3, <2>1, <3>1
  <2> HIDE DEF i
  <2>3. rest[i] = <<text[i + 1]>> \o rest[i + 1]
    BY <2>1 DEF Rest, GapFree
  <2>4. SubSeq(text, i + 1, hi) = <<text[i + 1]>> \o SubSeq(text, i + 2, hi)
    <3>1. (i + 1) + 1 = i + 2
      BY <2>1
    <3> QED
      BY <2>1, <3>1, SubSeqRecursiveFirst
  <2>5. <<text[i + 1]>> \in Seq(Chars)
    BY <2>1, ElementOfSeq
  <2>6. SubSeq(text, i + 2, hi) \in Seq(Chars)
    <3>1. \A j \in (i + 2)..hi : j \in 1..Len(text)
      BY <2>1
    <3>2. \A j \in (i + 2)..hi : text[j] \in Chars
      BY <3>1, ElementOfSeq
    <3>3. i + 2 \in Int /\ hi \in Int
      BY <2>1
    <3> QED
      BY <3>2, <3>3, SubSeqProperties
  <2>7. rest[i] = SubSeq(text, i + 1, hi) \o rest[hi]
    <3> DEFINE c == <<text[i + 1]>>
               s == SubSeq(text, i + 2, hi)
               u == rest[hi]
               v == rest[i + 1]
    <3>1. c \in Seq(Chars) /\ s \in Seq(Chars) /\ u \in Seq(Chars)
      BY <1>1, <2>5, <2>6
    <3>2. rest[i] = c \o v /\ v = s \o u /\ SubSeq(text, i + 1, hi) = c \o s
      BY <2>2, <2>3, <2>4
    <3> HIDE DEF c, s, u, v
    <3>3. Regroups(c, s, u)
      BY <3>1, Associative
    <3>4. (c \o s) \o u = c \o (s \o u)
      BY <3>3 DEF Regroups
    <3>5. rest[i] = SubSeq(text, i + 1, hi) \o u
      BY <3>2, <3>4
    <3> QED
      BY <3>5 DEF u
  <2>8. rest[hi - (d + 1)] = SubSeq(text, hi - (d + 1) + 1, hi) \o rest[hi]
    BY <2>7 DEF i
  <2> QED
    BY <2>1, <2>8
<1>4. hi - lo \in Copied
  <2> HIDE DEF Copied
  <2>1. hi - lo \in Nat /\ hi - lo \in 0..(hi - lo)
    BY <1>1
  <2>2. 0..(hi - lo) \subseteq Copied
    BY <1>2, <1>3, <2>1, UpTo
  <2> QED
    BY <2>1, <2>2
<1>5. hi - (hi - lo) = lo
  BY <1>1
<1> QED
  BY <1>4, <1>5

\* What the recursion of FlattenSeq puts together, piece by piece.
Flattening(flat, seqs, n, D) ==
  /\ flat \in [1..n -> Seq(D)]
  /\ FlattenSeq(seqs) = flat[n]
  /\ flat[1] = seqs[1]
  /\ \A i \in 2..n : flat[i] = flat[i - 1] \o seqs[i]

(* The recursion of FlattenSeq ends as well.                               *)
LEMMA FlattenEquations ==
  ASSUME NEW D, NEW n \in Nat, n # 0, NEW seqs \in [1..n -> Seq(D)]
  PROVE  \E flat : Flattening(flat, seqs, n, D)
<1> DEFINE Value(f, i) == IF i = 1 THEN seqs[i] ELSE f[i - 1] \o seqs[i]
           Good(m, f) == /\ f \in [1..m -> Seq(D)]
                         /\ \A i \in 1..m : f[i] = Value(f, i)
           Sofar == {d \in 0..(n - 1) : \E f : Good(d + 1, f)}
           flat == CHOOSE h : h = [i \in 1..Len(seqs) |-> Value(h, i)]
<1>1. seqs \in Seq(Seq(D)) /\ Len(seqs) = n
  BY SeqDef, LenProperties
<1>2. FlattenSeq(seqs) = flat[Len(seqs)]
  BY <1>1 DEF FlattenSeq
<1>3. \A f : Value(f, 1) = seqs[1] /\ seqs[1] \in Seq(D)
  OBVIOUS
<1>4. ASSUME NEW f, NEW i \in 2..n, f[i - 1] \in Seq(D)
      PROVE  Value(f, i) = f[i - 1] \o seqs[i] /\ Value(f, i) \in Seq(D)
  <2>1. i # 1 /\ seqs[i] \in Seq(D)
    OBVIOUS
  <2> QED
    BY <1>4, <2>1, ConcatProperties
<1>5. 0 \in Sofar
  <2> DEFINE f == [i \in 1..1 |-> seqs[1]]
  <2>1. Good(0 + 1, f)
    BY <1>3
  <2>2. 0 \in 0..(n - 1)
    OBVIOUS
  <2> HIDE DEF Good, f
  <2> QED
    BY <2>1, <2>2
<1>6. ASSUME NEW d \in 0..(n - 1 - 1), d \in Sofar PROVE d + 1 \in Sofar
  <2>1. PICK f : Good(d + 1, f)
    BY <1>6
  <2> DEFINE m == d + 2
             g == [i \in 1..m |-> IF i = m THEN f[m - 1] \o seqs[m] ELSE f[i]]
  <2>2. m \in 2..n /\ m - 1 = d + 1 /\ m - 1 \in 1..m /\ d + 1 \in 0..(n - 1)
    OBVIOUS
  <2>3. /\ f \in [1..(m - 1) -> Seq(D)]
        /\ \A i \in 1..(m - 1) : f[i] = Value(f, i)
    BY <2>1, <2>2
  <2> HIDE DEF m
  <2>4. f[m - 1] \o seqs[m] \in Seq(D)
    BY <2>2, <2>3, ConcatProperties
  <2>5. /\ g \in [1..m -> Seq(D)]
        /\ g[m] = f[m - 1] \o seqs[m]
        /\ \A i \in 1..(m - 1) : g[i] = f[i]
    <3>1. \A i \in 1..m : i # m => i \in 1..(m - 1)
      BY <2>2
    <3>2. m \in 1..m /\ \A i \in 1..(m - 1) : i \in 1..m /\ i # m
      BY <2>2
    <3>3. \A i \in 1..(m - 1) : f[i] \in Seq(D)
      BY <2>3
    <3> QED
      BY <2>4, <3>1, <3>2, <3>3
  <2> HIDE DEF g
  <2>6. ASSUME NEW i \in 1..m PROVE g[i] = Value(g, i)
    <3>1. CASE i = 1
      <4>1. 1 \in 1..(m - 1) /\ 1 # m
        BY <2>2
      <4> QED
        BY <1>3, <2>3, <2>5, <3>1, <4>1
    <3>2. CASE i = m
      <4>1. m # 1 /\ m - 1 \in 1..(m - 1)
        BY <2>2
      <4>2. g[m - 1] = f[m - 1]
        BY <2>5, <4>1
      <4> QED
        BY <2>5, <3>2, <4>1, <4>2
    <3>3. CASE i # 1 /\ i # m
      <4>1. i \in 1..(m - 1) /\ i - 1 \in 1..(m - 1)
        BY <2>2, <3>3
      <4> QED
        BY <2>3, <2>5, <3>3, <4>1
    <3> QED
      BY <3>1, <3>2, <3>3
  <2>7. Good((d + 1) + 1, g)
    <3>1. (d + 1) + 1 = m
      BY DEF m
    <3> QED
      BY <2>5, <2>6, <3>1
  <2> HIDE DEF Good
  <2> QED
    BY <2>2, <2>7
<1>7. PICK f : Good(n, f)
  <2> HIDE DEF Good
  <2>1. n - 1 \in Sofar
    <3> HIDE DEF Sofar
    <3>1. n - 1 \in Nat /\ n - 1 \in 0..(n - 1)
      OBVIOUS
    <3>2. 0..(n - 1) \subseteq Sofar
      BY <1>5, <1>6, <3>1, UpTo
    <3> QED
      BY <3>1, <3>2
  <2>2. (n - 1) + 1 = n
    OBVIOUS
  <2> QED
    BY <2>1, <2>2
<1>8. flat = [i \in 1..n |-> Value(flat, i)]
  <2>1. f = [i \in 1..n |-> Value(f, i)]
    <3> HIDE DEF Value
    <3> QED
      BY <1>7
  <2> HIDE DEF Value
  <2> QED
    BY <1>1, <2>1
<1> HIDE DEF flat
<1> DEFINE Typed == {d \in 0..(n - 1) : flat[d + 1] \in Seq(D)}
<1>9. 0 \in Typed
  <2>1. flat[0 + 1] = seqs[1] /\ 0 \in 0..(n - 1)
    BY <1>8
  <2> QED
    BY <1>3, <2>1
<1>10. ASSUME NEW d \in 0..(n - 1 - 1), d \in Typed PROVE d + 1 \in Typed
  <2>1. d + 2 \in 2..n /\ (d + 2) - 1 = d + 1 /\ d + 1 \in 0..(n - 1)
    OBVIOUS
  <2>2. Value(flat, d + 2) \in Seq(D)
    BY <1>4, <1>10, <2>1
  <2>3. flat[(d + 1) + 1] = Value(flat, d + 2)
    <3> HIDE DEF Value
    <3>1. (d + 1) + 1 = d + 2 /\ d + 2 \in 1..n
      BY <2>1
    <3> QED
      BY <1>8, <3>1
  <2> HIDE DEF Value
  <2> QED
    BY <2>1, <2>2, <2>3
<1>11. \A i \in 1..n : flat[i] \in Seq(D)
  <2> HIDE DEF Typed
  <2>0. n - 1 \in Nat
    OBVIOUS
  <2>1. 0..(n - 1) \subseteq Typed
    BY <1>9, <1>10, <2>0, UpTo
  <2>2. ASSUME NEW i \in 1..n PROVE flat[i] \in Seq(D)
    <3>1. i - 1 \in Typed /\ (i - 1) + 1 = i
      BY <2>1
    <3> QED
      BY <3>1 DEF Typed
  <2> QED
    BY <2>2
<1>12. flat \in [1..n -> Seq(D)]
  <2> HIDE DEF Value
  <2> QED
    BY <1>8, <1>11
<1>13. flat[1] = seqs[1] /\ \A i \in 2..n : flat[i] = flat[i - 1] \o seqs[i]
  <2>1. 1 \in 1..n /\ \A i \in 2..n : i \in 1..n /\ i # 1
    OBVIOUS
  <2>2. \A i \in 1..n : flat[i] = Value(flat, i)
    <3> HIDE DEF Value
    <3> QED
      BY <1>8
  <2> QED
    BY <2>1, <2>2
<1> QED
  BY <1>1, <1>2, <1>12, <1>13, Zenon DEF Flattening

(* So it does for pieces of text.                                          *)
LEMMA FlattenText ==
  ASSUME NEW n \in Nat, n # 0, NEW seqs \in [1..n -> Seq(Chars)]
  PROVE  \E flat \in [1..n -> Seq(Chars)] :
           /\ FlattenSeq(seqs) = flat[n]
           /\ flat[1] = seqs[1]
           /\ \A i \in 2..n : flat[i] = flat[i - 1] \o seqs[i]
<1>1. PICK flat : Flattening(flat, seqs, n, Chars)
  BY FlattenEquations, Zenon
<1> QED
  BY <1>1, Zenon DEF Flattening

\* The pieces that ReplacedAsCounted puts together: what is kept and, between
\* two of these, the new text.
CutAt(text, offsets, k) == IF k = Len(offsets) THEN Len(text)
                           ELSE offsets[k + 1]
Kept(text, e, offsets, k) ==
  SubSeq(text, EndOf(e.old, offsets, k) + 1, CutAt(text, offsets, k))
Pieces(text, e, offsets) ==
  [j \in 1..(2 * Len(offsets) + 1) |->
     IF j % 2 = 1 THEN Kept(text, e, offsets, (j - 1) \div 2) ELSE e.new]

(* Odd and even numbers.                                                   *)
LEMMA Parity ==
  \A k \in Nat : /\ (2 * k + 1) % 2 = 1 /\ ((2 * k + 1) - 1) \div 2 = k
                 /\ (2 * k + 2) % 2 = 0
                 /\ \A j \in Nat : j % 2 = 1 => (j - 1) \div 2 \in Nat
  OBVIOUS

(* Spliced is the pieces one after the other.                              *)
LEMMA SplicedPieces ==
  ASSUME NEW text, NEW e, NEW offsets
  PROVE  Spliced(text, e, offsets) = FlattenSeq(Pieces(text, e, offsets))
  BY DEF Spliced, Pieces, Kept, CutAt, EndOf

(* The bounds of what is kept lie in order inside the text.                *)
LEMMA KeptBounds ==
  ASSUME NEW text \in Seq(Chars), NEW old \in Seq(Chars), old # <<>>,
         NEW offsets \in Seq(Nat), Leftmost(text, old, offsets),
         NEW k \in 0..Len(offsets)
  PROVE  /\ CutAt(text, offsets, k) \in 0..Len(text)
         /\ EndOf(old, offsets, k) \in 0..CutAt(text, offsets, k)
<1>1. /\ Len(offsets) \in Nat /\ DOMAIN offsets = 1..Len(offsets)
      /\ Len(text) \in Nat /\ Len(old) \in Nat
      /\ \A j \in 1..Len(offsets) : offsets[j] \in Nat
  BY LenProperties, ElementOfSeq
<1>2. \A j \in 1..Len(offsets) : offsets[j] + Len(old) <= Len(text)
  BY <1>1 DEF Leftmost, Occurs
<1>3. EndOf(old, offsets, k) \in 0..Len(text)
  BY <1>1, <1>2 DEF EndOf
<1>4. CASE k = Len(offsets)
  BY <1>1, <1>3, <1>4 DEF CutAt
<1>5. CASE k # Len(offsets)
  <2> DEFINE n == Len(offsets)
  <2>0. n \in Nat /\ k \in 0..n /\ k # n
    BY <1>1, <1>5
  <2>1. k + 1 \in 1..Len(offsets) /\ (k + 1) - 1 = k
    <3> HIDE DEF n
    <3>1. k + 1 \in 1..n /\ (k + 1) - 1 = k
      BY <2>0
    <3> QED
      BY <3>1 DEF n
  <2>2. EndOf(old, offsets, k) <= offsets[k + 1]
    BY <1>1, <2>1 DEF Leftmost
  <2>3. offsets[k + 1] \in 0..Len(text)
    BY <1>1, <1>2, <2>1
  <2>4. CutAt(text, offsets, k) = offsets[k + 1]
    BY <1>5, Zenon DEF CutAt
  <2>5. \A e, c, l : e \in 0..l /\ c \in 0..l /\ e <= c => e \in 0..c
    OBVIOUS
  <2> QED
    BY <1>3, <2>2, <2>3, <2>4, <2>5, Zenon
<1> QED
  BY <1>4, <1>5

(* The pieces are texts.                                                   *)
LEMMA PiecesTyped ==
  ASSUME NEW text \in Seq(Chars),
         NEW e \in [old: Seq(Chars), new: Seq(Chars), all: BOOLEAN],
         e.old # <<>>, NEW offsets \in Seq(Nat),
         Leftmost(text, e.old, offsets)
  PROVE  /\ \A k \in 0..Len(offsets) : Kept(text, e, offsets, k) \in Seq(Chars)
         /\ Pieces(text, e, offsets) \in [1..(2 * Len(offsets) + 1) -> Seq(Chars)]
         /\ \A k \in 0..Len(offsets) :
              Pieces(text, e, offsets)[2 * k + 1] = Kept(text, e, offsets, k)
         /\ \A k \in 0..(Len(offsets) - 1) :
              Pieces(text, e, offsets)[2 * k + 2] = e.new
<1>1. Len(offsets) \in Nat /\ e.old \in Seq(Chars) /\ e.new \in Seq(Chars)
  BY LenProperties
<1>2. ASSUME NEW k \in 0..Len(offsets)
      PROVE Kept(text, e, offsets, k) \in Seq(Chars)
  <2> DEFINE lo == EndOf(e.old, offsets, k)
             hi == CutAt(text, offsets, k)
  <2>1. hi \in 0..Len(text) /\ lo \in 0..hi
    BY <1>1, KeptBounds
  <2> HIDE DEF lo, hi
  <2>2. \A i \in (lo + 1)..hi : i \in 1..Len(text)
    BY <2>1
  <2>3. \A i \in (lo + 1)..hi : text[i] \in Chars
    BY <2>2, ElementOfSeq
  <2>4. lo + 1 \in Int /\ hi \in Int
    BY <2>1
  <2>5. SubSeq(text, lo + 1, hi) \in Seq(Chars)
    BY <2>3, <2>4, SubSeqProperties
  <2> QED
    BY <2>5 DEF Kept, lo, hi
<1>3. ASSUME NEW k \in 0..Len(offsets)
      PROVE  /\ 2 * k + 1 \in 1..(2 * Len(offsets) + 1)
             /\ Pieces(text, e, offsets)[2 * k + 1] = Kept(text, e, offsets, k)
  <2>1. 2 * k + 1 \in 1..(2 * Len(offsets) + 1) /\ k \in Nat
    BY <1>1
  <2> QED
    BY <2>1, Parity DEF Pieces
<1>4. ASSUME NEW k \in 0..(Len(offsets) - 1)
      PROVE  Pieces(text, e, offsets)[2 * k + 2] = e.new
  <2>1. 2 * k + 2 \in 1..(2 * Len(offsets) + 1) /\ k \in Nat
    BY <1>1
  <2>2. (2 * k + 2) % 2 = 0
    BY <2>1, Parity
  <2> QED
    BY <2>1, <2>2 DEF Pieces
<1>5. ASSUME NEW j \in 1..(2 * Len(offsets) + 1)
      PROVE  Pieces(text, e, offsets)[j] \in Seq(Chars)
  <2>1. CASE j % 2 = 1
    <3>1. (j - 1) \div 2 \in 0..Len(offsets)
      BY <1>1, <2>1
    <3> QED
      BY <1>2, <2>1, <3>1 DEF Pieces
  <2>2. CASE j % 2 # 1
    BY <1>1, <2>2 DEF Pieces
  <2> QED
    BY <2>1, <2>2
<1>6. Pieces(text, e, offsets) \in [1..(2 * Len(offsets) + 1) -> Seq(Chars)]
  <2>1. Pieces(text, e, offsets) =
          [j \in 1..(2 * Len(offsets) + 1) |-> Pieces(text, e, offsets)[j]]
    BY DEF Pieces
  <2> QED
    BY <1>5, <2>1
<1> QED
  BY <1>2, <1>3, <1>4, <1>6

(* Replacing all occurrences puts the new text exactly at the leftmost     *)
(* offsets: by induction on the matches, what is put together up to the    *)
(* k-th gap followed by the recursion from its end is the whole result.    *)
LEMMA SplicedAll ==
  ASSUME NEW text \in Seq(Chars),
         NEW e \in [old: Seq(Chars), new: Seq(Chars), all: BOOLEAN],
         e.old # <<>>, NEW offsets \in Seq(Nat),
         Leftmost(text, e.old, offsets),
         GapFree(text, e.old, EndOf(e.old, offsets, Len(offsets)), Len(text))
  PROVE  Spliced(text, e, offsets) = AllReplaced(text, e.old, e.new)
<1> DEFINE n == Len(offsets)
           piece == Pieces(text, e, offsets)
           kept(k) == Kept(text, e, offsets, k)
           end(k) == EndOf(e.old, offsets, k)
           cut(k) == CutAt(text, offsets, k)
<1>1. /\ n \in Nat /\ e.old \in Seq(Chars) /\ e.new \in Seq(Chars)
      /\ Len(text) \in Nat /\ Len(e.old) \in Nat
      /\ DOMAIN offsets = 1..n
      /\ \A k \in 1..n : offsets[k] \in Nat
  BY LenProperties, ElementOfSeq
<1>2. PICK rest \in [0..Len(text) -> Seq(Chars)] :
        /\ AllReplaced(text, e.old, e.new) = rest[0]
        /\ \A i \in 0..Len(text) : rest[i] = Rest(text, e.old, e.new, rest, i)
  BY <1>1, AllReplacedEquations
<1>3. /\ piece \in [1..(2 * n + 1) -> Seq(Chars)]
      /\ \A k \in 0..n : kept(k) \in Seq(Chars) /\ piece[2 * k + 1] = kept(k)
      /\ \A k \in 0..(n - 1) : piece[2 * k + 2] = e.new
  BY PiecesTyped
<1>4. Spliced(text, e, offsets) = FlattenSeq(piece)
  BY SplicedPieces
<1> HIDE DEF piece
<1>5. PICK flat \in [1..(2 * n + 1) -> Seq(Chars)] :
        /\ FlattenSeq(piece) = flat[2 * n + 1]
        /\ flat[1] = piece[1]
        /\ \A i \in 2..(2 * n + 1) : flat[i] = flat[i - 1] \o piece[i]
  <2>1. 2 * n + 1 \in Nat /\ 2 * n + 1 # 0
    BY <1>1
  <2> QED
    BY <1>3, <2>1, FlattenText
<1>6. \A k \in 0..n : cut(k) \in 0..Len(text) /\ end(k) \in 0..cut(k)
  BY <1>1, KeptBounds
<1>7. ASSUME NEW k \in 0..n PROVE rest[end(k)] = kept(k) \o rest[cut(k)]
  <2>1. GapFree(text, e.old, end(k), cut(k))
    <3>1. CASE k = n
      <4>1. cut(k) = Len(text) /\ end(k) = end(n)
        BY <3>1, Zenon DEF CutAt
      <4> QED
        BY <4>1, Zenon
    <3>2. CASE k # n
      <4>1. k + 1 \in 1..n /\ (k + 1) - 1 = k
        <5> HIDE DEF n
        <5> QED
          BY <1>1, <3>2
      <4> QED
        BY <1>1, <3>2, <4>1 DEF CutAt, Leftmost
    <3> QED
      BY <3>1, <3>2
  <2>2. cut(k) \in 0..Len(text) /\ end(k) \in 0..cut(k)
    BY <1>6
  <2> HIDE DEF end, cut
  <2>3. rest[end(k)] = SubSeq(text, end(k) + 1, cut(k)) \o rest[cut(k)]
    BY <1>1, <1>2, <2>1, <2>2, GapCopied
  <2> QED
    BY <2>3 DEF Kept, end, cut
<1>8. ASSUME NEW k \in 0..(n - 1)
      PROVE  rest[cut(k)] = e.new \o rest[end(k + 1)]
  <2>1. k + 1 \in 1..n /\ k # n /\ k \in 0..n
    <3> HIDE DEF n
    <3> QED
      BY <1>1
  <2>2. /\ cut(k) = offsets[k + 1]
        /\ end(k + 1) = offsets[k + 1] + Len(e.old)
        /\ Occurs(text, e.old, offsets[k + 1])
    <3>1. cut(k) = offsets[k + 1]
      BY <2>1 DEF CutAt
    <3>2. k + 1 # 0
      BY <2>1
    <3>3. end(k + 1) = offsets[k + 1] + Len(e.old)
      BY <3>2, Zenon DEF EndOf
    <3>4. Occurs(text, e.old, offsets[k + 1])
      BY <1>1, <2>1 DEF Leftmost
    <3> QED
      BY <3>1, <3>3, <3>4, Zenon
  <2>3. cut(k) \in 0..Len(text) /\ cut(k) # Len(text)
    <3>1. cut(k) \in 0..Len(text) /\ cut(k) \in Nat
      BY <1>6, <2>1
    <3>2. cut(k) < Len(text)
      BY <1>1, <2>2, <3>1, OccursInside
    <3> QED
      BY <1>1, <3>1, <3>2
  <2>4. rest[cut(k)] = Rest(text, e.old, e.new, rest, cut(k))
    BY <1>2, <2>3
  <2> QED
    BY <2>2, <2>3, <2>4 DEF Rest
<1> DEFINE Spelled == {k \in 0..n : rest[0] = flat[2 * k + 1] \o rest[cut(k)]}
<1> HIDE DEF n, kept, end, cut
<1>9. 0 \in Spelled
  <2>1. 2 * 0 + 1 = 1 /\ 0 \in 0..n
    BY <1>1
  <2>2. flat[1] = kept(0)
    BY <1>3, <1>5, <2>1
  <2>3. end(0) = 0
    BY DEF end, EndOf
  <2> QED
    BY <1>7, <2>1, <2>2, <2>3
<1>10. ASSUME NEW k \in 0..(n - 1), k \in Spelled PROVE k + 1 \in Spelled
  <2> DEFINE done == flat[2 * k + 1]
             put == e.new
             next == kept(k + 1)
             left == rest[cut(k + 1)]
  <2>1. /\ k + 1 \in 0..n /\ k \in 0..n
        /\ 2 * k + 1 \in 1..(2 * n + 1)
        /\ 2 * k + 2 \in 2..(2 * n + 1) /\ (2 * k + 2) - 1 = 2 * k + 1
        /\ 2 * k + 3 \in 2..(2 * n + 1) /\ (2 * k + 3) - 1 = 2 * k + 2
        /\ 2 * (k + 1) + 1 = 2 * k + 3
    BY <1>1
  <2>2. /\ done \in Seq(Chars) /\ put \in Seq(Chars)
        /\ next \in Seq(Chars) /\ left \in Seq(Chars)
    BY <1>1, <1>2, <1>3, <1>5, <1>6, <2>1
  <2>3. flat[2 * k + 2] = done \o put
    BY <1>3, <1>5, <2>1
  <2>4. flat[2 * (k + 1) + 1] = flat[2 * k + 2] \o next
    BY <1>3, <1>5, <2>1
  <2>5. rest[0] = done \o rest[cut(k)]
    BY <1>10
  <2>6. rest[cut(k)] = put \o rest[end(k + 1)]
    BY <1>8
  <2>7. rest[end(k + 1)] = next \o left
    BY <1>7, <2>1
  <2> HIDE DEF done, put, next, left
  <2>8. done \o rest[cut(k)] = (flat[2 * k + 2] \o next) \o left
    <3> DEFINE y == next \o left
               u == done \o put
    <3>1. done \in Seq(Chars)
      BY <2>2
    <3>2. put \in Seq(Chars)
      BY <2>2
    <3>3. next \in Seq(Chars)
      BY <2>2
    <3>4. left \in Seq(Chars)
      BY <2>2
    <3>5. y \in Seq(Chars)
      BY <3>3, <3>4, ConcatProperties
    <3>6. u \in Seq(Chars)
      BY <3>1, <3>2, ConcatProperties
    <3> HIDE DEF y, u
    <3>7. Regroups(done, put, y)
      BY <3>1, <3>2, <3>5, Associative
    <3>8. Regroups(u, next, left)
      BY <3>3, <3>4, <3>6, Associative
    <3>9. done \o (put \o y) = (u \o next) \o left
      BY <3>7, <3>8 DEF y, u, Regroups
    <3>10. rest[cut(k)] = put \o y /\ flat[2 * k + 2] = u
      BY <2>3, <2>6, <2>7 DEF y, u
    <3> QED
      BY <3>9, <3>10
  <2>9. rest[0] = flat[2 * (k + 1) + 1] \o left
    BY <2>4, <2>5, <2>8
  <2> QED
    BY <2>1, <2>9 DEF left
<1>11. n \in Spelled
  <2> HIDE DEF Spelled
  <2>1. 0..n \subseteq Spelled
    BY <1>1, <1>9, <1>10, UpTo
  <2>2. n \in 0..n
    BY <1>1
  <2> QED
    BY <2>1, <2>2
<1>12. rest[cut(n)] = <<>>
  <2>1. cut(n) = Len(text)
    BY DEF cut, CutAt, n
  <2>2. Len(text) \in 0..Len(text)
    BY <1>1
  <2>3. rest[Len(text)] = Rest(text, e.old, e.new, rest, Len(text))
    BY <1>2, <2>2
  <2> QED
    BY <2>1, <2>3 DEF Rest
<1>13. flat[2 * n + 1] \in Seq(Chars)
  <2>1. 2 * n + 1 \in 1..(2 * n + 1)
    BY <1>1
  <2> QED
    BY <1>5, <2>1
<1>14. rest[0] = flat[2 * n + 1]
  BY <1>11, <1>12, <1>13, ConcatEmptySeq
<1> QED
  BY <1>2, <1>4, <1>5, <1>14

(* A single match is the one that replacing the first occurrence finds.    *)
LEMMA SplicedFirst ==
  ASSUME NEW text \in Seq(Chars),
         NEW e \in [old: Seq(Chars), new: Seq(Chars), all: BOOLEAN],
         e.old # <<>>, NEW offsets \in Seq(Nat), Len(offsets) = 1,
         Leftmost(text, e.old, offsets)
  PROVE  Spliced(text, e, offsets) = FirstReplaced(text, e.old, e.new)
<1> DEFINE at == offsets[1]
           first == Min(Found(text, e.old, 0))
           before == SubSeq(text, 1, at)
           after == SubSeq(text, at + Len(e.old) + 1, Len(text))
           piece == Pieces(text, e, offsets)
<1>1. /\ e.old \in Seq(Chars) /\ e.new \in Seq(Chars)
      /\ Len(text) \in Nat /\ Len(e.old) \in Nat
      /\ DOMAIN offsets = 1..1 /\ at \in Nat
  <2>1. e.old \in Seq(Chars) /\ e.new \in Seq(Chars)
    OBVIOUS
  <2>2. DOMAIN offsets = 1..1 /\ 1 \in 1..Len(offsets)
    BY LenProperties
  <2>3. at \in Nat
    BY <2>2, ElementOfSeq
  <2>4. Len(text) \in Nat /\ Len(e.old) \in Nat
    BY <2>1, LenProperties
  <2> QED
    BY <2>1, <2>2, <2>3, <2>4
<1>2. Occurs(text, e.old, at) /\ GapFree(text, e.old, 0, at)
  <2>1. EndOf(e.old, offsets, 1 - 1) = 0
    BY DEF EndOf
  <2>2. 1 \in DOMAIN offsets
    BY <1>1
  <2> QED
    BY <2>1, <2>2 DEF Leftmost
<1>3. first = at
  <2>1. at \in Found(text, e.old, 0)
    <3>1. at + Len(e.old) <= Len(text)
      BY <1>2 DEF Occurs
    <3>2. at \in 0..(Len(text) - Len(e.old))
      BY <1>1, <3>1
    <3> QED
      BY <1>2, <3>2 DEF Found
  <2>2. /\ first \in Found(text, e.old, 0) /\ first \in Nat
        /\ first <= at
    BY <1>1, <2>1, FoundInside
  <2>3. Occurs(text, e.old, first)
    BY <2>2 DEF Found
  <2> HIDE DEF first
  <2> QED
    BY <1>1, <1>2, <2>2, <2>3 DEF GapFree
<1>4. Kept(text, e, offsets, 0) = before /\ Kept(text, e, offsets, 1) = after
  <2>1. /\ EndOf(e.old, offsets, 0) = 0
        /\ EndOf(e.old, offsets, 1) = at + Len(e.old)
        /\ CutAt(text, offsets, 0) = at /\ CutAt(text, offsets, 1) = Len(text)
    BY DEF EndOf, CutAt
  <2>2. 0 + 1 = 1
    OBVIOUS
  <2>3. Kept(text, e, offsets, 0) = SubSeq(text, 0 + 1, at)
    BY <2>1 DEF Kept
  <2>4. Kept(text, e, offsets, 1) = after
    BY <2>1 DEF Kept
  <2> QED
    BY <2>2, <2>3, <2>4
<1>5. /\ piece \in [1..3 -> Seq(Chars)]
      /\ piece[1] = before /\ piece[2] = e.new /\ piece[3] = after
  <2>1. /\ 2 * Len(offsets) + 1 = 3
        /\ 2 * 0 + 1 = 1 /\ 2 * 0 + 2 = 2 /\ 2 * 1 + 1 = 3
        /\ 0 \in 0..Len(offsets) /\ 1 \in 0..Len(offsets)
        /\ 0 \in 0..(Len(offsets) - 1)
    OBVIOUS
  <2>2. /\ piece \in [1..(2 * Len(offsets) + 1) -> Seq(Chars)]
        /\ piece[2 * 0 + 1] = before /\ piece[2 * 1 + 1] = after
        /\ piece[2 * 0 + 2] = e.new
    <3> HIDE DEF before, after
    <3> QED
      BY <1>4, <2>1, PiecesTyped
  <2> HIDE DEF piece, before, after
  <2> QED
    BY <2>1, <2>2
<1>6. Spliced(text, e, offsets) = FlattenSeq(piece)
  BY SplicedPieces
<1> HIDE DEF piece, before, after, at, first
<1>7. FlattenSeq(piece) = (before \o e.new) \o after
  <2>0. 3 \in Nat /\ 3 # 0
    OBVIOUS
  <2>1. PICK flat \in [1..3 -> Seq(Chars)] :
          /\ FlattenSeq(piece) = flat[3]
          /\ flat[1] = piece[1]
          /\ \A i \in 2..3 : flat[i] = flat[i - 1] \o piece[i]
    BY <1>5, <2>0, FlattenText
  <2>2. flat[2] = flat[1] \o piece[2] /\ flat[3] = flat[2] \o piece[3]
    <3>1. 2 \in 2..3 /\ 3 \in 2..3 /\ 2 - 1 = 1 /\ 3 - 1 = 2
      OBVIOUS
    <3> QED
      BY <2>1, <3>1
  <2> QED
    BY <1>5, <2>1, <2>2
<1>8. FirstReplaced(text, e.old, e.new) = (before \o e.new) \o after
  BY <1>3 DEF FirstReplaced, first, before, after
<1> QED
  BY <1>6, <1>7, <1>8

(* What the loop has counted, in the terms of the recursion: the search    *)
(* goes on at the end of the last match, and when it ends no occurrence is *)
(* left after it.                                                          *)
ScanInv ==
  phase \in {"scan", "decide"} =>
    /\ Leftmost(cur, edit.old, hits)
    /\ off = EndOf(edit.old, hits, Len(hits))
    /\ phase = "decide" => GapFree(cur, edit.old, off, Len(cur))

(* Nothing is counted yet.                                                 *)
LEMMA NothingCounted ==
  ASSUME NEW text, NEW old
  PROVE  Leftmost(text, old, <<>>) /\ EndOf(old, <<>>, Len(<<>>)) = 0
<1>1. DOMAIN <<>> = {} /\ Len(<<>>) = 0
  OBVIOUS
<1> QED
  BY <1>1 DEF Leftmost, EndOf

(* One round of the loop: between the end of the last match and the first  *)
(* place found there is no occurrence.                                     *)
LEMMA CountMatchesScans ==
  ASSUME EngineInv, ScanInv, CountMatches
  PROVE  ScanInv'
<1> DEFINE n == Len(edit.old)
           F == Found(cur, edit.old, off)
<1>1. /\ hits \in Seq(Nat) /\ Len(hits) \in Nat /\ off \in Nat
      /\ DOMAIN hits = 1..Len(hits)
      /\ \A k \in DOMAIN hits : hits[k] \in Nat
  BY ElementOfSeq, LenProperties DEF EngineInv, EngineTypeOK
<1>2. /\ edit.old \in Seq(Chars) /\ n \in Nat /\ n # 0 /\ edit.old # <<>>
      /\ cur \in Seq(Chars) /\ Len(cur) \in Nat
  BY EditTyped, LenProperties DEF EngineInv, CountMatches
<1>3. phase = "scan" /\ cur' = cur /\ edit' = edit
  BY DEF CountMatches
<1>4. /\ Leftmost(cur, edit.old, hits)
      /\ off = EndOf(edit.old, hits, Len(hits))
  BY <1>3 DEF ScanInv
<1>5. \A i \in Nat : i >= off /\ Occurs(cur, edit.old, i) => i \in F
  BY <1>1, <1>2 DEF Found, Occurs
<1>6. CASE F = {}
  <2>1. phase' = "decide" /\ off' = off /\ hits' = hits
    BY <1>6 DEF CountMatches
  <2>2. GapFree(cur, edit.old, off, Len(cur))
    BY <1>1, <1>2, <1>5, <1>6 DEF GapFree
  <2> QED
    BY <1>3, <1>4, <2>1, <2>2 DEF ScanInv
<1>7. CASE F # {}
  <2> DEFINE i0 == Min(F)
             m == Len(hits) + 1
  <2>1. phase' = "scan" /\ hits' = Append(hits, i0) /\ off' = i0 + n
    BY <1>3, <1>7 DEF CountMatches
  <2>2. i0 \in F /\ \A i \in F : i0 <= i
    BY <1>1, <1>2, <1>7, FoundInside
  <2>3. i0 \in Nat /\ i0 >= off /\ Occurs(cur, edit.old, i0)
    BY <1>1, <1>2, <2>2 DEF Found
  <2>4. GapFree(cur, edit.old, off, i0)
    <3> HIDE DEF i0, F
    <3> QED
      BY <1>1, <1>5, <2>2, <2>3 DEF GapFree
  <2> HIDE DEF i0, F, n
  <2>5. /\ DOMAIN hits' = 1..m /\ Len(hits') = m /\ m # 0 /\ m - 1 = Len(hits)
        /\ \A k \in 1..Len(hits) : hits'[k] = hits[k]
        /\ hits'[m] = i0
    BY <1>1, <2>1, <2>3, AppendProperties, LenProperties
  <2> HIDE DEF m
  <2>6. \A k \in 0..Len(hits) :
          EndOf(edit.old, hits', k) = EndOf(edit.old, hits, k)
    BY <1>1, <2>5 DEF EndOf
  <2>7. ASSUME NEW k \in DOMAIN hits'
        PROVE  /\ Occurs(cur, edit.old, hits'[k])
               /\ EndOf(edit.old, hits', k - 1) <= hits'[k]
               /\ GapFree(cur, edit.old, EndOf(edit.old, hits', k - 1), hits'[k])
    <3>1. CASE k = m
      <4>1. EndOf(edit.old, hits', k - 1) = off /\ hits'[k] = i0
        <5>1. Len(hits) \in 0..Len(hits) /\ k - 1 = Len(hits)
          BY <1>1, <2>5, <3>1
        <5> QED
          BY <1>4, <2>5, <2>6, <3>1, <5>1
      <4> QED
        BY <1>1, <2>3, <2>4, <4>1
    <3>2. CASE k # m
      <4>1. /\ k \in DOMAIN hits /\ hits'[k] = hits[k]
            /\ k - 1 \in 0..Len(hits)
        BY <1>1, <2>5, <3>2 DEF m
      <4>2. EndOf(edit.old, hits', k - 1) = EndOf(edit.old, hits, k - 1)
        BY <2>6, <4>1
      <4> QED
        BY <1>4, <4>1, <4>2 DEF Leftmost
    <3> QED
      BY <3>1, <3>2
  <2>8. Leftmost(cur, edit.old, hits')
    BY <2>7 DEF Leftmost
  <2>9. off' = EndOf(edit.old, hits', Len(hits'))
    BY <2>1, <2>5 DEF EndOf, n
  <2> QED
    BY <1>3, <2>1, <2>8, <2>9 DEF ScanInv
<1> QED
  BY <1>6, <1>7

(* The other steps start the search or leave it.                           *)
LEMMA ScanNext == EngineInv /\ ScanInv /\ [Next]_vars => ScanInv'
<1> SUFFICES ASSUME EngineInv, ScanInv, [Next]_vars PROVE ScanInv'
  OBVIOUS
<1> USE DEF pageVars, engineVars
<1>1. CASE StartReading \/ StopReading
  BY <1>1 DEF StartReading, StopReading, ScanInv
<1>2. ASSUME NEW limit, Read(limit) PROVE ScanInv'
  BY <1>2 DEF Read, ReadPage, ScanInv
<1>3. ASSUME NEW e, StartEdit(e) \/ NextEdit(e) PROVE ScanInv'
  BY <1>3 DEF StartEdit, NextEdit, ScanInv
<1>4. CASE Apply
  <2>1. CASE phase' = "refused"
    BY <2>1 DEF ScanInv
  <2>2. CASE phase' = "scan"
    <3>1. off' = 0 /\ hits' = <<>>
      BY <1>4, <2>2 DEF Apply, Refuse
    <3>2. /\ Leftmost(cur', edit'.old, hits')
          /\ EndOf(edit'.old, hits', Len(hits')) = 0
      BY <3>1, NothingCounted
    <3> QED
      BY <2>2, <3>1, <3>2 DEF ScanInv
  <2> QED
    BY <1>4, <2>1, <2>2 DEF Apply, Refuse
<1>5. CASE CountMatches
  BY <1>5, CountMatchesScans
<1>6. CASE Decide
  BY <1>6 DEF Decide, Refuse, ScanInv
<1>7. CASE FinishEdit \/ ReturnError \/ ReturnWarning
  BY <1>7 DEF FinishEdit, ReturnError, ReturnWarning, Back, ScanInv
<1>8. ASSUME NEW text, WriteText(text) PROVE ScanInv'
  BY <1>8 DEF WriteText, ScanInv
<1>9. CASE UNCHANGED vars
  BY <1>9 DEF vars, ScanInv
<1> QED
  BY <1>1, <1>2, <1>3, <1>4, <1>5, <1>6, <1>7, <1>8, <1>9
     DEF Next, Reading, Engine

(* Replacing replaces what the loop has counted.                           *)
LEMMA ReplacedSpliced ==
  ASSUME EngineInv, ScanInv, phase = "decide",
         Len(hits) = 1 \/ edit.all
  PROVE  Replaced(cur, edit) = Spliced(cur, edit, hits)
<1>1. /\ cur \in Seq(Chars) /\ edit.old # <<>>
      /\ edit \in [old: Seq(Chars), new: Seq(Chars), all: BOOLEAN]
      /\ hits \in Seq(Nat)
  BY EditTyped DEF EngineInv, EngineTypeOK
<1>2. /\ Leftmost(cur, edit.old, hits)
      /\ GapFree(cur, edit.old, EndOf(edit.old, hits, Len(hits)), Len(cur))
  BY DEF ScanInv
<1>3. CASE edit.all
  BY <1>1, <1>2, <1>3, SplicedAll DEF Replaced
<1>4. CASE ~edit.all
  BY <1>1, <1>2, <1>4, SplicedFirst DEF Replaced
<1> QED
  BY <1>3, <1>4

(* The result of an edit is the content with the counted matches replaced  *)
(* and nothing else changed, for every text: the one match, or with        *)
(* replace_all each of them (engine.go, ApplyOnce and countMatches).       *)
THEOREM ReplacedCorrect == Spec => ReplacedAsCounted
<1> DEFINE Counted == phase = "decide" /\ phase' = "applied" =>
                        /\ cur' = Spliced(cur, edit, hits)
                        /\ edit.all \/ Len(hits) = 1
                        /\ content' = content
<1>1. Init => ScanInv
  BY DEF Init, ScanInv
<1>2. EngineInv /\ ScanInv /\ [Next]_vars => Counted
  <2> SUFFICES ASSUME EngineInv, ScanInv, [Next]_vars,
                      phase = "decide", phase' = "applied"
               PROVE  /\ cur' = Spliced(cur, edit, hits)
                      /\ edit.all \/ Len(hits) = 1
                      /\ content' = content
    OBVIOUS
  <2>1. Decide
    BY DEF Next, Reading, Engine, vars, pageVars, engineVars, StartReading,
           StopReading, Read, ReadPage, StartEdit, NextEdit, Apply, Refuse,
           CountMatches, FinishEdit, ReturnError, ReturnWarning, Back, WriteText
  <2>2. /\ Len(hits) = 1 \/ edit.all
        /\ cur' = Replaced(cur, edit) /\ content' = content
    BY <2>1 DEF Decide, Refuse
  <2> QED
    BY <2>2, ReplacedSpliced
<1>3. EngineInv /\ ScanInv /\ [Next]_vars => [Counted]_<<content, engineVars>>
  BY <1>2
<1> HIDE DEF Counted
<1>4. Spec => [][Counted]_<<content, engineVars>>
  BY <1>1, <1>3, EngineInit, EngineNext, ScanNext, PTL DEF Spec
<1> QED
  BY <1>4 DEF ReplacedAsCounted, Counted

-----------------------------------------------------------------------------
(* Following the footers.                                                  *)

\* Between two reads the client's offset is one past the last line shown,
\* and names a line or, when the last page cut one, the place after the last
\* line; 0 ends the reading.
Following ==
  /\ phase # "reading" => page = NoPage /\ offset = 0
  /\ phase = "reading" =>
       /\ offset \in Nat
       /\ offset # 0 => /\ page.last \in Nat /\ page.last + 1 = offset
                        /\ page.lines = <<>> => page.last = 0
                        /\ offset <= Len(splitLines(content)) + 1
                        /\ page.last = Len(splitLines(content)) =>
                             page.truncated \/ Len(splitLines(content)) = 0

(* What one read of the client says.                                       *)
LEMMA ReadSays ==
  ASSUME EngineInv, Following, NEW limit \in 1..(DefaultLines + 1),
         ReadPage(limit)
  PROVE  /\ AnswerSays(page', splitLines(content), offset)
         /\ offset \in Nat /\ offset # 0 /\ offset' = page'.next
         /\ page.last \in Nat /\ page.last + 1 = offset
         /\ page.lines = <<>> => page.last = 0
         /\ offset <= Len(splitLines(content)) + 1
         /\ page.last = Len(splitLines(content)) =>
              page.truncated \/ Len(splitLines(content)) = 0
         /\ Len(splitLines(content)) \in Nat
<1>1. content \in Seq(Chars)
  BY DEF EngineInv, EngineTypeOK
<1>2. offset > 0 /\ page' = Render(content, offset, limit) /\ offset' = page'.next
  BY DEF ReadPage
<1>3. offset # 0
  BY <1>2
<1>4. /\ offset \in Nat /\ page.last \in Nat /\ page.last + 1 = offset
      /\ page.lines = <<>> => page.last = 0
      /\ offset <= Len(splitLines(content)) + 1
      /\ page.last = Len(splitLines(content)) =>
           page.truncated \/ Len(splitLines(content)) = 0
  BY <1>3, Zenon DEF Following
<1>5. AnswerSays(Render(content, offset, limit), splitLines(content), offset)
  BY <1>1, <1>3, <1>4, RenderFacts, Zenon
<1>6. AnswerSays(page', splitLines(content), offset)
  BY <1>2, <1>5, Zenon
<1>7. Len(splitLines(content)) \in Nat
  BY <1>1, LinesTyped, Zenon
<1> QED
  BY <1>2, <1>3, <1>4, <1>6, <1>7, Zenon

(* Every step keeps the client's place.                                    *)
LEMMA FollowingNext == EngineInv /\ Following /\ [Next]_vars => Following'
<1> SUFFICES ASSUME EngineInv, Following, [Next]_vars PROVE Following'
  OBVIOUS
<1>1. CASE StartReading
  <2>1. /\ phase # "reading" /\ phase' = "reading" /\ offset' = 1
        /\ page' = page /\ content' = content
    BY <1>1 DEF StartReading
  <2>2. page = NoPage
    BY <2>1, Zenon DEF Following
  <2>3. page'.last = 0
    BY <2>1, <2>2 DEF NoPage
  <2>4. Len(splitLines(content)) \in Nat
    BY LinesTyped, Zenon DEF EngineInv, EngineTypeOK
  <2>5. /\ 1 \in Nat /\ 0 \in Nat /\ 0 + 1 = 1 /\ 1 <= Len(splitLines(content)) + 1
        /\ 0 = Len(splitLines(content)) => Len(splitLines(content)) = 0
    BY <2>4
  <2> QED
    BY <2>1, <2>3, <2>5, Zenon DEF Following
<1>2. ASSUME NEW limit \in 1..(DefaultLines + 1), Read(limit) PROVE Following'
  <2>1. /\ phase = "reading" /\ phase' = phase /\ content' = content
        /\ ReadPage(limit)
    BY <1>2 DEF Read, ReadPage, engineVars
  <2> DEFINE len == Len(splitLines(content))
  <2>2. /\ AnswerSays(page', splitLines(content), offset)
        /\ offset' = page'.next /\ len \in Nat
    BY <2>1, ReadSays, Zenon
  <2>3. /\ page'.last \in 0..len /\ (page'.next = 0 \/ page'.next = page'.last + 1)
        /\ page'.lines = <<>> => page'.last = 0
        /\ page'.next # 0 /\ page'.last = len => page'.truncated
    BY <2>2, Zenon DEF AnswerSays
  <2>4. \A n, l, q : /\ q \in Nat /\ l \in 0..q /\ (n = 0 \/ n = l + 1)
                     => /\ n \in Nat
                        /\ n # 0 => l \in Nat /\ l + 1 = n /\ n <= q + 1
    OBVIOUS
  <2>5. /\ offset' \in Nat
        /\ offset' # 0 => /\ page'.last \in Nat /\ page'.last + 1 = offset'
                          /\ page'.lines = <<>> => page'.last = 0
                          /\ offset' <= len + 1
                          /\ page'.last = len => page'.truncated \/ len = 0
    BY <2>2, <2>3, <2>4, Zenon
  <2> QED
    BY <2>1, <2>5, Zenon DEF Following
<1>3. CASE StopReading
  BY <1>3 DEF StopReading, Following
<1>4. CASE UNCHANGED pageVars /\ phase # "reading" /\ phase' # "reading"
  BY <1>4, Zenon DEF Following, pageVars
<1>5. CASE UNCHANGED vars
  BY <1>5, Zenon DEF Following, vars, pageVars, engineVars
<1>6. ASSUME NEW e \in Edits, StartEdit(e) \/ (NextEdit(e) /\ UNCHANGED pageVars)
      PROVE  Following'
  BY <1>4, <1>6 DEF StartEdit, NextEdit
<1>7. CASE Engine
  BY <1>4, <1>7 DEF Engine, Apply, CountMatches, Decide, Refuse
<1>8. CASE FinishEdit \/ ReturnError \/ ReturnWarning
  BY <1>4, <1>8 DEF FinishEdit, ReturnError, ReturnWarning, Back
<1>9. ASSUME NEW text \in Contents, WriteText(text) PROVE Following'
  BY <1>4, <1>9 DEF WriteText
<1> QED
  BY <1>1, <1>2, <1>3, <1>5, <1>6, <1>7, <1>8, <1>9, Zenon DEF Next, Reading

(* The client starts outside a reading.                                    *)
LEMMA FollowingInit == Init => Following
  BY DEF Init, Following

(* Following the footers shows the lines one after the other, none left    *)
(* out and none twice until all have been shown; a client is sent past the *)
(* end, and from there to line 1 again, only by a last page that cut a     *)
(* line (lineio.go, Render and buildFooter).                               *)
THEOREM PagesConsecutiveCorrect == Spec => PagesConsecutive
<1> DEFINE len == Len(splitLines(content))
           Next1 == /\ page'.lines # <<>> =>
                         page'.first = IF page.lines = <<>> THEN 1
                                       ELSE page.last + 1
                    /\ page'.lines = <<>> =>
                         page.last = len /\ (len # 0 => page.truncated)
           Consecutive == \A limit \in 1..(DefaultLines + 1) :
                            ReadPage(limit) => Next1
<1>1. EngineInv /\ Following /\ [Next]_vars => [Consecutive]_<<content, pageVars>>
  <2> SUFFICES ASSUME EngineInv, Following,
                      NEW limit \in 1..(DefaultLines + 1), ReadPage(limit)
               PROVE  Next1
    BY Zenon
  <2>1. /\ AnswerSays(page', splitLines(content), offset)
        /\ offset \in Nat /\ page.last \in Nat /\ page.last + 1 = offset
        /\ page.lines = <<>> => page.last = 0
        /\ offset <= len + 1 /\ len \in Nat
        /\ page.last = len => page.truncated \/ len = 0
    BY ReadSays, Zenon
  <2>2. CASE offset <= len
    <3>1. page'.lines # <<>> /\ page'.first = page.last + 1
      BY <2>1, <2>2, Zenon DEF AnswerSays
    <3>2. 0 + 1 = 1
      OBVIOUS
    <3> QED
      BY <2>1, <3>1, <3>2, Zenon
  <2>3. CASE ~(offset <= len)
    <3>1. page'.lines = <<>>
      BY <2>1, <2>3, Zenon DEF AnswerSays
    <3>2. \A l, o, q : /\ l \in Nat /\ o \in Nat /\ q \in Nat
                       /\ l + 1 = o /\ o <= q + 1 /\ ~(o <= q)
                       => l = q
      OBVIOUS
    <3>3. page.last = len
      BY <2>1, <2>3, <3>2, Zenon
    <3> QED
      BY <2>1, <3>1, <3>3, Zenon
  <2> QED
    BY <2>2, <2>3
<1> HIDE DEF Consecutive
<1>2. Spec => [][Consecutive]_<<content, pageVars>>
  BY <1>1, EngineInit, EngineNext, FollowingInit, FollowingNext, PTL DEF Spec
<1> QED
  BY <1>2 DEF PagesConsecutive, Consecutive

(* An empty footer means that the rest of the file has been shown in full, *)
(* and any other result says why it stopped (lineio.go, Render and         *)
(* buildFooter).                                                           *)
THEOREM FooterHonestCorrect == Spec => FooterHonest
<1> DEFINE Honest1 ==
             LET lines == splitLines(content)
                 rest == [k \in 1..(Len(lines) - offset + 1) |->
                            sanitize(lines[offset + k - 1])]
             IN  /\ offset' = 0 <=> /\ page'.lines = rest
                                    /\ offset <= Len(lines) \/ lines = <<>>
                 /\ offset' # 0 => page'.reasons # {}
           Honest == \A limit \in 1..(DefaultLines + 1) :
                       ReadPage(limit) => Honest1
<1>1. EngineInv /\ Following /\ [Next]_vars => [Honest]_<<content, pageVars>>
  <2> SUFFICES ASSUME EngineInv, Following,
                      NEW limit \in 1..(DefaultLines + 1), ReadPage(limit)
               PROVE  Honest1
    BY Zenon
  <2>1. /\ AnswerSays(page', splitLines(content), offset)
        /\ offset' = page'.next
    BY ReadSays, Zenon
  <2> QED
    BY <2>1, Zenon DEF AnswerSays, RestOf
<1> HIDE DEF Honest
<1>2. Spec => [][Honest]_<<content, pageVars>>
  BY <1>1, EngineInit, EngineNext, FollowingInit, FollowingNext, PTL DEF Spec
<1> QED
  BY <1>2 DEF FooterHonest, Honest

-----------------------------------------------------------------------------
(* The places a warning names.                                             *)

(* The line and column of a character that is no newline are those at      *)
(* which splitLines puts it.                                               *)
LEMMA PositionFacts ==
  ASSUME NEW text \in Seq(Chars), NEW i \in 1..Len(text), text[i] # NL
  PROVE  LET p == Position(text, i)
             lines == splitLines(text)
         IN  /\ p.char = text[i] /\ p.line \in 1..Len(lines)
             /\ p.col \in 1..Len(lines[p.line])
             /\ lines[p.line][p.col] = text[i]
             /\ i = Cuts(text)[p.line] + p.col
<1> DEFINE body == Body(text)
           h == i - 1
           c == Cuts(text)
           m == Cardinality(Breaks(text))
           n == LineAt(text, h)
           lines == splitLines(text)
           breaks == {j \in 1..h : text[j] = NL}
<1>1. text # <<>> /\ Len(text) \in Nat
  <2>1. Len(text) \in Nat
    BY LenProperties
  <2>2. text = <<>> => Len(text) = 0
    BY EmptySeq
  <2> QED
    BY <2>1, <2>2
<1>2. /\ Len(body) \in Nat /\ Len(body) <= Len(text)
      /\ Len(text) <= Len(body) + 1
      /\ \A j \in 1..Len(body) : body[j] = text[j]
      /\ Len(body) # Len(text) => text[Len(text)] = NL
      /\ body \in Seq(Chars)
  BY <1>1, BodyFacts
<1>3. i \in 1..Len(body)
  <2> HIDE DEF body
  <2>1. i \in 1..Len(text) /\ (Len(body) # Len(text) => i # Len(text))
    BY <1>2
  <2> QED
    BY <1>1, <1>2, <2>1
<1>4. \A j : j \in Breaks(text) <=> j \in 1..Len(body) /\ body[j] = NL
  <2>1. DOMAIN body = 1..Len(body)
    <3> HIDE DEF body
    <3> QED
      BY <1>2, LenProperties
  <2> QED
    BY <2>1, Zenon DEF Breaks
<1>5. i \notin Breaks(text) /\ Breaks(text) \subseteq 1..Len(body)
  <2> HIDE DEF body
  <2> QED
    BY <1>2, <1>3, <1>4
<1> HIDE DEF body
<1>6. /\ h \in 0..Len(body) /\ h \in Nat /\ h + 1 = i /\ i \in 0..Len(body)
      /\ i \in Nat /\ i # 0 /\ h < i
  BY <1>2, <1>3
<1>7. /\ n \in 1..(m + 1) /\ c[n] \in Nat /\ c[n] <= h
      /\ c[n + 1] \in Nat
  BY <1>1, <1>6, LineAtFacts DEF body
<1>8. LineAt(text, i) = n
  <2>1. CountTo(Breaks(text), h + 1) = CountTo(Breaks(text), h)
    <3>1. h + 1 \notin Breaks(text)
      BY <1>5, <1>6, Zenon
    <3> HIDE DEF h
    <3> QED
      BY <1>2, <1>5, <1>6, <3>1, CountSteps, Zenon
  <2>2. CountTo(Breaks(text), i) = CountTo(Breaks(text), h)
    BY <1>6, <2>1, Zenon
  <2> QED
    BY <2>2, Zenon DEF LineAt
<1>9. i < c[n + 1]
  <2>1. i < c[LineAt(text, i) + 1]
    BY <1>1, <1>6, LineAtFacts DEF body
  <2> QED
    BY <1>8, <2>1, Zenon
<1>10. Position(text, i).line = n
  <2>1. 1 + Cardinality(breaks) = n
    BY <1>1, <1>6, NumberIsLine DEF body
  <2>2. Position(text, i).line = 1 + Cardinality(breaks)
    BY DEF Position
  <2> QED
    BY <2>1, <2>2, Zenon
<1>11. Max(breaks \cup {0}) = c[n]
  <2> DEFINE S == breaks \cup {0}
             inner == InOrder(Breaks(text))
  <2>1. S \subseteq 0..h /\ S # {}
    BY <1>6
  <2>2. Max(S) \in S /\ \A k \in S : k <= Max(S)
    BY <1>6, <2>1, MaxUpTo
  <2>3. /\ m \in Nat /\ c[1] = 0
        /\ \A k \in 1..m : c[k + 1] = inner[k]
    BY <1>1, CutsFacts
  <2>4. /\ inner \in [1..m -> Breaks(text)]
        /\ \A b \in Breaks(text) : /\ CountTo(Breaks(text), b) \in 1..m
                                   /\ inner[CountTo(Breaks(text), b)] = b
        /\ \A j, k \in 1..m : j < k => inner[j] < inner[k]
    BY <1>2, <1>5, InOrderFacts
  <2> HIDE DEF inner, c, m
  <2>5. c[n] \in S
    <3>1. CASE n = 1
      BY <2>3, <3>1
    <3>2. CASE n # 1
      <4>1. n - 1 \in 1..m /\ (n - 1) + 1 = n
        BY <1>7, <2>3, <3>2
      <4>2. c[n] \in Breaks(text)
        <5>1. c[(n - 1) + 1] = inner[n - 1] /\ inner[n - 1] \in Breaks(text)
          BY <2>3, <2>4, <4>1, Zenon
        <5> QED
          BY <4>1, <5>1, Zenon
      <4>3. c[n] \in 1..Len(body) /\ body[c[n]] = NL
        BY <1>4, <4>2, Zenon
      <4>4. c[n] \in 1..h
        BY <1>6, <1>7, <4>3
      <4>5. text[c[n]] = NL
        BY <1>2, <4>3, Zenon
      <4> QED
        BY <4>4, <4>5, Zenon
    <3> QED
      BY <3>1, <3>2
  <2>6. ASSUME NEW b \in breaks PROVE b <= c[n]
    <3>1. b \in 1..h /\ text[b] = NL /\ b \in 1..Len(body) /\ b \in Nat /\ b <= h
      BY <1>2, <1>6
    <3>2. b \in Breaks(text)
      BY <1>2, <1>4, <3>1, Zenon
    <3> DEFINE k == CountTo(Breaks(text), b)
    <3>3. k \in 1..m /\ inner[k] = b /\ c[k + 1] = b
      BY <2>3, <2>4, <3>2, Zenon
    <3>4. k <= CountTo(Breaks(text), h)
      BY <1>2, <1>5, <1>6, <3>1, CountGrows
    <3>5. CountTo(Breaks(text), h) \in Nat /\ n = 1 + CountTo(Breaks(text), h)
      BY <1>2, <1>5, CountEnds DEF LineAt
    <3> HIDE DEF k, n, breaks
    <3>6. k \in Nat /\ 1 <= k /\ k <= n - 1 /\ n - 1 \in 1..m /\ (n - 1) + 1 = n
      <4>1. CountTo(Breaks(text), h) = n - 1
        BY <3>5
      <4>2. k <= n - 1
        BY <3>4, <4>1, Zenon
      <4>3. \A a, q, r : /\ r \in Nat /\ a \in 1..r /\ q \in 1..(r + 1)
                         /\ a <= q - 1
                         => /\ a \in Nat /\ 1 <= a
                            /\ q - 1 \in 1..r /\ (q - 1) + 1 = q
        OBVIOUS
      <4> QED
        BY <1>7, <2>3, <3>3, <4>2, <4>3, Zenon
    <3>7. inner[n - 1] = c[n]
      <4>1. c[(n - 1) + 1] = inner[n - 1]
        BY <2>3, <3>6, Zenon
      <4> QED
        BY <3>6, <4>1, Zenon
    <3>8. CASE k = n - 1
      BY <3>1, <3>3, <3>7, <3>8
    <3>9. CASE k # n - 1
      <4>1. k < n - 1
        BY <3>5, <3>6, <3>9
      <4>2. inner[k] < inner[n - 1]
        BY <2>4, <3>3, <3>6, <4>1, Zenon
      <4>3. b < c[n]
        BY <3>3, <3>7, <4>2, Zenon
      <4> QED
        BY <1>7, <3>1, <4>3
    <3> QED
      BY <3>8, <3>9
  <2>7. \A k \in S : k <= c[n]
    BY <1>7, <2>6
  <2>8. S \subseteq Nat
    BY <1>6, <2>1
  <2> HIDE DEF S, n
  <2>9. Max(S) <= c[n] /\ c[n] <= Max(S) /\ Max(S) \in Nat
    BY <2>2, <2>5, <2>7, <2>8, Zenon
  <2>10. \A a, b : a \in Nat /\ b \in Nat /\ a <= b /\ b <= a => a = b
    OBVIOUS
  <2>11. Max(S) = c[n]
    BY <1>7, <2>9, <2>10, Zenon
  <2> QED
    BY <2>11, Zenon DEF S
<1>12. Position(text, i).col = i - c[n] /\ Position(text, i).char = text[i]
  <2>1. Position(text, i).col = i - Max(breaks \cup {0})
    BY Zenon DEF Position
  <2>2. Position(text, i).char = text[i]
    BY Zenon DEF Position
  <2> QED
    BY <1>11, <2>1, <2>2, Zenon
<1>13. /\ Len(lines) = m + 1 /\ Len(lines[n]) = c[n + 1] - c[n] - 1
       /\ \A j \in 1..Len(lines[n]) : lines[n][j] = body[c[n] + j]
  BY <1>1, <1>7, LinesFacts DEF body
<1> HIDE DEF c, n, lines, m, h
<1>14. i - c[n] \in 1..Len(lines[n]) /\ c[n] + (i - c[n]) = i
  <2>1. \A a, b, j : /\ a \in Nat /\ b \in Nat /\ j \in Nat
                     /\ a < j /\ j < b
                     => j - a \in 1..(b - a - 1) /\ a + (j - a) = j
    OBVIOUS
  <2>2. \A a, q, j : a \in Nat /\ q \in Nat /\ a <= q /\ q + 1 = j => a < j
    OBVIOUS
  <2>3. c[n] < i
    BY <1>6, <1>7, <2>2, Zenon
  <2>4. i - c[n] \in 1..(c[n + 1] - c[n] - 1) /\ c[n] + (i - c[n]) = i
    BY <1>6, <1>7, <1>9, <2>1, <2>3, Zenon
  <2> QED
    BY <1>13, <2>4, Zenon
<1>15. lines[n][i - c[n]] = text[i]
  BY <1>2, <1>3, <1>13, <1>14, Zenon
<1>16. /\ n \in 1..Len(lines) /\ i - c[n] \in 1..Len(lines[n])
       /\ lines[n][i - c[n]] = text[i] /\ i = c[n] + (i - c[n])
  BY <1>7, <1>13, <1>14, <1>15, Zenon
<1> DEFINE p == Position(text, i)
<1>17. p.char = text[i] /\ p.line = n /\ p.col = i - c[n]
  BY <1>10, <1>12, Zenon
<1> HIDE DEF p
<1>18. /\ p.char = text[i] /\ p.line \in 1..Len(lines)
       /\ p.col \in 1..Len(lines[p.line])
       /\ lines[p.line][p.col] = text[i] /\ i = c[p.line] + p.col
  BY <1>16, <1>17, Zenon
<1> QED
  BY <1>18, Zenon DEF c, lines, p

\* No element occurs twice.
Distinct(s) == \A j, k \in 1..Len(s) : s[j] = s[k] => j = k
\* Two sequences have no element in common.
Apart(s, t) == \A j \in 1..Len(s), k \in 1..Len(t) : s[j] # t[k]
\* Every element of u is one of s or of t.
Among(u, s, t) == \A j \in 1..Len(u) : \/ \E k \in 1..Len(s) : u[j] = s[k]
                                      \/ \E k \in 1..Len(t) : u[j] = t[k]

(* Two sequences with nothing twice and nothing in common make another.    *)
LEMMA ConcatDistinct ==
  ASSUME NEW D, NEW s \in Seq(D), NEW t \in Seq(D), Distinct(s), Distinct(t),
         Apart(s, t)
  PROVE  /\ s \o t \in Seq(D) /\ Len(s) <= Len(s \o t)
         /\ Distinct(s \o t) /\ Among(s \o t, s, t)
<1> DEFINE m == Len(s)
           n == Len(t)
           u == s \o t
<1>1. /\ u \in Seq(D) /\ Len(u) = m + n
      /\ \A i \in 1..(m + n) : u[i] = IF i <= m THEN s[i] ELSE t[i - m]
  BY ConcatProperties, Zenon
<1>2. m \in Nat /\ n \in Nat
  BY LenProperties
<1>3. \A j \in 1..m, k \in 1..n : s[j] # t[k]
  BY Zenon DEF Apart
<1>4. /\ \A j, k \in 1..m : s[j] = s[k] => j = k
      /\ \A j, k \in 1..n : t[j] = t[k] => j = k
  BY Zenon DEF Distinct
<1> HIDE DEF m, n, u
<1>5. \A i \in 1..(m + n) : \/ i <= m /\ i \in 1..m
                            \/ ~(i <= m) /\ i - m \in 1..n
  BY <1>2
<1>6. \A i \in 1..(m + n) : /\ i \in Nat
                            /\ i <= m => u[i] = s[i] /\ i \in 1..m
                            /\ ~(i <= m) => u[i] = t[i - m] /\ i - m \in 1..n
  <2>1. \A i \in 1..(m + n) : i \in Nat
    BY <1>2
  <2> QED
    BY <1>1, <1>5, <2>1, Zenon
<1>7. \A j, k \in 1..(m + n) : u[j] = u[k] => j = k
  <2> SUFFICES ASSUME NEW j \in 1..(m + n), NEW k \in 1..(m + n), u[j] = u[k]
               PROVE  j = k
    OBVIOUS
  <2>1. CASE j <= m /\ k <= m
    BY <1>4, <1>6, <2>1, Zenon
  <2>2. CASE ~(j <= m) /\ ~(k <= m)
    <3>1. j - m = k - m
      BY <1>4, <1>6, <2>2, Zenon
    <3> QED
      BY <1>2, <3>1
  <2>3. CASE j <= m /\ ~(k <= m)
    <3>1. u[j] # u[k]
      BY <1>3, <1>6, <2>3, Zenon
    <3> QED
      BY <3>1
  <2>4. CASE ~(j <= m) /\ k <= m
    <3>1. u[k] # u[j]
      BY <1>3, <1>6, <2>4, Zenon
    <3> QED
      BY <3>1
  <2> QED
    BY <2>1, <2>2, <2>3, <2>4
<1>8. m <= m + n
  BY <1>2
<1>9. \A j \in 1..(m + n) : \/ \E k \in 1..m : u[j] = s[k]
                            \/ \E k \in 1..n : u[j] = t[k]
  BY <1>6, Zenon
<1>10. /\ u \in Seq(D) /\ m <= Len(u)
       /\ \A j, k \in 1..Len(u) : u[j] = u[k] => j = k
       /\ \A j \in 1..Len(u) : \/ \E k \in 1..m : u[j] = s[k]
                               \/ \E k \in 1..n : u[j] = t[k]
  BY <1>1, <1>7, <1>8, <1>9, Zenon
<1> QED
  BY <1>10, Zenon DEF u, m, n, Distinct, Among

(* Pieces with nothing twice and nothing in common are put together to a   *)
(* sequence with nothing twice.                                            *)
LEMMA FlattenDistinct ==
  ASSUME NEW D, NEW n \in Nat, n # 0, NEW seqs \in [1..n -> Seq(D)],
         \A i \in 1..n : Distinct(seqs[i]),
         \A h, i \in 1..n : \A j \in 1..Len(seqs[h]), k \in 1..Len(seqs[i]) :
           seqs[h][j] = seqs[i][k] => h = i
  PROVE  /\ FlattenSeq(seqs) \in Seq(D) /\ Distinct(FlattenSeq(seqs))
         /\ Len(seqs[1]) <= Len(FlattenSeq(seqs))
<1>1. PICK flat : Flattening(flat, seqs, n, D)
  BY FlattenEquations, Zenon
<1>2. /\ flat \in [1..n -> Seq(D)] /\ FlattenSeq(seqs) = flat[n]
      /\ flat[1] = seqs[1]
      /\ \A i \in 2..n : flat[i] = flat[i - 1] \o seqs[i]
  BY <1>1, Zenon DEF Flattening
<1> DEFINE From(x, m) == \E h \in 1..m : \E k \in 1..Len(seqs[h]) : x = seqs[h][k]
           Good(m) == /\ Distinct(flat[m]) /\ Len(seqs[1]) <= Len(flat[m])
                      /\ \A j \in 1..Len(flat[m]) : From(flat[m][j], m)
           Sofar == {d \in 0..(n - 1) : Good(d + 1)}
<1>3. 1 \in 1..n /\ 0 \in 0..(n - 1) /\ 0 + 1 = 1
  OBVIOUS
<1>4. 0 \in Sofar
  <2>1. Len(seqs[1]) \in Nat
    <3>1. seqs[1] \in Seq(D)
      BY <1>3
    <3> QED
      BY <3>1, LenProperties
  <2>2. Len(seqs[1]) <= Len(seqs[1])
    BY <2>1
  <2>3. \A j \in 1..Len(flat[1]) : From(flat[1][j], 1)
    <3>1. 1 \in 1..1
      OBVIOUS
    <3> QED
      BY <1>2, <3>1, Zenon
  <2>4. Good(1)
    BY <1>2, <1>3, <2>2, <2>3, Zenon
  <2> HIDE DEF Good
  <2> QED
    BY <1>3, <2>4, Zenon
<1>5. ASSUME NEW d \in 0..(n - 1 - 1), d \in Sofar PROVE d + 1 \in Sofar
  <2> DEFINE m == d + 1
             s == flat[m]
             t == seqs[m + 1]
  <2>1. Good(m)
    BY <1>5, Zenon
  <2>2. /\ m \in 1..n /\ m + 1 \in 2..n /\ m + 1 \in 1..n /\ (m + 1) - 1 = m
        /\ m \in 0..(n - 1) /\ m \in Nat
        /\ \A h \in 1..m : h \in 1..n /\ h # m + 1 /\ h \in 1..(m + 1)
        /\ m + 1 \in 1..(m + 1)
    OBVIOUS
  <2> HIDE DEF m
  <2>3. s \in Seq(D) /\ t \in Seq(D) /\ seqs[1] \in Seq(D)
    BY <1>2, <1>3, <2>2, Zenon
  <2>4. flat[m + 1] = s \o t
    BY <1>2, <2>2, Zenon
  <2>5. Distinct(s) /\ Distinct(t)
    BY <2>1, <2>2, Zenon
  <2>6. Apart(s, t)
    <3>1. ASSUME NEW j \in 1..Len(s), NEW k \in 1..Len(t) PROVE s[j] # t[k]
      <4>1. PICK h \in 1..m : \E i \in 1..Len(seqs[h]) : s[j] = seqs[h][i]
        BY <2>1, Zenon
      <4> QED
        BY <2>2, <4>1, Zenon
    <3> QED
      BY <3>1, Zenon DEF Apart
  <2> DEFINE u == s \o t
  <2>7. Distinct(u) /\ Len(s) <= Len(u) /\ u \in Seq(D) /\ Among(u, s, t)
    BY <2>3, <2>5, <2>6, ConcatDistinct, Zenon
  <2> HIDE DEF s, t, u
  <2>8. \A j \in 1..Len(s) : From(s[j], m + 1)
    <3>1. \A j \in 1..Len(s) : From(s[j], m)
      BY <2>1, Zenon DEF s
    <3> QED
      BY <2>2, <3>1, Zenon
  <2>9. \A k \in 1..Len(t) : From(t[k], m + 1)
    BY <2>2, Zenon DEF t
  <2> HIDE DEF From
  <2>10. \A j \in 1..Len(u) : From(u[j], m + 1)
    BY <2>7, <2>8, <2>9, Zenon DEF Among
  <2>11. Len(seqs[1]) <= Len(u)
    <3>1. Len(seqs[1]) \in Nat /\ Len(s) \in Nat /\ Len(u) \in Nat
      BY <2>3, <2>7, LenProperties
    <3>2. Len(seqs[1]) <= Len(s)
      BY <2>1, Zenon DEF s
    <3>3. \A a, b, q : /\ a \in Nat /\ b \in Nat /\ q \in Nat /\ a <= b /\ b <= q
                       => a <= q
      OBVIOUS
    <3> QED
      BY <2>7, <3>1, <3>2, <3>3, Zenon
  <2>12. flat[m + 1] = u
    BY <2>4, Zenon DEF u
  <2>13. Good(m + 1)
    BY <2>7, <2>10, <2>11, <2>12, Zenon
  <2>14. m \in Sofar
    <3> HIDE DEF Good
    <3> QED
      BY <2>2, <2>13, Zenon
  <2> QED
    BY <2>14, Zenon DEF m
<1>6. Good(n)
  <2> HIDE DEF Good
  <2>1. n - 1 \in Nat /\ n - 1 \in 0..(n - 1) /\ (n - 1) + 1 = n
    OBVIOUS
  <2>2. 0..(n - 1) \subseteq Sofar
    <3> HIDE DEF Sofar
    <3> QED
      BY <1>4, <1>5, <2>1, UpTo
  <2>3. n - 1 \in Sofar
    <3> HIDE DEF Sofar
    <3> QED
      BY <2>1, <2>2, Zenon
  <2> QED
    BY <2>1, <2>3, Zenon
<1>7. n \in 1..n
  OBVIOUS
<1>8. flat[n] \in Seq(D) /\ Distinct(flat[n]) /\ Len(seqs[1]) <= Len(flat[n])
  <2>1. Distinct(flat[n]) /\ Len(seqs[1]) <= Len(flat[n])
    BY <1>6, Zenon
  <2> HIDE DEF Good
  <2> QED
    BY <1>2, <1>7, <2>1, Zenon
<1>9. FlattenSeq(seqs) = flat[n]
  BY <1>2, Zenon
<1> QED
  BY <1>8, <1>9, Zenon

(* The numbers of a set in order are a sequence with nothing twice.        *)
LEMMA InOrderDistinct ==
  ASSUME NEW n \in Nat, NEW S, S \subseteq 1..n
  PROVE  /\ InOrder(S) \in Seq(1..n) /\ Distinct(InOrder(S))
         /\ Len(InOrder(S)) = Cardinality(S) /\ Cardinality(S) \in Nat
         /\ \A k \in 1..Cardinality(S) : InOrder(S)[k] \in S
         /\ S # {} => Cardinality(S) # 0
<1> DEFINE m == Cardinality(S)
           f == InOrder(S)
<1>1. /\ f \in [1..m -> S]
      /\ \A i \in S : CountTo(S, i) \in 1..m
      /\ \A j, k \in 1..m : j < k => f[j] < f[k]
  BY InOrderFacts, Zenon
<1>2. m \in Nat
  BY CountEnds
<1> HIDE DEF m, f
<1>3. f \in [1..m -> 1..n]
  BY <1>1
<1>4. f \in Seq(1..n)
  BY <1>2, <1>3, SeqDef
<1>5. Len(f) = m
  <2>1. DOMAIN f = 1..m
    BY <1>3
  <2>2. DOMAIN f = 1..Len(f) /\ Len(f) \in Nat
    BY <1>4, LenProperties
  <2> QED
    BY <1>2, <2>1, <2>2
<1>6. \A j, k \in 1..m : f[j] = f[k] => j = k
  <2>1. \A j \in 1..m : j \in Nat /\ f[j] \in Nat
    BY <1>2, <1>3
  <2>2. \A a, b : a \in Nat /\ b \in Nat => a < b \/ b < a \/ a = b
    OBVIOUS
  <2>3. \A a : a \in Nat => ~(a < a)
    OBVIOUS
  <2>4. \A j, k \in 1..m : j < k => f[j] # f[k]
    BY <1>1, <2>1, <2>3, Zenon
  <2> QED
    BY <2>1, <2>2, <2>4, Zenon
<1>7. \A k \in 1..m : f[k] \in S
  BY <1>1, Zenon
<1>8. S # {} => m # 0
  <2>1. 1..0 = {}
    OBVIOUS
  <2> QED
    BY <1>1, <2>1, Zenon
<1> QED
  BY <1>2, <1>4, <1>5, <1>6, <1>7, <1>8, Zenon DEF f, m, Distinct

\* What a warning about m findings lists, which of them and how many: the
\* findings numbered in grouped, up to the n-th.
Lists(w, findings, m, grouped, n) ==
  /\ w.listed = [k \in 1..n |-> findings[grouped[k]]] /\ w.more = m - n
  /\ grouped \in Seq(1..m) /\ Distinct(grouped)
  /\ n \in Nat /\ n <= Len(grouped) /\ (m # 0 => n # 0)

(* A warning lists findings, none of them twice, and at least one if there *)
(* are any.                                                                *)
LEMMA WarningLists ==
  ASSUME NEW D, NEW m \in Nat, NEW findings \in [1..m -> D]
  PROVE  \E grouped, n : Lists(Warning(findings), findings, m, grouped, n)
<1> DEFINE char(k) == findings[k].char
           F == {k \in DOMAIN findings : \A j \in 1..(k - 1) :
                   findings[j].char # findings[k].char}
           firsts == InOrder(F)
           Same(g) == {k \in DOMAIN findings :
                         findings[k].char = findings[firsts[g]].char}
           groups == [g \in DOMAIN firsts |-> InOrder(Same(g))]
           grouped == FlattenSeq(groups)
           n == Min({Len(grouped), maxListedPositions})
           q == Cardinality(F)
<1>1. DOMAIN findings = 1..m
  OBVIOUS
<1>2. F \subseteq 1..m /\ \A g : Same(g) \subseteq 1..m
  BY <1>1
<1>3. /\ firsts \in Seq(1..m) /\ Distinct(firsts) /\ q \in Nat
      /\ Len(firsts) = q /\ \A g \in 1..q : firsts[g] \in F
      /\ F # {} => q # 0
  BY <1>2, InOrderDistinct, Zenon
<1>4. DOMAIN firsts = 1..q
  <2> HIDE DEF firsts, F, q
  <2> QED
    BY <1>3, LenProperties
<1>5. m # 0 => q # 0
  <2>1. m # 0 => 1 \in F
    BY <1>1
  <2> QED
    BY <1>3, <2>1, Zenon
<1>6. groups \in [1..q -> Seq(1..m)]
  <2>1. \A g : InOrder(Same(g)) \in Seq(1..m)
    BY <1>2, InOrderDistinct, Zenon
  <2> HIDE DEF firsts, q, Same
  <2> QED
    BY <1>4, <2>1, Zenon
<1>7. \A g \in 1..q : /\ groups[g] = InOrder(Same(g))
                      /\ Distinct(groups[g])
                      /\ Len(groups[g]) = Cardinality(Same(g))
                      /\ \A k \in 1..Len(groups[g]) : groups[g][k] \in Same(g)
                      /\ Same(g) # {} => Len(groups[g]) # 0
  <2>1. \A g : LET s == InOrder(Same(g))
               IN  /\ Distinct(s) /\ Len(s) = Cardinality(Same(g))
                   /\ \A k \in 1..Len(s) : s[k] \in Same(g)
                   /\ Same(g) # {} => Len(s) # 0
    BY <1>2, InOrderDistinct, Zenon
  <2> HIDE DEF firsts, q, Same
  <2>2. \A g \in 1..q : groups[g] = InOrder(Same(g))
    BY <1>4, Zenon
  <2> HIDE DEF groups
  <2> QED
    BY <2>1, <2>2, Zenon
<1>8. \A h, i \in F : char(h) = char(i) => h = i
  <2>1. \A h, i \in F : h \in 1..(i - 1) => char(h) # char(i)
    BY Zenon
  <2>2. \A h, i \in 1..m : h \in 1..(i - 1) \/ i \in 1..(h - 1) \/ h = i
    OBVIOUS
  <2>3. \A h \in F : h \in 1..m
    BY <1>2, Zenon
  <2> HIDE DEF F
  <2> QED
    BY <2>1, <2>2, <2>3, Zenon
<1>9. \A h, i \in 1..q : \A j \in 1..Len(groups[h]), k \in 1..Len(groups[i]) :
        groups[h][j] = groups[i][k] => h = i
  <2>1. \A h \in 1..q : \A j \in 1..Len(groups[h]) :
          char(groups[h][j]) = char(firsts[h])
    BY <1>7, Zenon
  <2>2. \A h, i \in 1..q : firsts[h] = firsts[i] => h = i
    BY <1>3, Zenon DEF Distinct
  <2>3. \A h \in 1..q : firsts[h] \in F
    BY <1>3, Zenon
  <2> HIDE DEF groups, q, firsts, F
  <2> SUFFICES ASSUME NEW h \in 1..q, NEW i \in 1..q,
                      NEW j \in 1..Len(groups[h]), NEW k \in 1..Len(groups[i]),
                      groups[h][j] = groups[i][k]
               PROVE  h = i
    OBVIOUS
  <2>4. char(firsts[h]) = char(firsts[i])
    <3>1. /\ char(groups[h][j]) = char(firsts[h])
          /\ char(groups[i][k]) = char(firsts[i])
      BY <2>1, Zenon
    <3> QED
      BY <3>1, Zenon
  <2>5. firsts[h] = firsts[i]
    BY <1>8, <2>3, <2>4, Zenon
  <2> QED
    BY <2>2, <2>5, Zenon
<1>10. grouped \in Seq(1..m) /\ Distinct(grouped) /\ (m # 0 => Len(grouped) # 0)
  <2>1. CASE q = 0
    <3>1. m = 0
      BY <1>5, <2>1
    <3>2. groups \in Seq(Seq(1..m)) /\ Len(groups) = 0
      <4> HIDE DEF groups, q
      <4>1. groups \in [1..0 -> Seq(1..m)] /\ 0 \in Nat
        BY <1>6, <2>1, Zenon
      <4>2. groups \in Seq(Seq(1..m))
        BY <4>1, SeqDef
      <4>3. DOMAIN groups = 1..0 /\ DOMAIN groups = 1..Len(groups)
            /\ Len(groups) \in Nat
        BY <4>1, <4>2, LenProperties
      <4> QED
        BY <4>2, <4>3
    <3>3. groups = <<>>
      <4> HIDE DEF groups
      <4> QED
        BY <3>2, EmptySeq
    <3>4. grouped = <<>>
      <4>1. grouped = groups
        BY <3>2, Zenon DEF FlattenSeq
      <4> QED
        BY <3>3, <4>1, Zenon
    <3>5. <<>> \in Seq(1..m) /\ 1..Len(<<>>) = {}
      BY EmptySeq
    <3> HIDE DEF grouped
    <3>6. Distinct(grouped)
      BY <3>4, <3>5, Zenon DEF Distinct
    <3> QED
      BY <3>1, <3>4, <3>5, <3>6, Zenon
  <2>2. CASE q # 0
    <3>1. 1 \in 1..q
      <4> HIDE DEF q
      <4> QED
        BY <1>3, <2>2
    <3>2. Len(groups[1]) # 0
      <4>1. firsts[1] \in F /\ firsts[1] \in DOMAIN findings
        BY <1>3, <3>1, Zenon
      <4>2. firsts[1] \in Same(1)
        BY <4>1, Zenon
      <4> HIDE DEF Same, groups
      <4> QED
        BY <1>7, <3>1, <4>2, Zenon
    <3>3. \A g \in 1..q : Distinct(groups[g])
      BY <1>7, Zenon
    <3> HIDE DEF groups, q
    <3>4. /\ grouped \in Seq(1..m) /\ Distinct(grouped)
          /\ Len(groups[1]) <= Len(grouped)
      BY <1>3, <1>6, <1>9, <2>2, <3>3, FlattenDistinct, Zenon
    <3>5. Len(groups[1]) \in Nat /\ Len(grouped) \in Nat
      <4>1. groups[1] \in Seq(1..m)
        BY <1>6, <3>1
      <4> HIDE DEF grouped
      <4> QED
        BY <3>4, <4>1, LenProperties
    <3> HIDE DEF grouped
    <3> QED
      BY <3>2, <3>4, <3>5
  <2> QED
    BY <2>1, <2>2
<1>11. Len(findings) = m
  <2>1. findings \in Seq(D)
    BY SeqDef
  <2>2. DOMAIN findings = 1..Len(findings) /\ Len(findings) \in Nat
    BY <2>1, LenProperties
  <2> QED
    BY <1>1, <2>2
<1> DEFINE w == Warning(findings)
           listed == [k \in 1..n |-> findings[grouped[k]]]
<1>12. w = [listed |-> listed, more |-> Len(findings) - n]
  BY Zenon DEF Warning
<1> HIDE DEF grouped, listed, w
<1>13. n \in Nat /\ n <= Len(grouped) /\ (m # 0 => n # 0)
  <2> DEFINE S == {Len(grouped), maxListedPositions}
  <2>1. /\ Len(grouped) \in Nat /\ maxListedPositions \in Nat
        /\ maxListedPositions # 0
    BY <1>10, LenProperties, WarnAssumption
  <2>2. S \subseteq Nat /\ S # {}
    BY <2>1
  <2>3. n \in S /\ \A k \in S : n <= k
    BY <2>2, MinOfNat, Zenon
  <2> HIDE DEF n
  <2> QED
    BY <1>10, <2>1, <2>3
<1> HIDE DEF n
<1>14. w.listed = listed /\ w.more = m - n
  <2>1. w.listed = listed /\ w.more = Len(findings) - n
    BY <1>12
  <2> QED
    BY <1>11, <2>1, Zenon
<1>15. Lists(w, findings, m, grouped, n)
  BY <1>10, <1>13, <1>14, Zenon DEF Lists, listed
<1> QED
  BY <1>15, Zenon DEF w

\* Where the control characters of a text are.
Places(text) == {i \in DOMAIN text : text[i] \in Controls}

(* Check finds each control character once, at its line and column.        *)
LEMMA CheckFacts ==
  ASSUME NEW text \in Seq(Chars), NEW m, m = Cardinality(Places(text))
  PROVE  /\ m \in Nat /\ (Places(text) # {} => m # 0)
         /\ Check(text) \in [1..m -> {Position(text, i) : i \in Places(text)}]
         /\ \A j, k \in 1..m : Check(text)[j] = Check(text)[k] => j = k
<1> DEFINE P == Places(text)
           order == InOrder(P)
           findings == Check(text)
<1>1. Len(text) \in Nat /\ DOMAIN text = 1..Len(text)
  BY LenProperties
<1>2. P \subseteq 1..Len(text) /\ \A i \in P : text[i] # NL
  BY <1>1, WarnAssumption DEF Places
<1> HIDE DEF P
<1>3. /\ order \in Seq(1..Len(text)) /\ Distinct(order) /\ Len(order) = m
      /\ m \in Nat /\ \A k \in 1..m : order[k] \in P
      /\ P # {} => m # 0
  BY <1>1, <1>2, InOrderDistinct, Zenon DEF P
<1>4. findings = [k \in DOMAIN order |-> Position(text, order[k])]
  BY Zenon DEF Check, Places, P
<1> HIDE DEF order, findings
<1>5. DOMAIN order = 1..m
  BY <1>3, LenProperties
<1>6. findings = [k \in 1..m |-> Position(text, order[k])]
  BY <1>4, <1>5, Zenon
<1>7. \A k \in 1..m : findings[k] = Position(text, order[k])
  BY <1>6, Zenon
<1>8. findings \in [1..m -> {Position(text, i) : i \in P}]
  BY <1>3, <1>6, Zenon
<1>9. \A i \in P : i = Cuts(text)[Position(text, i).line] + Position(text, i).col
  BY <1>2, PositionFacts, Zenon
<1>10. \A j, k \in 1..m : findings[j] = findings[k] => order[j] = order[k]
  <2> SUFFICES ASSUME NEW j \in 1..m, NEW k \in 1..m, findings[j] = findings[k]
               PROVE  order[j] = order[k]
    OBVIOUS
  <2>1. Position(text, order[j]) = Position(text, order[k])
    BY <1>7, Zenon
  <2>2. order[j] \in P /\ order[k] \in P
    BY <1>3, Zenon
  <2> QED
    BY <1>9, <2>1, <2>2, Zenon
<1>11. \A j, k \in 1..m : findings[j] = findings[k] => j = k
  BY <1>3, <1>10, Zenon DEF Distinct
<1> QED
  BY <1>3, <1>8, <1>11, Zenon DEF P, findings

(* A list with nothing twice has as many elements as places.               *)
LEMMA DistinctCounted ==
  ASSUME NEW n \in Nat, NEW S, NEW f \in [1..n -> S],
         \A j, k \in 1..n : f[j] = f[k] => j = k,
         \A t \in S : \E k \in 1..n : f[k] = t
  PROVE  Cardinality(S) = n
<1>1. f \in Bijection(1..n, S)
  BY Fun_IsBij, Zenon
<1>2. ExistsBijection(1..n, S)
  BY <1>1, Zenon DEF ExistsBijection
<1> QED
  BY <1>2, FS_CountingElements

(* A warning about a text points at the characters it names, whatever the  *)
(* text is.                                                                *)
LEMMA WarningPoints ==
  ASSUME NEW text \in Seq(Chars), content = text
  PROVE  WarningsPointAtCharacters
<1> DEFINE lines == splitLines(text)
           findings == Check(text)
           warning == Warning(findings)
           P == Places(text)
           m == Cardinality(P)
           T == {Position(text, i) : i \in P}
<1>1. /\ m \in Nat /\ (P # {} => m # 0) /\ findings \in [1..m -> T]
      /\ \A j, k \in 1..m : findings[j] = findings[k] => j = k
  BY CheckFacts, Zenon
<1> HIDE DEF findings, P, m
<1>2. PICK grouped, n : Lists(warning, findings, m, grouped, n)
  BY <1>1, WarningLists, Zenon
<1> HIDE DEF warning, T
<1> DEFINE listed == [k \in 1..n |-> findings[grouped[k]]]
<1>3. /\ warning.listed = listed /\ warning.more = m - n
      /\ grouped \in Seq(1..m) /\ Distinct(grouped)
      /\ n \in Nat /\ n <= Len(grouped) /\ (m # 0 => n # 0)
  BY <1>2, Zenon DEF Lists
<1>4. \A k \in 1..n : k \in 1..Len(grouped) /\ grouped[k] \in 1..m
  <2>1. Len(grouped) \in Nat
    BY <1>3, LenProperties
  <2>2. \A k \in 1..n : k \in 1..Len(grouped)
    BY <1>3, <2>1
  <2>3. \A k \in 1..Len(grouped) : grouped[k] \in 1..m
    BY <1>3, ElementOfSeq
  <2> QED
    BY <2>2, <2>3, Zenon
<1>5. listed \in [1..n -> T] /\ \A j, k \in 1..n : listed[j] = listed[k] => j = k
  <2>1. listed \in [1..n -> T]
    BY <1>1, <1>4, Zenon
  <2>2. \A k \in 1..n : listed[k] = findings[grouped[k]]
    BY Zenon
  <2> HIDE DEF listed
  <2>3. ASSUME NEW j \in 1..n, NEW k \in 1..n, listed[j] = listed[k]
        PROVE  grouped[j] = grouped[k]
    <3>1. findings[grouped[j]] = findings[grouped[k]]
      BY <2>2, <2>3, Zenon
    <3>2. grouped[j] \in 1..m /\ grouped[k] \in 1..m
      BY <1>4, Zenon
    <3> QED
      BY <1>1, <3>1, <3>2, Zenon
  <2>4. \A j, k \in 1..n : grouped[j] = grouped[k] => j = k
    BY <1>3, <1>4, Zenon DEF Distinct
  <2> QED
    BY <2>1, <2>3, <2>4, Zenon
<1> HIDE DEF listed
<1>6. Len(listed) = n /\ DOMAIN listed = 1..n
  <2>1. listed \in Seq(T)
    BY <1>3, <1>5, SeqDef
  <2>2. DOMAIN listed = 1..Len(listed) /\ Len(listed) \in Nat
    BY <2>1, LenProperties
  <2>3. DOMAIN listed = 1..n
    BY <1>5
  <2>4. \A a, b : a \in Nat /\ b \in Nat /\ 1..a = 1..b => a = b
    OBVIOUS
  <2>5. 1..n = 1..Len(listed)
    BY <2>2, <2>3, Zenon
  <2> QED
    BY <1>3, <2>2, <2>3, <2>4, <2>5, Zenon
<1> DEFINE places == {listed[k] : k \in 1..n}
<1>7. Cardinality(places) = n
  <2>1. listed \in [1..n -> places]
    BY <1>5
  <2>2. \A p \in places : \E k \in 1..n : listed[k] = p
    BY Zenon
  <2> HIDE DEF places
  <2>3. n \in Nat
    BY <1>3, Zenon
  <2>4. \A j, k \in 1..n : listed[j] = listed[k] => j = k
    BY <1>5, Zenon
  <2> QED
    BY <2>1, <2>2, <2>3, <2>4, DistinctCounted, Zenon
<1>8. ASSUME NEW p \in places
      PROVE  /\ p.line \in DOMAIN lines /\ p.col \in DOMAIN lines[p.line]
             /\ lines[p.line][p.col] = p.char /\ p.char \in Controls
  <2>1. p \in T
    BY <1>5, Zenon
  <2>2. PICK i \in P : p = Position(text, i)
    BY <2>1, Zenon DEF T
  <2>3. i \in 1..Len(text) /\ text[i] \in Controls /\ text[i] # NL
    <3>1. DOMAIN text = 1..Len(text)
      BY LenProperties
    <3> QED
      BY <3>1, WarnAssumption DEF P, Places
  <2>4. /\ p.char = text[i] /\ p.line \in 1..Len(lines)
        /\ p.col \in 1..Len(lines[p.line])
        /\ lines[p.line][p.col] = text[i]
    BY <2>2, <2>3, PositionFacts, Zenon
  <2>5. lines \in Seq(Seq(Chars))
    BY LinesTyped, Zenon
  <2> HIDE DEF lines
  <2>6. DOMAIN lines = 1..Len(lines)
    BY <2>5, LenProperties
  <2>7. lines[p.line] \in Seq(Chars)
    BY <2>4, <2>5, ElementOfSeq
  <2>8. DOMAIN lines[p.line] = 1..Len(lines[p.line])
    BY <2>7, LenProperties
  <2> QED
    BY <2>3, <2>4, <2>6, <2>8, Zenon
<1>9. n + (m - n) = m
  BY <1>1, <1>3
<1>10. P # {} => places # {}
  <2>1. n # 0 => 1 \in 1..n
    BY <1>3
  <2>2. n # 0 => listed[1] \in places
    BY <2>1, Zenon
  <2> HIDE DEF places
  <2> QED
    BY <1>1, <1>3, <2>2, Zenon
<1> HIDE DEF lines, places
<1>11. /\ \A p \in places : /\ p.line \in DOMAIN lines
                            /\ p.col \in DOMAIN lines[p.line]
                            /\ lines[p.line][p.col] = p.char
                            /\ p.char \in Controls
       /\ Cardinality(places) = Len(listed)
       /\ Len(listed) + warning.more = m
       /\ P # {} => places # {}
  BY <1>3, <1>6, <1>7, <1>8, <1>9, <1>10, Zenon
<1>12. places = {warning.listed[k] : k \in DOMAIN warning.listed}
  BY <1>3, <1>6, Zenon DEF places
<1>13. warning.listed = listed
  BY <1>3, Zenon
<1> HIDE DEF listed
<1> QED
  BY <1>11, <1>12, <1>13, Zenon
     DEF WarningsPointAtCharacters, lines, warning, findings, P, m, Places

(* A warning names the places where a reader finds the characters, each    *)
(* once, and counts those it does not name, for every text and limit       *)
(* (contentwarn.go, Check and Render; lineio.go, splitLines).              *)
THEOREM WarningsPointCorrect == Spec => []WarningsPointAtCharacters
<1>1. EngineInv => WarningsPointAtCharacters
  BY WarningPoints, Zenon DEF EngineInv, EngineTypeOK
<1> QED
  BY <1>1, EngineInit, EngineNext, PTL DEF Spec
===============================================================================
