--------------------------- MODULE SequenceLemmas ---------------------------
(***************************************************************************)
(* Lemmas about sequences that the proofs share: queues of messages, lists *)
(* without repetitions, of sockets and of nodes, and sequences flattened   *)
(* into one.  What the flattening computes is proved by induction: a set   *)
(* of counterexamples would have a least one.                              *)
(***************************************************************************)
EXTENDS SequencesExt, Integers, SequenceTheorems, WellFoundedInduction, TLAPS

-----------------------------------------------------------------------------
(* Queues. *)

\* A message is put at the end of a connection.
LEMMA AppendKeeps ==
  ASSUME NEW S, NEW s \in Seq(S), NEW e \in S
  PROVE  /\ Append(s, e) \in Seq(S) /\ Append(s, e) # <<>>
         /\ Len(Append(s, e)) = Len(s) + 1
         /\ \A k \in 1..Len(s) : Append(s, e)[k] = s[k]
         /\ Append(s, e)[Len(s) + 1] = e
OBVIOUS

\* A message is taken from its front.
LEMMA TailKeeps ==
  ASSUME NEW S, NEW s \in Seq(S), s # <<>>
  PROVE  /\ Tail(s) \in Seq(S) /\ Len(Tail(s)) = Len(s) - 1
         /\ \A k \in 1..(Len(s) - 1) : Tail(s)[k] = s[k + 1]
         /\ 1 \in 1..Len(s) /\ Head(s) = s[1]
OBVIOUS

-----------------------------------------------------------------------------
(* Sequences without repetitions. *)

\* The nodes of a chain are those at its positions.
LEMMA ElementsOfRange ==
  ASSUME NEW S, NEW s \in Seq(S)
  PROVE  /\ Range(s) = {s[k] : k \in 1..Len(s)}
         /\ Range(s) \subseteq S
         /\ \A k \in 1..Len(s) : s[k] \in Range(s)
<1>1. Range(s) = {s[k] : k \in 1..Len(s)}
  BY DEF Range
<1>2. \A k \in 1..Len(s) : s[k] \in S
  OBVIOUS
<1> QED BY <1>1, <1>2

\* Appending a new element.
LEMMA AppendNew ==
  ASSUME NEW S, NEW s \in Seq(S), NEW e \in S, e \notin Range(s), IsInjective(s)
  PROVE  /\ Append(s, e) \in Seq(S) /\ Len(Append(s, e)) = Len(s) + 1
         /\ \A k \in 1..Len(s) : Append(s, e)[k] = s[k]
         /\ Append(s, e)[Len(s) + 1] = e
         /\ Range(Append(s, e)) = Range(s) \cup {e}
         /\ IsInjective(Append(s, e))
<1>1. /\ Append(s, e) \in Seq(S) /\ Len(Append(s, e)) = Len(s) + 1
      /\ \A k \in 1..Len(s) : Append(s, e)[k] = s[k]
      /\ Append(s, e)[Len(s) + 1] = e
  OBVIOUS
<1>2. Range(s) = {s[k] : k \in 1..Len(s)}
  BY DEF Range
<1>3. Range(Append(s, e)) = {Append(s, e)[k] : k \in 1..(Len(s) + 1)}
  BY <1>1 DEF Range
<1>4. \A k \in 1..(Len(s) + 1) : k \in 1..Len(s) \/ k = Len(s) + 1
  OBVIOUS
<1>5. Range(Append(s, e)) = Range(s) \cup {e}
  BY <1>1, <1>2, <1>3, <1>4
<1>6. IsInjective(Append(s, e))
  BY <1>1, <1>2 DEF IsInjective
<1> QED BY <1>1, <1>5, <1>6

\* What is appended is in the sequence, along with what was.
LEMMA AppendAdds ==
  ASSUME NEW S, NEW s \in Seq(S), NEW e \in S
  PROVE  Range(Append(s, e)) = Range(s) \cup {e}
<1>1. /\ Append(s, e) \in Seq(S) /\ Len(Append(s, e)) = Len(s) + 1 /\ Len(s) \in Nat
      /\ \A k \in 1..Len(s) : Append(s, e)[k] = s[k]
      /\ Append(s, e)[Len(s) + 1] = e
  BY AppendKeeps
<1>2. /\ Range(Append(s, e)) = {Append(s, e)[k] : k \in 1..(Len(s) + 1)}
      /\ Range(s) = {s[k] : k \in 1..Len(s)}
  BY <1>1, ElementsOfRange
<1>3. 1..(Len(s) + 1) = 1..Len(s) \cup {Len(s) + 1}
  BY <1>1
<1> QED BY <1>1, <1>2, <1>3

\* A number greater than all of a sequence without repetitions can be appended.
LEMMA AppendGreater ==
  ASSUME NEW s \in Seq(Nat), NEW e \in Nat, IsInjective(s),
         \A k \in 1..Len(s) : s[k] < e
  PROVE  /\ Append(s, e) \in Seq(Nat) /\ IsInjective(Append(s, e))
         /\ \A k \in 1..Len(Append(s, e)) : Append(s, e)[k] <= e
<1>1. \A k \in 1..Len(s) : s[k] \in Nat
  OBVIOUS
<1>2. e \notin Range(s)
  BY <1>1, ElementsOfRange
<1>3. /\ Append(s, e) \in Seq(Nat) /\ Len(Append(s, e)) = Len(s) + 1 /\ Len(s) \in Nat
      /\ \A k \in 1..Len(s) : Append(s, e)[k] = s[k]
      /\ Append(s, e)[Len(s) + 1] = e /\ IsInjective(Append(s, e))
  BY <1>2, AppendNew
<1>4. ASSUME NEW k \in 1..(Len(s) + 1) PROVE Append(s, e)[k] <= e
  <2>1. CASE k \in 1..Len(s)
    BY <1>1, <1>3, <2>1
  <2>2. CASE k = Len(s) + 1
    BY <1>3, <2>2
  <2> QED BY <1>3, <2>1, <2>2
<1> QED BY <1>3, <1>4

\* Taking the first element away.
LEMMA TailOfNew ==
  ASSUME NEW S, NEW s \in Seq(S), s # <<>>, IsInjective(s)
  PROVE  /\ Tail(s) \in Seq(S) /\ Len(Tail(s)) = Len(s) - 1
         /\ \A k \in 1..(Len(s) - 1) : Tail(s)[k] = s[k + 1]
         /\ Range(Tail(s)) = Range(s) \ {s[1]}
         /\ IsInjective(Tail(s))
<1>1. /\ Tail(s) \in Seq(S) /\ Len(Tail(s)) = Len(s) - 1
      /\ \A k \in 1..(Len(s) - 1) : Tail(s)[k] = s[k + 1]
  OBVIOUS
<1>2. Range(s) = {s[k] : k \in 1..Len(s)}
  BY DEF Range
<1>3. Range(Tail(s)) = {Tail(s)[k] : k \in 1..(Len(s) - 1)}
  BY <1>1, ElementsOfRange
<1>4. IsInjective(Tail(s))
  BY <1>1 DEF IsInjective
<1>5. ASSUME NEW k \in 1..(Len(s) - 1)
      PROVE  Tail(s)[k] \in Range(s) \ {s[1]}
  BY <1>1, <1>2 DEF IsInjective
<1>6. ASSUME NEW k \in 1..Len(s), s[k] # s[1]
      PROVE  s[k] \in Range(Tail(s))
  <2>1. k - 1 \in 1..(Len(s) - 1) /\ Tail(s)[k - 1] = s[k]
    BY <1>1, <1>6
  <2> QED BY <1>3, <2>1
<1>7. Range(Tail(s)) = Range(s) \ {s[1]}
  BY <1>2, <1>3, <1>5, <1>6
<1> QED BY <1>1, <1>4, <1>7

\* Putting a new element in front.
LEMMA PrependNew ==
  ASSUME NEW S, NEW s \in Seq(S), NEW e \in S, e \notin Range(s), IsInjective(s)
  PROVE  /\ <<e>> \o s \in Seq(S) /\ Len(<<e>> \o s) = Len(s) + 1
         /\ (<<e>> \o s)[1] = e
         /\ \A k \in 1..Len(s) : (<<e>> \o s)[k + 1] = s[k]
         /\ Range(<<e>> \o s) = Range(s) \cup {e}
         /\ IsInjective(<<e>> \o s)
<1> DEFINE r == <<e>> \o s
<1>1. /\ r \in Seq(S) /\ Len(r) = Len(s) + 1
      /\ r[1] = e
      /\ \A k \in 1..Len(s) : r[k + 1] = s[k]
  OBVIOUS
<1> HIDE DEF r
<1>2. Range(s) = {s[k] : k \in 1..Len(s)} /\ Range(r) = {r[k] : k \in 1..(Len(s) + 1)}
  BY <1>1 DEF Range
<1>3. ASSUME NEW k \in 1..(Len(s) + 1), k # 1
      PROVE  k - 1 \in 1..Len(s) /\ r[k] = s[k - 1]
  <2>1. k - 1 \in 1..Len(s) /\ (k - 1) + 1 = k
    BY <1>3
  <2> QED BY <1>1, <2>1
<1>4. ASSUME NEW k \in 1..Len(s)
      PROVE  k + 1 \in 1..(Len(s) + 1) /\ r[k + 1] = s[k]
  BY <1>1
<1>5. 1 \in 1..(Len(s) + 1)
  OBVIOUS
<1>6. Range(r) = Range(s) \cup {e}
  <2>1. ASSUME NEW k \in 1..(Len(s) + 1)
        PROVE  r[k] \in Range(s) \cup {e}
    BY <1>1, <1>2, <1>3
  <2>2. ASSUME NEW k \in 1..Len(s)
        PROVE  s[k] \in Range(r)
    BY <1>2, <1>4
  <2>3. e \in Range(r)
    BY <1>1, <1>2, <1>5
  <2> QED BY <1>2, <2>1, <2>2, <2>3
<1>7. IsInjective(r)
  <2>1. ASSUME NEW k \in 1..(Len(s) + 1), NEW l \in 1..(Len(s) + 1), r[k] = r[l]
        PROVE  k = l
    <3>1. CASE k # 1 /\ l # 1
      BY <1>3, <2>1, <3>1 DEF IsInjective
    <3>2. CASE k = 1 /\ l # 1
      BY <1>1, <1>2, <1>3, <2>1, <3>2
    <3>3. CASE k # 1 /\ l = 1
      BY <1>1, <1>2, <1>3, <2>1, <3>3
    <3> QED BY <3>1, <3>2, <3>3
  <2> QED BY <1>1, <2>1 DEF IsInjective
<1> QED BY <1>1, <1>6, <1>7 DEF r

\* The two parts of a sequence around position m, put together.
LEMMA AllButOne ==
  ASSUME NEW S, NEW s \in Seq(S), NEW m \in 1..Len(s)
  PROVE  LET r == SubSeq(s, 1, m - 1) \o SubSeq(s, m + 1, Len(s))
         IN /\ r \in Seq(S)
            /\ Len(r) = Len(s) - 1
            /\ \A i \in 1..Len(r) : r[i] = IF i < m THEN s[i] ELSE s[i + 1]
<1> DEFINE a == SubSeq(s, 1, m - 1)
           b == SubSeq(s, m + 1, Len(s))
<1>1. a \in Seq(S) /\ Len(a) = m - 1 /\ \A i \in 1..(m - 1) : a[i] = s[i]
  BY SubSeqProperties
<1>2. b \in Seq(S) /\ Len(b) = Len(s) - m /\ \A i \in 1..(Len(s) - m) : b[i] = s[m + i]
  BY SubSeqProperties
<1> SUFFICES /\ a \o b \in Seq(S)
             /\ Len(a \o b) = Len(s) - 1
             /\ \A i \in 1..Len(a \o b) :
                  (a \o b)[i] = IF i < m THEN s[i] ELSE s[i + 1]
  OBVIOUS
<1> HIDE DEF a, b
<1>3. a \o b \in Seq(S) /\ Len(a \o b) = Len(a) + Len(b)
  <2>1. \A x, y \in Seq(S) : x \o y \in Seq(S) /\ Len(x \o y) = Len(x) + Len(y)
    OBVIOUS
  <2> QED BY <2>1, <1>1, <1>2, Zenon
<1>4. ASSUME NEW i \in 1..Len(a \o b)
      PROVE  (a \o b)[i] = IF i < m THEN s[i] ELSE s[i + 1]
  <2>1. CASE i < m
    BY <2>1, <1>1, <1>2, <1>3
  <2>2. CASE i >= m
    <3>1. (a \o b)[i] = b[i - Len(a)] /\ i - Len(a) \in 1..(Len(s) - m)
      <4>1. /\ i \in 1..(Len(a) + Len(b)) /\ ~(i <= Len(a))
            /\ i - Len(a) \in 1..(Len(s) - m)
        BY <2>2, <1>1, <1>2, <1>3
      <4>2. \A k \in 1..(Len(a) + Len(b)) :
              (a \o b)[k] = IF k <= Len(a) THEN a[k] ELSE b[k - Len(a)]
        BY <1>1, <1>2, ConcatProperties
      <4> QED BY <4>1, <4>2, Zenon
    <3>2. b[i - Len(a)] = s[m + (i - Len(a))]
      BY <3>1, <1>2
    <3> QED BY <3>1, <3>2, <2>2, <1>1
  <2> QED BY <2>1, <2>2
<1>5. Len(a \o b) = Len(s) - 1
  BY <1>1, <1>2, <1>3
<1> QED BY <1>3, <1>4, <1>5, Zenon

\* Removing an element of a sequence without repetitions takes it away, and
\* leaves no repetition.
LEMMA RemoveFirstProperties ==
  ASSUME NEW S, NEW s \in Seq(S), NEW e, IsInjective(s)
  PROVE  /\ RemoveFirst(s, e) \in Seq(S)
         /\ Range(RemoveFirst(s, e)) = Range(s) \ {e}
         /\ IsInjective(RemoveFirst(s, e))
         /\ \A m \in 1..Len(s) : s[m] = e =>
              /\ Len(RemoveFirst(s, e)) = Len(s) - 1
              /\ \A i \in 1..(Len(s) - 1) :
                   RemoveFirst(s, e)[i] = IF i < m THEN s[i] ELSE s[i + 1]
<1>1. CASE e \notin Range(s)
  <2>1. ~ \E i \in 1..Len(s) : s[i] = e
    BY <1>1 DEF Range
  <2>2. RemoveFirst(s, e) = s
    BY <2>1 DEF RemoveFirst
  <2> QED BY <1>1, <2>1, <2>2
<1>2. CASE e \in Range(s)
  <2>1. PICK m \in 1..Len(s) : s[m] = e
    BY <1>2 DEF Range
  <2>2. {i \in 1..Len(s) : s[i] = e} = {m}
    BY <2>1 DEF IsInjective
  <2>3. Min({m}) = m
    BY DEF Min
  <2> DEFINE r == SubSeq(s, 1, m - 1) \o SubSeq(s, m + 1, Len(s))
  <2>4. RemoveFirst(s, e) = r
    BY <2>1, <2>2, <2>3 DEF RemoveFirst, RemoveAt, SelectInSeq
  <2>5. /\ r \in Seq(S)
        /\ Len(r) = Len(s) - 1
        /\ \A i \in 1..Len(r) : r[i] = IF i < m THEN s[i] ELSE s[i + 1]
    BY AllButOne
  <2> HIDE DEF r
  <2>6. IsInjective(r)
    BY <2>1, <2>5 DEF IsInjective
  <2>7. ASSUME NEW k \in 1..Len(r)
        PROVE  r[k] \in Range(s) \ {e}
    BY <2>1, <2>5 DEF IsInjective, Range
  <2>8. ASSUME NEW k \in 1..Len(s), s[k] # e
        PROVE  \E l \in 1..Len(r) : r[l] = s[k]
    <3>1. CASE k < m
      BY <3>1, <2>1, <2>5
    <3>2. CASE k > m
      <4>1. k - 1 \in 1..Len(r) /\ r[k - 1] = s[k]
        BY <3>2, <2>1, <2>5
      <4> QED BY <4>1
    <3> QED BY <3>1, <3>2, <2>8, <2>1
  <2>9. Range(r) = Range(s) \ {e}
    <3>1. /\ \A v : v \in Range(r) <=> \E k \in 1..Len(r) : v = r[k]
          /\ \A v : v \in Range(s) <=> \E k \in 1..Len(s) : v = s[k]
      <4>1. DOMAIN r = 1..Len(r) /\ DOMAIN s = 1..Len(s)
        BY <2>5
      <4>2. /\ \A v : v \in Range(r) <=> \E k \in DOMAIN r : v = r[k]
            /\ \A v : v \in Range(s) <=> \E k \in DOMAIN s : v = s[k]
        BY Zenon DEF Range
      <4> QED BY <4>1, <4>2, Zenon
    <3>2. \A v \in Range(r) : v \in Range(s) \ {e}
      BY <3>1, <2>7, Zenon
    <3>3. ASSUME NEW v \in Range(s) \ {e}
          PROVE  v \in Range(r)
      <4>1. PICK k \in 1..Len(s) : v = s[k] /\ s[k] # e
        BY <3>1
      <4> QED BY <4>1, <3>1, <2>8, Zenon
    <3> QED BY <3>2, <3>3
  <2>10. \A l \in 1..Len(s) : s[l] = e => l = m
    BY <2>1 DEF IsInjective
  <2>11. \A l \in 1..Len(s) : s[l] = e =>
           /\ Len(r) = Len(s) - 1
           /\ \A i \in 1..(Len(s) - 1) : r[i] = IF i < l THEN s[i] ELSE s[i + 1]
    BY <2>5, <2>10
  <2> QED BY <2>4, <2>5, <2>6, <2>9, <2>11, Zenon
<1> QED BY <1>1, <1>2

-----------------------------------------------------------------------------
(* Any sequences. *)

\* A sequence without the first occurrence of a value is one without the place
\* of that occurrence.
LEMMA RemoveFirstAt ==
  ASSUME NEW S, NEW s \in Seq(S), NEW e, NEW m \in 1..Len(s), s[m] = e,
         \A j \in 1..(m - 1) : s[j] # e
  PROVE  RemoveFirst(s, e) = RemoveAt(s, m) /\ Contains(s, e)
<1> DEFINE I == {i \in 1..Len(s) : s[i] = e}
<1>1. m \in I /\ \A i \in I : i \in Nat /\ m <= i
  <2>1. ASSUME NEW i \in 1..Len(s), s[i] = e PROVE m <= i
    <3>1. i < m => i \in 1..(m - 1)
      OBVIOUS
    <3> QED BY <2>1, <3>1
  <2> QED BY <2>1
<1>2. Min(I) = m
  <2> HIDE DEF I
  <2>1. \A x \in I : (\A y \in I : x =< y) => x = m
    BY <1>1
  <2> QED BY <1>1, <2>1 DEF Min
<1> QED BY <1>1, <1>2 DEF RemoveFirst, SelectInSeq, Contains

\* What a sequence without one of its places holds.
LEMMA RemoveAtProperties ==
  ASSUME NEW S, NEW s \in Seq(S), NEW m \in 1..Len(s)
  PROVE  /\ RemoveAt(s, m) \in Seq(S) /\ Len(RemoveAt(s, m)) = Len(s) - 1
         /\ \A i \in 1..(Len(s) - 1) : RemoveAt(s, m)[i] = IF i < m THEN s[i] ELSE s[i + 1]
BY AllButOne DEF RemoveAt

\* Sequences are equal when they agree everywhere.
LEMMA SameSequence ==
  ASSUME NEW S, NEW s \in Seq(S), NEW t \in Seq(S),
         Len(s) = Len(t), \A k \in 1..Len(s) : s[k] = t[k]
  PROVE  s = t
BY SeqEqual

\* An element is appended to the second of two sequences put together.
LEMMA ConcatAppend ==
  ASSUME NEW S, NEW a \in Seq(S), NEW b \in Seq(S), NEW e \in S
  PROVE  a \o Append(b, e) = Append(a \o b, e)
<1>1. <<e>> \in Seq(S) /\ a \o b \in Seq(S)
  BY ConcatProperties
<1>2. Append(b, e) = b \o <<e>>
  BY AppendIsConcat
<1>3. Append(a \o b, e) = (a \o b) \o <<e>>
  BY <1>1, AppendIsConcat
<1>4. (a \o b) \o <<e>> = a \o (b \o <<e>>)
  BY <1>1, ConcatAssociative
<1> QED BY <1>2, <1>3, <1>4, Zenon

\* A sequence is its first element and the others.
LEMMA HeadAndTail ==
  ASSUME NEW S, NEW b \in Seq(S), b # <<>>
  PROVE  <<Head(b)>> \o Tail(b) = b
<1>1. /\ Tail(b) \in Seq(S) /\ Len(Tail(b)) = Len(b) - 1 /\ Len(b) \in Nat
      /\ \A k \in 1..(Len(b) - 1) : Tail(b)[k] = b[k + 1]
      /\ 1 \in 1..Len(b) /\ Head(b) = b[1] /\ b[1] \in S
  BY TailKeeps
<1>2. /\ <<b[1]>> \in Seq(S) /\ Len(<<b[1]>>) = 1
      /\ <<b[1]>>[1] = b[1]
  BY <1>1
<1> DEFINE h == <<b[1]>>
           s == h \o Tail(b)
<1> HIDE DEF h
<1>3. /\ s \in Seq(S) /\ Len(s) = Len(h) + Len(Tail(b))
      /\ \A k \in 1..(Len(h) + Len(Tail(b))) :
           s[k] = IF k <= Len(h) THEN h[k] ELSE Tail(b)[k - Len(h)]
  BY <1>1, <1>2, ConcatProperties DEF h
<1>4. Len(h) = 1 /\ h[1] = b[1]
  BY <1>2 DEF h
<1> HIDE DEF s
<1>5. ASSUME NEW k \in 1..Len(b)
      PROVE  s[k] = b[k]
  <2>1. CASE k = 1
    BY <1>1, <1>3, <1>4, <2>1
  <2>2. CASE k # 1
    <3>1. k - 1 \in 1..(Len(b) - 1) /\ (k - 1) + 1 = k
      BY <1>1, <2>2
    <3>2. s[k] = Tail(b)[k - 1]
      BY <1>1, <1>3, <1>4, <2>2
    <3> QED BY <1>1, <3>1, <3>2
  <2> QED BY <2>1, <2>2
<1>6. s = b
  BY <1>1, <1>3, <1>4, <1>5, SameSequence
<1> QED BY <1>1, <1>6 DEF s, h

-----------------------------------------------------------------------------
(* Induction by the least counterexample. *)

Less == {p \in Nat \X Nat : p[1] < p[2]}

\* Numbers of which there are some have a least one: induction by the least
\* counterexample.
LEMMA LeastExists ==
  ASSUME NEW S \in SUBSET Nat, S # {}
  PROVE  \E n \in S : \A m \in S : n <= m
<1>1. IsWellFoundedOn(Less, Nat)
  <2> DEFINE Q == IsWellFoundedOn(OpToRel(<, Nat), Nat)
  <2>1. Q
    BY NatLessThanWellFounded DEF OpToRel
  <2> QED BY <2>1, Zenon DEF OpToRel, Less
<1>2. PICK x \in S : \A y \in S : ~(<<y, x>> \in Less)
  BY <1>1, WFMin
<1>3. \A a, b \in Nat : a < b => <<a, b>> \in Less
  BY DEF Less
<1>4. ASSUME NEW y \in S
      PROVE  x <= y
  <2>1. x \in Nat /\ y \in Nat /\ ~(y < x)
    BY <1>2, <1>3, Zenon
  <2> QED BY <2>1
<1> QED BY <1>4, Zenon

\* Induction up to n: a set of counterexamples with neither 0 nor the
\* successor of a number it has not got is empty.
LEMMA InductionUpTo ==
  ASSUME NEW n \in Nat, NEW C \in SUBSET (0..n), 0 \notin C,
         \A m \in 0..(n - 1) : m \notin C => m + 1 \notin C
  PROVE  C = {}
<1> SUFFICES ASSUME C # {}
             PROVE  FALSE
  OBVIOUS
<1>1. PICK m \in C : \A k \in C : m <= k
  BY LeastExists
<1>2. m \in 1..n /\ m - 1 \in 0..(n - 1) /\ m - 1 \notin C /\ (m - 1) + 1 = m
  BY <1>1
<1> QED BY <1>1, <1>2

-----------------------------------------------------------------------------
(* Sequences of sequences in one. *)

\* How far f has flattened s: element by element.
Flattens(f, s, n) == \A i \in 1..n : f[i] = IF i = 1 THEN s[i] ELSE f[i - 1] \o s[i]

\* The first n elements can be flattened,
LEMMA FlattenExists ==
  ASSUME NEW S, NEW s \in Seq(Seq(S)), NEW n \in 0..Len(s)
  PROVE  \E f \in [1..n -> Seq(S)] : Flattens(f, s, n)
<1> DEFINE P(m) == \E f \in [1..m -> Seq(S)] : Flattens(f, s, m)
           C == {m \in 0..Len(s) : ~P(m)}
<1>1. P(0)
  <2>1. PICK f : f = [i \in 1..0 |-> <<>>]
    OBVIOUS
  <2>2. f \in [1..0 -> Seq(S)]
    BY <2>1
  <2>3. Flattens(f, s, 0)
    BY DEF Flattens
  <2> QED BY <2>2, <2>3
<1>2. ASSUME NEW m \in 0..(Len(s) - 1), P(m)
      PROVE  P(m + 1)
  <2>1. PICK f \in [1..m -> Seq(S)] : Flattens(f, s, m)
    BY <1>2
  <2>2. PICK last : last = IF m = 0 THEN s[1] ELSE f[m] \o s[m + 1]
    OBVIOUS
  <2>3. m \in Nat /\ m + 1 \in 1..Len(s) /\ Len(s) \in Nat
    OBVIOUS
  <2>4. last \in Seq(S)
    <3>1. s[m + 1] \in Seq(S)
      BY <2>3
    <3>2. m # 0 => f[m] \in Seq(S)
      BY <2>3
    <3> QED BY <2>2, <3>1, <3>2
  <2>5. PICK g : g = [i \in 1..(m + 1) |-> IF i = m + 1 THEN last ELSE f[i]]
    OBVIOUS
  <2>6. g \in [1..(m + 1) -> Seq(S)]
    BY <2>3, <2>4, <2>5
  <2>7. ASSUME NEW i \in 1..(m + 1)
        PROVE  g[i] = IF i = 1 THEN s[i] ELSE g[i - 1] \o s[i]
    <3>1. CASE i = m + 1
      BY <3>1, <2>2, <2>3, <2>5
    <3>2. CASE i # m + 1
      <4>1. i \in 1..m /\ (i # 1 => i - 1 \in 1..m)
        BY <3>2, <2>3
      <4>2. g[i] = f[i] /\ (i # 1 => g[i - 1] = f[i - 1])
        BY <4>1, <2>3, <2>5
      <4> QED BY <4>1, <4>2, <2>1 DEF Flattens
    <3> QED BY <3>1, <3>2
  <2> QED BY <2>6, <2>7 DEF Flattens
<1> HIDE DEF P
<1>3. C \in SUBSET (0..Len(s)) /\ 0 \notin C /\ Len(s) \in Nat
  BY <1>1
<1>4. \A m \in 0..(Len(s) - 1) : m \notin C => m + 1 \notin C
  BY <1>2
<1> HIDE DEF C
<1>5. C = {}
  BY <1>3, <1>4, InductionUpTo
<1>6. P(n)
  BY <1>5 DEF C
<1> QED BY <1>6 DEF P

\* and in one way only.
LEMMA FlattenUnique ==
  ASSUME NEW s, NEW n \in Nat, NEW f, NEW g, Flattens(f, s, n), Flattens(g, s, n)
  PROVE  \A i \in 1..n : f[i] = g[i]
<1> DEFINE C == {i \in 1..n : f[i] # g[i]}
<1> SUFFICES ASSUME C # {}
             PROVE  FALSE
  OBVIOUS
<1>1. C \in SUBSET Nat
  OBVIOUS
<1>2. PICK m \in C : \A k \in C : m <= k
  BY <1>1, LeastExists
<1>3. m \in 1..n /\ f[m] # g[m] /\ (m # 1 => m - 1 \in 1..n /\ m - 1 \notin C)
  BY <1>2
<1> QED BY <1>3 DEF Flattens

\* Whatever flattens s says what FlattenSeq() is.
LEMMA FlattenIs ==
  ASSUME NEW S, NEW s \in Seq(Seq(S)), s # <<>>, NEW f, Flattens(f, s, Len(s))
  PROVE  FlattenSeq(s) = f[Len(s)]
<1> DEFINE Is(g) == g = [i \in 1..Len(s) |-> IF i = 1 THEN s[i] ELSE g[i - 1] \o s[i]]
<1>0. Len(s) \in Nat \ {0}
  OBVIOUS
<1>1. PICK g \in [1..Len(s) -> Seq(S)] : Flattens(g, s, Len(s))
  <2>1. Len(s) \in 0..Len(s)
    BY <1>0
  <2> QED BY <2>1, FlattenExists, Zenon
<1>2. Is(g)
  BY <1>1, <1>0 DEF Flattens
<1>3. Is(CHOOSE h : Is(h))
  <2> HIDE DEF Is
  <2> QED BY <1>2
<1>4. PICK h : h = CHOOSE k : Is(k)
  OBVIOUS
<1>5. FlattenSeq(s) = h[Len(s)]
  BY <1>0, <1>4 DEF FlattenSeq
<1>6. Flattens(h, s, Len(s))
  <2>1. Is(h)
    <3> HIDE DEF Is
    <3> QED BY <1>3, <1>4
  <2> QED BY <2>1, <1>0 DEF Flattens
<1>7. f[Len(s)] = h[Len(s)]
  BY <1>0, <1>6, FlattenUnique
<1> QED BY <1>5, <1>7

LEMMA FlattenNone == FlattenSeq(<<>>) = <<>>
BY DEF FlattenSeq

\* A flattened sequence, and its flattening step by step.
LEMMA FlattenSteps ==
  ASSUME NEW S, NEW s \in Seq(Seq(S))
  PROVE  \E f \in [1..Len(s) -> Seq(S)] :
           Flattens(f, s, Len(s)) /\ (s # <<>> => FlattenSeq(s) = f[Len(s)])
<1>1. Len(s) \in Nat
  OBVIOUS
<1>2. PICK f \in [1..Len(s) -> Seq(S)] : Flattens(f, s, Len(s))
  <2>1. Len(s) \in 0..Len(s)
    BY <1>1
  <2> QED BY <2>1, FlattenExists, Zenon
<1>3. ASSUME s # <<>>
      PROVE  FlattenSeq(s) = f[Len(s)]
  BY <1>2, <1>3, FlattenIs, Zenon
<1> QED BY <1>2, <1>3, Zenon

LEMMA FlattenType ==
  ASSUME NEW S, NEW s \in Seq(Seq(S))
  PROVE  FlattenSeq(s) \in Seq(S)
<1>1. CASE s = <<>>
  <2>1. <<>> \in Seq(S)
    OBVIOUS
  <2> QED BY <1>1, <2>1, FlattenNone
<1>2. CASE s # <<>>
  <2>1. PICK n \in Nat \ {0} : n = Len(s)
    BY <1>2
  <2>2. PICK f \in [1..n -> Seq(S)] : FlattenSeq(s) = f[n]
    BY <1>2, <2>1, FlattenSteps
  <2>3. n \in 1..n
    OBVIOUS
  <2> QED BY <2>2, <2>3
<1> QED BY <1>1, <1>2

\* Three sequences in one, the two last or the two first put together before.
LEMMA ConcatAssociates ==
  ASSUME NEW S
  PROVE  \A a, b, c \in Seq(S) : a \o (b \o c) = (a \o b) \o c
<1> TAKE a, b, c \in Seq(S)
<1> QED BY ConcatAssociative

\* Two sequences in one are flattened one after the other.
LEMMA FlattenConcat ==
  ASSUME NEW S, NEW s \in Seq(Seq(S)), NEW t \in Seq(Seq(S))
  PROVE  FlattenSeq(s \o t) = FlattenSeq(s) \o FlattenSeq(t)
<1>1. /\ FlattenSeq(s) \in Seq(S) /\ FlattenSeq(t) \in Seq(S)
      /\ Len(s) \in Nat /\ Len(t) \in Nat
  BY FlattenType
<1>2. \A a, b, c \in Seq(S) : a \o (b \o c) = (a \o b) \o c
  BY ConcatAssociates
<1>3. CASE s = <<>>
  BY <1>1, <1>3, FlattenNone
<1>4. CASE t = <<>>
  BY <1>1, <1>4, FlattenNone
<1>5. CASE s # <<>> /\ t # <<>>
  <2>0. PICK m \in Nat \ {0}, n \in Nat \ {0} : m = Len(s) /\ n = Len(t)
    BY <1>5
  <2>1. PICK f \in [1..m -> Seq(S)] : Flattens(f, s, m) /\ FlattenSeq(s) = f[m]
    BY <1>5, <2>0, FlattenSteps
  <2>2. PICK g \in [1..n -> Seq(S)] : Flattens(g, t, n) /\ FlattenSeq(t) = g[n]
    BY <1>5, <2>0, FlattenSteps
  <2>3. PICK u : u = s \o t
    OBVIOUS
  <2>4. /\ u \in Seq(Seq(S)) /\ Len(u) = m + n
        /\ \A i \in 1..m : u[i] = s[i]
        /\ \A i \in 1..n : u[m + i] = t[i]
    <3>1. /\ u \in Seq(Seq(S)) /\ Len(u) = m + n
          /\ \A i \in 1..(m + n) : u[i] = IF i <= m THEN s[i] ELSE t[i - m]
      BY <2>0, <2>3, ConcatProperties
    <3>2. /\ \A i \in 1..m : i \in 1..(m + n) /\ i <= m
          /\ \A i \in 1..n : m + i \in 1..(m + n) /\ ~(m + i <= m) /\ (m + i) - m = i
      OBVIOUS
    <3> QED BY <3>1, <3>2
  <2>5. /\ \A i \in 1..n : g[i] \in Seq(S) /\ t[i] \in Seq(S)
        /\ f[m] \in Seq(S)
    <3>1. \A i \in 1..n : t[i] \in Seq(S)
      BY <2>0
    <3>2. m \in 1..m
      OBVIOUS
    <3> QED BY <3>1, <3>2
  <2>6. PICK h : h = [i \in 1..(m + n) |-> IF i <= m THEN f[i] ELSE f[m] \o g[i - m]]
    OBVIOUS
  <2>7. /\ \A i \in 1..m : h[i] = f[i]
        /\ \A i \in 1..n : h[m + i] = f[m] \o g[i]
    <3>1. /\ \A i \in 1..m : i \in 1..(m + n) /\ i <= m
          /\ \A i \in 1..n : m + i \in 1..(m + n) /\ ~(m + i <= m) /\ (m + i) - m = i
      OBVIOUS
    <3> QED BY <3>1, <2>6
  <2>8. ASSUME NEW i \in 1..m
        PROVE  h[i] = IF i = 1 THEN u[i] ELSE h[i - 1] \o u[i]
    <3>1. i # 1 => i - 1 \in 1..m
      OBVIOUS
    <3> QED BY <3>1, <2>1, <2>4, <2>7 DEF Flattens
  <2>9. ASSUME NEW i \in 1..n
        PROVE  h[m + i] = h[(m + i) - 1] \o u[m + i]
    <3>1. CASE i = 1
      <4>1. (m + i) - 1 = m /\ m \in 1..m
        BY <3>1
      <4>2. g[i] = t[i]
        BY <3>1, <2>2 DEF Flattens
      <4>3. h[m + i] = f[m] \o g[i] /\ u[m + i] = t[i] /\ h[m] = f[m]
        BY <4>1, <2>4, <2>7
      <4> QED BY <4>1, <4>2, <4>3
    <3>2. CASE i # 1
      <4>1. PICK j \in 1..n : j = i - 1 /\ (m + i) - 1 = m + j
        BY <3>2
      <4>2. g[i] = g[j] \o t[i]
        BY <3>2, <4>1, <2>2 DEF Flattens
      <4>3. f[m] \o (g[j] \o t[i]) = (f[m] \o g[j]) \o t[i]
        <5>1. f[m] \in Seq(S) /\ g[j] \in Seq(S) /\ t[i] \in Seq(S)
          BY <2>5, Zenon
        <5> QED BY <1>2, <5>1
      <4>4. h[m + i] = f[m] \o g[i] /\ h[m + j] = f[m] \o g[j] /\ u[m + i] = t[i]
        BY <2>4, <2>7, Zenon
      <4> QED BY <4>1, <4>2, <4>3, <4>4, Zenon
    <3> QED BY <3>1, <3>2
  <2>10. Flattens(h, u, m + n)
    <3>1. ASSUME NEW i \in 1..(m + n)
          PROVE  h[i] = IF i = 1 THEN u[i] ELSE h[i - 1] \o u[i]
      <4>1. CASE i <= m
        BY <4>1, <2>8
      <4>2. CASE i > m
        <5>1. PICK j \in 1..n : i = m + j /\ i # 1
          <6>1. i - m \in 1..n /\ i = m + (i - m) /\ i # 1
            BY <4>2
          <6> QED BY <6>1
        <5> QED BY <5>1, <2>9
      <4> QED BY <4>1, <4>2
    <3> QED BY <3>1 DEF Flattens
  <2>11. u # <<>>
    BY <2>4
  <2>12. FlattenSeq(u) = h[m + n]
    BY <2>4, <2>10, <2>11, FlattenIs
  <2>13. h[m + n] = f[m] \o g[n]
    <3>1. n \in 1..n
      OBVIOUS
    <3> QED BY <3>1, <2>7
  <2> QED BY <2>1, <2>2, <2>3, <2>12, <2>13
<1> QED BY <1>3, <1>4, <1>5

\* One sequence alone.
LEMMA FlattenOne ==
  ASSUME NEW S, NEW e \in Seq(S)
  PROVE  FlattenSeq(<<e>>) = e
<1>1. <<e>> \in Seq(Seq(S)) /\ Len(<<e>>) = 1 /\ <<e>> # <<>>
  OBVIOUS
<1>2. Flattens(<<e>>, <<e>>, 1)
  BY DEF Flattens
<1>3. FlattenSeq(<<e>>) = <<e>>[Len(<<e>>)]
  BY <1>1, <1>2, FlattenIs
<1> QED BY <1>3

=============================================================================
