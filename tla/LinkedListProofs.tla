-------------------------- MODULE LinkedListProofs --------------------------
(***************************************************************************)
(* Proofs about LinkedList, for any addresses and values: both directions  *)
(* lead through the list from end to end, no walk meets freed memory, and  *)
(* none leaks.                                                             *)
(***************************************************************************)
EXTENDS LinkedList, SequenceLemmas

-----------------------------------------------------------------------------
(* The inductive invariant. *)

\* The pointers lead through the chain, forward and backward.
Forward ==
  \A k \in 1..Len(chain) :
    next[chain[k]] = IF k = Len(chain) THEN Null ELSE chain[k + 1]

Linked ==
  /\ chain = <<>> => head = Null /\ tail = Null
  /\ chain # <<>> => head = chain[1] /\ tail = chain[Len(chain)]
  /\ Forward
  /\ \A k \in 1..Len(chain) :
       prev[chain[k]] = IF k = 1 THEN Null ELSE chain[k - 1]

\* Nodes are allocated while they are in the chain, and are there once.
Allocated == live = Range(chain) /\ IsInjective(chain)

\* A walk stands on a node of the list; the walk that frees the list stands on
\* the first one that is left, and only the way forward is still in order.
CursorInList ==
  /\ pc \in {"gone", "idle"} => cursor = Null
  /\ pc \in {"find", "each"} => Linked /\ cursor \in Range(chain) \cup {Null}
  /\ pc = "idle" => Linked
  /\ pc = "gone" => chain = <<>>
  /\ Freeing => Forward /\ (IF chain = <<>> THEN cursor = Null ELSE cursor = chain[1])

\* What was allocated holds a value.
DataIsValue == \A n \in live : data[n] \in Values

Inductive == TypeOK /\ Allocated /\ CursorInList /\ DataIsValue

-----------------------------------------------------------------------------
(* One node is put in or taken out. *)

\* An inserted node is linked at the head.
LEMMA InsertHeadLinked ==
  ASSUME TypeOK, Allocated, Linked, NEW n \in Nodes, NEW v \in Values, InsertHead(n, v)
  PROVE  chain' \in Seq(Nodes) /\ Allocated' /\ Linked'
<1> USE ListAssumption
<1>1. n \notin Range(chain) /\ n # Null
  BY DEF InsertHead, NewNode, Allocated
<1>2. /\ chain' \in Seq(Nodes) /\ Len(chain') = Len(chain) + 1 /\ chain'[1] = n
      /\ \A k \in 1..Len(chain) : chain'[k + 1] = chain[k]
      /\ Range(chain') = Range(chain) \cup {n} /\ IsInjective(chain')
  <2>1. chain' = <<n>> \o chain
    BY DEF InsertHead
  <2> QED BY <1>1, <2>1, PrependNew DEF TypeOK, Allocated
<1>3. Allocated'
  BY <1>2 DEF InsertHead, NewNode, Allocated
<1>4. Len(chain) \in Nat /\ chain \in Seq(Nodes) /\ \A k \in 1..Len(chain) : chain[k] \in Nodes
  BY DEF TypeOK
<1>5. \A k \in 1..Len(chain) : chain[k] # n
  BY <1>1, ElementsOfRange DEF TypeOK
<1>6. \A k \in 1..Len(chain') : k = 1 \/ (k - 1 \in 1..Len(chain) /\ chain'[k] = chain[k - 1])
  <2>1. ASSUME NEW k \in 1..Len(chain'), k # 1
        PROVE  k - 1 \in 1..Len(chain) /\ chain'[k] = chain[k - 1]
    <3>1. k - 1 \in 1..Len(chain) /\ (k - 1) + 1 = k
      BY <1>2, <1>4, <2>1
    <3> QED BY <1>2, <3>1
  <2> QED BY <2>1
<1>7. Len(chain) = 0 <=> chain = <<>>
  BY <1>4
<1>8. head' = chain'[1] /\ tail' = chain'[Len(chain')] /\ chain' # <<>>
  <2>1. CASE chain = <<>>
    BY <1>2, <1>7, <2>1 DEF InsertHead, Linked
  <2>2. CASE chain # <<>>
    <3>1. head # Null /\ Len(chain) \in 1..Len(chain) /\ tail = chain[Len(chain)]
      BY <1>4, <1>7, <2>2 DEF Linked
    <3> QED BY <1>2, <1>4, <3>1 DEF InsertHead
  <2> QED BY <2>1, <2>2
<1>9. ASSUME NEW k \in 1..Len(chain')
      PROVE  /\ next'[chain'[k]] = IF k = Len(chain') THEN Null ELSE chain'[k + 1]
             /\ prev'[chain'[k]] = IF k = 1 THEN Null ELSE chain'[k - 1]
  <2>1. CASE k = 1
    <3>1. next'[n] = head /\ prev'[n] = Null
      BY DEF InsertHead, TypeOK
    <3>2. head = IF 1 = Len(chain') THEN Null ELSE chain'[2]
      <4>1. CASE chain = <<>>
        BY <1>2, <1>7, <4>1 DEF Linked
      <4>2. CASE chain # <<>>
        <5>1. 1 \in 1..Len(chain) /\ chain'[1 + 1] = chain[1]
          BY <1>2, <1>4, <1>7, <4>2
        <5> QED BY <1>2, <1>4, <1>7, <4>2, <5>1 DEF Linked
      <4> QED BY <4>1, <4>2
    <3> QED BY <1>2, <2>1, <3>1, <3>2
  <2>2. CASE k # 1
    <3>1. k - 1 \in 1..Len(chain) /\ chain'[k] = chain[k - 1] /\ chain[k - 1] # n /\ chain[k - 1] \in Nodes
      BY <1>4, <1>5, <1>6, <2>2
    <3>2. next'[chain'[k]] = next[chain[k - 1]]
      BY <3>1 DEF InsertHead, TypeOK
    <3>3. next[chain[k - 1]] = IF k - 1 = Len(chain) THEN Null ELSE chain[k]
      BY <3>1 DEF Linked, Forward
    <3>4. k # Len(chain') => k \in 1..Len(chain) /\ chain'[k + 1] = chain[k]
      BY <1>2, <1>4
    <3>5. prev'[chain'[k]] = IF chain[k - 1] = head THEN n ELSE prev[chain[k - 1]]
      BY <3>1 DEF InsertHead, TypeOK
    <3>6. prev[chain[k - 1]] = IF k - 1 = 1 THEN Null ELSE chain[k - 2]
      BY <3>1 DEF Linked
    <3>7. chain[k - 1] = head <=> k - 1 = 1
      BY <1>4, <1>7, <3>1 DEF Linked, Allocated, IsInjective
    <3>8. k - 1 # 1 => k - 2 \in 1..Len(chain) /\ chain'[k - 1] = chain[k - 2]
      BY <1>4, <1>6, <3>1, <1>2
    <3> QED BY <1>2, <1>4, <2>2, <3>1, <3>2, <3>3, <3>4, <3>5, <3>6, <3>7, <3>8
  <2> QED BY <2>1, <2>2
<1> QED BY <1>2, <1>3, <1>8, <1>9 DEF Linked, Forward

\* An inserted node is linked at the tail.
LEMMA InsertTailLinked ==
  ASSUME TypeOK, Allocated, Linked, NEW n \in Nodes, NEW v \in Values, InsertTail(n, v)
  PROVE  chain' \in Seq(Nodes) /\ Allocated' /\ Linked'
<1> USE ListAssumption
<1>1. n \notin Range(chain) /\ n # Null
  BY DEF InsertTail, NewNode, Allocated
<1>2. /\ chain' \in Seq(Nodes) /\ Len(chain') = Len(chain) + 1 /\ chain'[Len(chain) + 1] = n
      /\ \A k \in 1..Len(chain) : chain'[k] = chain[k]
      /\ Range(chain') = Range(chain) \cup {n} /\ IsInjective(chain')
  <2>1. chain' = Append(chain, n)
    BY DEF InsertTail
  <2> QED BY <1>1, <2>1, AppendNew DEF TypeOK, Allocated
<1>3. Allocated'
  BY <1>2 DEF InsertTail, NewNode, Allocated
<1>4. Len(chain) \in Nat /\ chain \in Seq(Nodes) /\ \A k \in 1..Len(chain) : chain[k] \in Nodes
  BY DEF TypeOK
<1>5. \A k \in 1..Len(chain) : chain[k] # n
  BY <1>1, ElementsOfRange DEF TypeOK
<1>6. \A k \in 1..Len(chain') : k \in 1..Len(chain) \/ k = Len(chain) + 1
  BY <1>2, <1>4
<1>7. Len(chain) = 0 <=> chain = <<>>
  BY <1>4
<1>8. head' = chain'[1] /\ tail' = chain'[Len(chain')] /\ chain' # <<>>
  <2>1. CASE chain = <<>>
    BY <1>2, <1>7, <2>1 DEF InsertTail, Linked
  <2>2. CASE chain # <<>>
    <3>1. tail # Null /\ 1 \in 1..Len(chain) /\ head = chain[1]
      BY <1>4, <1>7, <2>2 DEF Linked
    <3> QED BY <1>2, <1>4, <3>1 DEF InsertTail
  <2> QED BY <2>1, <2>2
<1>9. ASSUME NEW k \in 1..Len(chain')
      PROVE  /\ next'[chain'[k]] = IF k = Len(chain') THEN Null ELSE chain'[k + 1]
             /\ prev'[chain'[k]] = IF k = 1 THEN Null ELSE chain'[k - 1]
  <2>1. CASE k = Len(chain) + 1
    <3>1. next'[n] = Null /\ prev'[n] = tail
      BY DEF InsertTail, TypeOK
    <3>2. tail = IF k = 1 THEN Null ELSE chain'[k - 1]
      <4>1. CASE chain = <<>>
        BY <1>7, <2>1, <4>1 DEF Linked
      <4>2. CASE chain # <<>>
        <5>1. Len(chain) \in 1..Len(chain) /\ k - 1 = Len(chain) /\ k # 1
          BY <1>4, <1>7, <2>1, <4>2
        <5> QED BY <1>2, <4>2, <5>1 DEF Linked
      <4> QED BY <4>1, <4>2
    <3> QED BY <1>2, <2>1, <3>1, <3>2
  <2>2. CASE k \in 1..Len(chain)
    <3>1. chain'[k] = chain[k] /\ chain[k] # n /\ chain[k] \in Nodes
      BY <1>2, <1>4, <1>5, <2>2
    <3>2. next'[chain'[k]] = IF chain[k] = tail THEN n ELSE next[chain[k]]
      BY <3>1 DEF InsertTail, TypeOK
    <3>3. chain[k] = tail <=> k = Len(chain)
      <4>1. chain # <<>> /\ Len(chain) \in 1..Len(chain)
        BY <1>4, <1>7, <2>2
      <4> QED BY <2>2, <4>1 DEF Linked, Allocated, IsInjective
    <3>4. next[chain[k]] = IF k = Len(chain) THEN Null ELSE chain[k + 1]
      BY <2>2 DEF Linked, Forward
    <3>5. k # Len(chain) => k + 1 \in 1..Len(chain) /\ chain'[k + 1] = chain[k + 1]
      BY <1>2, <1>4, <2>2
    <3>6. prev'[chain'[k]] = prev[chain[k]]
      BY <3>1 DEF InsertTail, TypeOK
    <3>7. prev[chain[k]] = IF k = 1 THEN Null ELSE chain[k - 1]
      BY <2>2 DEF Linked
    <3>8. k # 1 => k - 1 \in 1..Len(chain) /\ chain'[k - 1] = chain[k - 1]
      BY <1>2, <1>4, <2>2
    <3> QED BY <1>2, <1>4, <2>2, <3>2, <3>3, <3>4, <3>5, <3>6, <3>7, <3>8
  <2> QED BY <1>6, <2>1, <2>2
<1> QED BY <1>2, <1>3, <1>8, <1>9 DEF Linked, Forward

\* A node is unlinked wherever it is, and its neighbours are linked.
LEMMA UnlinkLinked ==
  ASSUME TypeOK, Allocated, Linked, NEW n \in Range(chain), Unlink(n), Delete(n)
  PROVE  chain' \in Seq(Nodes) /\ Allocated' /\ Linked'
<1> USE ListAssumption
<1>1. PICK m \in 1..Len(chain) : chain[m] = n
  BY ElementsOfRange DEF TypeOK
<1> DEFINE L == Len(chain)
<1>2. /\ L \in Nat /\ 1 <= m /\ m <= L /\ m \in Nat /\ chain # <<>>
      /\ \A k \in 1..L : chain[k] \in Nodes
  BY DEF TypeOK
<1>3. \A j, k \in 1..L : chain[j] = chain[k] => j = k
  BY DEF Allocated, IsInjective, TypeOK
<1>4. /\ chain' \in Seq(Nodes) /\ Range(chain') = Range(chain) \ {n} /\ IsInjective(chain')
      /\ Len(chain') = L - 1
      /\ \A i \in 1..(L - 1) : chain'[i] = IF i < m THEN chain[i] ELSE chain[i + 1]
  <2>1. chain' = RemoveFirst(chain, n)
    BY DEF Delete
  <2> QED BY <1>1, <2>1, RemoveFirstProperties DEF TypeOK, Allocated
<1>5. Allocated'
  BY <1>4 DEF Allocated, Delete
<1>6. /\ head = chain[1] /\ tail = chain[L]
      /\ \A k \in 1..L : /\ next[chain[k]] = IF k = L THEN Null ELSE chain[k + 1]
                         /\ prev[chain[k]] = IF k = 1 THEN Null ELSE chain[k - 1]
  BY <1>2 DEF Linked, Forward
<1> HIDE DEF L
<1>7. /\ n = head <=> m = 1
      /\ n = tail <=> m = L
      /\ head = tail <=> L = 1
  <2>1. 1 \in 1..L /\ L \in 1..L /\ m \in 1..L
    BY <1>2
  <2>2. chain[m] = chain[1] <=> m = 1
    BY <1>3, <2>1
  <2>3. chain[m] = chain[L] <=> m = L
    BY <1>3, <2>1
  <2>4. chain[1] = chain[L] <=> L = 1
    BY <1>3, <2>1
  <2> QED BY <1>1, <1>6, <2>2, <2>3, <2>4
<1>8. next \in [Nodes -> Pointer] /\ prev \in [Nodes -> Pointer]
  BY DEF TypeOK
<1>9. CASE L = 1
  <2>1. head' = Null /\ tail' = Null
    BY <1>2, <1>7, <1>9 DEF Unlink, UnlinkHead, UnlinkOnly
  <2>2. Len(chain') = 0 /\ chain' = <<>>
    BY <1>4, <1>9
  <2> QED BY <1>4, <1>5, <2>1, <2>2 DEF Linked, Forward
<1>10. CASE L # 1
  <2>1. /\ L >= 2 /\ Len(chain') >= 1 /\ chain' # <<>>
    BY <1>2, <1>4, <1>10
  <2>2. /\ m = 1 => /\ head' = chain[2] /\ tail' = tail
                    /\ next' = next /\ prev' = [prev EXCEPT ![chain[2]] = Null]
        /\ m = L => /\ head' = head /\ tail' = chain[L - 1]
                    /\ prev' = prev /\ next' = [next EXCEPT ![chain[L - 1]] = Null]
        /\ m # 1 /\ m # L => /\ head' = head /\ tail' = tail
                             /\ next' = [next EXCEPT ![chain[m - 1]] = chain[m + 1]]
                             /\ prev' = [prev EXCEPT ![chain[m + 1]] = chain[m - 1]]
    <3>1. CASE m = 1
      BY <1>1, <1>2, <1>6, <1>7, <1>10, <2>1, <3>1 DEF Unlink, UnlinkHead
    <3>2. CASE m = L
      BY <1>1, <1>2, <1>6, <1>7, <1>10, <2>1, <3>2 DEF Unlink, UnlinkTail
    <3>3. CASE m # 1 /\ m # L
      BY <1>1, <1>2, <1>6, <1>7, <3>3 DEF Unlink, ends
    <3> QED BY <1>10, <3>1, <3>2, <3>3
  <2>3. head' = chain'[1] /\ tail' = chain'[Len(chain')]
    <3>1. 1 \in 1..(L - 1) /\ L - 1 \in 1..(L - 1)
      BY <1>2, <2>1
    <3>2. /\ chain'[1] = IF m = 1 THEN chain[2] ELSE head
          /\ chain'[L - 1] = IF m = L THEN chain[L - 1] ELSE tail
          /\ Len(chain') = L - 1
      BY <1>2, <1>4, <1>6, <2>1, <3>1
    <3>3. m = 1 => m # L
      BY <1>10
    <3> QED BY <2>2, <3>2, <3>3
  <2>4. ASSUME NEW k \in 1..(L - 1)
        PROVE  /\ next'[chain'[k]] = IF k = L - 1 THEN Null ELSE chain'[k + 1]
               /\ prev'[chain'[k]] = IF k = 1 THEN Null ELSE chain'[k - 1]
    <3>1. CASE k < m
      <4>1. k \in 1..L /\ chain'[k] = chain[k] /\ chain[k] \in Nodes
        BY <1>2, <1>4, <3>1
      <4>2. k + 1 < m => k + 1 \in 1..(L - 1) /\ chain'[k + 1] = chain[k + 1]
        BY <1>2, <1>4, <3>1
      <4>3. k + 1 = m /\ k # L - 1 => k + 1 \in 1..(L - 1) /\ chain'[k + 1] = chain[m + 1]
        BY <1>2, <1>4, <3>1
      <4>4. k # 1 => k - 1 \in 1..(L - 1) /\ chain'[k - 1] = chain[k - 1]
        BY <1>2, <1>4, <3>1
      <4>5. next'[chain[k]] = IF k + 1 = m THEN (IF m = L THEN Null ELSE chain[m + 1])
                                           ELSE chain[k + 1]
        <5>1. m - 1 \in 1..L /\ (chain[k] = chain[m - 1] <=> k = m - 1) /\ m # 1
          BY <1>2, <1>3, <3>1, <4>1
        <5>2. next[chain[k]] = chain[k + 1]
          BY <1>2, <1>6, <3>1, <4>1
        <5> QED BY <1>2, <1>8, <2>2, <3>1, <4>1, <5>1, <5>2
      <4>6. prev'[chain[k]] = IF k = 1 THEN Null ELSE chain[k - 1]
        <5>1. m # L => m + 1 \in 1..L /\ chain[k] # chain[m + 1]
          BY <1>2, <1>3, <3>1, <4>1
        <5>2. prev[chain[k]] = IF k = 1 THEN Null ELSE chain[k - 1]
          BY <1>6, <4>1
        <5>3. prev'[chain[k]] = prev[chain[k]]
          <6>1. CASE m = L
            BY <2>2, <6>1
          <6>2. CASE m # L
            <7>1. m # 1
              BY <1>2, <3>1
            <7>2. prev' = [prev EXCEPT ![chain[m + 1]] = chain[m - 1]]
              BY <2>2, <6>2, <7>1
            <7> QED BY <1>8, <4>1, <5>1, <6>2, <7>2
          <6> QED BY <6>1, <6>2
        <5> QED BY <5>2, <5>3
      <4> QED BY <1>2, <3>1, <4>1, <4>2, <4>3, <4>4, <4>5, <4>6
    <3>2. CASE ~(k < m)
      <4>1. k + 1 \in 1..L /\ chain'[k] = chain[k + 1] /\ chain[k + 1] \in Nodes
        BY <1>2, <1>4, <3>2
      <4>2. k # L - 1 => k + 1 \in 1..(L - 1) /\ chain'[k + 1] = chain[k + 2]
        BY <1>2, <1>4, <3>2
      <4>3. k # 1 /\ k = m => k - 1 \in 1..(L - 1) /\ chain'[k - 1] = chain[m - 1]
        BY <1>2, <1>4, <3>2
      <4>4. k # 1 /\ k # m => k - 1 \in 1..(L - 1) /\ chain'[k - 1] = chain[k]
        BY <1>2, <1>4, <3>2
      <4>5. next'[chain[k + 1]] = IF k = L - 1 THEN Null ELSE chain[k + 2]
        <5>1. m # 1 => m - 1 \in 1..L /\ chain[k + 1] # chain[m - 1]
          BY <1>2, <1>3, <3>2, <4>1
        <5>2. next[chain[k + 1]] = IF k = L - 1 THEN Null ELSE chain[k + 2]
          BY <1>2, <1>6, <4>1
        <5>3. m # L
          BY <1>2, <3>2
        <5> QED BY <1>8, <2>2, <4>1, <5>1, <5>2, <5>3
      <4>6. prev'[chain[k + 1]] = IF k = m THEN (IF m = 1 THEN Null ELSE chain[m - 1])
                                           ELSE chain[k]
        <5>1. m # L /\ m + 1 \in 1..L /\ (chain[k + 1] = chain[m + 1] <=> k = m)
          BY <1>2, <1>3, <3>2, <4>1
        <5>2. prev[chain[k + 1]] = chain[k]
          BY <1>2, <1>6, <4>1
        <5>3. CASE m = 1
          BY <1>2, <1>8, <2>2, <4>1, <5>1, <5>2, <5>3
        <5>4. CASE m # 1
          <6>1. prev' = [prev EXCEPT ![chain[m + 1]] = chain[m - 1]]
            BY <2>2, <5>1, <5>4
          <6> QED BY <1>8, <4>1, <5>1, <5>2, <5>4, <6>1
        <5> QED BY <5>3, <5>4
      <4> QED BY <1>2, <3>2, <4>1, <4>2, <4>3, <4>4, <4>5, <4>6
    <3> QED BY <3>1, <3>2
  <2> QED BY <1>4, <1>5, <2>1, <2>3, <2>4 DEF Linked, Forward
<1> QED BY <1>9, <1>10

\* Removing the head or the tail is removing that node.
LEMMA EndsAreUnlinked ==
  ASSUME TypeOK, Allocated, Linked
  PROVE  /\ head # Null => head \in Range(chain) /\ (UnlinkHead => Unlink(head))
         /\ tail # Null => tail \in Range(chain) /\ (UnlinkTail => Unlink(tail))
<1>1. chain # <<>> => 1 \in 1..Len(chain) /\ Len(chain) \in 1..Len(chain)
  BY DEF TypeOK
<1>2. /\ head # Null => head \in Range(chain)
      /\ tail # Null => tail \in Range(chain)
  BY <1>1, ElementsOfRange DEF Linked, TypeOK
<1> QED BY <1>2 DEF Unlink, UnlinkHead, UnlinkTail

-----------------------------------------------------------------------------
(* Every step preserves the invariant. *)

\* The links as they were.
LEMMA LinksStay ==
  ASSUME UNCHANGED <<ends, next, prev, chain>>
  PROVE  (Linked' <=> Linked) /\ (Forward' <=> Forward)
BY DEF ends, Linked, Forward

\* Insertion.
LEMMA InsertStep ==
  ASSUME Inductive, NEW n \in Nodes, NEW v \in Values, InsertHead(n, v) \/ InsertTail(n, v)
  PROVE  Inductive'
<1> USE DEF Inductive
<1>1. Linked /\ Idle
  BY DEF InsertHead, InsertTail, Idle, CursorInList
<1>2. chain' \in Seq(Nodes) /\ Allocated' /\ Linked'
  BY <1>1, InsertHeadLinked, InsertTailLinked
<1>3. /\ live' = live \cup {n} /\ data' = [data EXCEPT ![n] = v]
      /\ UNCHANGED <<pc, cursor, wanted, calls, seen, got>>
      /\ head' \in Pointer /\ tail' \in Pointer
      /\ next' \in [Nodes -> Pointer] /\ prev' \in [Nodes -> Pointer]
  <2>1. CASE InsertHead(n, v)
    BY <2>1 DEF InsertHead, NewNode, walk, TypeOK, Pointer
  <2>2. CASE InsertTail(n, v)
    BY <2>2 DEF InsertTail, NewNode, walk, TypeOK, Pointer
  <2> QED BY <2>1, <2>2
<1>4. TypeOK'
  BY <1>2, <1>3 DEF TypeOK
<1>5. CursorInList'
  BY <1>1, <1>2, <1>3 DEF CursorInList, Idle, Freeing
<1>6. DataIsValue'
  BY <1>3 DEF DataIsValue, TypeOK
<1> QED BY <1>2, <1>4, <1>5, <1>6

\* Removal, whatever becomes of the walk: what is returned is a value.
LEMMA RemoveStep ==
  ASSUME Inductive, Linked, NEW n \in Range(chain), Unlink(n), Delete(n),
         pc' = "idle" /\ cursor' = Null,
         wanted' \in Values \cup {NoValue}, calls' \in Seq(Values), seen' = seen
  PROVE  Inductive'
<1> USE DEF Inductive
<1>1. chain' \in Seq(Nodes) /\ Allocated' /\ Linked'
  BY UnlinkLinked
<1>2. n \in Nodes /\ n \in live /\ data[n] \in Values
  BY ElementsOfRange DEF TypeOK, Allocated, DataIsValue
<1>3. chain # <<>> => head \in Nodes /\ tail \in Nodes
  BY DEF Linked, TypeOK
<1>4. chain # <<>>
  BY DEF Range
<1>5. /\ head' \in Pointer /\ tail' \in Pointer
      /\ next' \in [Nodes -> Pointer] /\ prev' \in [Nodes -> Pointer]
  <2>1. head \in Nodes /\ tail \in Nodes
    BY <1>3, <1>4
  <2>2. next \in [Nodes -> Pointer] /\ prev \in [Nodes -> Pointer] /\ Null \in Pointer
    BY DEF TypeOK, Pointer
  <2>3. \A x \in Nodes : x \in Pointer
    BY DEF Pointer
  <2>4. CASE n = head
    BY <2>1, <2>2, <2>3, <2>4 DEF Unlink, UnlinkHead, UnlinkOnly
  <2>5. CASE n # head /\ n = tail
    BY <2>1, <2>2, <2>3, <2>5 DEF Unlink, UnlinkTail, UnlinkOnly
  <2>6. CASE n # head /\ n # tail
    BY <1>2, <2>1, <2>2, <2>3, <2>6 DEF Unlink, ends
  <2> QED BY <2>4, <2>5, <2>6
<1>6. TypeOK'
  <2>1. live' \subseteq Nodes /\ got' \in Values \cup {NoValue} /\ data' = data
    BY <1>2 DEF Delete, TypeOK
  <2>2. pc' \in {"gone", "idle", "find", "each", "free", "freefn"} /\ cursor' \in Pointer
    BY DEF Pointer
  <2> QED BY <1>1, <1>5, <2>1, <2>2 DEF TypeOK
<1>7. CursorInList'
  BY <1>1 DEF CursorInList, Freeing
<1>8. DataIsValue'
  BY DEF DataIsValue, Delete
<1> QED BY <1>1, <1>6, <1>7, <1>8

\* A step of a walk: its cursor stays on the list, or leaves it at the end.
LEMMA CursorMoves ==
  ASSUME TypeOK, Allocated, Forward, NEW n \in Range(chain)
  PROVE  next[n] \in Range(chain) \cup {Null}
<1>1. PICK k \in 1..Len(chain) : chain[k] = n
  BY ElementsOfRange DEF TypeOK
<1>2. k # Len(chain) => k + 1 \in 1..Len(chain)
  BY DEF TypeOK
<1> QED BY <1>1, <1>2, ElementsOfRange DEF Forward, TypeOK

\* A walk that looks for a value, or calls a function, and its end.
LEMMA WalkStep ==
  ASSUME Inductive, FindStep \/ FindNothing \/ EachStep \/ EachEnd
  PROVE  Inductive'
<1> USE DEF Inductive
<1>1. Linked /\ Forward /\ cursor \in Range(chain) \cup {Null}
  BY DEF FindStep, FindNothing, EachStep, EachEnd, CursorInList, Linked
<1>2. <<>> \in Seq(Values) /\ NoValue \in Values \cup {NoValue}
  OBVIOUS
<1>3. CASE FindStep /\ data[cursor] = wanted
  BY <1>1, <1>2, <1>3, RemoveStep DEF FindStep, End
<1>4. CASE (FindStep /\ data[cursor] # wanted) \/ EachStep
  <2>1. /\ cursor # Null /\ cursor' = next[cursor] /\ pc' = pc /\ pc \in {"find", "each"}
        /\ UNCHANGED <<heap, wanted, got, seen, chain>>
    BY <1>4 DEF FindStep, EachStep
  <2>2. cursor' \in Range(chain) \cup {Null} /\ cursor \in live
    BY <1>1, <2>1, CursorMoves DEF Allocated
  <2>3. calls' \in Seq(Values)
    <3>1. data[cursor] \in Values
      BY <2>2 DEF DataIsValue
    <3>2. CASE FindStep /\ data[cursor] # wanted
      BY <3>2 DEF FindStep, TypeOK
    <3>3. CASE EachStep
      BY <3>1, <3>3, AppendKeeps DEF EachStep, TypeOK
    <3> QED BY <1>4, <3>2, <3>3
  <2>4. TypeOK'
    <3>1. Range(chain) \subseteq Nodes
      BY ElementsOfRange DEF TypeOK
    <3> QED BY <2>1, <2>2, <2>3, <3>1 DEF TypeOK, heap, ends, Pointer
  <2>5. CursorInList'
    BY <1>1, <2>1, <2>2, LinksStay DEF CursorInList, heap, Freeing
  <2> QED BY <2>1, <2>4, <2>5 DEF Allocated, DataIsValue, heap
<1>5. CASE FindNothing \/ EachEnd
  <2>1. /\ UNCHANGED <<heap, chain>> /\ pc' = "idle" /\ cursor' = Null
        /\ wanted' = NoValue /\ calls' = <<>>
        /\ got' \in Values \cup {NoValue} /\ seen' \in Seq(Values)
    BY <1>5 DEF FindNothing, EachEnd, End, TypeOK
  <2>2. TypeOK'
    BY <1>2, <2>1 DEF TypeOK, heap, ends, Pointer
  <2>3. CursorInList'
    BY <1>1, <2>1, LinksStay DEF CursorInList, heap, Freeing
  <2> QED BY <2>1, <2>2, <2>3 DEF Allocated, DataIsValue, heap
<1> QED BY <1>3, <1>4, <1>5

\* A step of the walk that frees the list: the first node goes.
LEMMA FreeingStep ==
  ASSUME Inductive, FreeStep
  PROVE  Inductive'
<1> USE DEF Inductive
<1>1. chain # <<>> /\ cursor = chain[1] /\ Forward /\ Freeing
  BY DEF FreeStep, CursorInList
<1>2. /\ chain' = Tail(chain) /\ cursor' = next[cursor] /\ live' = live \ {cursor}
      /\ UNCHANGED <<ends, next, prev, data, pc, wanted, got, seen>>
  BY DEF FreeStep
<1>3. /\ chain' \in Seq(Nodes) /\ Len(chain') = Len(chain) - 1
      /\ \A k \in 1..(Len(chain) - 1) : chain'[k] = chain[k + 1]
      /\ Range(chain') = Range(chain) \ {chain[1]} /\ IsInjective(chain')
  BY <1>1, <1>2, TailOfNew DEF TypeOK, Allocated
<1>4. Len(chain) \in Nat \ {0} /\ 1 \in 1..Len(chain) /\ chain[1] \in Range(chain)
  BY <1>1, ElementsOfRange DEF TypeOK
<1>5. Allocated'
  BY <1>1, <1>2, <1>3 DEF Allocated
<1>6. Forward'
  <2>1. ASSUME NEW k \in 1..Len(chain')
        PROVE  next'[chain'[k]] = IF k = Len(chain') THEN Null ELSE chain'[k + 1]
    <3>1. k + 1 \in 1..Len(chain) /\ chain'[k] = chain[k + 1]
      BY <1>3, <1>4
    <3>2. k # Len(chain') => chain'[k + 1] = chain[k + 2]
      BY <1>3, <1>4
    <3>3. next[chain[k + 1]] = IF k + 1 = Len(chain) THEN Null ELSE chain[(k + 1) + 1]
      BY <1>1, <3>1 DEF Forward
    <3>4. (k + 1) + 1 = k + 2 /\ (k + 1 = Len(chain) <=> k = Len(chain'))
      BY <1>3, <1>4
    <3> QED BY <1>2, <3>1, <3>2, <3>3, <3>4
  <2> QED BY <2>1 DEF Forward
<1>7. IF chain' = <<>> THEN cursor' = Null ELSE cursor' = chain'[1]
  <2>1. next[chain[1]] = IF 1 = Len(chain) THEN Null ELSE chain[2]
    <3>1. next[chain[1]] = IF 1 = Len(chain) THEN Null ELSE chain[1 + 1]
      BY <1>1, <1>4, Zenon DEF Forward
    <3> QED BY <3>1
  <2>2. chain' = <<>> <=> Len(chain) = 1
    BY <1>3, <1>4
  <2>3. Len(chain) # 1 => chain'[1] = chain[2]
    BY <1>3, <1>4
  <2> QED BY <1>1, <1>2, <2>1, <2>2, <2>3
<1>8. calls' \in Seq(Values)
  <2>1. data[cursor] \in Values
    BY <1>1, <1>4 DEF Allocated, DataIsValue
  <2> QED BY <2>1, AppendKeeps DEF FreeStep, TypeOK
<1>9. TypeOK'
  <2>1. live' \subseteq Nodes /\ cursor' \in Pointer
    BY <1>1, <1>2, <1>4 DEF TypeOK
  <2> QED BY <1>2, <1>3, <1>8, <2>1 DEF TypeOK, ends
<1>10. CursorInList'
  BY <1>1, <1>2, <1>6, <1>7 DEF CursorInList, Freeing
<1>11. DataIsValue'
  BY <1>2 DEF DataIsValue
<1> QED BY <1>5, <1>9, <1>10, <1>11

\* Steps that begin an operation, and the end of the list.
LEMMA OtherStep ==
  ASSUME Inductive, Create \/ FreeEnd \/ ForEach \/ FreeList \/ FreeNodes
                      \/ (\E v \in Values : RemoveValue(v)) \/ UNCHANGED vars
  PROVE  Inductive'
<1> USE DEF Inductive
<1>1. CASE UNCHANGED vars
  BY <1>1, LinksStay
     DEF vars, walk, heap, ends, TypeOK, Allocated, CursorInList, DataIsValue, Freeing
<1>2. CASE Create
  <2>1. chain = <<>> /\ chain' = <<>> /\ Len(chain') = 0
    BY <1>2 DEF Create, CursorInList
  <2>2. Linked'
    BY <1>2, <2>1 DEF Create, Linked, Forward
  <2>3. CursorInList'
    BY <1>2, <2>2 DEF Create, CursorInList, Freeing
  <2> QED BY <1>2, <2>3 DEF Create, TypeOK, Allocated, DataIsValue, Pointer
<1>3. CASE FreeEnd
  <2>1. chain = <<>>
    <3>1. chain # <<>> => chain[1] \in Nodes
      BY DEF TypeOK
    <3> QED BY <1>3, <3>1, ListAssumption DEF FreeEnd, CursorInList
  <2>2. /\ UNCHANGED <<heap, got, chain>> /\ pc' = "gone" /\ cursor' = Null
        /\ wanted' = NoValue /\ calls' = <<>> /\ seen' \in Seq(Values)
    BY <1>3 DEF FreeEnd, End, TypeOK
  <2>3. TypeOK'
    BY <2>2 DEF TypeOK, heap, ends, Pointer
  <2> QED BY <2>1, <2>2, <2>3 DEF Allocated, CursorInList, DataIsValue, heap, Freeing
<1>4. ASSUME NEW op \in {"find", "each", "free", "freefn"}, NEW v \in Values \cup {NoValue},
             Begin(op, v)
      PROVE  Inductive'
  <2>1. Linked /\ UNCHANGED <<heap, got, seen, chain>> /\ pc' = op /\ cursor' = head
        /\ wanted' = v /\ calls' = <<>>
    BY <1>4 DEF Begin, Idle, CursorInList
  <2>2. Linked' /\ Forward'
    BY <2>1, LinksStay DEF heap, Linked
  <2>3. chain # <<>> => 1 \in 1..Len(chain)
    BY DEF TypeOK
  <2>4. IF chain = <<>> THEN cursor' = Null ELSE cursor' = chain[1] /\ chain[1] \in Range(chain)
    BY <2>1, <2>3, ElementsOfRange DEF Linked, TypeOK
  <2>5. CursorInList'
    BY <2>1, <2>2, <2>4 DEF CursorInList, Freeing
  <2>6. TypeOK'
    BY <2>1 DEF TypeOK, heap, ends
  <2> QED BY <2>1, <2>5, <2>6 DEF Allocated, DataIsValue, heap
<1> QED BY <1>1, <1>2, <1>3, <1>4 DEF ForEach, FreeList, FreeNodes, RemoveValue

\* Every behaviour keeps the invariant.
LEMMA InductiveInvariant == Spec => []Inductive
<1>1. Init => Inductive
  BY ListAssumption
     DEF Init, Inductive, TypeOK, Allocated, CursorInList, DataIsValue, Pointer, Freeing,
         Range, IsInjective
<1>2. Inductive /\ [Next]_vars => Inductive'
  <2> SUFFICES ASSUME Inductive, [Next]_vars PROVE Inductive'
    OBVIOUS
  <2>1. CASE RemoveHead \/ RemoveTail \/ \E n \in Nodes : RemoveNode(n)
    <3>1. /\ Linked /\ pc = "idle" /\ cursor = Null /\ UNCHANGED walk
          /\ TypeOK /\ Allocated
      BY <2>1 DEF RemoveHead, RemoveTail, RemoveNode, Idle, Inductive, CursorInList
    <3>2. PICK n \in Range(chain) : Unlink(n) /\ Delete(n)
      BY <2>1, <3>1, EndsAreUnlinked DEF RemoveHead, RemoveTail, RemoveNode
    <3> QED BY <3>1, <3>2, RemoveStep DEF walk, Inductive, TypeOK
  <2> QED BY <2>1, InsertStep, WalkStep, FreeingStep, OtherStep DEF Next, Walk
<1> QED BY <1>1, <1>2, PTL DEF Spec

-----------------------------------------------------------------------------
(* The theorems. *)

\* The variables of the list keep their types.
THEOREM TypeCorrectness == Spec => []TypeOK
<1>1. Inductive => TypeOK
  BY DEF Inductive
<1> QED BY <1>1, InductiveInvariant, PTL

\* After every operation both directions lead through the same nodes.
THEOREM ChainTheorem == Spec => []ListIsChain
<1>1. Inductive => ListIsChain
  <2> SUFFICES ASSUME Inductive, ~Freeing, pc # "gone" PROVE ListIsChain
    BY DEF ListIsChain
  <2>1. Linked /\ TypeOK
    BY DEF Inductive, TypeOK, CursorInList, Freeing
  <2>2. chain # <<>> => head # Null
    BY <2>1, ListAssumption DEF Linked, TypeOK
  <2> QED BY <2>1, <2>2 DEF ListIsChain, Linked, Forward, IsEmpty, Last
<1> QED BY <1>1, InductiveInvariant, PTL

\* No walk meets freed memory, and nothing leaks down to the last free().
THEOREM MemoryTheorem == Spec => []NothingDangles
<1>1. Inductive => NothingDangles
  <2> SUFFICES ASSUME Inductive PROVE NothingDangles
    OBVIOUS
  <2>1. chain # <<>> => chain[1] \in Range(chain)
    BY ElementsOfRange DEF Inductive, TypeOK
  <2>2. cursor # Null => cursor \in live
    BY <2>1 DEF Inductive, TypeOK, Allocated, CursorInList, Freeing
  <2>3. chain = <<>> => Range(chain) = {}
    BY DEF Range
  <2> QED BY <2>2, <2>3 DEF NothingDangles, Inductive, Allocated, CursorInList
<1> QED BY <1>1, InductiveInvariant, PTL

-----------------------------------------------------------------------------
(* The list implements ValueList: how far a walk has come. *)

\* The walk is about to look at place k, or at the end.
WalkedTo(k) == cursor = IF k = Len(chain) + 1 THEN Null ELSE chain[k]

\* A search has found nothing yet, a walk has called the function on what it
\* passed, and a value is wanted only while it is searched for.
WalkInOrder ==
  /\ pc # "find" => wanted = NoValue
  /\ pc = "find" => /\ wanted \in Values
                    /\ \E k \in 1..(Len(chain) + 1) :
                         /\ WalkedTo(k)
                         /\ \A j \in 1..(k - 1) : data[chain[j]] # wanted
  /\ pc = "each" => /\ Len(calls) <= Len(chain) /\ WalkedTo(Len(calls) + 1)
                    /\ \A j \in 1..Len(calls) : calls[j] = data[chain[j]]

\* One node further.
LEMMA Advance ==
  ASSUME TypeOK, Linked, NEW k \in 1..(Len(chain) + 1), WalkedTo(k), cursor # Null
  PROVE  /\ k \in 1..Len(chain) /\ cursor = chain[k] /\ k + 1 \in 1..(Len(chain) + 1)
         /\ next[cursor] = IF k + 1 = Len(chain) + 1 THEN Null ELSE chain[k + 1]
<1>1. k \in 1..Len(chain) /\ cursor = chain[k] /\ k + 1 \in 1..(Len(chain) + 1)
  BY DEF TypeOK, WalkedTo
<1>2. k = Len(chain) <=> k + 1 = Len(chain) + 1
  BY <1>1 DEF TypeOK
<1> QED BY <1>1, <1>2 DEF Linked, Forward

\* Every step keeps the walk in order.
LEMMA OrderStep ==
  ASSUME Inductive, WalkInOrder, [Next]_vars
  PROVE  WalkInOrder'
<1> USE DEF Inductive
<1>1. ASSUME pc' \notin {"find", "each"}, wanted' = NoValue PROVE WalkInOrder'
  BY <1>1 DEF WalkInOrder
<1>2. CASE UNCHANGED vars
  BY <1>2 DEF vars, walk, heap, WalkInOrder, WalkedTo
<1>3. CASE Create
  BY <1>1, <1>3 DEF Create, WalkInOrder
<1>4. ASSUME NEW n \in Nodes, NEW v \in Values, InsertHead(n, v) \/ InsertTail(n, v)
      PROVE  WalkInOrder'
  BY <1>1, <1>4 DEF InsertHead, InsertTail, Idle, walk, WalkInOrder
<1>5. CASE RemoveHead \/ RemoveTail \/ \E n \in Nodes : RemoveNode(n)
  BY <1>1, <1>5 DEF RemoveHead, RemoveTail, RemoveNode, Idle, walk, WalkInOrder
<1>6. ASSUME NEW op \in {"find", "each", "free", "freefn"}, NEW v \in Values \cup {NoValue},
             Begin(op, v), op = "find" <=> v \in Values, op # "find" => v = NoValue
      PROVE  WalkInOrder'
  <2>1. /\ pc' = op /\ cursor' = head /\ wanted' = v /\ calls' = <<>> /\ Len(calls') = 0
        /\ chain' = chain /\ data' = data
    BY <1>6 DEF Begin, heap
  <2>2. Linked /\ Len(chain) \in Nat /\ (chain = <<>> <=> Len(chain) = 0)
    BY <1>6 DEF Begin, Idle, CursorInList, TypeOK
  <2>3. WalkedTo(1)'
    BY <2>1, <2>2 DEF WalkedTo, Linked
  <2>4. 1 \in 1..(Len(chain') + 1) /\ Len(calls') + 1 = 1 /\ 0 <= Len(chain')
    BY <2>1, <2>2
  <2>5. \A j \in 1..(1 - 1) : FALSE
    OBVIOUS
  <2> QED BY <1>6, <2>1, <2>3, <2>4, <2>5 DEF WalkInOrder
<1>7. CASE FindStep
  <2>1. CASE data[cursor] = wanted
    BY <1>1, <1>7, <2>1 DEF FindStep, End
  <2>2. CASE data[cursor] # wanted
    <3>1. /\ pc = "find" /\ pc' = "find" /\ cursor # Null /\ cursor' = next[cursor]
          /\ UNCHANGED <<wanted, data, chain>>
      BY <1>7, <2>2 DEF FindStep, heap
    <3>2. Linked
      BY <3>1 DEF CursorInList
    <3>3. PICK k \in 1..(Len(chain) + 1) :
            WalkedTo(k) /\ \A j \in 1..(k - 1) : data[chain[j]] # wanted
      BY <3>1 DEF WalkInOrder
    <3>4. /\ cursor = chain[k] /\ k + 1 \in 1..(Len(chain) + 1)
          /\ next[cursor] = IF k + 1 = Len(chain) + 1 THEN Null ELSE chain[k + 1]
      BY <3>1, <3>2, <3>3, Advance
    <3>5. WalkedTo(k + 1)'
      BY <3>1, <3>4 DEF WalkedTo
    <3>6. \A j \in 1..((k + 1) - 1) : data'[chain'[j]] # wanted'
      <4>1. \A j \in 1..((k + 1) - 1) : j \in 1..(k - 1) \/ j = k
        OBVIOUS
      <4> QED BY <2>2, <3>1, <3>3, <3>4, <4>1
    <3> QED BY <3>1, <3>4, <3>5, <3>6 DEF WalkInOrder
  <2> QED BY <2>1, <2>2
<1>8. CASE EachStep
  <2>1. /\ pc = "each" /\ pc' = "each" /\ cursor # Null /\ cursor' = next[cursor]
        /\ calls' = Append(calls, data[cursor]) /\ UNCHANGED <<wanted, data, chain>>
    BY <1>8 DEF EachStep, heap
  <2>2. Linked /\ wanted = NoValue
    BY <2>1 DEF CursorInList, WalkInOrder
  <2> DEFINE k == Len(calls) + 1
  <2>3. k \in 1..(Len(chain) + 1) /\ WalkedTo(k)
    BY <2>1 DEF WalkInOrder, TypeOK
  <2>4. /\ k \in 1..Len(chain) /\ cursor = chain[k]
        /\ next[cursor] = IF k + 1 = Len(chain) + 1 THEN Null ELSE chain[k + 1]
    <3> HIDE DEF k
    <3> QED BY <2>1, <2>2, <2>3, Advance
  <2>5. cursor \in live
    BY <2>1, <2>2, <2>4, ElementsOfRange DEF Allocated, TypeOK
  <2>6. /\ Len(calls') = k /\ calls'[k] = data[cursor]
        /\ \A j \in 1..Len(calls) : calls'[j] = calls[j]
    BY <2>1, <2>5, AppendKeeps DEF TypeOK, DataIsValue
  <2>7. WalkedTo(Len(calls) + 1)'
    BY <2>1, <2>4, <2>6 DEF WalkedTo
  <2>8. Len(calls') <= Len(chain')
    BY <2>1, <2>4, <2>6 DEF TypeOK
  <2>9. \A j \in 1..Len(calls') : calls'[j] = data'[chain'[j]]
    <3>1. \A j \in 1..Len(calls') : j \in 1..Len(calls) \/ j = k
      BY <2>6 DEF TypeOK
    <3>2. \A j \in 1..Len(calls) : calls[j] = data[chain[j]]
      BY <2>1 DEF WalkInOrder
    <3> QED BY <2>1, <2>4, <2>6, <3>1, <3>2
  <2> QED BY <2>1, <2>2, <2>7, <2>8, <2>9 DEF WalkInOrder
<1>9. CASE FindNothing \/ EachEnd \/ FreeEnd
  BY <1>1, <1>9 DEF FindNothing, EachEnd, FreeEnd, End
<1>10. CASE FreeStep
  BY <1>1, <1>10 DEF FreeStep, Freeing, WalkInOrder
<1>11. CASE ForEach \/ FreeList \/ FreeNodes \/ \E v \in Values : RemoveValue(v)
  BY <1>6, <1>11, ListAssumption DEF ForEach, FreeList, FreeNodes, RemoveValue
<1> QED
  BY <1>2, <1>3, <1>4, <1>5, <1>7, <1>8, <1>9, <1>10, <1>11 DEF Next, Walk

-----------------------------------------------------------------------------
(* The list implements ValueList: its steps. *)

\* What is said of Items can be said of the list of values.
LEMMA ItemsType ==
  ASSUME Inductive
  PROVE  /\ Items \in Seq(Values) /\ Len(Items) = Len(chain) /\ Len(chain) \in Nat
         /\ \A k \in 1..Len(chain) : Items[k] = data[chain[k]] /\ data[chain[k]] \in Values
<1>1. \A k \in 1..Len(chain) : data[chain[k]] \in Values
  BY ElementsOfRange DEF Inductive, TypeOK, Allocated, DataIsValue
<1>2. Len(chain) \in Nat
  BY DEF Inductive, TypeOK
<1> QED BY <1>1, <1>2 DEF Items

\* The same after a step.
LEMMA ItemsTypeNext ==
  ASSUME Inductive'
  PROVE  /\ Items' \in Seq(Values) /\ Len(Items') = Len(chain') /\ Len(chain') \in Nat
         /\ \A k \in 1..Len(chain') : Items'[k] = data'[chain'[k]] /\ data'[chain'[k]] \in Values
<1>1. \A k \in 1..Len(chain') : data'[chain'[k]] \in Values
  BY ElementsOfRange DEF Inductive, TypeOK, Allocated, DataIsValue
<1>2. Len(chain') \in Nat
  BY DEF Inductive, TypeOK
<1> QED BY <1>1, <1>2 DEF Items

\* The data of the nodes of the chain outlives an allocation.
LEMMA DataStays ==
  ASSUME Inductive, NEW n \in Nodes, NEW v \in Values, NewNode(n, v)
  PROVE  /\ \A k \in 1..Len(chain) : data'[chain[k]] = data[chain[k]]
         /\ data'[n] = v
<1>1. n \notin Range(chain)
  BY DEF NewNode, Inductive, Allocated
<1>2. \A k \in 1..Len(chain) : chain[k] # n /\ chain[k] \in Nodes
  BY <1>1, ElementsOfRange DEF Inductive, TypeOK
<1> QED BY <1>2 DEF NewNode, Inductive, TypeOK

\* Insertion at the head.
LEMMA InsertHeadMaps ==
  ASSUME Inductive, Inductive', NEW n \in Nodes, NEW v \in Values, InsertHead(n, v)
  PROVE  Items' = <<v>> \o Items
<1>1. NewNode(n, v) /\ chain' = <<n>> \o chain
  BY DEF InsertHead
<1>2. /\ Len(chain') = Len(chain) + 1 /\ chain'[1] = n
      /\ \A k \in 1..Len(chain) : chain'[k + 1] = chain[k]
  BY <1>1 DEF Inductive, TypeOK
<1>3. /\ <<v>> \o Items \in Seq(Values) /\ Len(<<v>> \o Items) = Len(chain) + 1
      /\ (<<v>> \o Items)[1] = v
      /\ \A k \in 1..Len(chain) : (<<v>> \o Items)[k + 1] = Items[k]
  BY ItemsType
<1>4. ASSUME NEW k \in 1..Len(Items')
      PROVE  Items'[k] = (<<v>> \o Items)[k]
  <2>1. CASE k = 1
    <3>1. Items'[1] = data'[chain'[1]]
      BY <2>1, ItemsTypeNext
    <3> QED BY <1>1, <1>2, <1>3, <2>1, <3>1, DataStays
  <2>2. CASE k # 1
    <3> DEFINE j == k - 1
    <3>1. j \in 1..Len(chain) /\ k = j + 1 /\ k \in 1..Len(chain')
      BY <1>2, <2>2, ItemsType, ItemsTypeNext
    <3>2. Items'[k] = data'[chain'[k]] /\ Items[j] = data[chain[j]]
      BY <3>1, ItemsType, ItemsTypeNext
    <3> HIDE DEF j
    <3> QED BY <1>1, <1>2, <1>3, <3>1, <3>2, DataStays
  <2> QED BY <2>1, <2>2
<1>5. Items' \in Seq(Values) /\ Len(Items') = Len(chain) + 1
  BY <1>2, ItemsTypeNext
<1> QED BY <1>3, <1>4, <1>5, SameSequence

\* Insertion at the tail.
LEMMA InsertTailMaps ==
  ASSUME Inductive, Inductive', NEW n \in Nodes, NEW v \in Values, InsertTail(n, v)
  PROVE  Items' = Append(Items, v)
<1>1. NewNode(n, v) /\ chain' = Append(chain, n)
  BY DEF InsertTail
<1>2. /\ Len(chain') = Len(chain) + 1 /\ chain'[Len(chain) + 1] = n
      /\ \A k \in 1..Len(chain) : chain'[k] = chain[k]
  BY <1>1 DEF Inductive, TypeOK
<1>3. /\ Append(Items, v) \in Seq(Values) /\ Len(Append(Items, v)) = Len(chain) + 1
      /\ Append(Items, v)[Len(chain) + 1] = v
      /\ \A k \in 1..Len(chain) : Append(Items, v)[k] = Items[k]
  BY ItemsType, AppendKeeps
<1>4. ASSUME NEW k \in 1..Len(Items')
      PROVE  Items'[k] = Append(Items, v)[k]
  <2>1. k \in 1..Len(chain') /\ (k \in 1..Len(chain) \/ k = Len(chain) + 1)
    BY <1>2, ItemsType, ItemsTypeNext
  <2>2. Items'[k] = data'[chain'[k]]
    BY <2>1, ItemsTypeNext
  <2>3. CASE k \in 1..Len(chain)
    <3>1. Items[k] = data[chain[k]]
      BY <2>3, ItemsType
    <3> QED BY <1>1, <1>2, <1>3, <2>2, <2>3, <3>1, DataStays
  <2>4. CASE k = Len(chain) + 1
    BY <1>1, <1>2, <1>3, <2>2, <2>4, DataStays
  <2> QED BY <2>1, <2>3, <2>4
<1>5. Items' \in Seq(Values) /\ Len(Items') = Len(chain) + 1
  BY <1>2, ItemsTypeNext
<1> QED BY <1>3, <1>4, <1>5, SameSequence

\* Removal of the node at a place removes the item there.
LEMMA RemovalMaps ==
  ASSUME Inductive, Inductive', NEW m \in 1..Len(chain), Delete(chain[m])
  PROVE  Items' = RemoveAt(Items, m) /\ got' = Items[m]
<1>1. /\ Len(chain') = Len(chain) - 1 /\ data' = data
      /\ \A i \in 1..(Len(chain) - 1) : chain'[i] = IF i < m THEN chain[i] ELSE chain[i + 1]
  BY RemoveFirstProperties DEF Delete, Inductive, TypeOK, Allocated
<1>2. /\ RemoveAt(Items, m) \in Seq(Values) /\ Len(RemoveAt(Items, m)) = Len(chain) - 1
      /\ \A i \in 1..(Len(chain) - 1) :
           RemoveAt(Items, m)[i] = IF i < m THEN Items[i] ELSE Items[i + 1]
  BY ItemsType, RemoveAtProperties
<1>3. ASSUME NEW i \in 1..Len(Items')
      PROVE  Items'[i] = RemoveAt(Items, m)[i]
  <2>1. i \in 1..(Len(chain) - 1) /\ i \in 1..Len(chain') /\ i \in 1..Len(chain)
        /\ i + 1 \in 1..Len(chain)
    BY <1>1, ItemsType, ItemsTypeNext
  <2>2. /\ Items'[i] = data[chain'[i]]
        /\ Items[i] = data[chain[i]] /\ Items[i + 1] = data[chain[i + 1]]
    BY <1>1, <2>1, ItemsType, ItemsTypeNext
  <2> QED BY <1>1, <1>2, <2>1, <2>2
<1>4. Items' = RemoveAt(Items, m)
  <2>1. Items' \in Seq(Values) /\ Len(Items') = Len(chain) - 1
    BY <1>1, ItemsTypeNext
  <2> QED BY <1>2, <1>3, <2>1, SameSequence
<1>5. got' = Items[m]
  BY ItemsType DEF Delete
<1> QED BY <1>4, <1>5

\* A value that no item has is not removed.
LEMMA NothingRemoved ==
  ASSUME Inductive, NEW v, \A j \in 1..Len(chain) : data[chain[j]] # v
  PROVE  RemoveFirst(Items, v) = Items /\ ~Contains(Items, v)
<1>1. \A j \in 1..Len(Items) : Items[j] # v
  BY ItemsType
<1> QED BY <1>1 DEF RemoveFirst, Contains

\* ValueList takes its operators on sequences from the same module.
LEMMA SameOperators ==
  /\ \A s, i : Abstract!RemoveAt(s, i) = RemoveAt(s, i)
  /\ \A s, e : Abstract!RemoveFirst(s, e) = RemoveFirst(s, e)
  /\ \A s, e : Abstract!Contains(s, e) <=> Contains(s, e)
<1>1. \A s, i : Abstract!RemoveAt(s, i) = RemoveAt(s, i)
  BY DEF Abstract!RemoveAt, RemoveAt
<1>2. \A S : Abstract!Min(S) = Min(S)
  BY DEF Abstract!Min, Min
<1>3. \A s, e : Abstract!RemoveFirst(s, e) = RemoveFirst(s, e)
  BY <1>1, <1>2
     DEF Abstract!RemoveFirst, RemoveFirst, Abstract!SelectInSeq, SelectInSeq
<1>4. \A s, e : Abstract!Contains(s, e) <=> Contains(s, e)
  BY DEF Abstract!Contains, Contains
<1> QED BY <1>1, <1>3, <1>4

\* A search ends with the first item that has the value, or with none.
LEMMA SearchMaps ==
  ASSUME Inductive, Inductive', WalkInOrder,
         (FindStep /\ data[cursor] = wanted) \/ FindNothing
  PROVE  Abstract!RemoveWanted
<1>1. /\ pc = "find" /\ pc' = "idle" /\ wanted' = NoValue /\ seen' = seen
      /\ wanted \in Values /\ Linked /\ TypeOK
  BY DEF FindStep, FindNothing, End, WalkInOrder, Inductive, CursorInList
<1>2. PICK k \in 1..(Len(chain) + 1) :
        WalkedTo(k) /\ \A j \in 1..(k - 1) : data[chain[j]] # wanted
  BY <1>1 DEF WalkInOrder
<1>3. /\ Items' = RemoveFirst(Items, wanted)
      /\ got' = IF Contains(Items, wanted) THEN wanted ELSE NoValue
  <2>1. CASE FindStep /\ data[cursor] = wanted
    <3>1. cursor # Null /\ Delete(cursor)
      BY <2>1 DEF FindStep
    <3>2. k \in 1..Len(chain) /\ cursor = chain[k]
      BY <1>1, <1>2, <3>1, Advance
    <3>3. Items' = RemoveAt(Items, k) /\ got' = Items[k]
      BY <3>1, <3>2, RemovalMaps
    <3>4. /\ Items[k] = wanted /\ k \in 1..Len(Items)
          /\ \A j \in 1..(k - 1) : Items[j] # wanted
      <4>1. \A j \in 1..(k - 1) : j \in 1..Len(chain)
        BY <1>1, <3>2 DEF TypeOK
      <4> QED BY <1>2, <2>1, <3>2, <4>1, ItemsType
    <3> QED BY <3>3, <3>4, ItemsType, RemoveFirstAt
  <2>2. CASE FindNothing
    <3>1. cursor = Null /\ got' = NoValue /\ chain' = chain /\ data' = data
      BY <2>2 DEF FindNothing, heap
    <3>2. k = Len(chain) + 1
      <4>1. \A j \in 1..Len(chain) : chain[j] # Null
        BY <1>1, ListAssumption DEF TypeOK
      <4>2. k \in 1..Len(chain) \/ k = Len(chain) + 1
        BY <1>1 DEF TypeOK
      <4> QED BY <1>2, <3>1, <4>1, <4>2 DEF WalkedTo
    <3>3. \A j \in 1..Len(chain) : data[chain[j]] # wanted
      BY <1>1, <1>2, <3>2 DEF TypeOK
    <3> QED BY <3>1, <3>3, NothingRemoved DEF Items
  <2> QED BY <2>1, <2>2
<1>4. wanted # NoValue
  BY <1>1, ListAssumption
<1>5. /\ (IF Freeing \/ pc = "gone" THEN <<>> ELSE Items) = Items
      /\ (IF Freeing \/ pc = "gone" THEN <<>> ELSE Items)' = Items'
      /\ (IF pc = "freefn" THEN calls \o Items ELSE seen) = seen
      /\ (IF pc = "freefn" THEN calls \o Items ELSE seen)' = seen'
  BY <1>1 DEF Freeing
<1> QED BY <1>1, <1>3, <1>4, <1>5, SameOperators DEF Abstract!RemoveWanted

\* An empty list stands for the empty sequence.
LEMMA MapsInit == Init => Abstract!Init
BY DEF Init, Abstract!Init, Freeing

\* What the list shows while no walk frees it.
LEMMA Shown ==
  /\ pc \in {"idle", "find", "each"} =>
       /\ (IF Freeing \/ pc = "gone" THEN <<>> ELSE Items) = Items
       /\ (IF pc = "freefn" THEN calls \o Items ELSE seen) = seen
  /\ pc' \in {"idle", "find", "each"} =>
       /\ (IF Freeing \/ pc = "gone" THEN <<>> ELSE Items)' = Items'
       /\ (IF pc = "freefn" THEN calls \o Items ELSE seen)' = seen'
BY DEF Freeing

\* Insertion and removal at the ends, or of a node the caller holds.
LEMMA UpdateMaps ==
  ASSUME Inductive, Inductive', WalkInOrder,
         \/ \E n \in Nodes, v \in Values : InsertHead(n, v) \/ InsertTail(n, v)
         \/ RemoveHead \/ RemoveTail \/ \E n \in Nodes : RemoveNode(n)
  PROVE  Abstract!Operation
<1>1. pc = "idle" /\ pc' = "idle" /\ UNCHANGED <<wanted, seen>> /\ wanted = NoValue
  BY DEF InsertHead, InsertTail, RemoveHead, RemoveTail, RemoveNode, Idle, walk, WalkInOrder
<1>2. ASSUME NEW n \in Nodes, NEW v \in Values, InsertHead(n, v)
      PROVE  Abstract!InsertHead(v)
  <2>1. Items' = <<v>> \o Items /\ got' = got
    BY <1>2, InsertHeadMaps DEF InsertHead
  <2> QED BY <1>1, <2>1, Shown DEF Abstract!InsertHead
<1>3. ASSUME NEW n \in Nodes, NEW v \in Values, InsertTail(n, v)
      PROVE  Abstract!InsertTail(v)
  <2>1. Items' = Append(Items, v) /\ got' = got
    BY <1>3, InsertTailMaps DEF InsertTail
  <2> QED BY <1>1, <2>1, Shown DEF Abstract!InsertTail
<1>4. CASE RemoveHead \/ RemoveTail \/ \E n \in Nodes : RemoveNode(n)
  <2>1. PICK n \in Range(chain) : Delete(n)
    <3>1. TypeOK /\ Allocated /\ Linked
      BY <1>1 DEF Inductive, CursorInList
    <3> QED BY <1>4, <3>1, EndsAreUnlinked DEF RemoveHead, RemoveTail, RemoveNode
  <2>2. PICK m \in 1..Len(chain) : chain[m] = n
    BY ElementsOfRange DEF Inductive, TypeOK
  <2>3. Items' = RemoveAt(Items, m) /\ got' = Items[m]
    BY <2>1, <2>2, RemovalMaps
  <2>4. m \in 1..Len(Items)
    BY ItemsType
  <2>5. Abstract!Take(m)
    BY <1>1, <2>3, Shown, SameOperators DEF Abstract!Take
  <2>6. \E k \in 1..Len(IF Freeing \/ pc = "gone" THEN <<>> ELSE Items) : Abstract!Take(k)
    BY <1>1, <2>4, <2>5, Shown
  <2> QED BY <1>1, <2>6 DEF Abstract!Operation
<1> QED BY <1>1, <1>2, <1>3, <1>4 DEF Abstract!Operation

\* A walk that frees: what the function will be called with is what the list
\* held when the walk began.
LEMMA FreeingMaps ==
  ASSUME Inductive, Inductive', FreeStep, pc = "freefn"
  PROVE  calls' \o Items' = calls \o Items
<1>1. /\ chain # <<>> /\ cursor = chain[1] /\ chain' = Tail(chain) /\ data' = data
      /\ calls' = Append(calls, data[chain[1]])
      /\ calls \in Seq(Values) /\ calls' \in Seq(Values)
  BY DEF FreeStep, Inductive, TypeOK, CursorInList
<1>2. /\ Len(chain) \in Nat \ {0} /\ Len(chain') = Len(chain) - 1 /\ 1 \in 1..Len(chain)
      /\ \A k \in 1..(Len(chain) - 1) : chain'[k] = chain[k + 1]
  BY <1>1 DEF Inductive, TypeOK
<1>3. /\ Len(calls) \in Nat /\ Len(calls') = Len(calls) + 1
      /\ calls'[Len(calls) + 1] = Items[1]
      /\ \A k \in 1..Len(calls) : calls'[k] = calls[k]
  <2>1. Items[1] = data[chain[1]] /\ data[chain[1]] \in Values
    BY <1>2, ItemsType
  <2> QED BY <1>1, <2>1, AppendKeeps
<1>4. \A k \in 1..Len(Items') : Items'[k] = Items[k + 1]
  <2>1. ASSUME NEW k \in 1..Len(Items') PROVE Items'[k] = Items[k + 1]
    <3>1. k \in 1..(Len(chain) - 1) /\ k \in 1..Len(chain') /\ k + 1 \in 1..Len(chain)
      BY <1>2, ItemsTypeNext
    <3>2. Items'[k] = data'[chain'[k]] /\ Items[k + 1] = data[chain[k + 1]]
      BY <3>1, ItemsType, ItemsTypeNext
    <3> QED BY <1>1, <1>2, <3>1, <3>2
  <2> QED BY <2>1
<1>5. /\ Items \in Seq(Values) /\ Len(Items) = Len(chain)
      /\ Items' \in Seq(Values) /\ Len(Items') = Len(chain) - 1
  BY <1>2, ItemsType, ItemsTypeNext
<1>6. /\ calls \o Items \in Seq(Values) /\ calls' \o Items' \in Seq(Values)
      /\ Len(calls \o Items) = Len(calls) + Len(Items)
      /\ Len(calls' \o Items') = Len(calls') + Len(Items')
      /\ \A k \in 1..(Len(calls) + Len(Items)) :
           (calls \o Items)[k] = IF k <= Len(calls) THEN calls[k] ELSE Items[k - Len(calls)]
      /\ \A k \in 1..(Len(calls') + Len(Items')) :
           (calls' \o Items')[k] = IF k <= Len(calls') THEN calls'[k] ELSE Items'[k - Len(calls')]
  <2>1. ASSUME NEW s \in Seq(Values), NEW t \in Seq(Values)
        PROVE  /\ s \o t \in Seq(Values) /\ Len(s \o t) = Len(s) + Len(t)
               /\ \A k \in 1..(Len(s) + Len(t)) :
                    (s \o t)[k] = IF k <= Len(s) THEN s[k] ELSE t[k - Len(s)]
    BY ConcatProperties
  <2> QED BY <1>1, <1>5, <2>1
<1>7. ASSUME NEW k \in 1..Len(calls' \o Items')
      PROVE  (calls' \o Items')[k] = (calls \o Items)[k]
  <2>1. k \in 1..(Len(calls') + Len(Items')) /\ k \in 1..(Len(calls) + Len(Items))
    BY <1>2, <1>3, <1>5, <1>6
  <2>2. CASE k <= Len(calls)
    BY <1>3, <1>6, <2>1, <2>2
  <2>3. CASE k = Len(calls) + 1
    BY <1>3, <1>6, <2>1, <2>3
  <2>4. CASE k > Len(calls) + 1
    <3> DEFINE i == k - (Len(calls) + 1)
    <3>1. i \in 1..Len(Items') /\ i + 1 = k - Len(calls)
      BY <1>2, <1>3, <1>5, <2>1, <2>4
    <3>2. (calls' \o Items')[k] = Items'[i] /\ (calls \o Items)[k] = Items[k - Len(calls)]
      BY <1>3, <1>6, <2>1, <2>4
    <3> HIDE DEF i
    <3> QED BY <1>4, <3>1, <3>2
  <2> QED BY <1>3, <2>1, <2>2, <2>3, <2>4
<1>8. Len(calls' \o Items') = Len(calls \o Items)
  BY <1>2, <1>3, <1>5, <1>6
<1> QED BY <1>6, <1>7, <1>8, SameSequence

\* A walk that has come to the end has called the function on every item.
LEMMA EachMaps ==
  ASSUME Inductive, WalkInOrder, EachEnd
  PROVE  calls = Items
<1>1. /\ pc = "each" /\ cursor = Null /\ calls \in Seq(Values) /\ Len(calls) \in Nat
      /\ Len(calls) <= Len(chain) /\ WalkedTo(Len(calls) + 1)
      /\ \A j \in 1..Len(calls) : calls[j] = data[chain[j]]
  BY DEF EachEnd, WalkInOrder, Inductive, TypeOK
<1>2. \A j \in 1..Len(chain) : chain[j] # Null
  BY ListAssumption DEF Inductive, TypeOK
<1>3. Len(calls) = Len(chain)
  <2>1. Len(calls) # Len(chain) => Len(calls) + 1 \in 1..Len(chain)
    BY <1>1, ItemsType
  <2> QED BY <1>1, <1>2, <2>1 DEF WalkedTo
<1>4. \A j \in 1..Len(calls) : calls[j] = Items[j]
  BY <1>1, <1>3, ItemsType
<1> QED BY <1>1, <1>3, <1>4, ItemsType, SameSequence

\* The steps that begin a walk or free the list.
LEMMA FreeMaps ==
  ASSUME Inductive, Inductive', WalkInOrder, FreeList \/ FreeNodes
  PROVE  Abstract!Operation
<1>1. /\ pc = "idle" /\ pc' \in {"free", "freefn"} /\ wanted = NoValue /\ wanted' = NoValue
      /\ got' = got /\ seen' = seen /\ Items' = Items /\ calls' = <<>>
      /\ pc' = "freefn" <=> FreeNodes
  BY DEF FreeList, FreeNodes, Begin, Idle, heap, WalkInOrder, Items
<1>2. <<>> \o Items = Items
  BY ItemsType
<1>3. /\ (IF Freeing \/ pc = "gone" THEN <<>> ELSE Items)' = <<>>
      /\ (IF pc = "freefn" THEN calls \o Items ELSE seen)' \in {seen, Items}
  BY <1>1, <1>2 DEF Freeing
<1>4. Abstract!Free
  BY <1>1, <1>3, Shown DEF Abstract!Free
<1> QED BY <1>1, <1>4 DEF Abstract!Operation

\* Every step of the nodes is a step of the list of values or invisible.
LEMMA MapsNext ==
  Inductive /\ Inductive' /\ WalkInOrder /\ [Next]_vars => [Abstract!Next]_(Abstract!vars)
<1> SUFFICES ASSUME Inductive, Inductive', WalkInOrder, [Next]_vars
             PROVE  [Abstract!Next]_(Abstract!vars)
  OBVIOUS
<1>1. ASSUME UNCHANGED <<chain, data, wanted, got, seen>>,
             pc \in {"idle", "find", "each"}, pc' \in {"idle", "find", "each"}
      PROVE  UNCHANGED Abstract!vars
  <2>1. Items' = Items
    BY <1>1 DEF Items
  <2> QED BY <1>1, <2>1, Shown DEF Abstract!vars
<1>2. CASE UNCHANGED vars
  BY <1>2 DEF vars, walk, heap, Items, Freeing, Abstract!vars
<1>3. CASE Create
  <2>1. chain = <<>> /\ chain' = <<>> /\ Len(chain') = 0
    BY <1>3 DEF Create, Inductive, CursorInList
  <2>2. Items' = <<>>
    BY <2>1 DEF Items
  <2>3. pc = "gone" /\ pc' = "idle" /\ UNCHANGED <<wanted, got, seen>>
    BY <1>3 DEF Create
  <2> QED BY <2>2, <2>3, Shown DEF Abstract!vars
<1>4. CASE \/ \E n \in Nodes, v \in Values : InsertHead(n, v) \/ InsertTail(n, v)
           \/ RemoveHead \/ RemoveTail \/ \E n \in Nodes : RemoveNode(n)
  BY <1>4, UpdateMaps DEF Abstract!Next
<1>5. ASSUME NEW v \in Values, RemoveValue(v)
      PROVE  Abstract!Want(v)
  <2>1. /\ pc = "idle" /\ pc' = "find" /\ wanted = NoValue /\ wanted' = v
        /\ got' = got /\ seen' = seen /\ Items' = Items
    BY <1>5 DEF RemoveValue, Begin, Idle, heap, WalkInOrder, Items
  <2> QED BY <2>1, Shown DEF Abstract!Want
<1>6. CASE ForEach
  BY <1>1, <1>6 DEF ForEach, Begin, Idle, heap, WalkInOrder
<1>7. CASE FreeList \/ FreeNodes
  BY <1>7, FreeMaps DEF Abstract!Next
<1>8. CASE FindStep
  <2>1. CASE data[cursor] = wanted
    BY <1>8, <2>1, SearchMaps DEF Abstract!Next
  <2>2. CASE data[cursor] # wanted
    BY <1>1, <1>8, <2>2 DEF FindStep, heap
  <2> QED BY <2>1, <2>2
<1>9. CASE FindNothing
  BY <1>9, SearchMaps DEF Abstract!Next
<1>10. CASE EachStep
  BY <1>1, <1>10 DEF EachStep, heap
<1>11. CASE EachEnd
  <2>1. /\ pc = "each" /\ pc' = "idle" /\ wanted = NoValue /\ wanted' = NoValue
        /\ got' = got /\ seen' = Items /\ Items' = Items
    BY <1>11, EachMaps DEF EachEnd, End, heap, WalkInOrder, Items
  <2>2. Abstract!ForEach
    BY <2>1, Shown DEF Abstract!ForEach
  <2> QED BY <2>1, <2>2 DEF Abstract!Operation, Abstract!Next
<1>12. CASE FreeStep
  <2>1. Freeing /\ pc' = pc /\ UNCHANGED <<wanted, got, seen>>
    BY <1>12 DEF FreeStep
  <2>2. pc = "freefn" => calls' \o Items' = calls \o Items
    BY <1>12, FreeingMaps
  <2> QED BY <2>1, <2>2 DEF Freeing, Abstract!vars
<1>13. CASE FreeEnd
  <2>1. /\ Freeing /\ cursor = Null /\ pc' = "gone" /\ wanted' = NoValue /\ got' = got
        /\ seen' = IF pc = "freefn" THEN calls ELSE seen
    BY <1>13 DEF FreeEnd, End
  <2>2. chain = <<>> /\ calls \in Seq(Values) /\ wanted = NoValue
    <3>1. chain # <<>> => chain[1] \in Nodes
      BY DEF Inductive, TypeOK
    <3> QED BY <2>1, <3>1, ListAssumption
            DEF Inductive, TypeOK, CursorInList, WalkInOrder, Freeing
  <2>3. Items = <<>>
    BY <2>2, ItemsType
  <2>4. calls \o Items = calls
    BY <2>2, <2>3
  <2> QED BY <2>1, <2>2, <2>4 DEF Freeing, Abstract!vars
<1> QED
  BY <1>2, <1>3, <1>4, <1>5, <1>6, <1>7, <1>8, <1>9, <1>10, <1>11, <1>12, <1>13
     DEF Next, Walk, Abstract!Next

\* Callers see a list of values: a removal by value takes the first item that
\* has it, a walk with a function is called on every item in order.
THEOREM Refinement == Spec => ImplementsList
<1>1. Init => WalkInOrder
  BY DEF Init, WalkInOrder
<1>2. Inductive /\ WalkInOrder /\ [Next]_vars => WalkInOrder'
  BY OrderStep
<1> QED
  BY <1>1, <1>2, InductiveInvariant, MapsInit, MapsNext, PTL
     DEF Spec, ImplementsList, Abstract!Spec

=============================================================================
