--------------------------- MODULE JobQueueProofs ---------------------------
(***************************************************************************)
(* Proofs about JobQueue, for any number of threads, addresses and jobs:   *)
(* the pointers are in order, no consumer sleeps while a job waits for all *)
(* of them, and the queue implements Fifo.                                 *)
(***************************************************************************)
EXTENDS JobQueue, SequenceLemmas

-----------------------------------------------------------------------------
(* The inductive invariant. *)

\* Nodes that are created and not inserted are new, and apart from each other.
CreatedApart ==
  /\ \A p \in Producers : node[p] # Null =>
       node[p] \notin Range(chain) /\ next[node[p]] = Null /\ data[node[p]] \in Jobs
  /\ \A p, q \in Producers : node[p] # Null /\ node[p] = node[q] => p = q

Inductive == TypeOK /\ ListIsChain /\ CreatedApart /\ SomebodyComes

-----------------------------------------------------------------------------
(* Every step preserves the invariant. *)

\* The steps of a consumer that does not touch the list.
Idle(c) == Call(c) \/ Sleep(c) \/ WakeSpuriously(c)

\* Creating a node leaves the chain alone: its address was free.
LEMMA CreateStep ==
  ASSUME Inductive, NEW p \in Producers, NEW n \in Nodes, NEW j \in Jobs,
         Create(p, n, j)
  PROVE  Inductive'
<1> USE DEF Inductive
<1>1. /\ n \notin Range(chain) /\ \A q \in Producers : node[q] # n
  <2>1. n # Null
    BY QueueAssumption
  <2> QED BY <2>1 DEF Create, ListIsChain
<1>2. TypeOK'
  BY DEF TypeOK, Create, Pointer
<1>3. ListIsChain'
  <2>1. \A k \in 1..Len(chain) : next'[chain[k]] = next[chain[k]]
    BY <1>1, ElementsOfRange DEF Create, TypeOK
  <2>2. {node'[q] : q \in {r \in Producers : node'[r] # Null}}
          = {node[q] : q \in {r \in Producers : node[r] # Null}} \cup {n}
    BY QueueAssumption DEF Create, TypeOK
  <2> QED BY <2>1, <2>2 DEF Create, ListIsChain
<1>4. CreatedApart'
  BY <1>1 DEF CreatedApart, Create, TypeOK
<1>5. SomebodyComes'
  BY DEF SomebodyComes, Waiting, Create
<1> QED BY <1>2, <1>3, <1>4, <1>5

\* A signal wakes somebody when somebody sleeps.
LEMMA SignalWakes ==
  ASSUME TypeOK, Signal
  PROVE  /\ pc' \in [Consumers -> {"idle", "lock", "wait"}]
         /\ Waiting' # Consumers
<1>1. PICK S \in SUBSET Waiting :
        Woken(S) /\ pc' = [c \in Consumers |-> IF c \in S THEN "lock" ELSE pc[c]]
  BY DEF Signal
<1>2. pc' \in [Consumers -> {"idle", "lock", "wait"}]
  BY <1>1 DEF TypeOK
<1>3. Waiting = {} \/ S # {}
  BY <1>1 DEF Woken
<1>4. Waiting' = Waiting \ S
  BY <1>1 DEF Waiting
<1> QED BY <1>2, <1>3, <1>4, QueueAssumption DEF Waiting

\* Inserting a node adds it at the end of the chain.
LEMMA InsertStep ==
  ASSUME Inductive, NEW p \in Producers, Insert(p)
  PROVE  Inductive'
<1> USE DEF Inductive
<1> DEFINE n == node[p]
<1>1. /\ n \in Nodes /\ n # Null /\ n \notin Range(chain) /\ next[n] = Null
      /\ chain \in Seq(Nodes) /\ IsInjective(chain)
  BY QueueAssumption DEF Insert, TypeOK, Pointer, CreatedApart, ListIsChain
<1>2. /\ chain' \in Seq(Nodes) /\ Len(chain') = Len(chain) + 1
      /\ \A k \in 1..Len(chain) : chain'[k] = chain[k]
      /\ chain'[Len(chain) + 1] = n
      /\ Range(chain') = Range(chain) \cup {n}
      /\ IsInjective(chain')
  <2>1. chain' = Append(chain, n)
    BY DEF Insert
  <2> HIDE DEF n
  <2>2. /\ Append(chain, n) \in Seq(Nodes) /\ Len(Append(chain, n)) = Len(chain) + 1
        /\ \A k \in 1..Len(chain) : Append(chain, n)[k] = chain[k]
        /\ Append(chain, n)[Len(chain) + 1] = n
        /\ Range(Append(chain, n)) = Range(chain) \cup {n}
        /\ IsInjective(Append(chain, n))
    BY <1>1, AppendNew, Zenon
  <2> QED BY <2>1, <2>2, Zenon
<1>3. /\ node' = [node EXCEPT ![p] = Null] /\ tail' = n /\ UNCHANGED <<data, live>>
      /\ Link(n) /\ Signal /\ UNCHANGED <<val, created>>
  BY DEF Insert, Link
<1>4. head # Null <=> chain # <<>>
  BY DEF ListIsChain
<1>5. /\ head' = chain'[1]
      /\ next' \in [Nodes -> Pointer]
      /\ \A k \in 1..Len(chain') :
           next'[chain'[k]] = IF k = Len(chain') THEN Null ELSE chain'[k + 1]
      /\ \A m \in Nodes : m \notin Range(chain) => next'[m] = next[m]
  <2>1. CASE chain = <<>>
    <3>1. head' = n /\ next' = next
      BY <1>3, <1>4, <2>1 DEF Link
    <3> QED BY <1>1, <1>2, <2>1, <3>1 DEF TypeOK
  <2>2. CASE chain # <<>>
    <3>1. /\ next' = [next EXCEPT ![tail] = n, ![n] = Null] /\ head' = head
          /\ head = chain[1] /\ tail = chain[Len(chain)]
      BY <1>3, <1>4, <2>2 DEF Link, ListIsChain
    <3>2. 1 \in 1..Len(chain) /\ Len(chain) \in 1..Len(chain)
      BY <1>1, <2>2
    <3>3. tail \in Range(chain) /\ tail \in Nodes /\ tail # n
      <4>1. tail \in Range(chain)
        BY <1>1, <3>1, <3>2, ElementsOfRange
      <4> QED BY <1>1, <4>1, ElementsOfRange
    <3>4. /\ next'[tail] = n /\ next'[n] = Null
          /\ \A m \in Nodes \ {tail, n} : next'[m] = next[m]
          /\ next' \in [Nodes -> Pointer]
      BY <1>1, <3>1, <3>3 DEF TypeOK, Pointer
    <3>5. ASSUME NEW k \in 1..Len(chain')
          PROVE  next'[chain'[k]] = IF k = Len(chain') THEN Null ELSE chain'[k + 1]
      <4>1. CASE k = Len(chain) + 1
        BY <1>2, <3>4, <4>1
      <4>2. CASE k = Len(chain)
        BY <1>2, <3>1, <3>2, <3>4, <4>2
      <4>3. CASE k \in 1..(Len(chain) - 1)
        <5>1. chain[k] \in Nodes /\ chain[k] # tail /\ chain[k] # n
          BY <1>1, <3>1, <3>2, <4>3 DEF IsInjective, Range
        <5>2. next[chain[k]] = chain[k + 1]
          BY <1>1, <4>3 DEF ListIsChain
        <5>3. chain'[k] = chain[k] /\ chain'[k + 1] = chain[k + 1] /\ k # Len(chain')
          BY <1>1, <1>2, <4>3
        <5> QED BY <3>4, <5>1, <5>2, <5>3
      <4> QED BY <1>1, <1>2, <4>1, <4>2, <4>3
    <3> QED BY <1>1, <1>2, <3>1, <3>2, <3>3, <3>4, <3>5
  <2> QED BY <2>1, <2>2
<1>6. TypeOK'
  BY <1>1, <1>2, <1>3, <1>5, SignalWakes DEF TypeOK, Pointer
<1>7. ListIsChain'
  <2>1. chain' # <<>> /\ head' # Null
    BY <1>1, <1>2, <1>5, QueueAssumption
  <2>2. live = Range(chain') \cup {node'[q] : q \in {r \in Producers : node'[r] # Null}}
    BY <1>1, <1>2, <1>3 DEF ListIsChain, TypeOK, CreatedApart
  <2> QED BY <1>2, <1>3, <1>5, <2>1, <2>2 DEF ListIsChain
<1>8. CreatedApart'
  BY <1>1, <1>2, <1>3, <1>5 DEF CreatedApart, TypeOK, Pointer
<1>9. SomebodyComes'
  BY <1>3, SignalWakes DEF SomebodyComes
<1> QED BY <1>6, <1>7, <1>8, <1>9

\* Taking the first job moves the head to the second node of the chain, and
\* the consumer that took it is awake.
LEMMA TakeStep ==
  ASSUME Inductive, NEW c \in Consumers, Take(c)
  PROVE  Inductive'
<1> USE DEF Inductive
<1>1. /\ chain \in Seq(Nodes) /\ IsInjective(chain) /\ chain # <<>>
      /\ head = chain[1] /\ tail = chain[Len(chain)]
      /\ \A k \in 1..Len(chain) :
           next[chain[k]] = IF k = Len(chain) THEN Null ELSE chain[k + 1]
      /\ \A k \in 1..Len(chain) : chain[k] \in Nodes
  BY DEF Take, ListIsChain, TypeOK
<1>2. chain' = Tail(chain) /\ head' = next[head] /\ UNCHANGED <<tail, next, data, node>>
  BY DEF Take
<1>3. /\ chain' \in Seq(Nodes) /\ Len(chain') = Len(chain) - 1
      /\ \A k \in 1..(Len(chain) - 1) : chain'[k] = chain[k + 1]
      /\ Range(chain') = Range(chain) \ {chain[1]}
      /\ IsInjective(chain')
  <2>1. /\ Tail(chain) \in Seq(Nodes) /\ Len(Tail(chain)) = Len(chain) - 1
        /\ \A k \in 1..(Len(chain) - 1) : Tail(chain)[k] = chain[k + 1]
        /\ Range(Tail(chain)) = Range(chain) \ {chain[1]}
        /\ IsInjective(Tail(chain))
    BY <1>1, TailOfNew, Zenon
  <2> QED BY <1>2, <2>1, Zenon
<1>4. 1 \in 1..Len(chain) /\ head \in Nodes /\ head \in Range(chain)
  <2>1. 1 \in 1..Len(chain)
    BY <1>1
  <2> QED BY <1>1, <2>1, ElementsOfRange
<1>5. Len(chain) \in Nat /\ Len(chain) >= 1
  BY <1>1
<1>6. live' = Range(chain') \cup {node'[p] : p \in {q \in Producers : node'[q] # Null}}
  <2>1. live' = live \ {head} /\ head = chain[1]
    BY <1>1 DEF Take
  <2>2. live = Range(chain) \cup {node[p] : p \in {q \in Producers : node[q] # Null}}
    BY DEF ListIsChain
  <2>3. \A p \in Producers : node[p] # Null => node[p] # head
    BY <1>4 DEF CreatedApart
  <2> QED BY <1>2, <1>3, <2>1, <2>2, <2>3
<1>7. /\ head' = Null <=> chain' = <<>>
      /\ chain' # <<>> => head' = chain'[1] /\ tail' = chain'[Len(chain')]
  <2>1. CASE Len(chain) = 1
    <3>1. head' = Null
      BY <1>1, <1>2, <1>4, <2>1
    <3>2. chain' = <<>>
      BY <1>3, <2>1
    <3> QED BY <3>1, <3>2
  <2>2. CASE Len(chain) # 1
    <3>1. 1 \in 1..(Len(chain) - 1) /\ 2 \in 1..Len(chain) /\ Len(chain) - 1 \in 1..(Len(chain) - 1)
      <4>1. \A l \in Nat : l >= 1 /\ l # 1 =>
              1 \in 1..(l - 1) /\ 2 \in 1..l /\ l - 1 \in 1..(l - 1)
        OBVIOUS
      <4> QED BY <1>5, <2>2, <4>1, Zenon
    <3>2. head' = chain[2] /\ chain[2] \in Nodes
      BY <1>1, <1>2, <1>4, <2>2, <3>1
    <3>3. chain'[1] = chain[2] /\ chain'[Len(chain')] = chain[Len(chain)]
      BY <1>3, <1>5, <3>1
    <3>4. chain' # <<>>
      BY <1>3, <1>5, <3>1
    <3> QED BY <1>1, <1>2, <3>2, <3>3, <3>4, QueueAssumption
  <2> QED BY <2>1, <2>2
<1>8. ASSUME NEW k \in 1..Len(chain')
      PROVE  next'[chain'[k]] = IF k = Len(chain') THEN Null ELSE chain'[k + 1]
  <2>1. k \in 1..(Len(chain) - 1) /\ Len(chain') = Len(chain) - 1 /\ k \in Int
    BY <1>3
  <2>2. chain'[k] = chain[k + 1] /\ k + 1 \in 1..Len(chain)
    BY <1>3, <1>5, <2>1
  <2>3. next'[chain[k + 1]] = IF k + 1 = Len(chain) THEN Null ELSE chain[(k + 1) + 1]
    BY <1>1, <1>2, <2>2
  <2>4. CASE k + 1 = Len(chain)
    BY <1>5, <2>1, <2>2, <2>3, <2>4
  <2>5. CASE k + 1 # Len(chain)
    <3>1. k + 1 \in 1..(Len(chain) - 1) /\ k # Len(chain')
      BY <1>5, <2>1, <2>2, <2>5
    <3>2. chain'[k + 1] = chain[(k + 1) + 1]
      BY <1>3, <3>1
    <3> QED BY <2>2, <2>3, <2>5, <3>1, <3>2
  <2> QED BY <2>4, <2>5
<1>9. ListIsChain'
  BY <1>3, <1>6, <1>7, <1>8 DEF ListIsChain
<1>10. TypeOK'
  <2>1. data[head] \in Jobs \cup {NoJob} /\ next[head] \in Pointer
    BY <1>4 DEF TypeOK
  <2>2. chain' \in Seq(Nodes)
    BY <1>2, <1>3
  <2> QED BY <2>1, <2>2 DEF TypeOK, Take
<1>11. CreatedApart'
  BY <1>2, <1>3 DEF CreatedApart
<1>12. SomebodyComes'
  <2>1. pc'[c] = "idle"
    BY DEF Take, TypeOK
  <2> QED BY <2>1 DEF SomebodyComes, Waiting
<1> QED BY <1>9, <1>10, <1>11, <1>12

\* A consumer goes to sleep only on an empty queue.
LEMMA IdleStep ==
  ASSUME Inductive, NEW c \in Consumers, Idle(c)
  PROVE  Inductive'
<1> USE DEF Inductive
<1>1. UNCHANGED <<head, tail, next, data, live, node, val, created, chain>>
  BY DEF Idle, Call, Sleep, WakeSpuriously, heap
<1>2. TypeOK'
  BY <1>1 DEF TypeOK, Idle, Call, Sleep, WakeSpuriously
<1>3. ListIsChain'
  BY <1>1 DEF ListIsChain
<1>4. CreatedApart'
  BY <1>1 DEF CreatedApart
<1>5. SomebodyComes'
  <2>1. CASE Call(c) \/ WakeSpuriously(c)
    BY <1>1, <2>1 DEF SomebodyComes, Waiting, Call, WakeSpuriously, TypeOK
  <2>2. CASE Sleep(c)
    BY <1>1, <2>2 DEF SomebodyComes, Sleep, ListIsChain
  <2> QED BY <2>1, <2>2 DEF Idle
<1> QED BY <1>2, <1>3, <1>4, <1>5

\* The queue starts empty and nobody waits.
LEMMA InitInductive == Init => Inductive
<1> SUFFICES ASSUME Init PROVE Inductive
  OBVIOUS
<1>1. TypeOK
  BY QueueAssumption DEF Init, TypeOK, Pointer
<1>2. ListIsChain
  BY DEF Init, ListIsChain, Range, IsInjective
<1>3. CreatedApart /\ SomebodyComes
  BY DEF Init, CreatedApart, SomebodyComes
<1> QED BY <1>1, <1>2, <1>3 DEF Inductive

\* Every step is one of the steps above.
LEMMA NextInductive == Inductive /\ [Next]_vars => Inductive'
<1> SUFFICES ASSUME Inductive, [Next]_vars PROVE Inductive'
  OBVIOUS
<1>1. ASSUME NEW p \in Producers, Insert(p) PROVE Inductive'
  BY <1>1, InsertStep
<1>2. ASSUME NEW p \in Producers, NEW n \in Nodes, NEW j \in Jobs, Create(p, n, j)
      PROVE  Inductive'
  BY <1>2, CreateStep
<1>3. ASSUME NEW c \in Consumers, Take(c) PROVE Inductive'
  BY <1>3, TakeStep
<1>4. ASSUME NEW c \in Consumers, Idle(c) PROVE Inductive'
  BY <1>4, IdleStep
<1>5. CASE UNCHANGED vars
  BY <1>5 DEF Inductive, TypeOK, ListIsChain, CreatedApart, SomebodyComes, Waiting,
              vars, heap
<1> QED BY <1>1, <1>2, <1>3, <1>4, <1>5 DEF Next, Idle

-----------------------------------------------------------------------------
(* The theorems. *)

\* The invariant holds in every reachable state.
THEOREM InductiveInvariance == Spec => []Inductive
BY InitInductive, NextInductive, PTL DEF Spec

\* The variables always hold what their declarations say.
THEOREM TypeCorrectness == Spec => []TypeOK
<1>1. Inductive => TypeOK
  BY DEF Inductive
<1> QED BY <1>1, InductiveInvariance, PTL

\* jobqueue_enqueue() and jobqueue_dequeue() keep the pointers in order although
\* dequeue leaves the tail pointing to memory it has freed, and neither loses a
\* node nor frees one twice.
THEOREM ChainTheorem == Spec => []ListIsChain
<1>1. Inductive => ListIsChain
  BY DEF Inductive
<1> QED BY <1>1, InductiveInvariance, PTL

\* No wakeup of jobqueue_enqueue() is lost: there is never a job while all
\* consumers sleep, with one signal for each job or a broadcast.
THEOREM WakeupTheorem == Spec => []SomebodyComes
<1>1. Inductive => SomebodyComes
  BY DEF Inductive
<1> QED BY <1>1, InductiveInvariance, PTL

-----------------------------------------------------------------------------
(* The refinement. *)

\* The queue of jobs that the list of nodes stands for.
Mapped == [k \in 1..Len(chain) |-> data[chain[k]]]

\* What is said of Mapped can be said of the queue of Fifo.
LEMMA MappedType ==
  ASSUME TypeOK
  PROVE  /\ Mapped \in Seq(Jobs \cup {NoJob}) /\ Len(Mapped) = Len(chain)
         /\ \A k \in 1..Len(chain) : Mapped[k] = data[chain[k]]
<1>1. Len(chain) \in Nat /\ \A k \in 1..Len(chain) : data[chain[k]] \in Jobs \cup {NoJob}
  BY DEF TypeOK
<1> QED BY <1>1 DEF Mapped

\* The same after a step.
LEMMA MappedTypeNext ==
  ASSUME TypeOK'
  PROVE  /\ Mapped' \in Seq(Jobs \cup {NoJob}) /\ Len(Mapped') = Len(chain')
         /\ \A k \in 1..Len(chain') : Mapped'[k] = data'[chain'[k]]
<1>1. /\ Len(chain') \in Nat
      /\ \A k \in 1..Len(chain') : data'[chain'[k]] \in Jobs \cup {NoJob}
  BY DEF TypeOK
<1> QED BY <1>1 DEF Mapped

\* An empty list stands for an empty queue.
LEMMA MapsInit == Init => Abstract!Init
<1> SUFFICES ASSUME Init PROVE Abstract!Init
  OBVIOUS
<1>1. chain = <<>> /\ val = [c \in Consumers |-> NoJob]
  BY DEF Init
<1>2. [k \in 1..Len(chain) |-> data[chain[k]]] = <<>>
  BY <1>1
<1> QED BY <1>1, <1>2 DEF Abstract!Init

\* Inserting a node puts its job at the end of the queue.
LEMMA InsertMaps ==
  ASSUME Inductive, Inductive', NEW p \in Producers, Insert(p)
  PROVE  Abstract!Put(data[node[p]]) /\ data[node[p]] \in Jobs
<1> DEFINE j == data[node[p]]
<1>1. TypeOK /\ TypeOK' /\ CreatedApart
  BY DEF Inductive
<1>2. /\ j \in Jobs /\ node[p] \in Nodes
      /\ chain' = Append(chain, node[p]) /\ data' = data /\ val' = val
  BY <1>1 DEF Insert, CreatedApart, TypeOK, Pointer
<1>3. /\ Mapped \in Seq(Jobs \cup {NoJob}) /\ Len(Mapped) = Len(chain)
      /\ \A k \in 1..Len(chain) : Mapped[k] = data[chain[k]]
  BY <1>1, MappedType
<1>4. /\ Mapped' \in Seq(Jobs \cup {NoJob}) /\ Len(Mapped') = Len(chain')
      /\ \A k \in 1..Len(chain') : Mapped'[k] = data'[chain'[k]]
  BY <1>1, MappedTypeNext
<1>5. /\ Len(chain') = Len(chain) + 1
      /\ \A k \in 1..Len(chain) : chain'[k] = chain[k]
      /\ chain'[Len(chain) + 1] = node[p]
      /\ chain \in Seq(Nodes)
  BY <1>1, <1>2 DEF TypeOK
<1> HIDE DEF j
<1>6. /\ Append(Mapped, j) \in Seq(Jobs \cup {NoJob})
      /\ Len(Append(Mapped, j)) = Len(chain) + 1
      /\ \A k \in 1..Len(chain) : Append(Mapped, j)[k] = Mapped[k]
      /\ Append(Mapped, j)[Len(chain) + 1] = j
  BY <1>2, <1>3
<1>7. ASSUME NEW k \in 1..Len(Mapped')
      PROVE  Mapped'[k] = Append(Mapped, j)[k]
  <2>1. CASE k \in 1..Len(chain)
    BY <1>2, <1>3, <1>4, <1>5, <1>6, <2>1
  <2>2. CASE k = Len(chain) + 1
    BY <1>2, <1>4, <1>5, <1>6, <2>2 DEF j
  <2>3. Len(Mapped') = Len(chain) + 1 /\ Len(chain) \in Nat
    BY <1>4, <1>5
  <2>4. \A l \in Nat : \A i \in 1..(l + 1) : i \in 1..l \/ i = l + 1
    OBVIOUS
  <2>5. k \in 1..Len(chain) \/ k = Len(chain) + 1
    BY <2>3, <2>4, Zenon
  <2> QED BY <2>1, <2>2, <2>5, Zenon
<1>8. Mapped' = Append(Mapped, j)
  BY <1>4, <1>5, <1>6, <1>7, SameSequence
<1> QED BY <1>2, <1>8 DEF Abstract!Put, Mapped, j

\* Taking a node hands out the job at the head of the queue.
LEMMA TakeMaps ==
  ASSUME Inductive, Inductive', NEW c \in Consumers, Take(c)
  PROVE  Abstract!Get(c)
<1>1. TypeOK /\ TypeOK' /\ ListIsChain
  BY DEF Inductive
<1>2. /\ chain # <<>> /\ head = chain[1] /\ chain \in Seq(Nodes)
      /\ chain' = Tail(chain) /\ data' = data /\ val' = [val EXCEPT ![c] = data[head]]
  BY <1>1 DEF Take, ListIsChain, TypeOK
<1>3. /\ Mapped \in Seq(Jobs \cup {NoJob}) /\ Len(Mapped) = Len(chain)
      /\ \A k \in 1..Len(chain) : Mapped[k] = data[chain[k]]
  BY <1>1, MappedType
<1>4. /\ Mapped' \in Seq(Jobs \cup {NoJob}) /\ Len(Mapped') = Len(chain')
      /\ \A k \in 1..Len(chain') : Mapped'[k] = data'[chain'[k]]
  BY <1>1, MappedTypeNext
<1>5. /\ Len(chain) \in Nat \ {0} /\ Len(chain') = Len(chain) - 1
      /\ \A k \in 1..(Len(chain) - 1) : chain'[k] = chain[k + 1]
  BY <1>2
<1>6. Mapped # <<>> /\ Head(Mapped) = data[head]
  <2>1. 1 \in 1..Len(chain)
    BY <1>5
  <2> QED BY <1>2, <1>3, <1>5, <2>1
<1>7. /\ Tail(Mapped) \in Seq(Jobs \cup {NoJob}) /\ Len(Tail(Mapped)) = Len(chain) - 1
      /\ \A k \in 1..(Len(chain) - 1) : Tail(Mapped)[k] = Mapped[k + 1]
  BY <1>3, <1>5, <1>6
<1>8. ASSUME NEW k \in 1..Len(Mapped')
      PROVE  Mapped'[k] = Tail(Mapped)[k]
  <2>1. k \in 1..(Len(chain) - 1) /\ k \in 1..Len(chain') /\ k + 1 \in 1..Len(chain)
    BY <1>4, <1>5
  <2>2. Mapped'[k] = data[chain[k + 1]]
    BY <1>2, <1>4, <1>5, <2>1
  <2>3. Tail(Mapped)[k] = Mapped[k + 1]
    BY <1>7, <2>1
  <2>4. Mapped[k + 1] = data[chain[k + 1]]
    BY <1>3, <2>1
  <2> QED BY <2>2, <2>3, <2>4
<1>9. Mapped' = Tail(Mapped)
  BY <1>4, <1>5, <1>7, <1>8, SameSequence
<1> QED BY <1>2, <1>6, <1>9 DEF Abstract!Get, Mapped

\* The other steps are invisible: a new node is at an address that no node of
\* the list has, so the job written there changes no job of the queue.
LEMMA CreateMaps ==
  ASSUME Inductive, Inductive', NEW p \in Producers, NEW n \in Nodes, NEW j \in Jobs,
         Create(p, n, j)
  PROVE  UNCHANGED Abstract!vars
<1>1. TypeOK /\ TypeOK' /\ ListIsChain
  BY DEF Inductive
<1>2. n \notin Range(chain) /\ chain' = chain /\ val' = val /\ data' = [data EXCEPT ![n] = j]
  BY <1>1 DEF Create, ListIsChain
<1>3. ASSUME NEW k \in 1..Len(chain)
      PROVE  data'[chain[k]] = data[chain[k]]
  <2>1. chain[k] # n /\ chain[k] \in Nodes
    BY <1>1, <1>2, ElementsOfRange DEF TypeOK
  <2> QED BY <1>1, <1>2, <2>1 DEF TypeOK
<1> QED BY <1>2, <1>3 DEF Abstract!vars

\* Every step of the list is a step of the queue or invisible.
LEMMA MapsNext == Inductive /\ Inductive' /\ [Next]_vars => [Abstract!Next]_(Abstract!vars)
<1> SUFFICES ASSUME Inductive, Inductive', [Next]_vars
             PROVE  [Abstract!Next]_(Abstract!vars)
  OBVIOUS
<1>1. ASSUME NEW p \in Producers, Insert(p) PROVE Abstract!Next
  <2>1. Abstract!Put(data[node[p]]) /\ data[node[p]] \in Jobs
    BY <1>1, InsertMaps
  <2> QED BY <2>1 DEF Abstract!Next, Abstract!Put
<1>2. ASSUME NEW p \in Producers, NEW n \in Nodes, NEW j \in Jobs, Create(p, n, j)
      PROVE  UNCHANGED Abstract!vars
  BY <1>2, CreateMaps
<1>3. ASSUME NEW c \in Consumers, Take(c) PROVE Abstract!Next
  BY <1>3, TakeMaps DEF Abstract!Next
<1>4. ASSUME NEW c \in Consumers, Idle(c) PROVE UNCHANGED Abstract!vars
  BY <1>4 DEF Idle, Call, Sleep, WakeSpuriously, heap, Abstract!vars
<1>5. CASE UNCHANGED vars
  BY <1>5 DEF vars, heap, Abstract!vars
<1> QED BY <1>1, <1>2, <1>3, <1>4, <1>5 DEF Next, Idle

\* Callers of the job queue see a FIFO queue, from which no job is lost, handed
\* out twice or handed out before an older one.
THEOREM Refinement == Spec => ImplementsFifo
BY InductiveInvariance, MapsInit, MapsNext, PTL DEF Spec, ImplementsFifo, Abstract!Spec

=============================================================================
