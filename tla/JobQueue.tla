------------------------------ MODULE JobQueue ------------------------------
(***************************************************************************)
(* The job queue of a1/jobqueue.c: a linked list of malloc()ed nodes, a    *)
(* mutex, and a condition variable for consumers that find it empty.       *)
(*                                                                         *)
(* The mutex is held over each of Insert, Take and Sleep, and nothing      *)
(* outside of them looks at the list: each is one action.  A consumer that *)
(* leaves pthread_cond_wait() has to take the mutex and to look again.     *)
(* The prev pointers are left out: they are written and never read.        *)
(***************************************************************************)
EXTENDS Naturals, Sequences, FiniteSets, Functions

CONSTANTS
  Producers, Consumers,  \* the threads
  Nodes,                 \* addresses malloc() returns
  Jobs,                  \* data
  Null, NoJob,           \* the null pointer; what a consumer starts with
  Broadcast,             \* the flag of create_jobqueue()
  MaxJobs                \* bound: jobs created in a behaviour

ASSUME QueueAssumption ==
  /\ Null \notin Nodes
  /\ NoJob \notin Jobs
  /\ Producers \cap Consumers = {}
  /\ Consumers # {}
  /\ Broadcast \in BOOLEAN
  /\ MaxJobs \in Nat

VARIABLES
  head, tail,  \* of the jobqueue
  next, data,  \* of the nodes; what they held stays there after free()
  live,        \* nodes between their malloc() and their free()
  node,        \* producer -> the node it has created and not inserted
  pc,          \* consumer -> "idle", "lock" or "wait"
  val,         \* consumer -> what its last dequeue returned
  created,     \* how much of MaxJobs is used
  chain        \* history: the nodes in the order they were inserted

heap == <<head, tail, next, data, live>>
vars == <<heap, node, pc, val, created, chain>>

Waiting == {c \in Consumers : pc[c] = "wait"}

Init ==
  /\ head = Null /\ tail = Null
  /\ next = [n \in Nodes |-> Null]
  /\ data = [n \in Nodes |-> NoJob]
  /\ live = {}
  /\ node = [p \in Producers |-> Null]
  /\ pc = [c \in Consumers |-> "idle"]
  /\ val = [c \in Consumers |-> NoJob]
  /\ created = 0
  /\ chain = <<>>

-----------------------------------------------------------------------------
(* jobqueue_enqueue() *)

\* Mutant: node->next is not set, and holds what the memory held.
CreateUnset(p, n, j) ==
  /\ node[p] = Null /\ created < MaxJobs
  /\ n \notin live
  /\ live' = live \cup {n}
  /\ next' = [next EXCEPT ![n] = j]
  /\ data' = [data EXCEPT ![n] = j]
  /\ node' = [node EXCEPT ![p] = n]
  /\ created' = created + 1
  /\ UNCHANGED <<head, tail, pc, val, chain>>

\* __create_node(), before the mutex is taken.  An address is free again as
\* soon as the node that was there is.
Create(p, n, j) ==
  /\ node[p] = Null /\ created < MaxJobs
  /\ n \notin live
  /\ live' = live \cup {n}
  /\ next' = [next EXCEPT ![n] = Null]
  /\ data' = [data EXCEPT ![n] = j]
  /\ node' = [node EXCEPT ![p] = n]
  /\ created' = created + 1
  /\ UNCHANGED <<head, tail, pc, val, chain>>

\* The waiting consumers a signal or a broadcast wakes: one of them or all.
Woken(S) ==
  /\ S \subseteq Waiting
  /\ IF Broadcast THEN S = Waiting
                  ELSE Waiting # {} => \E c \in Waiting : S = {c}

\* Mutant: nobody is woken.
SignalNobody == UNCHANGED pc

Signal ==
  \E S \in SUBSET Waiting :
    /\ Woken(S)
    /\ pc' = [c \in Consumers |-> IF c \in S THEN "lock" ELSE pc[c]]

\* Mutant: the tail says whether the queue is empty, as in linked_list.c.
LinkAtTail(n) ==
  /\ IF tail # Null
     THEN next' = [next EXCEPT ![tail] = n, ![n] = Null] /\ UNCHANGED head
     ELSE head' = n /\ UNCHANGED next
  /\ tail' = n

\* Mutant: a new node is put before the head.
LinkAtHead(n) ==
  /\ next' = [next EXCEPT ![n] = head]
  /\ head' = n
  /\ tail' = IF head = Null THEN n ELSE tail

\* The tail is looked at only when there is a head: dequeue leaves it behind.
Link(n) ==
  /\ IF head # Null
     THEN next' = [next EXCEPT ![tail] = n, ![n] = Null] /\ UNCHANGED head
     ELSE head' = n /\ UNCHANGED next
  /\ tail' = n

Insert(p) ==
  /\ node[p] # Null
  /\ Link(node[p])
  /\ Signal
  /\ chain' = Append(chain, node[p])
  /\ node' = [node EXCEPT ![p] = Null]
  /\ UNCHANGED <<data, live, val, created>>

-----------------------------------------------------------------------------
(* jobqueue_dequeue() *)

Call(c) ==
  /\ pc[c] = "idle"
  /\ pc' = [pc EXCEPT ![c] = "lock"]
  /\ UNCHANGED <<heap, node, val, created, chain>>

Take(c) ==
  /\ pc[c] = "lock" /\ head # Null
  /\ val' = [val EXCEPT ![c] = data[head]]
  /\ head' = next[head]
  /\ live' = live \ {head}
  /\ pc' = [pc EXCEPT ![c] = "idle"]
  /\ chain' = Tail(chain)
  /\ UNCHANGED <<tail, next, data, node, created>>

\* Mutant: the wait is entered without a look at the queue.
SleepUnchecked(c) ==
  /\ pc[c] = "lock"
  /\ pc' = [pc EXCEPT ![c] = "wait"]
  /\ UNCHANGED <<heap, node, val, created, chain>>

Sleep(c) ==
  /\ pc[c] = "lock" /\ head = Null
  /\ pc' = [pc EXCEPT ![c] = "wait"]
  /\ UNCHANGED <<heap, node, val, created, chain>>

\* pthread_cond_wait() may return without a signal.
WakeSpuriously(c) ==
  /\ pc[c] = "wait"
  /\ pc' = [pc EXCEPT ![c] = "lock"]
  /\ UNCHANGED <<heap, node, val, created, chain>>

-----------------------------------------------------------------------------
Next ==
  \/ \E p \in Producers : Insert(p) \/ \E n \in Nodes, j \in Jobs : Create(p, n, j)
  \/ \E c \in Consumers : Call(c) \/ Take(c) \/ Sleep(c) \/ WakeSpuriously(c)

Spec == Init /\ [][Next]_vars

\* The threads run; nobody may count on a spurious wakeup.
Fairness ==
  /\ \A p \in Producers : WF_vars(Insert(p))
  /\ \A c \in Consumers : WF_vars(Call(c) \/ Take(c) \/ Sleep(c))

FairSpec == Spec /\ Fairness

-----------------------------------------------------------------------------
(* Properties. *)

Pointer == Nodes \cup {Null}

\* The variables hold what the declarations above say.
TypeOK ==
  /\ head \in Pointer /\ tail \in Pointer
  /\ next \in [Nodes -> Pointer]
  /\ data \in [Nodes -> Jobs \cup {NoJob}]
  /\ live \subseteq Nodes
  /\ node \in [Producers -> Pointer]
  /\ pc \in [Consumers -> {"idle", "lock", "wait"}]
  /\ val \in [Consumers -> Jobs \cup {NoJob}]
  /\ created \in Nat
  /\ chain \in Seq(Nodes)

\* The pointers lead through the jobs in the order they were put in, and
\* through nothing else: head and tail are stale only when the queue is empty,
\* no pointer that is followed leads to freed memory although addresses are
\* used again, and no node leaks.
ListIsChain ==
  /\ head = Null <=> chain = <<>>
  /\ chain # <<>> => head = chain[1] /\ tail = chain[Len(chain)]
  /\ \A k \in 1..Len(chain) : next[chain[k]] = IF k = Len(chain) THEN Null ELSE chain[k + 1]
  /\ IsInjective(chain)
  /\ live = Range(chain) \cup {node[p] : p \in {q \in Producers : node[q] # Null}}

\* A consumer sleeps on an empty queue, or another one is on its way to the
\* job: a signal reaches one consumer, and it may come before the wait.
SomebodyComes == chain # <<>> => Waiting # Consumers

\* Every job that is put in is taken out.
QueueDrains == (head # Null) ~> (head = Null)

\* The list of nodes implements the queue of jobs.
Abstract == INSTANCE Fifo WITH
  Readers <- Consumers,
  queue <- [k \in 1..Len(chain) |-> data[chain[k]]],
  got <- val

\* Callers see a FIFO queue: nodes, addresses and sleeping are invisible.
ImplementsFifo == Abstract!Spec

=============================================================================
