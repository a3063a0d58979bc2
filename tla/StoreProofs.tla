---------------------------- MODULE StoreProofs ----------------------------
(***************************************************************************)
(* Proofs about Store, for any servers, keys, writes and events.           *)
(*                                                                         *)
(* Types need to know that a thread runs at a server and calls one         *)
(* (ThreadsRun), and that a process knows and runs nothing after its end   *)
(* and has its node before (ProcessesEnd): an election then finds a first  *)
(* node, or makes its server the leader.                                   *)
(*                                                                         *)
(* ReplicasHoldRecent speaks of states without calls.  In between, a       *)
(* server may lack the recent writes, but then one of them still comes to  *)
(* it (HasOrAwaits), because the server that a request goes to knows all   *)
(* that have joined (ReachesAll).  A sync begins where all was idle, and   *)
(* until it ends the recent writes only get more: what it copies may be    *)
(* old, but is recent as what it replaces is (CopiesAreRecent).            *)
(***************************************************************************)
EXTENDS Store, SequenceLemmas, FiniteSetTheorems

USE StoreAssumption

-----------------------------------------------------------------------------
(* The first node of a list. *)

\* First() finds a node where there is one.
LEMMA FirstIsThere ==
  ASSUME NEW S \in SUBSET Nat, S # {}
  PROVE  First(S) \in S
<1>1. \E n \in S : \A m \in S : n <= m
  BY LeastExists
<1>2. First(S) = CHOOSE n \in S : \A m \in S : n <= m
  BY DEF First
<1> QED BY <1>1, <1>2, Zenon

-----------------------------------------------------------------------------
(* Types. *)

LEMMA ThreadType ==
  ASSUME NEW pc \in ThreadPc, NEW at \in Servers \cup {NoPort},
         NEW to \in Servers \cup {NoPort}, NEW left \in SUBSET Servers
  PROVE  Thread(pc, at, to, left) \in Threads
BY DEF Thread, Threads

LEMMA NoThreadType == NoThread \in Threads
BY ThreadType DEF NoThread, ThreadPc

\* One more write, and its threads.
LEMMA AppendWrite ==
  ASSUME NEW n \in Nat, NEW S, NEW f \in [1..n -> S], NEW x \in S
  PROVE  /\ Append(f, x) \in [1..(n + 1) -> S]
         /\ Append(f, x)[n + 1] = x
         /\ \A i \in 1..n : Append(f, x)[i] = f[i]
<1>1. f \in Seq(S) /\ Len(f) = n
  OBVIOUS
<1>2. /\ Append(f, x) \in Seq(S) /\ Len(Append(f, x)) = n + 1
      /\ \A i \in 1..n : Append(f, x)[i] = f[i]
      /\ Append(f, x)[n + 1] = x
  BY <1>1, AppendProperties
<1>3. \A g \in Seq(S) : g \in [1..Len(g) -> S]
  OBVIOUS
<1> QED BY <1>2, <1>3, Zenon

CallPc == {"start", "called", "handled", "broken"}

\* A thread runs at a server, and calls one if it is calling.
Runs(b, pcs) ==
  b = NoThread \/ ( /\ b.at \in Servers /\ b.pc \in pcs
                    /\ b.pc \notin {"start", "next"} => b.to \in Servers )

ThreadsRun ==
  /\ \A n \in Writes :
       Runs(request[n], CallPc) /\ Runs(broadcast[n], CallPc \cup {"next"})
  /\ \A s \in Servers :
       Runs(sync[s], CallPc) /\ (sync[s] # NoThread => sync[s].at = s /\ sync[s].to \in Servers)

\* What a process knows and runs is gone with it, and its node is not gone
\* before.
ProcessesEnd ==
  \A s \in Servers :
    /\ ~up[s] => leaderPort[s] = NoPort /\ ~leader[s] /\ sync[s] = NoThread
    /\ leader[s] \/ sync[s] # NoThread => leaderPort[s] # NoPort
    /\ zkPath[s] # 0 => zkPath[s] \in nodes
    /\ \A n \in Writes : request[n].at = s => up[s]

\* A server that has elected knows a leader.
LEMMA ElectType ==
  ASSUME TypeOK, ProcessesEnd, NEW s \in Servers, Elect(s)
  PROVE  /\ leader' \in [Servers -> BOOLEAN]
         /\ leaderPort' \in [Servers -> Servers \cup {NoPort}]
         /\ leaderPort'[s] \in Servers
         /\ peerPorts' \in [Servers -> SUBSET Servers]
         /\ sync' \in [Servers -> Threads]
         /\ steady' \in BOOLEAN
<1> DEFINE first == First(nodes)
<1>1. first # zkPath[s] => first \in nodes
  <2>1. nodes \in SUBSET Nat
    BY DEF TypeOK
  <2>2. CASE nodes = {}
    BY <2>2 DEF First, ProcessesEnd
  <2> QED BY <2>1, <2>2, FirstIsThere
<1>2. \A n \in nodes : made[n] \in Servers
  BY DEF TypeOK
<1> HIDE DEF first
<1>3. leaderPort' \in [Servers -> Servers \cup {NoPort}] /\ leaderPort'[s] \in Servers
  BY <1>1, <1>2 DEF Elect, TypeOK, first
<1>4. leader' \in [Servers -> BOOLEAN]
  BY DEF Elect, TypeOK
<1>5. peerPorts' \in [Servers -> SUBSET Servers]
  BY <1>2 DEF Elect, TypeOK, Ports
<1>6. sync' \in [Servers -> Threads]
  <2>1. Thread("start", s, leaderPort'[s], {}) \in Threads
    BY <1>3, ThreadType DEF ThreadPc
  <2> QED BY <2>1 DEF Elect, TypeOK
<1>7. steady' \in BOOLEAN
  BY DEF Elect, TypeOK
<1> QED BY <1>3, <1>4, <1>5, <1>6, <1>7

\* One entry of a table changes.
LEMMA EntryType ==
  ASSUME NEW A, NEW B, NEW f \in [A -> B], NEW a, NEW b \in B
  PROVE  [f EXCEPT ![a] = b] \in [A -> B]
OBVIOUS

LEMMA PutType ==
  ASSUME NEW V, NEW ds \in [Servers -> [Keys -> V]], NEW v \in V, NEW s, NEW k
  PROVE  [ds EXCEPT ![s][k] = v] \in [Servers -> [Keys -> V]]
<1>1. CASE s \in Servers
  <2>1. [ds[s] EXCEPT ![k] = v] \in [Keys -> V]
    BY <1>1, EntryType
  <2> QED BY <1>1, <2>1, EntryType
<1>2. CASE s \notin Servers
  BY <1>2
<1> QED BY <1>1, <1>2

LEMMA PcType ==
  ASSUME NEW b \in Threads, NEW pc \in ThreadPc
  PROVE  [b EXCEPT !.pc = pc] \in Threads
BY DEF Threads

\* The threads that carry the writes.
LEMMA WriteType ==
  ASSUME TypeOK, ThreadsRun, NEW n \in Writes, Write(n)
  PROVE  TypeOK'
<1> USE NoThreadType DEF TypeOK, zookeeper, group, views, history, calls
<1>0. /\ request[n] \in Threads /\ broadcast[n] \in Threads
      /\ \A b \in Threads : b.left \in SUBSET Servers /\ b.at \in Servers \cup {NoPort}
      /\ \A b \in Threads : \A pc \in ThreadPc : [b EXCEPT !.pc = pc] \in Threads
  BY PcType DEF Threads
<1>1. CASE RequestCall(n)
  <2>1. \A l \in Servers : Thread("called", request[n].at, l, {}) \in Threads
    BY <1>0, ThreadType DEF ThreadPc
  <2>2. request[n].at \in Servers
    BY <1>1 DEF RequestCall, ThreadsRun, Runs, NoThread, Thread
  <2>3. PICK b \in Threads : request' = [request EXCEPT ![n] = b]
    BY <1>1, <2>1, <2>2 DEF RequestCall
  <2>4. datastore' = datastore \/ Put(request[n].at, posts[n], n)
    BY <1>1 DEF RequestCall
  <2>5. request' \in [Writes -> Threads]
    <3>1. [request EXCEPT ![n] = b] \in [Writes -> Threads]
      BY EntryType
    <3> QED BY <2>3, <3>1
  <2>6. datastore' \in [Servers -> [Keys -> {0} \cup Writes]]
    <3>1. \A s : [datastore EXCEPT ![s][posts[n]] = n] \in [Servers -> [Keys -> {0} \cup Writes]]
      BY PutType
    <3> QED BY <2>4, <3>1 DEF Put
  <2> QED BY <1>1, <2>5, <2>6 DEF RequestCall, Writes
<1>2. CASE LeaderSet(n)
  <2>1. Broadcasting(request[n].to, request[n].at) \in Threads
    <3>1. /\ request[n].at \in Servers \cup {NoPort} /\ request[n].to \in Servers \cup {NoPort}
          /\ "start" \in ThreadPc /\ {} \in SUBSET Servers
      BY <1>0 DEF Threads, ThreadPc
    <3> QED BY <3>1, ThreadType, Zenon DEF Broadcasting
  <2>2. broadcast' \in [Writes -> Threads] /\ request' \in [Writes -> Threads]
    BY <1>0, <1>2, <2>1 DEF LeaderSet, ThreadPc
  <2>3. datastore' \in [Servers -> [Keys -> {0} \cup Writes]]
    BY <1>2, PutType DEF LeaderSet, Put
  <2> QED BY <1>2, <2>2, <2>3 DEF LeaderSet, Writes
<1>3. CASE RequestReply(n)
  <2>1. datastore' \in [Servers -> [Keys -> {0} \cup Writes]]
    BY <1>3, PutType DEF RequestReply, Put
  <2> QED BY <1>3, <2>1 DEF RequestReply, Writes
<1>4. ASSUME NEW left \in SUBSET Servers, Resume(n, left)
      PROVE  broadcast' \in [Writes -> Threads]
  <2>1. Thread("next", broadcast[n].at, NoPort, left) \in Threads
    BY <1>0, ThreadType DEF ThreadPc
  <2> QED BY <1>4, <2>1 DEF Resume
<1>5. CASE BroadcastCall(n)
  <2>1. Left(broadcast[n]) \in SUBSET Servers
    BY <1>0, <1>5 DEF Left, BroadcastCall, ThreadsRun, Runs, NoThread, Thread
  <2>2. ASSUME NEW p \in Left(broadcast[n])
        PROVE  Thread("called", broadcast[n].at, p, Left(broadcast[n]) \ {p}) \in Threads
    BY <1>0, <2>1, <2>2, ThreadType DEF ThreadPc
  <2>3. \/ Resume(n, {})
        \/ \E p \in Left(broadcast[n]) :
             \/ Resume(n, Left(broadcast[n]) \ {p})
             \/ broadcast' = [broadcast EXCEPT ![n] =
                  Thread("called", broadcast[n].at, p, Left(broadcast[n]) \ {p})]
    BY <1>5 DEF BroadcastCall
  <2>4. broadcast' \in [Writes -> Threads]
    BY <1>4, <2>1, <2>2, <2>3, EntryType
  <2> QED BY <1>5, <2>4 DEF BroadcastCall, Writes
<1>6. CASE FollowerSet(n)
  <2>1. datastore' \in [Servers -> [Keys -> {0} \cup Writes]]
    BY <1>6, PutType DEF FollowerSet, Put
  <2>2. broadcast' \in [Writes -> Threads]
    BY <1>0, <1>6 DEF FollowerSet, ThreadPc
  <2> QED BY <1>6, <2>1, <2>2 DEF FollowerSet, Writes
<1>7. CASE BroadcastReply(n)
  <2>1. broadcast' \in [Writes -> Threads]
    BY <1>0, <1>4, <1>7 DEF BroadcastReply
  <2> QED BY <1>7, <2>1 DEF BroadcastReply, Writes
<1>8. CASE CallBreaks(n)
  <2>1. request' \in [Writes -> Threads] /\ broadcast' \in [Writes -> Threads]
    BY <1>8, EntryType DEF CallBreaks
  <2> QED BY <1>8, <2>1 DEF CallBreaks, Writes
<1> QED BY <1>1, <1>2, <1>3, <1>5, <1>6, <1>7, <1>8 DEF Write

LEMMA SyncType ==
  ASSUME TypeOK, ThreadsRun, NEW s \in Servers,
         SyncFails(s) \/ SyncCall(s) \/ LeaderSync(s) \/ SyncReply(s)
  PROVE  TypeOK'
<1> USE DEF TypeOK, zookeeper, group, views, history, Writes
<1>1. \A pc \in ThreadPc : [sync[s] EXCEPT !.pc = pc] \in Threads
  BY PcType
<1>2. Empty \in [Keys -> {0} \cup Writes]
  BY DEF Empty
<1>3. CASE SyncFails(s)
  <2>1. sync' \in [Servers -> Threads]
    BY <1>3, NoThreadType, EntryType DEF SyncFails
  <2> QED BY <1>3, <2>1 DEF SyncFails
<1>4. CASE SyncCall(s)
  <2>1. sync' \in [Servers -> Threads]
    BY <1>1, <1>4 DEF SyncCall, ThreadPc
  <2> QED BY <1>4, <2>1 DEF SyncCall
<1>5. CASE LeaderSync(s)
  <2>1. sync' \in [Servers -> Threads]
    BY <1>1, <1>5 DEF LeaderSync, ThreadPc
  <2>2. sync[s].to \in Servers
    BY <1>5 DEF LeaderSync, ThreadsRun, Runs, NoThread, Thread
  <2>3. copy' \in [Servers -> [Keys -> {0} \cup Writes]]
    BY <1>5, <2>2 DEF LeaderSync
  <2> QED BY <1>5, <2>1, <2>3 DEF LeaderSync
<1>6. CASE SyncReply(s)
  <2>1. sync' \in [Servers -> Threads]
    BY <1>6, NoThreadType, EntryType DEF SyncReply
  <2>2. copy' \in [Servers -> [Keys -> {0} \cup Writes]]
    BY <1>2, <1>6 DEF SyncReply
  <2>3. datastore' \in [Servers -> [Keys -> {0} \cup Writes]]
    BY <1>6 DEF SyncReply
  <2> QED BY <1>6, <2>1, <2>2, <2>3 DEF SyncReply
<1> QED BY <1>3, <1>4, <1>5, <1>6

\* The number of nodes.
LEMMA CountType ==
  ASSUME TypeOK
  PROVE  Cardinality(nodes) \in Nat
<1>1. nodes \in SUBSET (1..Len(made)) /\ Len(made) \in Nat
  BY DEF TypeOK
<1>2. IsFiniteSet(1..Len(made))
  BY <1>1, FS_Interval
<1>3. IsFiniteSet(nodes)
  BY <1>1, <1>2, FS_Subset
<1> QED BY <1>3, FS_CardinalityType

LEMMA PostType ==
  ASSUME TypeOK, NEW s \in Servers, NEW k \in Keys, Post(s, k)
  PROVE  TypeOK'
<1> DEFINE N == Len(posts)
<1> USE DEF TypeOK, zookeeper, group, views
<1>1. /\ posts' \in Seq(Keys) /\ Len(posts') = N + 1 /\ N \in Nat
      /\ Writes = 1..N /\ Writes' = 1..(N + 1)
  BY AppendProperties DEF Post, Writes
<1>2. Broadcasting(s, NoPort) \in Threads /\ Thread("start", s, NoPort, {}) \in Threads
  BY ThreadType DEF Broadcasting, ThreadPc
<1>3. request' \in [1..(N + 1) -> Threads] /\ broadcast' \in [1..(N + 1) -> Threads]
  <2>1. PICK b, c \in Threads : request' = Append(request, b) /\ broadcast' = Append(broadcast, c)
    BY <1>2, NoThreadType DEF Post
  <2>2. request \in [1..N -> Threads] /\ broadcast \in [1..N -> Threads]
    BY <1>1
  <2>3. /\ Append(request, b) \in [1..(N + 1) -> Threads]
        /\ Append(broadcast, c) \in [1..(N + 1) -> Threads]
    BY <1>1, <2>2, AppendWrite
  <2> QED BY <2>1, <2>3
<1>4. {0} \cup Writes \subseteq {0} \cup Writes' /\ Len(posts') \in Writes'
  BY <1>1
<1>5. /\ datastore \in [Servers -> [Keys -> {0} \cup Writes']]
      /\ copy \in [Servers -> [Keys -> {0} \cup Writes']]
  BY <1>4
<1>6. datastore' \in [Servers -> [Keys -> {0} \cup Writes']]
  <2>1. [datastore EXCEPT ![s][k] = Len(posts')] \in [Servers -> [Keys -> {0} \cup Writes']]
    BY <1>4, <1>5, PutType
  <2> QED BY <1>5, <2>1 DEF Post, Put
<1>7. recent' \in [Keys -> SUBSET ({0} \cup Writes')]
  <2>1. (IF Idle THEN {} ELSE recent[k]) \cup {Len(posts')} \in SUBSET ({0} \cup Writes')
    BY <1>4
  <2>2. recent \in [Keys -> SUBSET ({0} \cup Writes')]
    BY <1>4
  <2> QED BY <2>1, <2>2 DEF Post
<1>8. events' \in 0..MaxEvents /\ steady' \in BOOLEAN
  BY DEF Post
<1> HIDE DEF N
<1> QED BY <1>1, <1>3, <1>5, <1>6, <1>7, <1>8 DEF Post

\* A call that is cut off is still a thread's.
LEMMA CutType ==
  ASSUME NEW b \in Threads, NEW s \in Servers, NEW pcs
  PROVE  Cut(b, s, pcs) \in Threads
BY NoThreadType, PcType DEF Cut, ThreadPc

LEMMA KillType ==
  ASSUME TypeOK, NEW s \in Servers, Kill(s)
  PROVE  TypeOK'
<1> USE DEF TypeOK, zookeeper
<1>1. Empty \in [Keys -> {0} \cup Writes] /\ Writes' = Writes
  BY DEF Empty, Kill, Writes
<1>2. PICK pcs \in {{"called"}, {"called", "handled"}} :
        /\ request' = [n \in Writes |-> Cut(request[n], s, pcs)]
        /\ broadcast' = [n \in Writes |-> Cut(broadcast[n], s, pcs)]
        /\ sync' = [t \in Servers |-> Cut(sync[t], s, pcs)]
  BY DEF Kill
<1>3. /\ request' \in [Writes -> Threads] /\ broadcast' \in [Writes -> Threads]
      /\ sync' \in [Servers -> Threads]
  BY <1>2, CutType
<1>4. /\ datastore' \in [Servers -> [Keys -> {0} \cup Writes]]
      /\ copy' \in [Servers -> [Keys -> {0} \cup Writes]]
  BY <1>1 DEF Kill
<1>5. events' \in 0..MaxEvents /\ steady' \in BOOLEAN
  BY DEF Kill, Happens
<1>6. /\ up' \in [Servers -> BOOLEAN] /\ looked' \in [Servers -> BOOLEAN]
      /\ zkPath' \in [Servers -> 0..Len(made)]
      /\ leader' \in [Servers -> BOOLEAN] /\ event' \in [Servers -> BOOLEAN]
      /\ leaderPort' \in [Servers -> Servers \cup {NoPort}]
      /\ peerPorts' \in [Servers -> SUBSET Servers]
      /\ numChildren' \in [Servers -> Nat]
  BY DEF Kill
<1> QED BY <1>1, <1>3, <1>4, <1>5, <1>6 DEF Kill

LEMMA LookType ==
  ASSUME TypeOK, ProcessesEnd, NEW s \in Servers, WatchFires(s) \/ InitLook(s)
  PROVE  TypeOK'
<1> USE DEF TypeOK, zookeeper, views, Writes
<1>1. numChildren' \in [Servers -> Nat]
  BY CountType DEF WatchFires, InitLook
<1>2. /\ leader' \in [Servers -> BOOLEAN]
      /\ leaderPort' \in [Servers -> Servers \cup {NoPort}]
      /\ peerPorts' \in [Servers -> SUBSET Servers]
      /\ sync' \in [Servers -> Threads] /\ steady' \in BOOLEAN
  BY ElectType DEF WatchFires, InitLook
<1>3. event' \in [Servers -> BOOLEAN] /\ looked' \in [Servers -> BOOLEAN]
  BY DEF WatchFires, InitLook
<1>4. UNCHANGED <<zookeeper, up, zkPath, datastore, posts, request, broadcast, copy, events, recent>>
  BY Zenon DEF WatchFires, InitLook
<1> QED BY <1>1, <1>2, <1>3, <1>4

LEMMA NodesType ==
  ASSUME TypeOK,
         \/ \E n \in nodes : Expire(n)
         \/ \E s \in Servers : MakeNode(s) \/ Boot(s)
  PROVE  TypeOK'
<1> USE DEF TypeOK, zookeeper, views, calls, history, Writes
<1>1. ASSUME NEW n \in nodes, Expire(n)
      PROVE  TypeOK'
  BY <1>1 DEF Expire, Fire
<1>2. ASSUME NEW s \in Servers, MakeNode(s)
      PROVE  TypeOK'
  <2>1. made' \in Seq(Servers) /\ Len(made') = Len(made) + 1 /\ Len(made) \in Nat
    BY <1>2, AppendProperties DEF MakeNode
  <2>2. 0..Len(made) \subseteq 0..Len(made') /\ Len(made') \in 0..Len(made')
    BY <2>1
  <2>3. zkPath' \in [Servers -> 0..Len(made')]
    BY <1>2, <2>2 DEF MakeNode
  <2>4. nodes' \subseteq DOMAIN made'
    BY <1>2, <2>1 DEF MakeNode
  <2>5. event' \in [Servers -> BOOLEAN]
    BY <1>2 DEF MakeNode, Fire
  <2> QED BY <1>2, <2>1, <2>3, <2>4, <2>5 DEF MakeNode
<1>3. ASSUME NEW s \in Servers, Boot(s)
      PROVE  TypeOK'
  <2>1. numChildren' \in [Servers -> Nat] /\ up' \in [Servers -> BOOLEAN]
    BY <1>3, CountType DEF Boot
  <2>2. events' \in 0..MaxEvents
    BY <1>3 DEF Boot, Happens
  <2> QED BY <1>3, <2>1, <2>2 DEF Boot
<1> QED BY <1>1, <1>2, <1>3

LEMMA TypeStep ==
  ASSUME TypeOK, ThreadsRun, ProcessesEnd, [Next]_vars
  PROVE  TypeOK'
<1>1. CASE UNCHANGED vars
  BY <1>1 DEF vars, TypeOK, zookeeper, group, views, calls, history, Writes
<1> QED BY <1>1, WriteType, SyncType, PostType, KillType, LookType, NodesType DEF Next

\* Each server has a node in the beginning.
LEMMA InitNodes ==
  ASSUME Init
  PROVE  /\ made \in Seq(Servers) /\ Cardinality(nodes) \in Nat
         /\ nodes = DOMAIN made /\ DOMAIN made = 1..Len(made) /\ made[1] \in Servers
         /\ \A s \in Servers : zkPath[s] \in nodes /\ made[zkPath[s]] = s
<1> DEFINE D == 1..Cardinality(Servers)
<1>1. Cardinality(Servers) \in Nat /\ IsFiniteSet(D) /\ Cardinality(D) = Cardinality(Servers)
  BY FS_CardinalityType, FS_Interval
<1>2. made \in [D -> Servers] /\ \A i, j \in D : i # j => made[i] # made[j]
  BY DEF Init, SetToSeqs
<1>3. made \in Seq(Servers) /\ Len(made) = Cardinality(Servers) /\ DOMAIN made = D /\ nodes = D
  <2>1. \A n \in Nat : \A f \in [1..n -> Servers] :
          f \in Seq(Servers) /\ Len(f) = n /\ DOMAIN f = 1..n
    OBVIOUS
  <2>2. made \in Seq(Servers) /\ Len(made) = Cardinality(Servers) /\ DOMAIN made = D
    BY <1>1, <1>2, <2>1, Zenon
  <2> QED BY <2>2 DEF Init
<1>4. \A s \in Servers : \E n \in D : made[n] = s
  <2>1. made \in Injection(D, Servers)
    BY <1>2 DEF Injection, IsInjective
  <2>2. made \in Surjection(D, Servers)
    BY <1>1, <2>1, FS_Injection
  <2> QED BY <2>2 DEF Surjection
<1>5. \A s \in Servers : zkPath[s] \in D /\ made[zkPath[s]] = s
  BY <1>3, <1>4 DEF Init
<1>6. made[1] \in Servers
  <2>1. 1 \in D
    BY <1>1, FS_EmptySet
  <2> QED BY <1>2, <2>1
<1> QED BY <1>1, <1>3, <1>5, <1>6

LEMMA TypeInit == Init => TypeOK
<1> SUFFICES ASSUME Init PROVE TypeOK
  OBVIOUS
<1>1. /\ made \in Seq(Servers) /\ Cardinality(nodes) \in Nat
      /\ nodes = DOMAIN made /\ DOMAIN made = 1..Len(made) /\ made[1] \in Servers
      /\ \A s \in Servers : zkPath[s] \in nodes
  BY InitNodes
<1>2. Len(made) \in Nat /\ \A n \in nodes : n \in 0..Len(made) /\ made[n] \in Servers
  BY <1>1
<1>3. zkPath \in [Servers -> 0..Len(made)]
  BY <1>1, <1>2 DEF Init
<1>4. peerPorts \in [Servers -> SUBSET Servers]
  <2>1. PICK seen \in [nodes -> nodes] : peerPorts = [s \in Servers |-> Ports(1..seen[zkPath[s]])]
    BY DEF Init
  <2>2. ASSUME NEW s \in Servers
        PROVE  Ports(1..seen[zkPath[s]]) \subseteq Servers
    <3>1. seen[zkPath[s]] \in nodes
      BY <1>1
    <3>2. 1..seen[zkPath[s]] \subseteq nodes
      BY <1>1, <1>2, <3>1
    <3> QED BY <1>2, <3>2 DEF Ports
  <2> QED BY <2>1, <2>2
<1>5. Writes = {} /\ request = <<>> /\ broadcast = <<>> /\ posts \in Seq(Keys)
  BY DEF Init, Writes
<1>6. /\ request \in [Writes -> Threads] /\ broadcast \in [Writes -> Threads]
      /\ sync \in [Servers -> Threads]
  BY <1>5, NoThreadType DEF Init
<1>7. \A V : 0 \in V => Empty \in [Keys -> V]
  BY DEF Empty
<1>8. /\ datastore \in [Servers -> [Keys -> {0} \cup Writes]]
      /\ copy \in [Servers -> [Keys -> {0} \cup Writes]]
  BY <1>7 DEF Init
<1>9. /\ leader \in [Servers -> BOOLEAN] /\ event \in [Servers -> BOOLEAN]
      /\ leaderPort \in [Servers -> Servers \cup {NoPort}]
      /\ numChildren \in [Servers -> Nat]
  BY <1>1 DEF Init
<1>10. /\ up \in [Servers -> BOOLEAN] /\ looked \in [Servers -> BOOLEAN]
       /\ events \in 0..MaxEvents /\ steady \in BOOLEAN
       /\ recent \in [Keys -> SUBSET ({0} \cup Writes)]
  BY DEF Init
<1> QED
  BY <1>1, <1>3, <1>4, <1>5, <1>6, <1>8, <1>9, <1>10 DEF TypeOK

-----------------------------------------------------------------------------
(* Threads and processes. *)

LEMMA NoThreadIs ==
  /\ NoThread.pc = "none" /\ NoThread.at = NoPort /\ NoThread.to = NoPort
  /\ NoThread.left = {}
BY DEF NoThread, Thread

\* A call goes on.
LEMMA RunsOn ==
  ASSUME NEW pcs, NEW b \in Threads, Runs(b, pcs), b.pc \notin {"none", "start", "next"},
         NEW pc \in pcs
  PROVE  Runs([b EXCEPT !.pc = pc], pcs)
BY NoThreadIs DEF Runs, Threads

LEMMA WriteRuns ==
  ASSUME TypeOK, ThreadsRun, NEW n \in Writes, Write(n)
  PROVE  ThreadsRun'
<1> USE DEF group, views, history
<1>0. /\ request \in [Writes -> Threads] /\ broadcast \in [Writes -> Threads]
      /\ leaderPort \in [Servers -> Servers \cup {NoPort}]
      /\ peerPorts \in [Servers -> SUBSET Servers]
      /\ \A m \in Writes : broadcast[m].left \in SUBSET Servers
  BY DEF TypeOK, Threads
<1>1. Writes' = Writes /\ sync' = sync
  BY DEF Write, RequestCall, LeaderSet, RequestReply, BroadcastCall, FollowerSet,
         BroadcastReply, CallBreaks, Writes
<1>2. /\ Runs(request[n], CallPc)
      /\ Runs(broadcast[n], CallPc \cup {"next"})
  BY DEF ThreadsRun
<1>3. ASSUME NEW b, Runs(b, CallPc), request' = [request EXCEPT ![n] = b], broadcast' = broadcast
      PROVE  ThreadsRun'
  BY <1>0, <1>1, <1>3 DEF ThreadsRun
<1>4. ASSUME NEW b, Runs(b, CallPc \cup {"next"}), broadcast' = [broadcast EXCEPT ![n] = b],
             request' = request
      PROVE  ThreadsRun'
  BY <1>0, <1>1, <1>4 DEF ThreadsRun
<1>5. \A pcs : Runs(NoThread, pcs)
  BY DEF Runs
<1>6. CASE RequestCall(n)
  <2>1. request[n].at \in Servers
    BY <1>2, <1>6, NoThreadIs DEF RequestCall, Runs
  <2>2. \A l \in Servers : Runs(Thread("called", request[n].at, l, {}), CallPc)
    BY <2>1 DEF Runs, Thread, CallPc
  <2>3. PICK b : Runs(b, CallPc) /\ request' = [request EXCEPT ![n] = b]
    BY <1>0, <1>5, <1>6, <2>1, <2>2 DEF RequestCall
  <2> QED BY <1>3, <1>6, <2>3 DEF RequestCall
<1>7. CASE LeaderSet(n)
  <2>1. request[n].to \in Servers /\ Runs([request[n] EXCEPT !.pc = "handled"], CallPc)
    BY <1>0, <1>2, <1>7, NoThreadIs, RunsOn DEF LeaderSet, Runs, CallPc
  <2>2. Runs(Broadcasting(request[n].to, request[n].at), CallPc \cup {"next"})
    BY <2>1 DEF Runs, Broadcasting, Thread, CallPc
  <2> QED BY <1>0, <1>1, <1>7, <2>1, <2>2 DEF LeaderSet, ThreadsRun
<1>8. CASE RequestReply(n)
  BY <1>3, <1>5, <1>8 DEF RequestReply
<1>9. ASSUME NEW left, Resume(n, left), request' = request, broadcast[n] # NoThread
      PROVE  ThreadsRun'
  <2>1. Runs(Thread("next", broadcast[n].at, NoPort, left), CallPc \cup {"next"})
    BY <1>2, <1>9 DEF Runs, Thread
  <2>2. PICK b : /\ Runs(b, CallPc \cup {"next"})
                 /\ broadcast' = [broadcast EXCEPT ![n] = b]
    BY <1>5, <1>9, <2>1 DEF Resume
  <2> QED BY <1>4, <1>9, <2>2
<1>10. CASE BroadcastCall(n)
  <2>1. broadcast[n] # NoThread /\ request' = request
    BY <1>10, NoThreadIs DEF BroadcastCall
  <2>2. Left(broadcast[n]) \subseteq Servers
    BY <1>0, <1>2, <2>1 DEF Left, Runs
  <2>3. ASSUME NEW p \in Left(broadcast[n]),
               broadcast' = [broadcast EXCEPT ![n] =
                 Thread("called", broadcast[n].at, p, Left(broadcast[n]) \ {p})]
        PROVE  ThreadsRun'
    <3>1. Runs(Thread("called", broadcast[n].at, p, Left(broadcast[n]) \ {p}),
               CallPc \cup {"next"})
      BY <1>2, <2>1, <2>2 DEF Runs, Thread, CallPc
    <3> QED BY <1>4, <2>1, <2>3, <3>1
  <2> QED BY <1>9, <1>10, <2>1, <2>3 DEF BroadcastCall
<1>11. CASE FollowerSet(n)
  <2>1. Runs([broadcast[n] EXCEPT !.pc = "handled"], CallPc \cup {"next"})
    BY <1>0, <1>2, <1>11, RunsOn DEF FollowerSet, CallPc
  <2> QED BY <1>4, <1>11, <2>1 DEF FollowerSet
<1>12. CASE BroadcastReply(n)
  <2>1. broadcast[n] # NoThread
    BY <1>12, NoThreadIs DEF BroadcastReply
  <2> QED BY <1>9, <1>12, <2>1 DEF BroadcastReply
<1>13. CASE CallBreaks(n)
  BY <1>3, <1>4, <1>5, <1>13 DEF CallBreaks
<1> QED
  BY <1>6, <1>7, <1>8, <1>10, <1>11, <1>12, <1>13 DEF Write

LEMMA SyncRuns ==
  ASSUME TypeOK, ThreadsRun, NEW s \in Servers,
         SyncFails(s) \/ SyncCall(s) \/ LeaderSync(s) \/ SyncReply(s)
  PROVE  ThreadsRun'
<1>1. UNCHANGED <<posts, request, broadcast>> /\ sync \in [Servers -> Threads]
  BY DEF SyncFails, SyncCall, LeaderSync, SyncReply, TypeOK
<1>2. ASSUME NEW b, Runs(b, CallPc), b # NoThread => b.at = s /\ b.to \in Servers,
             sync' = [sync EXCEPT ![s] = b]
      PROVE  ThreadsRun'
  BY <1>1, <1>2 DEF ThreadsRun, Writes
<1>3. CASE SyncFails(s) \/ SyncReply(s)
  BY <1>2, <1>3 DEF SyncFails, SyncReply, Runs
<1>4. ASSUME sync[s] # NoThread, NEW pc \in {"called", "handled"},
             sync' = [sync EXCEPT ![s].pc = pc]
      PROVE  ThreadsRun'
  <2> DEFINE b == [sync[s] EXCEPT !.pc = pc]
  <2>1. sync[s] \in Threads /\ Runs(sync[s], CallPc) /\ sync[s].at = s /\ sync[s].to \in Servers
    BY <1>1, <1>4 DEF ThreadsRun
  <2>2. b.at = s /\ b.to \in Servers /\ b.pc = pc
    BY <2>1 DEF Threads
  <2>3. Runs(b, CallPc)
    BY <2>2 DEF Runs, CallPc
  <2>4. sync' = [sync EXCEPT ![s] = b]
    BY <1>1, <1>4
  <2> HIDE DEF b
  <2> QED BY <1>2, <2>2, <2>3, <2>4
<1>5. CASE SyncCall(s) \/ LeaderSync(s)
  BY <1>4, <1>5, NoThreadIs DEF SyncCall, LeaderSync
<1> QED BY <1>3, <1>4, <1>5

\* The threads of the writes there were, and of the new one.
LEMMA PostThreads ==
  ASSUME TypeOK, NEW s \in Servers, NEW k \in Keys, Post(s, k)
  PROVE  /\ Len(posts') = Len(posts) + 1 /\ Len(posts) \in Nat
         /\ Writes' = Writes \cup {Len(posts')} /\ Len(posts') \notin Writes
         /\ posts'[Len(posts')] = k
         /\ \A n \in Writes : /\ posts'[n] = posts[n]
                              /\ request'[n] = request[n] /\ broadcast'[n] = broadcast[n]
         /\ IF leader[s]
            THEN /\ request'[Len(posts')] = NoThread
                 /\ broadcast'[Len(posts')] = Broadcasting(s, NoPort)
            ELSE /\ request'[Len(posts')] = Thread("start", s, NoPort, {})
                 /\ broadcast'[Len(posts')] = NoThread
<1> DEFINE N == Len(posts)
<1>1. /\ Len(posts') = N + 1 /\ N \in Nat /\ Writes = 1..N /\ Writes' = 1..(N + 1)
      /\ posts'[N + 1] = k /\ \A n \in 1..N : posts'[n] = posts[n]
  BY AppendProperties DEF Post, Writes, TypeOK
<1>2. request \in [1..N -> Threads] /\ broadcast \in [1..N -> Threads]
  BY <1>1 DEF TypeOK
<1>3. Broadcasting(s, NoPort) \in Threads /\ Thread("start", s, NoPort, {}) \in Threads
  BY ThreadType DEF Broadcasting, ThreadPc
<1> HIDE DEF N
<1>4. /\ \A n \in Writes : request'[n] = request[n] /\ broadcast'[n] = broadcast[n]
      /\ IF leader[s]
         THEN request'[N + 1] = NoThread /\ broadcast'[N + 1] = Broadcasting(s, NoPort)
         ELSE request'[N + 1] = Thread("start", s, NoPort, {}) /\ broadcast'[N + 1] = NoThread
  <2>1. ASSUME NEW b \in Threads, NEW c \in Threads,
               request' = Append(request, b), broadcast' = Append(broadcast, c)
        PROVE  /\ \A n \in Writes : request'[n] = request[n] /\ broadcast'[n] = broadcast[n]
               /\ request'[N + 1] = b /\ broadcast'[N + 1] = c
    BY <1>1, <1>2, <2>1, AppendWrite
  <2>2. CASE leader[s]
    <3>1. /\ request' = Append(request, NoThread)
          /\ broadcast' = Append(broadcast, Broadcasting(s, NoPort))
      BY <2>2 DEF Post
    <3> QED BY <1>3, <2>1, <2>2, <3>1, NoThreadType
  <2>3. CASE ~leader[s]
    <3>1. /\ request' = Append(request, Thread("start", s, NoPort, {}))
          /\ broadcast' = Append(broadcast, NoThread)
      BY <2>3 DEF Post
    <3> QED BY <1>3, <2>1, <2>3, <3>1, NoThreadType
  <2> QED BY <2>2, <2>3
<1>5. 1..(N + 1) = (1..N) \cup {N + 1} /\ N + 1 \notin 1..N
  BY <1>1
<1>6. Len(posts) = N
  BY DEF N
<1> QED BY <1>1, <1>4, <1>5, <1>6

LEMMA PostRuns ==
  ASSUME TypeOK, ThreadsRun, NEW s \in Servers, NEW k \in Keys, Post(s, k)
  PROVE  ThreadsRun'
<1> DEFINE N == Len(posts')
<1>1. /\ Runs(NoThread, CallPc) /\ Runs(NoThread, CallPc \cup {"next"})
      /\ Runs(Broadcasting(s, NoPort), CallPc \cup {"next"})
      /\ Runs(Thread("start", s, NoPort, {}), CallPc)
  BY DEF Runs, Broadcasting, Thread, CallPc
<1>2. sync' = sync
  BY DEF Post
<1>3. /\ Writes' = Writes \cup {N}
      /\ \A n \in Writes : request'[n] = request[n] /\ broadcast'[n] = broadcast[n]
      /\ Runs(request'[N], CallPc) /\ Runs(broadcast'[N], CallPc \cup {"next"})
  BY <1>1, PostThreads
<1> HIDE DEF N
<1> QED BY <1>2, <1>3 DEF ThreadsRun

LEMMA CutRuns ==
  ASSUME NEW b \in Threads, NEW s \in Servers, NEW pcs \in SUBSET {"called", "handled"},
         NEW all, "broken" \in all, Runs(b, all)
  PROVE  /\ Runs(Cut(b, s, pcs), all)
         /\ Cut(b, s, pcs) # NoThread => Cut(b, s, pcs).to = b.to /\ Cut(b, s, pcs).at = b.at
                                          /\ b.at # s /\ b # NoThread
<1>1. CASE b = NoThread
  BY <1>1, NoThreadIs DEF Cut, Runs
<1>2. CASE b.at = s
  BY <1>2, NoThreadIs DEF Cut, Runs
<1>3. CASE b.at # s /\ b # NoThread /\ b.to = s /\ b.pc \in pcs
  <2>1. Cut(b, s, pcs) = [b EXCEPT !.pc = "broken"]
    BY <1>3 DEF Cut
  <2>2. b.pc \in {"called", "handled"}
    BY <1>3
  <2>3. Runs(Cut(b, s, pcs), all)
    BY <2>1, <2>2, RunsOn
  <2> QED BY <1>3, <2>1, <2>3 DEF Threads
<1>4. CASE b.at # s /\ b # NoThread /\ ~(b.to = s /\ b.pc \in pcs)
  BY <1>4 DEF Cut
<1> QED BY <1>1, <1>2, <1>3, <1>4

LEMMA KillRuns ==
  ASSUME TypeOK, ThreadsRun, NEW s \in Servers, Kill(s)
  PROVE  ThreadsRun'
<1>1. PICK pcs \in SUBSET {"called", "handled"} :
        /\ request' = [n \in Writes |-> Cut(request[n], s, pcs)]
        /\ broadcast' = [n \in Writes |-> Cut(broadcast[n], s, pcs)]
        /\ sync' = [t \in Servers |-> Cut(sync[t], s, pcs)]
  BY DEF Kill
<1>2. Writes' = Writes /\ "broken" \in CallPc
  BY DEF Kill, Writes, CallPc
<1>3. /\ request \in [Writes -> Threads] /\ broadcast \in [Writes -> Threads]
      /\ sync \in [Servers -> Threads]
  BY DEF TypeOK
<1>4. ASSUME NEW n \in Writes
      PROVE  Runs(request'[n], CallPc) /\ Runs(broadcast'[n], CallPc \cup {"next"})
  BY <1>1, <1>2, <1>3, CutRuns DEF ThreadsRun
<1>5. ASSUME NEW t \in Servers
      PROVE  Runs(sync'[t], CallPc) /\ (sync'[t] # NoThread => sync'[t].at = t /\ sync'[t].to \in Servers)
  BY <1>1, <1>2, <1>3, CutRuns DEF ThreadsRun
<1> QED BY <1>2, <1>4, <1>5 DEF ThreadsRun

\* A list that has grown is only counted; otherwise the server elects.
LEMMA LookIs ==
  ASSUME TypeOK, ProcessesEnd, NEW s \in Servers, WatchFires(s) \/ InitLook(s)
  PROVE  /\ up[s] /\ sync[s] = NoThread
         /\ UNCHANGED <<zookeeper, up, zkPath, datastore, posts, request, broadcast, copy,
                        events, recent>>
         /\ \/ UNCHANGED <<leader, leaderPort, peerPorts, sync, steady>>
            \/ /\ Elect(s) /\ leaderPort'[s] \in Servers
               /\ leaderPort' = [leaderPort EXCEPT ![s] = leaderPort'[s]]
               /\ leader' = [leader EXCEPT ![s] = leader'[s]]
               /\ peerPorts' = [peerPorts EXCEPT ![s] = peerPorts'[s]]
               /\ \/ sync' = sync
                  \/ sync' = [sync EXCEPT ![s] = Thread("start", s, leaderPort'[s], {})]
<1>1. Elect(s) => leaderPort'[s] \in Servers
  BY ElectType
<1>2. ASSUME Elect(s)
      PROVE  /\ leaderPort' = [leaderPort EXCEPT ![s] = leaderPort'[s]]
             /\ leader' = [leader EXCEPT ![s] = leader'[s]]
             /\ peerPorts' = [peerPorts EXCEPT ![s] = peerPorts'[s]]
             /\ \/ sync' = sync
                \/ sync' = [sync EXCEPT ![s] = Thread("start", s, leaderPort'[s], {})]
  BY <1>2 DEF Elect, TypeOK
<1> QED BY <1>1, <1>2 DEF WatchFires, InitLook, zookeeper

LEMMA LookRuns ==
  ASSUME TypeOK, ThreadsRun, ProcessesEnd, NEW s \in Servers, WatchFires(s) \/ InitLook(s)
  PROVE  ThreadsRun'
<1>1. UNCHANGED <<posts, request, broadcast>>
  BY LookIs
<1>2. \/ sync' = sync
      \/ /\ leaderPort'[s] \in Servers
         /\ sync' = [sync EXCEPT ![s] = Thread("start", s, leaderPort'[s], {})]
  BY LookIs
<1>3. leaderPort'[s] \in Servers =>
        /\ Runs(Thread("start", s, leaderPort'[s], {}), CallPc)
        /\ Thread("start", s, leaderPort'[s], {}).at = s
        /\ Thread("start", s, leaderPort'[s], {}).to \in Servers
  BY DEF Runs, Thread, CallPc
<1>4. Writes' = Writes
  BY <1>1, Zenon DEF Writes
<1>5. \A n \in Writes' :
        Runs(request[n], CallPc)' /\ Runs(broadcast[n], CallPc \cup {"next"})'
  BY <1>1, <1>4, Zenon DEF ThreadsRun, Runs
<1>6. DOMAIN sync = Servers
  BY DEF TypeOK
<1>7. ASSUME NEW q \in Servers
      PROVE  /\ Runs(sync[q], CallPc)'
             /\ sync'[q] # NoThread => sync'[q].at = q /\ sync'[q].to \in Servers
  <2>1. CASE sync'[q] = sync[q]
    BY <2>1, Zenon DEF ThreadsRun, Runs
  <2>2. CASE sync'[q] # sync[q]
    <3>1. q = s /\ leaderPort'[s] \in Servers /\ sync'[q] = Thread("start", s, leaderPort'[s], {})
      BY <2>2, <1>2, <1>6
    <3> QED BY <3>1, <1>3, Zenon DEF Runs
  <2> QED BY <2>1, <2>2
<1> QED BY <1>5, <1>7, Zenon DEF ThreadsRun

LEMMA RunsStep ==
  ASSUME TypeOK, ThreadsRun, ProcessesEnd, [Next]_vars
  PROVE  ThreadsRun'
<1>1. CASE \/ UNCHANGED vars
           \/ \E n \in nodes : Expire(n)
           \/ \E s \in Servers : MakeNode(s) \/ Boot(s)
  BY <1>1 DEF vars, calls, Expire, MakeNode, Boot, ThreadsRun, Writes
<1> QED BY <1>1, WriteRuns, SyncRuns, PostRuns, KillRuns, LookRuns DEF Next

\* The thread of a request stays at its server.
LEMMA WriteAt ==
  ASSUME TypeOK, ThreadsRun, NEW n \in Writes, Write(n)
  PROVE  /\ UNCHANGED <<zookeeper, group, posts, sync, copy>> /\ Writes' = Writes
         /\ \A m \in Writes \ {n} : request'[m] = request[m] /\ broadcast'[m] = broadcast[m]
         /\ request'[n] # NoThread => request[n] # NoThread /\ request'[n].at = request[n].at
<1>1. UNCHANGED <<zookeeper, group, posts, sync, copy>> /\ Writes' = Writes
  BY DEF Write, RequestCall, LeaderSet, RequestReply, BroadcastCall, FollowerSet,
         BroadcastReply, CallBreaks, Writes
<1>2. \A m \in Writes \ {n} : request'[m] = request[m] /\ broadcast'[m] = broadcast[m]
  BY DEF Write, RequestCall, LeaderSet, RequestReply, BroadcastCall, FollowerSet,
         BroadcastReply, CallBreaks, Resume, TypeOK
<1>3. request'[n] # NoThread => request[n] # NoThread /\ request'[n].at = request[n].at
  <2>1. request \in [Writes -> Threads]
    BY DEF TypeOK
  <2>2. CASE RequestCall(n)
    <3>1. \A l \in Servers : Thread("called", request[n].at, l, {}).at = request[n].at
      BY DEF Thread
    <3>2. request[n] # NoThread /\ request[n].at \in Servers
      BY <2>2, NoThreadIs DEF RequestCall, ThreadsRun, Runs
    <3>3. leaderPort[request[n].at] \in Servers \cup {NoPort}
      BY <3>2 DEF TypeOK
    <3>4. request'[n] \in {NoThread, Thread("called", request[n].at, leaderPort[request[n].at], {})}
      BY <2>1, <2>2 DEF RequestCall
    <3> QED BY <3>2, <3>4 DEF Thread
  <2>3. CASE LeaderSet(n)
    BY <2>1, <2>3, NoThreadIs DEF LeaderSet, Threads
  <2>4. CASE RequestReply(n) \/ request' = request
    BY <2>1, <2>4 DEF RequestReply
  <2> QED
    BY <2>1, <2>2, <2>3, <2>4
    DEF Write, BroadcastCall, FollowerSet, BroadcastReply, CallBreaks
<1> QED BY <1>1, <1>2, <1>3

LEMMA EndStep ==
  ASSUME TypeOK, ThreadsRun, ProcessesEnd, [Next]_vars
  PROVE  ProcessesEnd'
<1> USE DEF zookeeper, group, views
<1>1. ASSUME NEW n \in Writes, Write(n)
      PROVE  ProcessesEnd'
  BY <1>1, WriteAt, NoThreadIs DEF ProcessesEnd
<1>2. ASSUME NEW s \in Servers,
             SyncFails(s) \/ SyncCall(s) \/ LeaderSync(s) \/ SyncReply(s)
      PROVE  ProcessesEnd'
  <2>1. /\ UNCHANGED <<zookeeper, group, posts, request>> /\ Writes' = Writes
        /\ \A t \in Servers : sync'[t] # NoThread => sync[t] # NoThread
    BY <1>2, NoThreadIs
    DEF SyncFails, SyncCall, LeaderSync, SyncReply, TypeOK, Writes
  <2> QED BY <2>1 DEF ProcessesEnd
<1>3. ASSUME NEW s \in Servers, NEW k \in Keys, Post(s, k)
      PROVE  ProcessesEnd'
  <2>1. /\ Writes' = Writes \cup {Len(posts')}
        /\ \A n \in Writes : request'[n] = request[n]
        /\ request'[Len(posts')] \in {NoThread, Thread("start", s, NoPort, {})}
    BY <1>3, PostThreads
  <2>2. request'[Len(posts')].at \in {NoPort, s}
    BY <2>1, NoThreadIs DEF Thread
  <2>3. up[s] /\ UNCHANGED <<zookeeper, group, sync>>
    BY <1>3 DEF Post
  <2> QED BY <2>1, <2>2, <2>3 DEF ProcessesEnd
<1>4. ASSUME NEW s \in Servers, Kill(s)
      PROVE  ProcessesEnd'
  <2>1. PICK pcs \in SUBSET {"called", "handled"} :
          /\ request' = [n \in Writes |-> Cut(request[n], s, pcs)]
          /\ sync' = [t \in Servers |-> Cut(sync[t], s, pcs)]
    BY <1>4 DEF Kill
  <2>2. Writes' = Writes /\ "broken" \in CallPc
    BY <1>4 DEF Kill, Writes, CallPc
  <2>3. ASSUME NEW t \in Servers, sync'[t] # NoThread
        PROVE  sync[t] # NoThread /\ t # s
    <3>1. sync[t] \in Threads /\ Runs(sync[t], CallPc)
      BY DEF TypeOK, ThreadsRun
    <3>2. sync[t] # NoThread /\ sync[t].at # s
      BY <2>1, <2>2, <2>3, <3>1, CutRuns
    <3>3. sync[s] = NoThread \/ sync[s].at = s
      BY DEF ThreadsRun
    <3> QED BY <3>2, <3>3
  <2>4. ASSUME NEW n \in Writes, request'[n] # NoThread
        PROVE  request'[n].at = request[n].at /\ request[n].at # s
    <3>1. request[n] \in Threads /\ Runs(request[n], CallPc)
      BY DEF TypeOK, ThreadsRun
    <3> QED BY <2>1, <2>2, <2>4, <3>1, CutRuns
  <2>5. ASSUME NEW t \in Servers
        PROVE  /\ t # s => /\ up'[t] = up[t] /\ zkPath'[t] = zkPath[t]
                           /\ leader'[t] = leader[t] /\ leaderPort'[t] = leaderPort[t]
               /\ ~up'[s] /\ zkPath'[s] = 0 /\ ~leader'[s] /\ leaderPort'[s] = NoPort
               /\ nodes' = nodes
    BY <1>4 DEF Kill, TypeOK
  <2> QED BY <2>2, <2>3, <2>4, <2>5, NoThreadIs DEF ProcessesEnd
<1>5. ASSUME NEW s \in Servers, WatchFires(s) \/ InitLook(s)
      PROVE  ProcessesEnd'
  <2>1. /\ up[s] /\ UNCHANGED <<zookeeper, up, zkPath, posts, request>> /\ Writes' = Writes
        /\ \A t \in Servers \ {s} : /\ leader'[t] = leader[t] /\ leaderPort'[t] = leaderPort[t]
                                    /\ sync'[t] = sync[t]
        /\ \/ UNCHANGED <<leader, leaderPort, sync>>
           \/ leaderPort'[s] \in Servers
    BY <1>5, LookIs DEF Writes, TypeOK
  <2> QED BY <2>1 DEF ProcessesEnd
<1>6. ASSUME NEW n \in nodes, Expire(n)
      PROVE  ProcessesEnd'
  BY <1>6 DEF Expire, ProcessesEnd, calls, Writes
<1>7. ASSUME NEW s \in Servers, MakeNode(s) \/ Boot(s)
      PROVE  ProcessesEnd'
  <2>1. CASE MakeNode(s)
    BY <2>1 DEF MakeNode, ProcessesEnd, calls, Writes, TypeOK
  <2>2. CASE Boot(s)
    BY <2>2 DEF Boot, ProcessesEnd, calls, Writes, TypeOK
  <2> QED BY <1>7, <2>1, <2>2
<1>8. CASE UNCHANGED vars
  BY <1>8 DEF vars, ProcessesEnd, calls, Writes
<1> QED BY <1>1, <1>2, <1>3, <1>4, <1>5, <1>6, <1>7, <1>8 DEF Next

\* The invariant of the types.
StoreInv == TypeOK /\ ThreadsRun /\ ProcessesEnd

LEMMA StoreInvariance == Spec => []StoreInv
<1>1. Init => StoreInv
  <2> SUFFICES ASSUME Init PROVE StoreInv
    OBVIOUS
  <2>1. Writes = {}
    BY DEF Init, Writes
  <2>2. ThreadsRun
    BY <2>1 DEF Init, ThreadsRun, Runs
  <2>3. ProcessesEnd
    BY <2>1, InitNodes DEF Init, ProcessesEnd
  <2> QED BY <2>2, <2>3, TypeInit DEF StoreInv
<1>2. StoreInv /\ [Next]_vars => StoreInv'
  BY TypeStep, RunsStep, EndStep DEF StoreInv
<1> QED BY <1>1, <1>2, PTL DEF Spec

\* The variables hold what is declared: a thread that runs has a server, a
\* server that has elected has a leader, and a node goes after its process.
THEOREM TypeTheorem == Spec => []TypeOK
BY StoreInvariance, PTL DEF StoreInv

-----------------------------------------------------------------------------
(* Replication, as long as all is steady. *)

\* A server whose data is to be the group's: one that leads, or has joined and
\* waits for no copy.
Holds(s) == leader[s] \/ (Joined(s) /\ sync[s] = NoThread)

\* The servers a broadcast has yet to write to.
Remaining(b) ==
  IF b.pc = "start" THEN peerPorts[b.at] \ {b.to}
  ELSE IF b.pc = "called" THEN b.left \cup {b.to}
  ELSE IF b.pc \in {"next", "handled"} THEN b.left
  ELSE {}

\* Write n has yet to come to a server: a request comes to all of them by the
\* broadcast it causes, or by its reply.
Awaits(n, s) ==
  \/ request[n].pc \in {"start", "called"}
  \/ request[n].pc = "handled" /\ request[n].at = s
  \/ s \in Remaining(broadcast[n])

UnderWay(n) == request[n] # NoThread \/ broadcast[n] # NoThread

IsRecent(d) == \A k \in Keys : d[k] \in recent[k]

\* The server that a request goes to will tell all that have joined.
ReachesAll(n) ==
  /\ request[n].pc = "start" =>
       \A t \in Servers : Joined(t) => t \in peerPorts[leaderPort[request[n].at]]
  /\ request[n].pc = "called" =>
       \A t \in Servers : Joined(t) => t \in peerPorts[request[n].to]

Carried(n) ==
  /\ request[n].pc # "broken" /\ broadcast[n].pc # "broken"
  /\ UnderWay(n) => n \in recent[posts[n]]
  /\ ReachesAll(n)

\* What a server has of a key is recent, or a write that is comes to it.
HasOrAwaits(s, k) ==
  \/ datastore[s][k] \in recent[k]
  \/ \E n \in Writes : posts[n] = k /\ Awaits(n, s)

\* A copy is made while nobody elects and every write adds to the recent ones,
\* so that it may be old, but is as good as what it replaces.
CopiesAreRecent ==
  (\E t \in Servers : sync[t] # NoThread) =>
    /\ \A s \in Servers : Holds(s) => IsRecent(datastore[s])
    /\ \A t \in Servers : sync[t].pc = "handled" => IsRecent(copy[t])

Replicates ==
  /\ \A n \in Writes : Carried(n)
  /\ \A s \in Servers, k \in Keys : Holds(s) => HasOrAwaits(s, k)
  /\ CopiesAreRecent

\* A step of write n that puts it into server x, or into none.
LEMMA CarryOn ==
  ASSUME TypeOK, Replicates, NEW n \in Writes, UnderWay(n),
         NEW x \in Servers \cup {NoPort},
         UNCHANGED <<group, posts, sync, copy, recent>>,
         \A m \in Writes \ {n} : request'[m] = request[m] /\ broadcast'[m] = broadcast[m],
         datastore' = [datastore EXCEPT ![x][posts[n]] = n],
         request'[n].pc # "broken", broadcast'[n].pc # "broken", ReachesAll(n)',
         \A s \in Servers : Holds(s) /\ s # x /\ Awaits(n, s) => Awaits(n, s)'
  PROVE  Replicates'
<1> USE DEF group, views
<1>1. /\ Writes' = Writes
      /\ \A s \in Servers : (Holds(s)' <=> Holds(s)) /\ (Joined(s)' <=> Joined(s))
      /\ \A b : Remaining(b)' = Remaining(b)
  BY DEF Writes, Holds, Joined, Remaining
<1>2. n \in recent[posts[n]]
  BY DEF Replicates, Carried
<1>3. \A m \in Writes : Carried(m)'
  <2>1. Carried(n)'
    BY <1>2 DEF Carried
  <2>2. ASSUME NEW m \in Writes \ {n}
        PROVE  Carried(m)'
    <3>1. UnderWay(m)' <=> UnderWay(m)
      BY <2>2 DEF UnderWay
    <3>2. ReachesAll(m) => ReachesAll(m)'
      BY <1>1, <2>2 DEF ReachesAll
    <3> QED BY <3>1, <3>2 DEF Carried, Replicates
  <2> QED BY <2>1, <2>2
<1>4. \A s \in Servers, k \in Keys :
        datastore'[s][k] = IF s = x /\ k = posts[n] THEN n ELSE datastore[s][k]
  BY DEF TypeOK
<1>5. ASSUME NEW s \in Servers, NEW k \in Keys, Holds(s)
      PROVE  HasOrAwaits(s, k)'
  <2>1. CASE s = x /\ k = posts[n]
    BY <1>2, <1>4, <2>1 DEF HasOrAwaits
  <2>2. CASE ~(s = x /\ k = posts[n]) /\ datastore[s][k] \in recent[k]
    BY <1>4, <2>2 DEF HasOrAwaits
  <2>3. ASSUME ~(s = x /\ k = posts[n]), NEW m \in Writes, posts[m] = k, Awaits(m, s)
        PROVE  HasOrAwaits(s, k)'
    <3>1. Awaits(m, s)'
      <4>1. CASE m = n
        BY <1>5, <2>3, <4>1
      <4>2. CASE m # n
        BY <1>1, <2>3, <4>2 DEF Awaits
      <4> QED BY <4>1, <4>2
    <3> QED BY <1>1, <2>3, <3>1 DEF HasOrAwaits
  <2> QED BY <1>5, <2>1, <2>2, <2>3 DEF Replicates, HasOrAwaits
<1>6. CopiesAreRecent'
  <2>1. \A s \in Servers : IsRecent(datastore[s]) => IsRecent(datastore[s])'
    BY <1>2, <1>4 DEF IsRecent
  <2>2. \A s \in Servers : IsRecent(copy[s]) => IsRecent(copy[s])'
    BY DEF IsRecent
  <2> QED BY <1>1, <2>1, <2>2 DEF CopiesAreRecent, Replicates
<1> QED BY <1>1, <1>3, <1>5, <1>6 DEF Replicates

LEMMA HoldsJoined ==
  ASSUME ProcessesEnd, NEW s \in Servers, Holds(s)
  PROVE  Joined(s)
BY DEF Holds, Joined, ProcessesEnd

LEMMA WriteReplicates ==
  ASSUME StoreInv, Replicates, NEW n \in Writes, Write(n), steady'
  PROVE  Replicates'
<1> USE DEF StoreInv
<1>1. /\ UNCHANGED <<group, posts, sync, copy>>
      /\ \A m \in Writes \ {n} : request'[m] = request[m] /\ broadcast'[m] = broadcast[m]
  BY WriteAt
<1>2. /\ request \in [Writes -> Threads] /\ broadcast \in [Writes -> Threads]
      /\ request[n] \in Threads /\ broadcast[n] \in Threads
      /\ \A s \in {NoPort} : [datastore EXCEPT ![s][posts[n]] = n] = datastore
  BY DEF TypeOK
<1>3. /\ Runs(request[n], CallPc) /\ Runs(broadcast[n], CallPc \cup {"next"})
      /\ Carried(n)
  BY DEF ThreadsRun, Replicates
<1>4. peerPorts' = peerPorts /\ up' = up /\ leaderPort' = leaderPort
  BY <1>1 DEF group, views
<1>5. CASE RequestCall(n)
  <2> DEFINE s == request[n].at  l == leaderPort[s]
  <2>1. request[n].pc = "start" /\ s \in Servers /\ UnderWay(n)
    BY <1>3, <1>5, NoThreadIs DEF RequestCall, Runs, UnderWay
  <2>2. request'[n] # NoThread
    BY <1>5 DEF RequestCall
  <2>3. /\ l \in Servers /\ request'[n] = Thread("called", s, l, {})
        /\ UNCHANGED <<datastore, broadcast, recent>>
    BY <1>2, <1>5, <2>1, <2>2 DEF RequestCall, TypeOK, history
  <2>4. request'[n].pc = "called" /\ request'[n].to = l
    BY <2>3 DEF Thread
  <2>5. ReachesAll(n)'
    BY <1>3, <1>4, <2>1, <2>4 DEF Carried, ReachesAll, Joined
  <2>6. \A t \in Servers : Awaits(n, t)'
    BY <2>4 DEF Awaits
  <2> HIDE DEF s, l
  <2> QED BY <1>1, <1>2, <1>3, <2>1, <2>3, <2>4, <2>5, <2>6, CarryOn DEF Carried
<1>6. CASE LeaderSet(n)
  <2> DEFINE s == request[n].at  l == request[n].to
  <2>1. request[n].pc = "called" /\ s \in Servers /\ l \in Servers /\ UnderWay(n)
    BY <1>3, <1>6, NoThreadIs DEF LeaderSet, Runs, UnderWay
  <2>2. request'[n].pc = "handled" /\ request'[n].at = s
    BY <1>2, <1>6 DEF LeaderSet, Threads
  <2>3. broadcast'[n].pc = "start" /\ broadcast'[n].at = l /\ broadcast'[n].to = s
    BY <1>2, <1>6 DEF LeaderSet, Broadcasting, Thread
  <2>4. ReachesAll(n)'
    BY <2>2 DEF ReachesAll
  <2>5. ASSUME NEW t \in Servers, Holds(t)
        PROVE  Awaits(n, t)'
    <3>1. t \in peerPorts[l]
      BY <1>3, <2>1, <2>5, HoldsJoined DEF Carried, ReachesAll
    <3>2. CASE t = s
      BY <2>2, <3>2 DEF Awaits
    <3>3. CASE t # s
      BY <1>4, <2>3, <3>1, <3>3 DEF Awaits, Remaining
    <3> QED BY <3>2, <3>3
  <2>6. recent' = recent /\ datastore' = [datastore EXCEPT ![l][posts[n]] = n]
    BY <1>6 DEF LeaderSet, Put, history
  <2> HIDE DEF s, l
  <2> QED BY <1>1, <2>1, <2>2, <2>3, <2>4, <2>5, <2>6, CarryOn
<1>7. CASE RequestReply(n)
  <2> DEFINE s == request[n].at
  <2>1. request[n].pc = "handled" /\ s \in Servers /\ UnderWay(n)
    BY <1>3, <1>7, NoThreadIs DEF RequestReply, Runs, UnderWay
  <2>2. request'[n].pc = "none" /\ broadcast' = broadcast
    BY <1>2, <1>7, NoThreadIs DEF RequestReply
  <2>3. ReachesAll(n)'
    BY <2>2 DEF ReachesAll
  <2>4. \A t \in Servers : t # s /\ Awaits(n, t) => Awaits(n, t)'
    BY <1>4, <2>1, <2>2 DEF Awaits, Remaining
  <2>5. recent' = recent /\ datastore' = [datastore EXCEPT ![s][posts[n]] = n]
    BY <1>7 DEF RequestReply, Put, history
  <2> HIDE DEF s
  <2> QED BY <1>1, <1>3, <2>1, <2>2, <2>3, <2>4, <2>5, CarryOn DEF Carried
<1>8. ASSUME NEW x \in Servers \cup {NoPort}, UNCHANGED <<request, recent>>,
             broadcast[n] # NoThread, broadcast'[n].pc # "broken",
             datastore' = [datastore EXCEPT ![x][posts[n]] = n],
             \A t \in Servers \ {x} :
               Holds(t) /\ t \in Remaining(broadcast[n]) => t \in Remaining(broadcast'[n])
      PROVE  Replicates'
  <2>1. ReachesAll(n)' /\ request'[n].pc # "broken"
    BY <1>3, <1>4, <1>8 DEF Carried, ReachesAll, Joined
  <2>2. \A t \in Servers : Holds(t) /\ t # x /\ Awaits(n, t) => Awaits(n, t)'
    <3>1. \A b : Remaining(b)' = Remaining(b)
      BY <1>4 DEF Remaining
    <3>2. Remaining(broadcast[n])' = Remaining(broadcast'[n])
      BY <1>4 DEF Remaining
    <3> QED BY <1>8, <3>2 DEF Awaits
  <2>3. UnderWay(n)
    BY <1>8 DEF UnderWay
  <2> QED BY <1>1, <1>8, <2>1, <2>2, <2>3, CarryOn
<1>9. ASSUME NEW left \in SUBSET Servers, Resume(n, left)
      PROVE  /\ broadcast'[n].pc \in {"none", "next"}
             /\ Remaining(broadcast'[n]) = left
  <2>1. CASE left = {}
    BY <1>2, <1>9, <2>1, NoThreadIs DEF Resume, Remaining
  <2>2. CASE left # {}
    BY <1>2, <1>9, <2>2 DEF Resume, Remaining, Thread
  <2> QED BY <2>1, <2>2
<1>10. CASE BroadcastCall(n)
  <2> DEFINE left == Left(broadcast[n])
  <2>1. /\ broadcast[n].pc \in {"start", "next"} /\ broadcast[n] # NoThread
        /\ UNCHANGED <<datastore, request, recent>>
    BY <1>10, NoThreadIs DEF BroadcastCall, history
  <2>2. Remaining(broadcast[n]) = left /\ left \in SUBSET Servers
    BY <1>2, <1>3, <2>1 DEF Remaining, Left, Runs, TypeOK, Threads
  <2> HIDE DEF left
  <2>3. CASE left = {} /\ Resume(n, {})
    BY <1>2, <1>8, <1>9, <2>1, <2>2, <2>3
  <2>4. ASSUME NEW p \in left, ~up[p], Resume(n, left \ {p})
        PROVE  Replicates'
    <3>1. ~Holds(p)
      BY <2>2, <2>4, HoldsJoined DEF Joined
    <3>2. broadcast'[n].pc # "broken" /\ Remaining(broadcast'[n]) = left \ {p}
      BY <1>9, <2>2, <2>4
    <3> QED BY <1>2, <1>8, <2>1, <2>2, <3>1, <3>2
  <2>5. ASSUME NEW p \in left,
               broadcast' = [broadcast EXCEPT ![n] =
                 Thread("called", broadcast[n].at, p, left \ {p})]
        PROVE  Replicates'
    <3>1. broadcast'[n].pc = "called" /\ Remaining(broadcast'[n]) = left
      BY <1>2, <2>5 DEF Remaining, Thread
    <3> QED BY <1>2, <1>8, <2>1, <2>2, <3>1
  <2> QED BY <1>10, <2>3, <2>4, <2>5 DEF BroadcastCall, left
<1>11. CASE FollowerSet(n)
  <2>1. /\ broadcast[n].pc = "called" /\ broadcast[n] # NoThread
        /\ broadcast[n].to \in Servers /\ UNCHANGED <<request, recent>>
        /\ datastore' = [datastore EXCEPT ![broadcast[n].to][posts[n]] = n]
    BY <1>3, <1>11, NoThreadIs DEF FollowerSet, Put, Runs, history
  <2>2. /\ broadcast'[n].pc = "handled" /\ broadcast'[n].left = broadcast[n].left
    BY <1>2, <1>11 DEF FollowerSet, Threads
  <2> QED BY <1>8, <2>1, <2>2 DEF Remaining
<1>12. CASE BroadcastReply(n)
  <2>1. /\ broadcast[n].pc = "handled" /\ broadcast[n] # NoThread
        /\ UNCHANGED <<datastore, request, recent>> /\ Resume(n, broadcast[n].left)
        /\ broadcast[n].left \in SUBSET Servers
    BY <1>2, <1>12, NoThreadIs DEF BroadcastReply, history, Threads
  <2>2. Remaining(broadcast[n]) = broadcast[n].left
    BY <2>1 DEF Remaining
  <2>3. Remaining(broadcast'[n]) = broadcast[n].left /\ broadcast'[n].pc # "broken"
    BY <1>9, <2>1
  <2> QED BY <1>2, <1>8, <2>1, <2>2, <2>3
<1>13. ~CallBreaks(n)
  BY <1>3 DEF CallBreaks, Carried
<1> QED BY <1>5, <1>6, <1>7, <1>10, <1>11, <1>12, <1>13 DEF Write

\* What a step that leaves the writes alone keeps of them.
LEMMA KeepsCarried ==
  ASSUME UNCHANGED <<posts, request, broadcast, recent, peerPorts>>,
         \A s \in Servers : Joined(s)' => Joined(s),
         \A s \in Servers : leaderPort'[s] = leaderPort[s],
         ThreadsRun
  PROVE  /\ Writes' = Writes
         /\ \A n \in Writes : Carried(n) => Carried(n)'
         /\ \A n \in Writes, s \in Servers : Awaits(n, s)' = Awaits(n, s)
<1>1. Writes' = Writes
  BY DEF Writes
<1>2. ASSUME NEW n \in Writes
      PROVE  Carried(n) => Carried(n)'
  <2>1. request[n].pc = "start" => request[n].at \in Servers
    BY NoThreadIs DEF ThreadsRun, Runs
  <2>2. ReachesAll(n) => ReachesAll(n)'
    BY <2>1 DEF ReachesAll
  <2> QED BY <2>2 DEF Carried, UnderWay
<1>3. \A n \in Writes, s \in Servers : Awaits(n, s)' = Awaits(n, s)
  BY DEF Awaits, Remaining
<1> QED BY <1>1, <1>2, <1>3

LEMMA SyncReplicates ==
  ASSUME StoreInv, Replicates, NEW s \in Servers, steady',
         SyncFails(s) \/ SyncCall(s) \/ LeaderSync(s) \/ SyncReply(s)
  PROVE  Replicates'
<1> USE DEF StoreInv, group, views, history
<1>1. ~SyncFails(s)
  BY DEF SyncFails
<1>2. /\ UNCHANGED <<group, posts, request, broadcast, recent>>
      /\ \A t \in Servers : Joined(t)' = Joined(t)
  BY <1>1 DEF SyncCall, LeaderSync, SyncReply, Joined
<1>3. /\ Writes' = Writes
      /\ \A n \in Writes : Carried(n) => Carried(n)'
      /\ \A n \in Writes, t \in Servers : Awaits(n, t)' = Awaits(n, t)
  BY <1>2, KeepsCarried
<1>4. /\ sync[s] # NoThread /\ sync[s].to \in Servers
      /\ sync \in [Servers -> Threads] /\ datastore \in [Servers -> [Keys -> {0} \cup Writes]]
      /\ copy \in [Servers -> [Keys -> {0} \cup Writes]]
  BY <1>1, NoThreadIs DEF SyncCall, LeaderSync, SyncReply, ThreadsRun, TypeOK
<1>5. /\ \A t \in Servers : Holds(t) => IsRecent(datastore[t])
      /\ \A t \in Servers : sync[t].pc = "handled" => IsRecent(copy[t])
  BY <1>4 DEF Replicates, CopiesAreRecent
<1>6. ASSUME \A t \in Servers : Holds(t)' => IsRecent(datastore'[t]),
             \A t \in Servers : sync'[t].pc = "handled" => IsRecent(copy'[t])
      PROVE  Replicates'
  <2>1. \A d : IsRecent(d) <=> \A k \in Keys : d[k] \in recent'[k]
    BY <1>2 DEF IsRecent
  <2>2. CopiesAreRecent'
    BY <1>6, <2>1 DEF CopiesAreRecent, IsRecent
  <2>3. \A t \in Servers, k \in Keys : Holds(t)' => HasOrAwaits(t, k)'
    BY <1>6, <2>1 DEF HasOrAwaits
  <2> QED BY <1>3, <2>2, <2>3 DEF Replicates
<1>7. CASE SyncCall(s)
  <2>1. UNCHANGED <<datastore, copy>> /\ sync' = [sync EXCEPT ![s].pc = "called"]
    BY <1>7 DEF SyncCall
  <2>2. sync'[s].pc = "called" /\ \A t \in Servers \ {s} : sync'[t] = sync[t]
    BY <1>4, <2>1 DEF Threads
  <2>3. \A t \in Servers : Holds(t)' => Holds(t)
    BY <1>2, <2>2, NoThreadIs DEF Holds
  <2> QED BY <1>5, <1>6, <2>1, <2>2, <2>3
<1>8. CASE LeaderSync(s)
  <2>1. /\ datastore' = datastore /\ copy' = [copy EXCEPT ![s] = datastore[sync[s].to]]
        /\ sync' = [sync EXCEPT ![s].pc = "handled"] /\ leader[sync[s].to]
    BY <1>8 DEF LeaderSync
  <2>2. sync'[s].pc = "handled" /\ \A t \in Servers \ {s} : sync'[t] = sync[t]
    BY <1>4, <2>1 DEF Threads
  <2>3. \A t \in Servers : Holds(t)' => Holds(t)
    BY <1>2, <2>2, NoThreadIs DEF Holds
  <2>4. IsRecent(copy'[s]) /\ \A t \in Servers \ {s} : copy'[t] = copy[t]
    BY <1>4, <1>5, <2>1 DEF Holds
  <2> QED BY <1>5, <1>6, <2>1, <2>2, <2>3, <2>4
<1>9. CASE SyncReply(s)
  <2>1. /\ sync[s].pc = "handled" /\ sync' = [sync EXCEPT ![s] = NoThread]
        /\ datastore' = [datastore EXCEPT ![s] = copy[s]] /\ copy' = [copy EXCEPT ![s] = Empty]
    BY <1>9 DEF SyncReply
  <2>2. /\ sync'[s].pc = "none" /\ IsRecent(datastore'[s])
        /\ \A t \in Servers \ {s} : sync'[t] = sync[t] /\ datastore'[t] = datastore[t]
                                    /\ copy'[t] = copy[t]
    BY <1>4, <1>5, <2>1, NoThreadIs
  <2>3. \A t \in Servers \ {s} : Holds(t)' => Holds(t)
    BY <1>2, <2>2 DEF Holds
  <2> QED BY <1>5, <1>6, <2>2, <2>3
<1> QED BY <1>1, <1>7, <1>8, <1>9

\* A write is made to a group whose leader tells every server of it.
LEMMA PostReplicates ==
  ASSUME StoreInv, Replicates, NEW s \in Servers, NEW k \in Keys, Post(s, k), steady'
  PROVE  Replicates'
<1> USE DEF StoreInv, group, views
<1>1. PICK l \in Servers :
        \A t \in Servers : up[t] =>
          /\ leaderPort[t] = l /\ t \in peerPorts[l]
          /\ leader[t] => t = l
  BY DEF Post, Informed
<1>2. PICK N :
      /\ N = Len(posts') /\ N \notin Writes
      /\ Writes' = Writes \cup {N} /\ posts'[N] = k
      /\ \A n \in Writes : /\ posts'[n] = posts[n]
                           /\ request'[n] = request[n] /\ broadcast'[n] = broadcast[n]
      /\ IF leader[s]
         THEN request'[N] = NoThread /\ broadcast'[N] = Broadcasting(s, NoPort)
         ELSE request'[N] = Thread("start", s, NoPort, {}) /\ broadcast'[N] = NoThread
  BY PostThreads
<1>3. /\ up[s] /\ UNCHANGED <<group, sync, copy>>
      /\ recent' = [recent EXCEPT ![k] = (IF Idle THEN {} ELSE @) \cup {N}]
      /\ datastore' = IF leader[s] THEN [datastore EXCEPT ![s][k] = N] ELSE datastore
  BY <1>2 DEF Post, Put
<1>4. /\ \A t \in Servers : (Holds(t)' <=> Holds(t)) /\ (Joined(t)' <=> Joined(t))
      /\ \A b : Remaining(b)' = Remaining(b)
  BY <1>3 DEF Holds, Joined, Remaining
<1>5. /\ N \in recent'[k] /\ \A j \in Keys \ {k} : recent'[j] = recent[j]
      /\ ~Idle => \A j \in Keys : recent[j] \subseteq recent'[j]
  BY <1>3 DEF TypeOK
<1>6. \A t \in Servers, j \in Keys :
        datastore'[t][j] = IF leader[s] /\ t = s /\ j = k THEN N ELSE datastore[t][j]
  BY <1>3 DEF TypeOK
<1>7. /\ request'[N].pc \in {"none", "start"} /\ broadcast'[N].pc \in {"none", "start"}
      /\ leader[s] => /\ request'[N].pc = "none" /\ broadcast'[N].pc = "start"
                      /\ broadcast'[N].at = s /\ broadcast'[N].to = NoPort
      /\ ~leader[s] => request'[N].pc = "start" /\ request'[N].at = s
  BY <1>2, NoThreadIs DEF Broadcasting, Thread
<1>8. \A n \in Writes, t \in Servers : Awaits(n, t)' = Awaits(n, t)
  BY <1>2, <1>4 DEF Awaits
<1>9. ASSUME NEW n \in Writes'
      PROVE  Carried(n)'
  <2>1. CASE n = N
    <3>1. ReachesAll(n)'
      BY <1>1, <1>3, <1>4, <1>7, <2>1 DEF ReachesAll, Joined
    <3> QED BY <1>2, <1>5, <1>7, <2>1, <3>1 DEF Carried
  <2>2. CASE n \in Writes
    <3>1. Carried(n) /\ posts[n] \in Keys
      BY <2>2 DEF Replicates, TypeOK, Writes
    <3>2. UnderWay(n)' => UnderWay(n) /\ ~Idle
      BY <1>2, <2>2 DEF UnderWay, Idle
    <3>3. ReachesAll(n) => ReachesAll(n)'
      BY <1>2, <1>3, <1>4, <2>2 DEF ReachesAll
    <3> QED BY <1>2, <1>5, <2>2, <3>1, <3>2, <3>3 DEF Carried
  <2> QED BY <1>2, <2>1, <2>2
<1>10. ASSUME NEW t \in Servers, NEW j \in Keys, Holds(t)
       PROVE  HasOrAwaits(t, j)'
  <2>1. CASE j # k
    <3>1. HasOrAwaits(t, j)
      BY <1>10 DEF Replicates
    <3>2. datastore'[t][j] = datastore[t][j] /\ recent'[j] = recent[j]
      BY <1>5, <1>6, <2>1
    <3> QED BY <1>2, <1>8, <3>1, <3>2 DEF HasOrAwaits
  <2>2. CASE j = k /\ leader[s] /\ t = s
    BY <1>5, <1>6, <2>2 DEF HasOrAwaits
  <2>3. CASE j = k /\ ~(leader[s] /\ t = s)
    <3>1. Awaits(N, t)'
      <4>1. CASE ~leader[s]
        BY <1>7, <4>1 DEF Awaits
      <4>2. CASE leader[s]
        <5>1. t \in peerPorts[s] /\ t # NoPort
          BY <1>1, <1>3, <1>10, <4>2, HoldsJoined DEF Joined
        <5>2. t \in Remaining(broadcast'[N])
          BY <1>7, <4>2, <5>1 DEF Remaining
        <5> QED BY <1>4, <5>2 DEF Awaits
      <4> QED BY <4>1, <4>2
    <3> QED BY <1>2, <2>3, <3>1 DEF HasOrAwaits
  <2> QED BY <2>1, <2>2, <2>3
<1>11. CopiesAreRecent'
  <2>1. ASSUME NEW t \in Servers, sync[t] # NoThread
        PROVE  /\ \A u \in Servers : Holds(u) => IsRecent(datastore[u])'
               /\ \A u \in Servers : sync[u].pc = "handled" => IsRecent(copy[u])'
    <3>1. ~Idle
      BY <2>1 DEF Idle
    <3>2. /\ \A u \in Servers : Holds(u) => IsRecent(datastore[u])
          /\ \A u \in Servers : sync[u].pc = "handled" => IsRecent(copy[u])
      BY <2>1 DEF Replicates, CopiesAreRecent
    <3> QED BY <1>3, <1>5, <1>6, <3>1, <3>2 DEF IsRecent
  <2> QED BY <1>3, <1>4, <2>1 DEF CopiesAreRecent
<1> QED BY <1>4, <1>9, <1>10, <1>11 DEF Replicates

\* The servers that hold data, and what they hold, stay.
LEMMA KeepsReplicates ==
  ASSUME Replicates, ThreadsRun,
         UNCHANGED <<posts, request, broadcast, recent, peerPorts, leaderPort,
                     datastore, sync, copy>>,
         \A s \in Servers : (Joined(s)' => Joined(s)) /\ (Holds(s)' => Holds(s))
  PROVE  Replicates'
<1>1. /\ Writes' = Writes
      /\ \A n \in Writes : Carried(n) => Carried(n)'
      /\ \A n \in Writes, s \in Servers : Awaits(n, s)' = Awaits(n, s)
  BY KeepsCarried
<1>2. \A s \in Servers, k \in Keys : HasOrAwaits(s, k) => HasOrAwaits(s, k)'
  BY <1>1 DEF HasOrAwaits
<1>3. CopiesAreRecent => CopiesAreRecent'
  BY DEF CopiesAreRecent, IsRecent
<1> QED BY <1>1, <1>2, <1>3 DEF Replicates

LEMMA NodesReplicates ==
  ASSUME StoreInv, Replicates,
         \/ UNCHANGED vars
         \/ \E n \in nodes : Expire(n)
         \/ \E s \in Servers : MakeNode(s) \/ Boot(s)
  PROVE  Replicates'
<1>1. UNCHANGED <<posts, request, broadcast, recent, peerPorts, leaderPort, leader,
                  datastore, sync, copy>>
  BY DEF vars, Expire, MakeNode, Boot, group, views, calls, history
<1>2. ASSUME NEW s \in Servers
      PROVE  (Joined(s)' => Joined(s)) /\ (Holds(s)' => Holds(s))
  <2>1. up'[s] => up[s] \/ leaderPort[s] = NoPort
    BY DEF vars, group, Expire, MakeNode, Boot, StoreInv, ProcessesEnd, TypeOK
  <2> QED BY <1>1, <2>1 DEF Joined, Holds
<1> QED BY <1>1, <1>2, KeepsReplicates DEF StoreInv

\* When no call is under way nothing is awaited, and what servers hold is recent.
LEMMA IdleIs ==
  ASSUME Replicates, Idle
  PROVE  /\ \A n \in Writes : /\ request[n] = NoThread /\ broadcast[n] = NoThread
                              /\ request[n].pc = "none" /\ broadcast[n].pc = "none"
         /\ \A s \in Servers : sync[s] = NoThread /\ (Joined(s) => Holds(s))
         /\ \A s \in Servers : Holds(s) => IsRecent(datastore[s])
<1>1. /\ \A n \in Writes : /\ request[n] = NoThread /\ broadcast[n] = NoThread
                           /\ request[n].pc = "none" /\ broadcast[n].pc = "none"
      /\ \A s \in Servers : sync[s] = NoThread
  BY NoThreadIs DEF Idle
<1>2. \A n \in Writes, s \in Servers : ~Awaits(n, s)
  BY <1>1 DEF Awaits, Remaining
<1>3. \A s \in Servers : Holds(s) => IsRecent(datastore[s])
  BY <1>2 DEF Replicates, HasOrAwaits, IsRecent
<1> QED BY <1>1, <1>3 DEF Holds

\* Conversely, data that is recent is all that is needed when no write is carried.
LEMMA NothingCarried ==
  ASSUME \A n \in Writes' : request'[n] = NoThread /\ broadcast'[n] = NoThread,
         \A s \in Servers : Holds(s)' => IsRecent(datastore[s])',
         \A s \in Servers : sync'[s].pc # "handled"
  PROVE  Replicates'
<1>1. ASSUME NEW n \in Writes'
      PROVE  Carried(n)'
  BY NoThreadIs DEF Carried, UnderWay, ReachesAll
<1>2. \A s \in Servers, k \in Keys : Holds(s)' => HasOrAwaits(s, k)'
  BY DEF HasOrAwaits, IsRecent
<1> QED BY <1>1, <1>2 DEF Replicates, CopiesAreRecent

LEMMA KillReplicates ==
  ASSUME StoreInv, Replicates, NEW s \in Servers, Kill(s), steady'
  PROVE  Replicates'
<1>1. Idle
  BY DEF Kill
<1>2. /\ Writes' = Writes /\ recent' = recent
      /\ \A n \in Writes : request'[n] = NoThread /\ broadcast'[n] = NoThread
      /\ \A t \in Servers : sync'[t] = NoThread
  <2>1. \A pcs \in SUBSET {"called", "handled"} : Cut(NoThread, s, pcs) = NoThread
    BY NoThreadIs DEF Cut
  <2> QED BY <1>1, <2>1 DEF Kill, Idle, Writes
<1>3. ASSUME NEW t \in Servers, Holds(t)'
      PROVE  IsRecent(datastore[t])'
  <2>1. /\ ~leader'[s] /\ ~up'[s]
        /\ t # s => /\ leader'[t] = leader[t] /\ leaderPort'[t] = leaderPort[t]
                    /\ up'[t] = up[t] /\ datastore'[t] = datastore[t]
    BY DEF Kill, StoreInv, TypeOK
  <2>2. t # s
    BY <1>3, <2>1 DEF Holds, Joined
  <2>3. sync[t] = NoThread
    BY <1>1 DEF Idle
  <2>4. Holds(t)
    BY <1>3, <2>1, <2>2, <2>3 DEF Holds, Joined
  <2> QED BY <1>1, <1>2, <2>1, <2>2, <2>4, IdleIs DEF IsRecent
<1> QED BY <1>2, <1>3, NothingCarried, NoThreadIs

\* A server leads, or follows the leader it has followed, only with the data it
\* has had; to follow another it syncs, and holds nothing before.
LEMMA LookReplicates ==
  ASSUME StoreInv, Replicates, NEW s \in Servers, WatchFires(s) \/ InitLook(s), steady'
  PROVE  Replicates'
<1> USE DEF StoreInv
<1>1. /\ up[s] /\ sync[s] = NoThread
      /\ UNCHANGED <<up, datastore, posts, request, broadcast, copy, recent>>
      /\ \/ UNCHANGED <<leader, leaderPort, peerPorts, sync>>
         \/ Elect(s) /\ leaderPort'[s] \in Servers
  BY LookIs
<1>2. CASE UNCHANGED <<leader, leaderPort, peerPorts, sync>>
  BY <1>1, <1>2, KeepsReplicates DEF Joined, Holds
<1>3. CASE Elect(s) /\ leaderPort'[s] \in Servers
  <2>1. Idle /\ ~ElectedFresh(s)
    BY <1>3 DEF Elect
  <2>2. /\ \A t \in Servers \ {s} : /\ leader'[t] = leader[t] /\ sync'[t] = sync[t]
                                    /\ leaderPort'[t] = leaderPort[t]
        /\ leader'[s] => leader[s] \/ First(nodes) = zkPath[s]
        /\ First(nodes) = zkPath[s] \/ leaderPort'[s] = leaderPort[s]
           \/ sync'[s] = Thread("start", s, leaderPort'[s], {})
        /\ sync'[s] \in {NoThread, Thread("start", s, leaderPort'[s], {})}
    BY <1>1, <1>3 DEF Elect, TypeOK
  <2>3. sync'[s].pc # "handled" /\ Thread("start", s, leaderPort'[s], {}) # NoThread
    BY <2>2, NoThreadIs DEF Thread
  <2>4. ASSUME NEW t \in Servers, Holds(t)'
        PROVE  Holds(t)
    <3>1. CASE t # s
      BY <1>1, <2>2, <2>4, <3>1 DEF Holds, Joined
    <3>2. CASE t = s
      <4>1. leader[s] \/ Joined(s)
        BY <1>1, <1>3, <2>1, <2>2, <2>3, <2>4, <3>2 DEF Holds, Joined, ElectedFresh
      <4> QED BY <1>1, <3>2, <4>1 DEF Holds
    <3> QED BY <3>1, <3>2
  <2>5. \A t \in Servers : Holds(t)' => IsRecent(datastore[t])'
    BY <1>1, <2>1, <2>4, IdleIs DEF IsRecent
  <2>6. Writes' = Writes /\ \A t \in Servers : sync'[t].pc # "handled"
    BY <1>1, <2>1, <2>2, <2>3, IdleIs, NoThreadIs DEF Writes
  <2> QED BY <1>1, <2>1, <2>5, <2>6, IdleIs, NothingCarried
<1> QED BY <1>1, <1>2, <1>3

LEMMA ReplicatesStep ==
  ASSUME StoreInv, steady => Replicates, [Next]_vars, steady'
  PROVE  Replicates'
<1>1. steady
  BY DEF Next, vars, history, Write, RequestCall, LeaderSet, RequestReply, BroadcastCall,
         FollowerSet, BroadcastReply, CallBreaks, Expire, Post, SyncFails, SyncCall,
         LeaderSync, SyncReply, WatchFires, MakeNode, InitLook, Elect, Kill, Boot
<1> QED
  BY <1>1, WriteReplicates, PostReplicates, SyncReplicates, LookReplicates,
     KillReplicates, NodesReplicates
  DEF Next

LEMMA ReplicatesInit == Init => Replicates
<1> SUFFICES ASSUME Init
             PROVE  Replicates
  OBVIOUS
<1>1. Writes = {}
  BY DEF Init, Writes
<1>2. \A s \in Servers, k \in Keys : datastore[s][k] \in recent[k]
  BY DEF Init, Empty
<1>3. \A t \in Servers : sync[t] = NoThread
  BY DEF Init
<1> QED BY <1>1, <1>2, <1>3 DEF Replicates, HasOrAwaits, CopiesAreRecent

\* Copies stay what they should be: once every call is done, each server that
\* has followed a leader has the last write of a key, or one of those that
\* were under way along with it.  This is about post_data(), request_post(),
\* broadcast_post(), the sets of leader and followers, sync_with_leader() and
\* check_election() together, for any number of servers, keys and writes.
THEOREM ReplicasTheorem == Spec => []ReplicasHoldRecent
<1>1. Init => (steady => Replicates)
  BY ReplicatesInit
<1>2. StoreInv /\ (steady => Replicates) /\ [Next]_vars => (steady => Replicates)'
  BY ReplicatesStep
<1>3. (steady => Replicates) => ReplicasHoldRecent
  BY IdleIs DEF ReplicasHoldRecent, IsRecent
<1> QED BY <1>1, <1>2, <1>3, StoreInvariance, PTL DEF Spec

=============================================================================
