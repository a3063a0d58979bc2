--------------------------- MODULE ElectionProofs ---------------------------
(***************************************************************************)
(* Proofs about Election, for any servers and any number of events.        *)
(*                                                                         *)
(* A list of nodes may be old when a thread is done with it.  What makes   *)
(* the first node of an old list the first of all is that ZooKeeper's      *)
(* numbers only grow: ListsLackNoEarlier says that a node a thread has not *)
(* on its list comes after all it has.                                     *)
(*                                                                         *)
(* That the first server does lead, and that a quiet server knows the      *)
(* group, is about the last list only: while no event is out, the watch    *)
(* was set when it was fetched, so the list a thread reads and what it has *)
(* read of it make up the nodes there are (Sees).                          *)
(***************************************************************************)
EXTENDS Election, FiniteSetTheorems, TLAPS

USE ElectionAssumption

-----------------------------------------------------------------------------
(* Types. *)

\* One entry of a table of tables changes.
LEMMA UpdateType ==
  ASSUME NEW S, NEW f \in [Servers -> [Threads -> S]],
         NEW s \in Servers, NEW t \in Threads, NEW x \in S
  PROVE  [f EXCEPT ![s][t] = x] \in [Servers -> [Threads -> S]]
OBVIOUS

\* A table of fresh entries.
LEMMA FreshType ==
  ASSUME NEW S, NEW x \in S
  PROVE  Fresh(x) \in [Threads -> S]
BY DEF Fresh

\* The number of nodes on a list.
LEMMA CountType ==
  ASSUME TypeOK, NEW s \in Servers, NEW t \in Threads
  PROVE  Cardinality(rest[s][t]) \in Nat
<1>1. Len(made) \in Nat /\ rest[s][t] \subseteq 1..Len(made)
  BY DEF TypeOK, NodeIds
<1>2. IsFiniteSet(1..Len(made))
  BY <1>1, FS_Interval
<1> QED BY <1>1, <1>2, FS_Subset, FS_CardinalityType

\* Leaving check_election() keeps the types of the local variables.
LEMMA ReturnType ==
  ASSUME TypeOK, made' = made, NEW s \in Servers, NEW t \in Threads, Return(s, t)
  PROVE  /\ pc' \in [Servers -> [Threads -> Labels]]
         /\ rest' \in [Servers -> [Threads -> SUBSET (NodeIds' \ {0})]]
         /\ minPath' \in [Servers -> [Threads -> NodeIds']]
         /\ oldPort' \in [Servers -> [Threads -> Servers \cup {NoPort}]]
<1>1. NodeIds' = NodeIds /\ 0 \in NodeIds
  BY DEF TypeOK, NodeIds
<1>2. pc' \in [Servers -> [Threads -> Labels]]
  BY DEF TypeOK, Return, Goto, Labels
<1>3. rest' \in [Servers -> [Threads -> SUBSET (NodeIds \ {0})]]
  BY UpdateType DEF TypeOK, Return
<1>4. minPath' \in [Servers -> [Threads -> NodeIds]]
  BY <1>1, UpdateType DEF TypeOK, Return
<1>5. oldPort' \in [Servers -> [Threads -> Servers \cup {NoPort}]]
  BY UpdateType DEF TypeOK, Return
<1> QED BY <1>1, <1>2, <1>3, <1>4, <1>5

\* A step within a thread, to another label.
LEMMA GotoType ==
  ASSUME TypeOK, NEW s \in Servers, NEW t \in Threads, NEW l \in Labels,
         Goto(s, t, l)
  PROVE  pc' \in [Servers -> [Threads -> Labels]]
BY UpdateType DEF TypeOK, Goto

\* The end of a process.
LEMMA DiesType ==
  ASSUME TypeOK, NEW s \in Servers, Dies(s)
  PROVE  TypeOK'
<1>1. NodeIds' = NodeIds /\ 0 \in NodeIds
  BY DEF TypeOK, NodeIds, Dies, zookeeper
<1>2. "done" \in Labels
  BY DEF Labels
<1>3. /\ pc' \in [Servers -> [Threads -> Labels]]
      /\ rest' \in [Servers -> [Threads -> SUBSET (NodeIds \ {0})]]
      /\ minPath' \in [Servers -> [Threads -> NodeIds]]
      /\ oldPort' \in [Servers -> [Threads -> Servers \cup {NoPort}]]
  BY <1>1, <1>2 DEF Dies, TypeOK, Fresh
<1>4. /\ up' \in [Servers -> BOOLEAN] /\ leader' \in [Servers -> BOOLEAN]
      /\ zkNode' \in [Servers -> NodeIds] /\ zkPath' \in [Servers -> NodeIds]
      /\ leaderPort' \in [Servers -> Servers \cup {NoPort}]
      /\ numChildren' \in [Servers -> Nat]
      /\ peerPorts' \in [Servers -> SUBSET Servers]
      /\ watch' \in [Servers -> {"unset", "set", "stopped"}]
      /\ event' \in [Servers -> BOOLEAN]
  BY <1>1 DEF Dies, TypeOK
<1>5. /\ skipped' \in [Servers -> BOOLEAN] /\ raced' \in [Servers -> BOOLEAN]
      /\ unmade' \in [Servers -> BOOLEAN]
  BY DEF Dies, TypeOK
<1> QED BY <1>1, <1>3, <1>4, <1>5 DEF Dies, TypeOK, zookeeper

\* An exception.
LEMMA RaisesType ==
  ASSUME TypeOK, NEW s \in Servers, NEW t \in Threads, Raises(s, t)
  PROVE  TypeOK'
<1>1. CASE t = "main" /\ Dies(s)
  BY <1>1, DiesType
<1>2. CASE Return(s, t) /\ UNCHANGED <<zookeeper, globals, kazoo, events, history>>
  <2>1. NodeIds' = NodeIds
    BY <1>2 DEF NodeIds, zookeeper
  <2> QED BY <1>2, <2>1, ReturnType DEF TypeOK, zookeeper, globals, kazoo, history
<1> QED BY <1>1, <1>2 DEF Raises

\* A thread that has read the data of the first node knows the node: there is
\* data to store.
FollowsNode ==
  \A s \in Servers, t \in Threads : pc[s][t] = "follow" => minPath[s][t] # 0

\* Init and every step keep the types.
LEMMA TypeInit == Init => TypeOK
<1> SUFFICES ASSUME Init PROVE TypeOK
  OBVIOUS
<1>1. made \in Seq(Servers) /\ Len(made) = 0 /\ NodeIds = {0}
  BY DEF Init, NodeIds
<1>2. "done" \in Labels
  BY DEF Labels
<1> QED BY <1>1, <1>2, FreshType DEF Init, TypeOK

LEMMA TypeStep ==
  ASSUME TypeOK, FollowsNode, [Next]_vars
  PROVE  TypeOK'
<1>0. 0 \in NodeIds /\ Len(made) \in Nat
  BY DEF TypeOK, NodeIds
<1>1. ASSUME NEW n \in nodes, Expire(n)
      PROVE  TypeOK'
  <2>1. NodeIds' = NodeIds
    BY <1>1 DEF Expire, NodeIds
  <2> QED BY <1>1, <2>1 DEF Expire, Ends, Fire, TypeOK, globals, data, history
<1>2. ASSUME NEW s \in Servers, LoseSession(s)
      PROVE  TypeOK'
  <2>1. NodeIds' = NodeIds
    BY <1>2 DEF LoseSession, NodeIds
  <2> QED BY <1>2, <2>1 DEF LoseSession, Happens, Ends, Fire, TypeOK, globals,
                            data, history
<1>3. ASSUME NEW s \in Servers, Boot(s)
      PROVE  TypeOK'
  <2>1. NodeIds' = NodeIds
    BY <1>3 DEF Boot, NodeIds, zookeeper
  <2>2. [init |-> "sleep", main |-> "load", watch |-> "idle"] \in [Threads -> Labels]
    BY DEF Threads, Labels
  <2>3. pc' \in [Servers -> [Threads -> Labels]]
    BY <1>3, <2>2 DEF Boot, TypeOK
  <2> QED BY <1>3, <2>1, <2>3 DEF Boot, Happens, TypeOK, zookeeper, globals,
                                  data, history
<1>4. ASSUME NEW s \in Servers, Kill(s)
      PROVE  TypeOK'
  BY <1>4, DiesType DEF Kill
<1>5. ASSUME NEW s \in Servers, InitEnsurePath(s)
      PROVE  TypeOK'
  <2>1. NodeIds' = NodeIds
    BY <1>5 DEF InitEnsurePath, NodeIds
  <2>2. pc' \in [Servers -> [Threads -> Labels]]
    BY <1>5, GotoType DEF InitEnsurePath, Threads, Labels
  <2> QED BY <1>5, <2>1, <2>2 DEF InitEnsurePath, TypeOK, globals, kazoo, data,
                                  history
<1>6. ASSUME NEW s \in Servers, InitCreate(s)
      PROVE  TypeOK'
  <2>1. /\ made' \in Seq(Servers) /\ Len(made') = Len(made) + 1
        /\ NodeIds \subseteq NodeIds' /\ Len(made) + 1 \in NodeIds' \ {0}
    BY <1>0, <1>6 DEF InitCreate, TypeOK, NodeIds
  <2>2. pc' \in [Servers -> [Threads -> Labels]]
    BY <1>6, GotoType DEF InitCreate, Threads, Labels
  <2>3. rest' \in [Servers -> [Threads -> SUBSET (NodeIds' \ {0})]]
    BY <1>6, <2>1 DEF InitCreate, TypeOK, data
  <2>4. minPath' \in [Servers -> [Threads -> NodeIds']]
    BY <1>6, <2>1 DEF InitCreate, TypeOK, data
  <2>5. /\ zkNode' \in [Servers -> NodeIds'] /\ zkPath' \in [Servers -> NodeIds']
        /\ nodes' \subseteq NodeIds' \ {0} /\ event' \in [Servers -> BOOLEAN]
    BY <1>6, <2>1 DEF InitCreate, TypeOK, Fire, globals
  <2> QED BY <1>6, <2>1, <2>2, <2>3, <2>4, <2>5
          DEF InitCreate, TypeOK, globals, data, history
<1>7. ASSUME NEW s \in Servers, InitAssign(s)
      PROVE  TypeOK'
  <2>1. NodeIds' = NodeIds
    BY <1>7 DEF InitAssign, NodeIds, zookeeper
  <2>2. pc' \in [Servers -> [Threads -> Labels]]
    BY <1>7, GotoType DEF InitAssign, Threads, Labels
  <2> QED BY <1>7, <2>1, <2>2 DEF InitAssign, TypeOK, zookeeper, kazoo, data,
                                  history
<1>8. ASSUME NEW s \in Servers, InitList(s)
      PROVE  TypeOK'
  <2>1. NodeIds' = NodeIds
    BY <1>8 DEF InitList, NodeIds, zookeeper
  <2>2. pc' \in [Servers -> [Threads -> Labels]]
    BY <1>8, GotoType DEF InitList, Threads, Labels
  <2>3. rest' \in [Servers -> [Threads -> SUBSET (NodeIds \ {0})]]
    BY <1>8, UpdateType DEF InitList, TypeOK, Threads
  <2> QED BY <1>8, <2>1, <2>2, <2>3 DEF InitList, TypeOK, zookeeper, globals,
                                        kazoo, history
<1>9. ASSUME NEW s \in Servers, InitCount(s)
      PROVE  TypeOK'
  <2>1. NodeIds' = NodeIds
    BY <1>9 DEF InitCount, NodeIds, zookeeper
  <2>2. pc' \in [Servers -> [Threads -> Labels]]
    BY <1>9, GotoType DEF InitCount, Threads, Labels
  <2>3. Cardinality(rest[s]["init"]) \in Nat
    BY CountType DEF Threads
  <2> QED BY <1>9, <2>1, <2>2, <2>3 DEF InitCount, TypeOK, zookeeper, kazoo,
                                        data, history
<1>10. ASSUME NEW s \in Servers, WatchBegin(s) \/ WatchFires(s)
       PROVE  TypeOK'
  <2>1. PICK t \in Threads : FetchList(s, t)
    BY <1>10 DEF WatchBegin, WatchFires, Threads
  <2>2. NodeIds' = NodeIds
    BY <2>1 DEF FetchList, NodeIds, zookeeper
  <2>3. pc' \in [Servers -> [Threads -> Labels]]
    BY <2>1, GotoType DEF FetchList, Labels
  <2>4. rest' \in [Servers -> [Threads -> SUBSET (NodeIds \ {0})]]
    BY <2>1, UpdateType DEF FetchList, TypeOK
  <2>5. watch' \in [Servers -> {"unset", "set", "stopped"}]
    BY <1>10 DEF WatchBegin, WatchFires, TypeOK
  <2> QED BY <2>1, <2>2, <2>3, <2>4, <2>5 DEF FetchList, TypeOK, zookeeper, globals
<1>11. ASSUME NEW s \in Servers, WatchStops(s)
       PROVE  TypeOK'
  <2>1. NodeIds' = NodeIds
    BY <1>11 DEF WatchStops, NodeIds, zookeeper
  <2>2. pc' \in [Servers -> [Threads -> Labels]]
    BY <1>11, GotoType DEF WatchStops, Threads, Labels
  <2> QED BY <1>11, <2>1, <2>2 DEF WatchStops, TypeOK, zookeeper, globals, data,
                                   history
<1>12. ASSUME NEW s \in Servers, NEW t \in Threads, Compare(s, t)
       PROVE  TypeOK'
  <2>1. NodeIds' = NodeIds
    BY <1>12 DEF Compare, NodeIds, zookeeper
  <2>2. pc' \in [Servers -> [Threads -> Labels]]
    BY <1>12, GotoType DEF Compare, Labels
  <2> QED BY <1>12, <2>1, <2>2 DEF Compare, TypeOK, zookeeper, globals, kazoo,
                                   data, history
<1>13. ASSUME NEW s \in Servers, NEW t \in Threads, Skip(s, t)
       PROVE  TypeOK'
  <2>1. NodeIds' = NodeIds
    BY <1>13 DEF Skip, NodeIds, zookeeper
  <2>2. /\ numChildren' \in [Servers -> Nat] /\ skipped' \in [Servers -> BOOLEAN]
    BY <1>13, CountType DEF Skip, TypeOK
  <2> QED BY <1>13, <2>1, <2>2, ReturnType DEF Skip, TypeOK, zookeeper, kazoo
<1>14. ASSUME NEW s \in Servers, NEW t \in Threads, Begin(s, t)
       PROVE  TypeOK'
  <2>1. NodeIds' = NodeIds
    BY <1>14 DEF Begin, NodeIds, zookeeper
  <2>2. pc' \in [Servers -> [Threads -> Labels]]
    BY <1>14, GotoType DEF Begin, Labels
  <2>3. numChildren' \in [Servers -> Nat] /\ peerPorts' \in [Servers -> SUBSET Servers]
    BY <1>14, CountType DEF Begin, TypeOK
  <2>4. oldPort' \in [Servers -> [Threads -> Servers \cup {NoPort}]]
    BY <1>14, UpdateType DEF Begin, TypeOK
  <2> QED BY <1>14, <2>1, <2>2, <2>3, <2>4 DEF Begin, TypeOK, zookeeper, kazoo,
                                               history
<1>15. ASSUME NEW s \in Servers, NEW t \in Threads, NEW n \in rest[s][t], Get(s, t, n)
       PROVE  TypeOK'
  <2>1. NodeIds' = NodeIds /\ n \in NodeIds
    BY <1>15 DEF Get, NodeIds, zookeeper, TypeOK
  <2>2. made[n] \in Servers
    BY <1>0, <1>15 DEF Get, TypeOK, NodeIds
  <2>3. peerPorts' \in [Servers -> SUBSET Servers]
    BY <1>15, <2>2 DEF Get, TypeOK
  <2>4. minPath' \in [Servers -> [Threads -> NodeIds]]
    BY <1>15, <2>1 DEF Get, TypeOK
  <2>5. rest' \in [Servers -> [Threads -> SUBSET (NodeIds \ {0})]]
    BY <1>15 DEF Get, TypeOK
  <2> QED BY <1>15, <2>1, <2>3, <2>4, <2>5 DEF Get, TypeOK, zookeeper, kazoo, history
<1>16. ASSUME NEW s \in Servers, NEW t \in Threads, GetFails(s, t)
       PROVE  TypeOK'
  BY <1>16, RaisesType DEF GetFails
<1>17. ASSUME NEW s \in Servers, NEW t \in Threads, Lead(s, t)
       PROVE  TypeOK'
  <2>1. NodeIds' = NodeIds
    BY <1>17 DEF Lead, NodeIds, zookeeper
  <2>2. unmade' \in [Servers -> BOOLEAN]
    BY <1>17 DEF Lead, TypeOK
  <2> QED BY <1>17, <2>1, <2>2, ReturnType DEF Lead, TypeOK, zookeeper, kazoo
<1>18. ASSUME NEW s \in Servers, NEW t \in Threads, ReadLeader(s, t)
       PROVE  TypeOK'
  <2>1. NodeIds' = NodeIds
    BY <1>18 DEF ReadLeader, NodeIds, zookeeper
  <2>2. pc' \in [Servers -> [Threads -> Labels]]
    BY <1>18, GotoType DEF ReadLeader, Labels
  <2> QED BY <1>18, <2>1, <2>2 DEF ReadLeader, TypeOK, zookeeper, globals, kazoo,
                                   data, history
<1>19. ASSUME NEW s \in Servers, NEW t \in Threads, Synced(s, t)
       PROVE  TypeOK'
  <2>1. CASE Return(s, t) /\ UNCHANGED <<zookeeper, globals, kazoo, events, history>>
    <3>1. NodeIds' = NodeIds
      BY <2>1 DEF NodeIds, zookeeper
    <3> QED BY <2>1, <3>1, ReturnType DEF TypeOK, zookeeper, globals, kazoo, history
  <2>2. CASE Raises(s, t)
    BY <2>2, RaisesType
  <2> QED BY <1>19, <2>1, <2>2 DEF Synced
<1>20. ASSUME NEW s \in Servers, NEW t \in Threads, Follow(s, t)
       PROVE  TypeOK'
  <2>1. NodeIds' = NodeIds
    BY <1>20 DEF Follow, NodeIds, zookeeper
  <2>2. made[minPath[s][t]] \in Servers
    <3>1. minPath[s][t] \in 1..Len(made)
      BY <1>0, <1>20 DEF Follow, FollowsNode, TypeOK, NodeIds
    <3> QED BY <3>1 DEF TypeOK
  <2>3. leaderPort' \in [Servers -> Servers \cup {NoPort}]
    BY <1>20, <2>2 DEF Follow, TypeOK
  <2>4. CASE Return(s, t)
    BY <1>20, <2>1, <2>3, <2>4, ReturnType DEF Follow, TypeOK, zookeeper, kazoo, history
  <2>5. CASE Goto(s, t, "sync") /\ UNCHANGED data
    <3>1. pc' \in [Servers -> [Threads -> Labels]]
      BY <2>5, GotoType DEF Labels
    <3> QED BY <1>20, <2>1, <2>3, <2>5, <3>1 DEF Follow, TypeOK, zookeeper, kazoo,
                                                 data, history
  <2> QED BY <1>20, <2>4, <2>5 DEF Follow
<1>21. CASE UNCHANGED vars
  <2>1. NodeIds' = NodeIds
    BY <1>21 DEF NodeIds, vars, zookeeper
  <2> QED BY <1>21, <2>1 DEF TypeOK, vars, zookeeper, globals, kazoo, data, history
<1> QED
  BY <1>1, <1>2, <1>3, <1>4, <1>5, <1>6, <1>7, <1>8, <1>9, <1>10, <1>11, <1>12,
     <1>13, <1>14, <1>15, <1>16, <1>17, <1>18, <1>19, <1>20, <1>21
  DEF Next, InitElection, CheckElection

LEMMA FollowsStep ==
  ASSUME TypeOK, FollowsNode, [Next]_vars
  PROVE  FollowsNode'
<1>1. ASSUME NEW s \in Servers, NEW t \in Threads, Return(s, t)
      PROVE  FollowsNode'
  BY <1>1 DEF Return, Goto, FollowsNode, TypeOK
<1>2. ASSUME NEW s \in Servers, NEW t \in Threads, NEW l \in Labels \ {"follow"},
             Goto(s, t, l), minPath' = minPath
      PROVE  FollowsNode'
  BY <1>2 DEF Goto, FollowsNode, TypeOK
<1>3. ASSUME NEW s \in Servers, Dies(s)
      PROVE  FollowsNode'
  BY <1>3 DEF Dies, Fresh, FollowsNode, TypeOK
<1>4. ASSUME UNCHANGED <<pc, minPath>>
      PROVE  FollowsNode'
  BY <1>4 DEF FollowsNode
<1>5. ASSUME NEW s \in Servers,
             \/ InitElection(s) \/ WatchBegin(s) \/ WatchStops(s) \/ WatchFires(s)
      PROVE  FollowsNode'
  BY <1>2, <1>5 DEF InitElection, InitEnsurePath, InitCreate, InitAssign, InitList,
     InitCount, WatchBegin, WatchStops, WatchFires, FetchList, data, Labels, Threads
<1>6. ASSUME NEW s \in Servers, Boot(s)
      PROVE  FollowsNode'
  BY <1>6 DEF Boot, FollowsNode, TypeOK, data, Threads
<1>7. ASSUME NEW s \in Servers, NEW t \in Threads,
             Compare(s, t) \/ Begin(s, t)
      PROVE  FollowsNode'
  BY <1>2, <1>7 DEF Compare, Begin, data, Labels
<1>8. ASSUME NEW s \in Servers, NEW t \in Threads, NEW n \in rest[s][t], Get(s, t, n)
      PROVE  FollowsNode'
  BY <1>8 DEF Get, FollowsNode, TypeOK
<1>9. ASSUME NEW s \in Servers, NEW t \in Threads, ReadLeader(s, t)
      PROVE  FollowsNode'
  BY <1>9 DEF ReadLeader, Goto, FollowsNode, TypeOK, data
<1>10. ASSUME NEW s \in Servers, NEW t \in Threads,
              Skip(s, t) \/ GetFails(s, t) \/ Lead(s, t) \/ Follow(s, t) \/ Synced(s, t)
       PROVE  FollowsNode'
  BY <1>1, <1>2, <1>3, <1>10 DEF Skip, GetFails, Raises, Lead, Follow, Synced, data, Labels
<1>11. ASSUME NEW s \in Servers, LoseSession(s) \/ Kill(s)
       PROVE  FollowsNode'
  BY <1>3, <1>4, <1>11 DEF LoseSession, Kill, data
<1>12. CASE \E n \in nodes : Expire(n)
  BY <1>4, <1>12 DEF Expire, data
<1>13. CASE UNCHANGED vars
  BY <1>4, <1>13 DEF vars, data
<1> QED
  BY <1>5, <1>6, <1>7, <1>8, <1>9, <1>10, <1>11, <1>12, <1>13
  DEF Next, CheckElection

\* Every variable of the election keeps its type, in every reachable state.
THEOREM TypeCorrectness == Spec => []TypeOK
<1>1. Init => TypeOK /\ FollowsNode
  BY TypeInit DEF Init, FollowsNode, Fresh
<1>2. TypeOK /\ FollowsNode /\ [Next]_vars => TypeOK' /\ FollowsNode'
  BY TypeStep, FollowsStep
<1> QED BY <1>1, <1>2, PTL DEF Spec

-----------------------------------------------------------------------------
(* The leader has the first node. *)

\* What a thread's list lacks comes after all that is on it and was read of it,
\* or after the first node it has read.
ListsLackNoEarlier ==
  \A s \in Servers, t \in Threads : \A m \in nodes :
    \/ m \in rest[s][t]
    \/ minPath[s][t] # 0 /\ minPath[s][t] <= m
    \/ \A k \in rest[s][t] \cup {minPath[s][t]} : k < m

\* zk_path is the server's node or not yet assigned, and a leader that had made
\* its node has it assigned.  Nothing runs in a process that has ended.
PathIsNode ==
  \A s \in Servers :
    /\ zkPath[s] \in {0, zkNode[s]}
    /\ ~up[s] \/ pc[s]["init"] \in {"sleep", "create"} => zkPath[s] = 0
    /\ ~up[s] => \A t \in Threads : pc[s][t] = "done"
    /\ leader[s] /\ ~unmade[s] => zkPath[s] # 0

LEMMA ListsStep ==
  ASSUME TypeOK, TypeOK', ListsLackNoEarlier, [Next]_vars
  PROVE  ListsLackNoEarlier'
<1> USE DEF ListsLackNoEarlier
<1>0. \A m \in nodes : m \in Nat /\ 0 < m
  BY DEF TypeOK, NodeIds
<1>1. ASSUME nodes' \subseteq nodes, UNCHANGED <<rest, minPath>>
      PROVE  ListsLackNoEarlier'
  BY <1>1
<1>2. ASSUME NEW s \in Servers, NEW t \in Threads, Return(s, t), nodes' = nodes
      PROVE  ListsLackNoEarlier'
  BY <1>0, <1>2 DEF Return, TypeOK
<1>3. ASSUME NEW s \in Servers, NEW t \in Threads, nodes' = nodes,
             rest' = [rest EXCEPT ![s][t] = nodes], minPath' = minPath
      PROVE  ListsLackNoEarlier'
  BY <1>3 DEF TypeOK
<1>4. ASSUME NEW s \in Servers, Dies(s)
      PROVE  ListsLackNoEarlier'
  BY <1>0, <1>4 DEF Dies, Fresh, TypeOK, zookeeper
<1>5. ASSUME NEW s \in Servers, InitCreate(s)
      PROVE  ListsLackNoEarlier'
  <2>1. Len(made) \in Nat
    BY DEF TypeOK
  <2>2. \A u \in Servers, t \in Threads :
          \A k \in rest[u][t] \cup {minPath[u][t]} : k < Len(made) + 1
    <3> SUFFICES ASSUME NEW u \in Servers, NEW t \in Threads
                 PROVE  \A k \in rest[u][t] \cup {minPath[u][t]} : k < Len(made) + 1
      OBVIOUS
    <3>1. rest[u][t] \in SUBSET (NodeIds \ {0}) /\ minPath[u][t] \in NodeIds
      BY DEF TypeOK
    <3>2. \A k \in NodeIds : k < Len(made) + 1
      BY <2>1 DEF NodeIds
    <3> QED BY <3>1, <3>2
  <2>3. nodes' = nodes \cup {Len(made) + 1} /\ UNCHANGED <<rest, minPath>>
    BY <1>5 DEF InitCreate, data
  <2> QED BY <2>2, <2>3
<1>6. ASSUME NEW s \in Servers, NEW t \in Threads, NEW n \in rest[s][t], Get(s, t, n)
      PROVE  ListsLackNoEarlier'
  <2> SUFFICES ASSUME NEW m \in nodes
               PROVE  \/ m \in rest'[s][t]
                      \/ minPath'[s][t] # 0 /\ minPath'[s][t] <= m
                      \/ \A k \in rest'[s][t] \cup {minPath'[s][t]} : k < m
    BY <1>6 DEF Get, TypeOK, zookeeper
  <2>1. /\ rest'[s][t] = rest[s][t] \ {n}
        /\ minPath'[s][t] = IF minPath[s][t] = 0 \/ n < minPath[s][t]
                             THEN n ELSE minPath[s][t]
    BY <1>6 DEF Get, TypeOK
  <2>2. n \in Nat /\ n > 0 /\ m \in Nat /\ minPath[s][t] \in Nat
    BY <1>0, <1>6 DEF Get, TypeOK, NodeIds
  <2>3. CASE m = n
    BY <2>1, <2>2, <2>3
  <2>4. CASE m # n
    BY <2>1, <2>2, <2>4
  <2> QED BY <2>3, <2>4
<1>7. ASSUME NEW s \in Servers, InitElection(s) \/ WatchBegin(s) \/ WatchStops(s)
                                \/ WatchFires(s)
      PROVE  ListsLackNoEarlier'
  BY <1>1, <1>3, <1>5, <1>7 DEF InitElection, InitEnsurePath, InitAssign, InitList,
     InitCount, WatchBegin, WatchStops, WatchFires, FetchList, zookeeper, data, Threads
<1>8. ASSUME NEW s \in Servers, NEW t \in Threads, CheckElection(s, t)
      PROVE  ListsLackNoEarlier'
  <2>1. CASE Compare(s, t) \/ Begin(s, t) \/ ReadLeader(s, t)
    BY <1>1, <2>1 DEF Compare, Begin, ReadLeader, zookeeper, data
  <2>2. CASE Skip(s, t) \/ Lead(s, t)
    BY <1>2, <2>2 DEF Skip, Lead, zookeeper
  <2>3. CASE GetFails(s, t) \/ Follow(s, t) \/ Synced(s, t)
    BY <1>1, <1>2, <1>4, <2>3 DEF GetFails, Follow, Synced, Raises, zookeeper, data
  <2> QED BY <1>6, <1>8, <2>1, <2>2, <2>3 DEF CheckElection
<1>9. CASE \E n \in nodes : Expire(n)
  BY <1>1, <1>9 DEF Expire, Ends, data
<1>10. ASSUME NEW s \in Servers, Boot(s) \/ Kill(s) \/ LoseSession(s)
       PROVE  ListsLackNoEarlier'
  BY <1>1, <1>4, <1>10 DEF Boot, Kill, LoseSession, Ends, zookeeper, data
<1>11. CASE UNCHANGED vars
  BY <1>1, <1>11 DEF vars, zookeeper, data
<1> QED
  BY <1>7, <1>8, <1>9, <1>10, <1>11 DEF Next

LEMMA PathStep ==
  ASSUME TypeOK, PathIsNode, [Next]_vars
  PROVE  PathIsNode'
<1> USE DEF PathIsNode
<1>1. ASSUME UNCHANGED <<zkPath, zkNode, up, leader, unmade>>,
             NEW s \in Servers, NEW t \in Threads, NEW l \in Labels,
             pc[s][t] # "done", Goto(s, t, l), l \notin {"sleep", "create"}
      PROVE  PathIsNode'
  BY <1>1 DEF Goto, TypeOK
<1>2. ASSUME UNCHANGED <<zkPath, zkNode, up, leader, unmade, pc>>
      PROVE  PathIsNode'
  BY <1>2
<1>3. ASSUME NEW s \in Servers, Dies(s)
      PROVE  PathIsNode'
  BY <1>3 DEF Dies, Fresh, TypeOK
<1>4. ASSUME NEW s \in Servers, Boot(s)
      PROVE  PathIsNode'
  BY <1>4 DEF Boot, TypeOK, globals, history
<1>5. ASSUME NEW s \in Servers, InitEnsurePath(s)
      PROVE  PathIsNode'
  BY <1>5 DEF InitEnsurePath, Goto, Threads, TypeOK, globals, kazoo, history
<1>6. ASSUME NEW s \in Servers, InitCreate(s)
      PROVE  PathIsNode'
  BY <1>6 DEF InitCreate, Goto, Threads, TypeOK, globals, history
<1>7. ASSUME NEW s \in Servers, InitAssign(s)
      PROVE  PathIsNode'
  BY <1>7 DEF InitAssign, Goto, Threads, TypeOK, kazoo, history
<1>8. ASSUME NEW s \in Servers, NEW t \in Threads, Lead(s, t)
      PROVE  PathIsNode'
  <2>1. UNCHANGED <<zkPath, zkNode, up>> /\ up[s]
    BY <1>8 DEF Lead, IsOver, kazoo, TypeOK
  <2>2. \A u \in Servers : leader'[u] /\ ~unmade'[u] => zkPath[u] # 0
    BY <1>8 DEF Lead, TypeOK
  <2>3. \A u \in Servers : pc'[u] = pc[u] \/ u = s
    BY <1>8 DEF Lead, Return, Goto, TypeOK
  <2>4. pc'[s]["init"] \in {"sleep", "create"} => pc[s]["init"] \in {"sleep", "create"}
    BY <1>8 DEF Lead, Return, Goto, TypeOK, Threads
  <2> QED BY <2>1, <2>2, <2>3, <2>4
<1>9. ASSUME NEW s \in Servers, NEW t \in Threads, Return(s, t),
             pc[s][t] # "done", UNCHANGED <<zkPath, zkNode, up, leader, unmade>>
      PROVE  PathIsNode'
  BY <1>1, <1>9 DEF Return, Labels
<1>10. ASSUME NEW s \in Servers,
              \/ InitList(s) \/ InitCount(s)
              \/ WatchBegin(s) \/ WatchStops(s) \/ WatchFires(s)
       PROVE  PathIsNode'
  BY <1>1, <1>10 DEF InitList, InitCount, WatchBegin, WatchStops, WatchFires,
     FetchList, globals, kazoo, history, Labels, Threads
<1>11. ASSUME NEW s \in Servers, NEW t \in Threads,
              Compare(s, t) \/ Begin(s, t) \/ ReadLeader(s, t)
       PROVE  PathIsNode'
  BY <1>1, <1>11 DEF Compare, Begin, ReadLeader, IsOver, globals, kazoo, history, Labels
<1>12. ASSUME NEW s \in Servers, NEW t \in Threads, NEW n \in rest[s][t], Get(s, t, n)
       PROVE  PathIsNode'
  BY <1>2, <1>12 DEF Get, kazoo, history
<1>13. ASSUME NEW s \in Servers, NEW t \in Threads,
              Skip(s, t) \/ GetFails(s, t) \/ Follow(s, t) \/ Synced(s, t)
       PROVE  PathIsNode'
  BY <1>1, <1>3, <1>9, <1>13 DEF Skip, GetFails, IsOver, Follow, Synced, Raises, globals, kazoo,
     history, Labels
<1>14. ASSUME NEW s \in Servers, Kill(s) \/ LoseSession(s)
       PROVE  PathIsNode'
  BY <1>2, <1>3, <1>14 DEF Kill, LoseSession, globals, history
<1>15. CASE \E n \in nodes : Expire(n)
  BY <1>2, <1>15 DEF Expire, globals, history
<1>16. CASE UNCHANGED vars
  BY <1>2, <1>16 DEF vars, globals, kazoo, history
<1> QED
  BY <1>4, <1>5, <1>6, <1>7, <1>8, <1>10, <1>11, <1>12, <1>13, <1>14, <1>15, <1>16
  DEF Next, InitElection, CheckElection

LEMMA LeaderStep ==
  ASSUME TypeOK, PathIsNode, ListsLackNoEarlier, LeaderIsFirst, [Next]_vars
  PROVE  LeaderIsFirst'
<1> USE DEF LeaderIsFirst, IsFirst
<1>1. ASSUME nodes' \subseteq nodes, UNCHANGED <<leader, unmade, zkNode>>
      PROVE  LeaderIsFirst'
  BY <1>1
<1>2. ASSUME NEW s \in Servers, Dies(s)
      PROVE  LeaderIsFirst'
  BY <1>2 DEF Dies, zookeeper, TypeOK
<1>3. ASSUME NEW s \in Servers, InitCreate(s)
      PROVE  LeaderIsFirst'
  <2>1. /\ nodes' = nodes \cup {Len(made) + 1}
        /\ zkNode' = [zkNode EXCEPT ![s] = Len(made) + 1]
        /\ UNCHANGED <<leader, unmade>>
    BY <1>3 DEF InitCreate, globals, history
  <2>2. ~(leader[s] /\ ~unmade[s])
    BY <1>3 DEF InitCreate, PathIsNode
  <2>3. ASSUME NEW u \in Servers \ {s}
        PROVE  /\ zkNode'[u] = zkNode[u]
               /\ zkNode[u] # Len(made) + 1 /\ zkNode[u] <= Len(made) + 1
    BY <2>1 DEF TypeOK, NodeIds
  <2> SUFFICES ASSUME NEW u \in Servers, leader'[u], ~unmade'[u], zkNode'[u] \in nodes'
               PROVE  IsFirst(zkNode'[u], nodes')
    OBVIOUS
  <2>4. u # s
    BY <2>1, <2>2
  <2>5. zkNode'[u] = zkNode[u] /\ zkNode[u] \in nodes
    BY <2>1, <2>3, <2>4
  <2>6. \A m \in nodes : zkNode[u] <= m
    BY <2>1, <2>5
  <2> QED BY <2>1, <2>3, <2>4, <2>5, <2>6
<1>4. ASSUME NEW s \in Servers, NEW t \in Threads, Lead(s, t)
      PROVE  LeaderIsFirst'
  <2>1. ASSUME ~unmade'[s]
        PROVE  zkNode[s] \in Nat /\ \A m \in nodes : m \in Nat /\ zkNode[s] <= m
    <3>1. zkPath[s] # 0
      BY <1>4, <2>1 DEF Lead, TypeOK
    <3>2. minPath[s][t] = zkNode[s] /\ rest[s][t] = {}
      BY <1>4, <3>1 DEF Lead, IsOver, PathIsNode
    <3>3. zkNode[s] \in Nat /\ \A m \in nodes : m \in Nat
      BY DEF TypeOK, NodeIds
    <3>4. \A m \in nodes : minPath[s][t] <= m \/ minPath[s][t] < m
      BY <3>2 DEF ListsLackNoEarlier
    <3> QED BY <3>2, <3>3, <3>4
  <2>2. UNCHANGED <<nodes, zkNode>>
    BY <1>4 DEF Lead, zookeeper, kazoo
  <2>3. ASSUME NEW u \in Servers \ {s}
        PROVE  leader'[u] = leader[u] /\ unmade'[u] = unmade[u]
    BY <1>4 DEF Lead, TypeOK
  <2> QED BY <2>1, <2>2, <2>3
<1>5. ASSUME NEW s \in Servers, NEW t \in Threads, CheckElection(s, t), ~Lead(s, t)
      PROVE  LeaderIsFirst'
  BY <1>1, <1>2, <1>5 DEF CheckElection, Compare, Skip, Begin, Get, GetFails, Raises,
     ReadLeader, Follow, Synced, zookeeper, globals, kazoo, history
<1>6. ASSUME NEW s \in Servers, InitElection(s), ~InitCreate(s)
      PROVE  LeaderIsFirst'
  BY <1>1, <1>6 DEF InitElection, InitEnsurePath, InitAssign, InitList, InitCount,
     zookeeper, globals, kazoo, history
<1>7. ASSUME NEW s \in Servers, WatchBegin(s) \/ WatchStops(s) \/ WatchFires(s)
      PROVE  LeaderIsFirst'
  BY <1>1, <1>7 DEF WatchBegin, WatchStops, WatchFires, FetchList, zookeeper, globals,
     history
<1>8. ASSUME NEW s \in Servers, Boot(s) \/ Kill(s) \/ LoseSession(s)
      PROVE  LeaderIsFirst'
  BY <1>1, <1>2, <1>8 DEF Boot, Kill, LoseSession, Ends, zookeeper, globals, history
<1>9. CASE \E n \in nodes : Expire(n)
  BY <1>1, <1>9 DEF Expire, Ends, globals, history
<1>10. CASE UNCHANGED vars
  BY <1>1, <1>10 DEF vars, zookeeper, globals, kazoo, history
<1> QED
  BY <1>3, <1>4, <1>5, <1>6, <1>7, <1>8, <1>9, <1>10 DEF Next

\* A leader with a node of its own has the first node of all, however old the
\* list was that made it leader.
THEOREM LeaderTheorem == Spec => []LeaderIsFirst
<1> DEFINE Inv == /\ TypeOK /\ FollowsNode /\ ListsLackNoEarlier
                  /\ PathIsNode /\ LeaderIsFirst
<1>1. Init => Inv
  <2> SUFFICES ASSUME Init PROVE Inv
    OBVIOUS
  <2>1. TypeOK /\ FollowsNode
    BY TypeInit DEF Init, FollowsNode, Fresh
  <2>2. ListsLackNoEarlier /\ LeaderIsFirst
    BY DEF Init, ListsLackNoEarlier, LeaderIsFirst
  <2>3. PathIsNode
    BY DEF Init, PathIsNode, Fresh, Threads
  <2> QED BY <2>1, <2>2, <2>3
<1>2. Inv /\ [Next]_vars => Inv'
  BY TypeStep, FollowsStep, ListsStep, PathStep, LeaderStep
<1>3. Inv => LeaderIsFirst
  OBVIOUS
<1> QED BY <1>1, <1>2, <1>3, PTL DEF Spec

-----------------------------------------------------------------------------
(* There is one such leader. *)

\* A node holds the port of the server whose session it belongs to.
OwnsNode == \A s \in Servers : zkNode[s] # 0 => made[zkNode[s]] = s

LEMMA OwnsStep ==
  ASSUME TypeOK, OwnsNode, [Next]_vars
  PROVE  OwnsNode'
<1> USE DEF OwnsNode
<1>1. ASSUME UNCHANGED <<made, zkNode>>
      PROVE  OwnsNode'
  BY <1>1
<1>2. ASSUME NEW s \in Servers, Dies(s)
      PROVE  OwnsNode'
  BY <1>2 DEF Dies, zookeeper, TypeOK
<1>3. ASSUME NEW s \in Servers, InitCreate(s)
      PROVE  OwnsNode'
  <2>1. /\ made' = Append(made, s)
        /\ zkNode' = [zkNode EXCEPT ![s] = Len(made) + 1]
    BY <1>3 DEF InitCreate
  <2>2. \A n \in 1..Len(made) : made'[n] = made[n]
    BY <2>1 DEF TypeOK
  <2>3. made'[Len(made) + 1] = s
    BY <2>1 DEF TypeOK
  <2>4. \A u \in Servers : zkNode[u] # 0 => zkNode[u] \in 1..Len(made)
    BY DEF TypeOK, NodeIds
  <2> QED BY <2>1, <2>2, <2>3, <2>4 DEF TypeOK
<1>4. ASSUME NEW s \in Servers, NEW t \in Threads, CheckElection(s, t)
      PROVE  OwnsNode'
  BY <1>1, <1>2, <1>4 DEF CheckElection, Compare, Skip, Begin, Get, GetFails, Raises,
     Lead, ReadLeader, Follow, Synced, zookeeper, kazoo
<1>5. ASSUME NEW s \in Servers,
             \/ InitElection(s) \/ WatchBegin(s) \/ WatchStops(s) \/ WatchFires(s)
      PROVE  OwnsNode'
  BY <1>1, <1>3, <1>5 DEF InitElection, InitEnsurePath, InitAssign, InitList, InitCount,
     WatchBegin, WatchStops, WatchFires, FetchList, zookeeper, kazoo
<1>6. ASSUME NEW s \in Servers, Boot(s) \/ Kill(s) \/ LoseSession(s)
      PROVE  OwnsNode'
  BY <1>1, <1>2, <1>6 DEF Boot, Kill, LoseSession, Ends, zookeeper
<1>7. CASE \E n \in nodes : Expire(n)
  BY <1>1, <1>7 DEF Expire
<1>8. CASE UNCHANGED vars
  BY <1>1, <1>8 DEF vars, zookeeper, kazoo
<1> QED
  BY <1>4, <1>5, <1>6, <1>7, <1>8 DEF Next

\* Servers that made themselves leader with a node of their own, and still have
\* it, are one: a second leader comes from an election over an empty list only.
MadeLeadersAreOne ==
  \A s, u \in Servers :
    /\ leader[s] /\ ~unmade[s] /\ zkNode[s] \in nodes
    /\ leader[u] /\ ~unmade[u] /\ zkNode[u] \in nodes
    => s = u

\* The leaders that check_election() makes over a list that is not empty exclude
\* each other.
THEOREM UniqueTheorem == Spec => []MadeLeadersAreOne
<1>1. Init => TypeOK /\ FollowsNode /\ OwnsNode
  BY TypeInit DEF Init, FollowsNode, Fresh, OwnsNode
<1>2. TypeOK /\ FollowsNode /\ OwnsNode /\ [Next]_vars
        => TypeOK' /\ FollowsNode' /\ OwnsNode'
  BY TypeStep, FollowsStep, OwnsStep
<1>3. TypeOK /\ OwnsNode /\ LeaderIsFirst => MadeLeadersAreOne
  <2> SUFFICES ASSUME TypeOK, OwnsNode, LeaderIsFirst,
                      NEW s \in Servers, NEW u \in Servers,
                      leader[s], ~unmade[s], zkNode[s] \in nodes,
                      leader[u], ~unmade[u], zkNode[u] \in nodes
               PROVE  s = u
    BY DEF MadeLeadersAreOne
  <2>1. \A m \in nodes : m \in Nat /\ m # 0
    BY DEF TypeOK, NodeIds
  <2>2. zkNode[s] = zkNode[u]
    BY <2>1 DEF LeaderIsFirst, IsFirst
  <2> QED BY <2>1, <2>2 DEF OwnsNode
<1> QED BY <1>1, <1>2, <1>3, LeaderTheorem, PTL DEF Spec

-----------------------------------------------------------------------------
(* The first leads, and the group is known. *)

\* The threads that run election_watch().
Checkers == {"main", "watch"}
\* Where a thread has a list and has not read all of it.
Reading == {"check", "grown", "begin", "loop"}

\* The watch is set and has not fired: the nodes are those it fetched last.
Current(s) == watch[s] = "set" /\ ~event[s]

\* All nodes are on the list of a thread, or do not sort before the first it
\* has read, which is there.
Sees(s, t) ==
  /\ rest[s][t] \subseteq nodes /\ minPath[s][t] \in nodes \cup {0}
  /\ \A m \in nodes :
       m \in rest[s][t] \/ (minPath[s][t] # 0 /\ minPath[s][t] <= m)
  /\ pc[s][t] # "loop" => rest[s][t] = nodes

\* kazoo's thread waits for the main thread; zk_path lacks while it is to be
\* assigned; a list that was not raced has no init thread beside it; a thread
\* outside the loop has read no node.
ThreadsTakeTurns ==
  \A s \in Servers :
    /\ pc[s]["main"] # "done" => pc[s]["watch"] = "idle"
    /\ ~up[s] \/ pc[s]["main"] = "load" => watch[s] = "unset"
    /\ zkNode[s] # 0 /\ zkPath[s] = 0 => pc[s]["init"] = "assign"
    /\ watch[s] = "set" /\ ~raced[s] => pc[s]["init"] = "done"
    /\ \A t \in Threads :
         pc[s][t] \notin {"loop", "follow", "sync"} => minPath[s][t] = 0

ListIsCurrent(s) ==
  \A t \in Checkers : Current(s) /\ pc[s][t] \in Reading => Sees(s, t)

ListsAreCurrent == \A s \in Servers : ListIsCurrent(s)

\* The init thread is still to elect, over a list that is current.
InitElects(s) ==
  /\ pc[s]["init"] \in {"assign", "list", "count", "check", "begin", "loop"}
  /\ pc[s]["init"] \in {"count", "check", "begin", "loop"} => Sees(s, "init")
  /\ pc[s]["init"] = "check" => numChildren[s] = Cardinality(rest[s]["init"])

\* The server of the first node leads, or one of its threads will find that.
IsElected(s) ==
  Current(s) /\ ~skipped[s] /\ IsFirst(zkNode[s], nodes) =>
    \/ leader[s]
    \/ \E t \in Checkers : pc[s][t] \in Reading
    \/ InitElects(s)

FirstIsElected == \A s \in Servers : IsElected(s)

Ports(S) == {made[n] : n \in S}

\* What a thread has read of the group, and what it leaves when it is done.
ReadsGroup(s, t) ==
  /\ pc[s][t] = "loop" => peerPorts[s] \cup Ports(rest[s][t]) = Ports(nodes)
  /\ pc[s][t] = "follow" =>
       peerPorts[s] = Ports(nodes) /\ IsFirst(minPath[s][t], nodes)

KnowsGroup(s) ==
  /\ peerPorts[s] = Ports(nodes)
  /\ \A n \in nodes : IsFirst(n, nodes) => leaderPort[s] = made[n]

GroupIsRead(s) ==
  Current(s) /\ ~skipped[s] /\ ~raced[s] /\ zkNode[s] \in nodes =>
    /\ \A t \in Checkers : ReadsGroup(s, t)
    /\ (\A t \in Checkers : pc[s][t] \notin Reading \cup {"follow"}) => KnowsGroup(s)

GroupsAreRead == \A s \in Servers : GroupIsRead(s)

LEMMA TurnsStep ==
  ASSUME TypeOK, TypeOK', PathIsNode, ThreadsTakeTurns, [Next]_vars
  PROVE  ThreadsTakeTurns'
<1> USE DEF ThreadsTakeTurns
<1>0. \A s \in Servers, t \in Threads :
        Threads = {"init", "main", "watch"} /\ pc[s][t] \in Labels /\ pc'[s][t] \in Labels
  BY DEF TypeOK, Threads
<1>1. ASSUME UNCHANGED <<pc, up, watch, zkNode, zkPath, raced, minPath>>
      PROVE  ThreadsTakeTurns'
  BY <1>1
<1>2. ASSUME NEW s \in Servers, Dies(s)
      PROVE  ThreadsTakeTurns'
  BY <1>2 DEF Dies, Fresh, TypeOK, Threads
<1>3. ASSUME NEW s \in Servers, Boot(s)
      PROVE  ThreadsTakeTurns'
  <2>1. /\ UNCHANGED <<zkNode, zkPath, watch, raced, minPath>>
        /\ pc'[s] = [init |-> "sleep", main |-> "load", watch |-> "idle"]
        /\ \A u \in Servers \ {s} : pc'[u] = pc[u] /\ up'[u] = up[u]
    BY <1>3 DEF Boot, globals, data, history, TypeOK
  <2>2. /\ zkPath[s] = 0 /\ zkNode[s] = 0 /\ watch[s] = "unset"
        /\ \A t \in Threads : minPath[s][t] = 0
    <3>1. \A t \in Threads : pc[s][t] = "done"
      BY <1>3 DEF Boot, PathIsNode
    <3>2. zkPath[s] = 0 /\ watch[s] = "unset"
      BY <1>3 DEF Boot, PathIsNode
    <3> QED BY <3>1, <3>2 DEF Threads
  <2> QED BY <2>1, <2>2 DEF Threads
<1>4. ASSUME NEW s \in Servers, NEW t \in Threads, NEW l \in Labels \ {"load"},
             pc' = [pc EXCEPT ![s][t] = l], pc[s][t] \notin {"done", "idle", "assign"},
             UNCHANGED <<up, watch, zkNode, zkPath, raced>>,
             \A u \in Servers, r \in Threads :
               u # s \/ r # t => minPath'[u][r] = minPath[u][r],
             l \notin {"loop", "follow", "sync"} => minPath'[s][t] = 0,
             t = "watch" \/ l # "idle", t # "init" \/ l # "idle"
      PROVE  ThreadsTakeTurns'
  <2>1. \A u \in Servers, r \in Threads :
          pc'[u][r] = IF u = s /\ r = t THEN l ELSE pc[u][r]
    BY <1>4 DEF TypeOK
  <2>2. ASSUME NEW u \in Servers
        PROVE  /\ pc'[u]["main"] # "done" => pc'[u]["watch"] = "idle"
               /\ ~up'[u] \/ pc'[u]["main"] = "load" => watch'[u] = "unset"
               /\ zkNode'[u] # 0 /\ zkPath'[u] = 0 => pc'[u]["init"] = "assign"
               /\ watch'[u] = "set" /\ ~raced'[u] => pc'[u]["init"] = "done"
    BY <1>0, <1>4, <2>1
  <2>3. ASSUME NEW u \in Servers, NEW r \in Threads,
               pc'[u][r] \notin {"loop", "follow", "sync"}
        PROVE  minPath'[u][r] = 0
    BY <1>4, <2>1, <2>3
  <2> QED BY <2>2, <2>3
<1>5. ASSUME NEW s \in Servers, NEW t \in Threads, NEW l \in Labels \ {"load", "idle"},
             Goto(s, t, l), pc[s][t] \notin {"done", "idle", "assign"},
             pc[s][t] \notin {"loop", "follow", "sync"} \/ l \in {"loop", "follow", "sync"},
             UNCHANGED <<up, watch, zkNode, zkPath, raced, minPath>>
      PROVE  ThreadsTakeTurns'
  <2>1. l \notin {"loop", "follow", "sync"} => minPath'[s][t] = 0
    BY <1>5
  <2>2. pc' = [pc EXCEPT ![s][t] = l]
    BY <1>5 DEF Goto
  <2> HIDE DEF ThreadsTakeTurns
  <2> QED BY <1>4, <1>5, <2>1, <2>2
<1>6. ASSUME NEW s \in Servers, NEW t \in Threads, Return(s, t),
             pc[s][t] \notin {"done", "idle", "assign"},
             UNCHANGED <<up, watch, zkNode, zkPath, raced>>
      PROVE  ThreadsTakeTurns'
  <2>1. PICK l \in {"idle", "done"} :
          pc' = [pc EXCEPT ![s][t] = l] /\ (l = "idle" <=> t = "watch")
    BY <1>6 DEF Return, Goto
  <2>2. /\ minPath'[s][t] = 0
        /\ \A u \in Servers, r \in Threads :
             u # s \/ r # t => minPath'[u][r] = minPath[u][r]
    BY <1>6 DEF Return, TypeOK
  <2>3. l \in Labels \ {"load"}
    BY DEF Labels
  <2> HIDE DEF ThreadsTakeTurns
  <2> QED BY <1>4, <1>6, <2>1, <2>2, <2>3
<1>7. ASSUME NEW s \in Servers, NEW t \in Threads, Raises(s, t),
             pc[s][t] \notin {"done", "idle", "assign"}
      PROVE  ThreadsTakeTurns'
  BY <1>2, <1>6, <1>7 DEF Raises, globals, kazoo, history
<1>8. ASSUME NEW s \in Servers, NEW t \in Threads, CheckElection(s, t)
      PROVE  ThreadsTakeTurns'
  <2> HIDE DEF ThreadsTakeTurns
  <2>1. CASE Compare(s, t) \/ Begin(s, t) \/ ReadLeader(s, t)
    BY <1>5, <2>1 DEF Compare, Begin, ReadLeader, IsOver, globals, kazoo, data, history,
                      Labels
  <2>2. CASE Skip(s, t) \/ Lead(s, t)
    BY <1>6, <2>2 DEF Skip, Lead, IsOver, kazoo
  <2>3. CASE GetFails(s, t)
    BY <1>7, <2>3 DEF GetFails, IsOver
  <2>4. ASSUME NEW n \in rest[s][t], Get(s, t, n)
        PROVE  ThreadsTakeTurns'
    <3>1. /\ UNCHANGED <<pc, up, watch, zkNode, zkPath, raced>> /\ pc[s][t] = "loop"
          /\ \A u \in Servers, r \in Threads :
               u # s \/ r # t => minPath'[u][r] = minPath[u][r]
      BY <2>4 DEF Get, kazoo, history, TypeOK
    <3> QED BY <3>1 DEF ThreadsTakeTurns
  <2>5. CASE Follow(s, t)
    BY <1>5, <1>6, <2>5 DEF Follow, kazoo, data, history, Labels
  <2>6. CASE Synced(s, t)
    BY <1>6, <1>7, <2>6 DEF Synced, globals, kazoo, history
  <2> QED BY <1>8, <2>1, <2>2, <2>3, <2>4, <2>5, <2>6 DEF CheckElection
<1>9. ASSUME NEW s \in Servers, InitEnsurePath(s) \/ InitList(s) \/ InitCount(s)
      PROVE  ThreadsTakeTurns'
  <2> HIDE DEF ThreadsTakeTurns
  <2> QED BY <1>5, <1>9 DEF InitEnsurePath, InitList, InitCount, globals, kazoo, data,
                            history, Labels, Threads
<1>10. ASSUME NEW s \in Servers, InitCreate(s)
       PROVE  ThreadsTakeTurns'
  <2>1. /\ UNCHANGED <<up, watch, zkPath, raced, minPath>>
        /\ pc[s]["init"] = "create" /\ pc' = [pc EXCEPT ![s]["init"] = "assign"]
        /\ zkNode' = [zkNode EXCEPT ![s] = Len(made) + 1]
    BY <1>10 DEF InitCreate, Goto, globals, data, history
  <2>2. /\ pc'[s]["init"] = "assign" /\ \A t \in Threads \ {"init"} : pc'[s][t] = pc[s][t]
        /\ \A u \in Servers \ {s} : pc'[u] = pc[u] /\ zkNode'[u] = zkNode[u]
    BY <2>1 DEF TypeOK, Threads
  <2> QED BY <2>1, <2>2 DEF Threads
<1>11. ASSUME NEW s \in Servers, InitAssign(s)
       PROVE  ThreadsTakeTurns'
  <2>1. /\ UNCHANGED <<up, watch, zkNode, raced, minPath>>
        /\ pc[s]["init"] = "assign" /\ pc' = [pc EXCEPT ![s]["init"] = "list"]
        /\ zkPath' = [zkPath EXCEPT ![s] = zkNode[s]]
    BY <1>11 DEF InitAssign, Goto, kazoo, data, history
  <2>2. /\ pc'[s]["init"] = "list" /\ \A t \in Threads \ {"init"} : pc'[s][t] = pc[s][t]
        /\ \A u \in Servers \ {s} : pc'[u] = pc[u] /\ zkPath'[u] = zkPath[u]
        /\ zkPath'[s] = zkNode[s]
    BY <2>1 DEF TypeOK, Threads
  <2> QED BY <2>1, <2>2 DEF Threads
<1>12. ASSUME NEW s \in Servers, WatchBegin(s) \/ WatchFires(s)
       PROVE  ThreadsTakeTurns'
  <2>1. PICK t \in Checkers :
          /\ FetchList(s, t)
          /\ t = "main" => pc[s]["main"] = "load"
          /\ t = "watch" => pc[s]["main"] = "done" /\ pc[s]["watch"] = "idle"
    BY <1>12 DEF WatchBegin, WatchFires, Checkers
  <2>2. /\ UNCHANGED <<up, zkNode, zkPath, minPath>>
        /\ pc'[s][t] = "check" /\ \A r \in Threads \ {t} : pc'[s][r] = pc[s][r]
        /\ \A u \in Servers \ {s} : pc'[u] = pc[u] /\ raced'[u] = raced[u]
        /\ ~raced'[s] => pc[s]["init"] = "done"
    <3>1. /\ UNCHANGED <<up, zkNode, zkPath, minPath>>
          /\ pc' = [pc EXCEPT ![s][t] = "check"]
          /\ raced' = [raced EXCEPT ![s] = pc[s]["init"] # "done"]
      BY <2>1 DEF FetchList, Goto, globals
    <3>2. /\ pc'[s][t] = "check" /\ \A r \in Threads \ {t} : pc'[s][r] = pc[s][r]
          /\ \A u \in Servers \ {s} : pc'[u] = pc[u]
      BY <3>1 DEF TypeOK, Threads, Checkers
    <3>3. \A u \in Servers \ {s} : raced'[u] = raced[u]
      BY <3>1 DEF TypeOK
    <3>4. raced'[s] = (pc[s]["init"] # "done")
      <4>1. \A f \in [Servers -> BOOLEAN] : \A b : [f EXCEPT ![s] = b][s] = b
        OBVIOUS
      <4>2. raced \in [Servers -> BOOLEAN]
        BY DEF TypeOK
      <4> QED BY <3>1, <4>1, <4>2, Zenon
    <3> QED BY <3>1, <3>2, <3>3, <3>4
  <2>3. /\ \A u \in Servers \ {s} : watch'[u] = watch[u]
        /\ up[s]
    <3>1. pc[s]["main"] = "load" \/ pc[s]["watch"] = "idle"
      BY <2>1 DEF Checkers
    <3>2. up[s]
      BY <3>1 DEF PathIsNode, Threads
    <3> QED BY <1>12, <3>2 DEF WatchBegin, WatchFires, TypeOK
  <2> QED BY <2>1, <2>2, <2>3 DEF Threads, Checkers
<1>13. ASSUME NEW s \in Servers, WatchStops(s)
       PROVE  ThreadsTakeTurns'
  <2>1. /\ UNCHANGED <<up, zkNode, zkPath, raced, minPath>>
        /\ pc[s]["main"] = "load" /\ pc'[s]["main"] = "done" /\ watch'[s] = "stopped"
        /\ \A t \in Threads \ {"main"} : pc'[s][t] = pc[s][t]
        /\ \A u \in Servers \ {s} : pc'[u] = pc[u] /\ watch'[u] = watch[u]
    BY <1>13 DEF WatchStops, Goto, globals, data, history, TypeOK, Threads
  <2>2. up[s]
    BY <2>1 DEF PathIsNode, Threads
  <2> QED BY <2>1, <2>2 DEF Threads
<1>14. CASE \/ \E n \in nodes : Expire(n)
            \/ \E s \in Servers : LoseSession(s)
            \/ UNCHANGED vars
  BY <1>1, <1>14 DEF Expire, LoseSession, vars, globals, kazoo, data, history
<1> QED
  BY <1>2, <1>3, <1>8, <1>9, <1>10, <1>11, <1>12, <1>13, <1>14
  DEF Next, Kill, InitElection

\* What a server that does not act keeps, and what its other threads keep when
\* one of its threads acts.
Apart(u) ==
  /\ pc'[u] = pc[u] /\ rest'[u] = rest[u] /\ minPath'[u] = minPath[u]
  /\ watch'[u] = watch[u] /\ event'[u] = event[u] /\ zkNode'[u] = zkNode[u]
  /\ leader'[u] = leader[u] /\ leaderPort'[u] = leaderPort[u]
  /\ numChildren'[u] = numChildren[u] /\ peerPorts'[u] = peerPorts[u]
  /\ skipped'[u] = skipped[u] /\ raced'[u] = raced[u]

Alone(s, t) ==
  /\ watch'[s] = watch[s] /\ event'[s] = event[s]
  /\ zkNode'[s] = zkNode[s] /\ raced'[s] = raced[s]
  /\ \A r \in Threads \ {t} :
       pc'[s][r] = pc[s][r] /\ rest'[s][r] = rest[s][r] /\ minPath'[s][r] = minPath[s][r]

\* A step of ZooKeeper's, or a new node, fires all watches that are set.
LEMMA FiresAll ==
  ASSUME TypeOK,
         \/ \E n \in nodes : Expire(n)
         \/ \E s \in Servers : LoseSession(s) \/ InitCreate(s)
  PROVE  \A u \in Servers : ~Current(u)'
BY DEF Expire, LoseSession, InitCreate, Ends, Fire, Current, TypeOK

LEMMA DiesApart ==
  ASSUME TypeOK, NEW s \in Servers, Dies(s)
  PROVE  /\ UNCHANGED <<nodes, made>> /\ \A u \in Servers \ {s} : Apart(u)
         /\ ~Current(s)'
BY DEF Dies, Apart, Current, TypeOK, zookeeper

LEMMA ReturnApart ==
  ASSUME TypeOK, NEW s \in Servers, NEW t \in Threads, Return(s, t)
  PROVE  /\ \A u \in Servers \ {s} :
              pc'[u] = pc[u] /\ rest'[u] = rest[u] /\ minPath'[u] = minPath[u]
         /\ \A r \in Threads \ {t} :
              /\ pc'[s][r] = pc[s][r] /\ rest'[s][r] = rest[s][r]
              /\ minPath'[s][r] = minPath[s][r]
         /\ pc'[s][t] = IF t = "watch" THEN "idle" ELSE "done"
         /\ rest'[s][t] = {} /\ minPath'[s][t] = 0
BY DEF Return, Goto, TypeOK

LEMMA RaisesApart ==
  ASSUME TypeOK, NEW s \in Servers, NEW t \in Threads, Raises(s, t)
  PROVE  /\ UNCHANGED <<nodes, made>> /\ \A u \in Servers \ {s} : Apart(u)
         /\ Alone(s, t) \/ ~Current(s)'
<1>1. CASE Return(s, t) /\ UNCHANGED <<zookeeper, globals, kazoo, events, history>>
  <2> USE DEF zookeeper, globals, kazoo, history
  <2> QED BY <1>1, ReturnApart DEF Apart, Alone
<1> QED BY <1>1, DiesApart DEF Raises

\* check_election() in a thread.
LEMMA ChecksApart ==
  ASSUME TypeOK, NEW s \in Servers, NEW t \in Threads, CheckElection(s, t)
  PROVE  /\ UNCHANGED <<nodes, made>> /\ \A u \in Servers \ {s} : Apart(u)
         /\ Alone(s, t) \/ ~Current(s)'
<1> USE DEF Apart, Alone, zookeeper, globals, kazoo, data, history
<1>1. CASE Compare(s, t) \/ ReadLeader(s, t)
  BY <1>1 DEF Compare, ReadLeader, Goto, TypeOK
<1>2. CASE Skip(s, t)
  BY <1>2, ReturnApart DEF Skip, TypeOK
<1>3. CASE Begin(s, t)
  BY <1>3 DEF Begin, Goto, TypeOK
<1>4. ASSUME NEW n \in rest[s][t], Get(s, t, n)
      PROVE  /\ UNCHANGED <<nodes, made>> /\ \A u \in Servers \ {s} : Apart(u)
             /\ Alone(s, t)
  BY <1>4 DEF Get, TypeOK
<1>5. CASE GetFails(s, t)
  <2> HIDE DEF Apart, Alone
  <2> QED BY <1>5, RaisesApart DEF GetFails
<1>6. CASE Lead(s, t)
  BY <1>6, ReturnApart DEF Lead, TypeOK
<1>7. CASE Follow(s, t)
  <2>1. /\ UNCHANGED <<nodes, made, watch, event, zkNode, raced, skipped, leader,
                       numChildren, peerPorts>>
        /\ \A u \in Servers \ {s} : leaderPort'[u] = leaderPort[u]
    BY <1>7 DEF Follow, TypeOK
  <2>2. CASE Return(s, t)
    BY <2>1, <2>2, ReturnApart
  <2>3. CASE Goto(s, t, "sync") /\ UNCHANGED data
    BY <2>1, <2>3 DEF Goto, TypeOK
  <2> QED BY <1>7, <2>2, <2>3 DEF Follow
<1>8. CASE Synced(s, t)
  <2>1. CASE Return(s, t) /\ UNCHANGED <<zookeeper, globals, kazoo, events, history>>
    BY <2>1, ReturnApart
  <2> HIDE DEF Apart, Alone
  <2> QED BY <1>8, <2>1, RaisesApart DEF Synced
<1> QED
  BY <1>1, <1>2, <1>3, <1>4, <1>5, <1>6, <1>7, <1>8 DEF CheckElection

\* zk_init_election(), but for the new node.
LEMMA InitApart ==
  ASSUME TypeOK, NEW s \in Servers, InitElection(s), ~InitCreate(s)
  PROVE  /\ UNCHANGED <<nodes, made>> /\ \A u \in Servers \ {s} : Apart(u)
         /\ Alone(s, "init")
<1> USE DEF Apart, Alone, zookeeper, globals, kazoo, data, history, Goto, TypeOK, Threads
<1>1. CASE InitEnsurePath(s)
  BY <1>1 DEF InitEnsurePath
<1>2. CASE InitAssign(s)
  BY <1>2 DEF InitAssign
<1>3. CASE InitList(s)
  BY <1>3 DEF InitList
<1>4. CASE InitCount(s)
  BY <1>4 DEF InitCount
<1> QED BY <1>1, <1>2, <1>3, <1>4 DEF InitElection

\* The processes, and the watch.
LEMMA OthersApart ==
  ASSUME TypeOK, NEW s \in Servers,
         Boot(s) \/ Kill(s) \/ WatchBegin(s) \/ WatchStops(s) \/ WatchFires(s)
  PROVE  UNCHANGED <<nodes, made>> /\ \A u \in Servers \ {s} : Apart(u)
<1> USE DEF Apart, zookeeper, globals, kazoo, data, history
<1>1. CASE Boot(s)
  BY <1>1 DEF Boot, TypeOK
<1>2. CASE Kill(s)
  <2> HIDE DEF Apart
  <2> QED BY <1>2, DiesApart DEF Kill
<1>3. ASSUME NEW t \in Threads, FetchList(s, t),
             \A u \in Servers \ {s} : watch'[u] = watch[u]
      PROVE  UNCHANGED <<nodes, made>> /\ \A u \in Servers \ {s} : Apart(u)
  BY <1>3 DEF FetchList, Goto, TypeOK
<1>4. CASE WatchBegin(s) \/ WatchFires(s)
  <2> HIDE DEF Apart
  <2> QED BY <1>3, <1>4 DEF WatchBegin, WatchFires, Threads, TypeOK
<1>5. CASE WatchStops(s)
  BY <1>5 DEF WatchStops, Goto, TypeOK
<1> QED BY <1>1, <1>2, <1>4, <1>5

\* A new list is that of the nodes, and no other thread of the watch reads one.
LEMMA FetchSees ==
  ASSUME TypeOK, ThreadsTakeTurns, NEW s \in Servers, WatchBegin(s) \/ WatchFires(s)
  PROVE  \E t \in Checkers :
           /\ pc'[s][t] = "check" /\ Sees(s, t)'
           /\ \A r \in Checkers \ {t} : pc'[s][r] \in {"idle", "done"}
<1>1. PICK t \in Checkers :
        /\ FetchList(s, t)
        /\ t = "main" => pc[s]["main"] = "load"
        /\ t = "watch" => pc[s]["main"] = "done" /\ pc[s]["watch"] = "idle"
  BY DEF WatchBegin, WatchFires, Checkers
<1>2. /\ pc'[s][t] = "check" /\ rest'[s][t] = nodes /\ minPath' = minPath /\ nodes' = nodes
      /\ \A r \in Checkers \ {t} : pc'[s][r] = pc[s][r]
  BY <1>1 DEF FetchList, Goto, zookeeper, TypeOK, Threads, Checkers
<1>3. minPath[s][t] = 0
  BY <1>1 DEF ThreadsTakeTurns, Threads, Checkers
<1>4. \A r \in Checkers \ {t} : pc[s][r] \in {"idle", "done"}
  BY <1>1 DEF ThreadsTakeTurns, Checkers
<1> QED BY <1>2, <1>3, <1>4 DEF Sees

\* A thread that reads on sees what it saw.
LEMMA ReadingSees ==
  ASSUME TypeOK, ThreadsTakeTurns, NEW s \in Servers, NEW t \in Threads, Sees(s, t),
         CheckElection(s, t), pc[s][t] \in Reading, pc'[s][t] \in Reading
  PROVE  Sees(s, t)'
<1>1. CASE Compare(s, t) \/ Begin(s, t)
  BY <1>1 DEF Sees, Compare, Begin, Goto, TypeOK, zookeeper, data
<1>2. ASSUME NEW n \in rest[s][t], Get(s, t, n)
      PROVE  Sees(s, t)'
  <2>1. /\ rest'[s][t] = rest[s][t] \ {n} /\ nodes' = nodes /\ n \in nodes
        /\ minPath'[s][t] = IF minPath[s][t] = 0 \/ n < minPath[s][t]
                             THEN n ELSE minPath[s][t]
        /\ pc'[s][t] = "loop"
    BY <1>2 DEF Get, TypeOK, zookeeper
  <2>2. /\ n \in Nat /\ n # 0 /\ minPath[s][t] \in Nat
        /\ \A m \in nodes : m \in Nat
    BY <2>1 DEF TypeOK, NodeIds
  <2>3. ASSUME NEW m \in nodes
        PROVE  m \in rest'[s][t] \/ (minPath'[s][t] # 0 /\ minPath'[s][t] <= m)
    <3>1. m \in rest[s][t] \/ (minPath[s][t] # 0 /\ minPath[s][t] <= m)
      BY DEF Sees
    <3>2. minPath'[s][t] # 0 /\ minPath'[s][t] <= n
      BY <2>1, <2>2
    <3>3. CASE m = n
      BY <3>2, <3>3
    <3>4. CASE minPath[s][t] # 0 /\ minPath[s][t] <= m
      BY <2>1, <2>2, <3>4
    <3> QED BY <2>1, <3>1, <3>3, <3>4
  <2>4. minPath'[s][t] \in nodes \cup {0} /\ rest'[s][t] \subseteq nodes
    BY <2>1 DEF Sees
  <2> QED BY <2>1, <2>3, <2>4 DEF Sees
<1>3. CASE ReadLeader(s, t)
  BY <1>3 DEF ReadLeader, Goto, TypeOK, Reading
<1>4. ASSUME Return(s, t)
      PROVE  FALSE
  BY <1>4, ReturnApart DEF Reading
<1>5. ASSUME Dies(s)
      PROVE  FALSE
  BY <1>5 DEF Dies, Fresh, TypeOK, Reading
<1>6. CASE Skip(s, t) \/ GetFails(s, t) \/ Lead(s, t)
  <2>1. CASE Skip(s, t)
    BY <1>4, <1>5, <2>1 DEF Skip
  <2>2. CASE GetFails(s, t)
    BY <1>4, <1>5, <2>2 DEF GetFails, Raises
  <2>3. CASE Lead(s, t)
    BY <1>4, <1>5, <2>3 DEF Lead
  <2> QED BY <1>6, <2>1, <2>2, <2>3
<1>7. CASE Follow(s, t) \/ Synced(s, t)
  BY <1>7 DEF Follow, Synced, Reading
<1> QED BY <1>1, <1>2, <1>3, <1>6, <1>7 DEF CheckElection

LEMMA CurrentStep ==
  ASSUME TypeOK, ThreadsTakeTurns, ListsAreCurrent, [Next]_vars
  PROVE  ListsAreCurrent'
<1> USE DEF ListsAreCurrent
<1>1. ASSUME NEW u \in Servers, Apart(u), nodes' = nodes
      PROVE  ListIsCurrent(u)'
  BY <1>1 DEF ListIsCurrent, Apart, Current, Sees
<1>2. CASE \/ \E n \in nodes : Expire(n)
           \/ \E s \in Servers : LoseSession(s) \/ InitCreate(s)
  BY <1>2, FiresAll DEF ListIsCurrent
<1>3. CASE UNCHANGED vars
  BY <1>1, <1>3 DEF vars, Apart, zookeeper, globals, kazoo, data, history
<1>4. ASSUME NEW s \in Servers, InitElection(s), ~InitCreate(s)
      PROVE  ListsAreCurrent'
  <2>1. ListIsCurrent(s)'
    BY <1>4, InitApart DEF ListIsCurrent, Alone, Current, Sees, Checkers, Threads
  <2> QED BY <1>1, <1>4, <2>1, InitApart
<1>5. ASSUME NEW s \in Servers, NEW t \in Threads, CheckElection(s, t)
      PROVE  ListsAreCurrent'
  <2>1. ASSUME Alone(s, t), Current(s)', NEW r \in Checkers, pc'[s][r] \in Reading
        PROVE  Sees(s, r)'
    <3>1. Current(s) /\ nodes' = nodes
      BY <1>5, <2>1, ChecksApart DEF Alone, Current
    <3>2. CASE r # t
      BY <2>1, <3>1, <3>2 DEF ListIsCurrent, Alone, Sees, Checkers, Threads
    <3>3. CASE r = t
      <4>1. pc[s][t] \in Reading
        <5>1. CASE Follow(s, t) \/ Synced(s, t)
          <6>1. pc'[s][t] \notin Reading
            <7>1. CASE Return(s, t)
              BY <7>1, ReturnApart DEF Reading
            <7>2. CASE Goto(s, t, "sync")
              BY <7>2 DEF Goto, TypeOK, Reading
            <7>3. CASE Dies(s)
              BY <7>3 DEF Dies, Fresh, TypeOK, Reading
            <7> QED BY <5>1, <7>1, <7>2, <7>3 DEF Follow, Synced, Raises
          <6> QED BY <2>1, <3>3, <6>1
        <5>2. CASE ~(Follow(s, t) \/ Synced(s, t))
          BY <1>5, <5>2 DEF CheckElection, Compare, Skip, Begin, Get, GetFails, Lead,
                            ReadLeader, IsOver, Reading
        <5> QED BY <5>1, <5>2
      <4>2. Sees(s, t)
        BY <3>1, <3>3, <4>1 DEF ListIsCurrent
      <4> QED BY <1>5, <2>1, <3>3, <4>1, <4>2, ReadingSees
    <3> QED BY <3>2, <3>3
  <2>2. ListIsCurrent(s)'
    BY <1>5, <2>1, ChecksApart DEF ListIsCurrent
  <2> QED BY <1>1, <1>5, <2>2, ChecksApart
<1>6. ASSUME NEW s \in Servers, Boot(s)
      PROVE  ListsAreCurrent'
  <2>1. ListIsCurrent(s)'
    BY <1>6 DEF ListIsCurrent, Boot, TypeOK, Checkers, Reading
  <2> QED BY <1>1, <1>6, <2>1, OthersApart
<1>7. ASSUME NEW s \in Servers, Kill(s) \/ WatchStops(s)
      PROVE  ListsAreCurrent'
  <2>1. ~Current(s)'
    BY <1>7 DEF Kill, Dies, WatchStops, Current, TypeOK
  <2>2. ListIsCurrent(s)'
    BY <2>1 DEF ListIsCurrent
  <2> QED BY <1>1, <1>7, <2>2, OthersApart
<1>8. ASSUME NEW s \in Servers, WatchBegin(s) \/ WatchFires(s)
      PROVE  ListsAreCurrent'
  <2>1. ListIsCurrent(s)'
    BY <1>8, FetchSees DEF ListIsCurrent, Reading
  <2> QED BY <1>1, <1>8, <2>1, OthersApart
<1> QED
  BY <1>2, <1>3, <1>4, <1>5, <1>6, <1>7, <1>8 DEF Next

\* A thread that has read all of a current list has found the first node, and
\* no node it asked for was gone.
LEMMA FirstIsSeen ==
  ASSUME TypeOK, NEW s \in Servers, NEW t \in Threads, Sees(s, t), nodes # {}
  PROVE  /\ IsOver(s, t) => IsFirst(minPath[s][t], nodes)
         /\ ~GetFails(s, t)
<1>1. \A m \in nodes : m \in Nat /\ m # 0
  BY DEF TypeOK, NodeIds
<1>2. ASSUME IsOver(s, t)
      PROVE  IsFirst(minPath[s][t], nodes)
  BY <1>1, <1>2 DEF IsOver, Sees, IsFirst
<1> QED BY <1>2 DEF GetFails, Sees, IsFirst

LEMMA FirstIsOne ==
  ASSUME TypeOK, NEW m, NEW n, IsFirst(m, nodes), IsFirst(n, nodes)
  PROVE  m = n /\ m # 0
<1>1. \A k \in nodes : k \in Nat /\ k # 0
  BY DEF TypeOK, NodeIds
<1> QED BY <1>1 DEF IsFirst

\* The thread that has the first node elects it, or leaves it to the init thread
\* that is about to assign zk_path.
LEMMA CheckElects ==
  ASSUME TypeOK, PathIsNode, ThreadsTakeTurns, NEW s \in Servers,
         ListIsCurrent(s), IsElected(s), NEW t \in Threads, CheckElection(s, t)
  PROVE  IsElected(s)'
<1> SUFFICES ASSUME Current(s)', ~skipped'[s], IsFirst(zkNode'[s], nodes')
             PROVE  \/ leader'[s]
                    \/ \E r \in Checkers : pc'[s][r] \in Reading
                    \/ InitElects(s)'
  BY DEF IsElected
<1>1. nodes' = nodes /\ Alone(s, t) /\ Current(s) /\ IsFirst(zkNode[s], nodes)
  BY ChecksApart DEF Alone, Current
<1>2. nodes # {} /\ zkNode[s] # 0
  BY <1>1, FirstIsOne DEF IsFirst
<1>3. ~Dies(s)
  BY DEF Dies, Current, TypeOK
<1>4. ~skipped[s] /\ (Skip(s, t) => t = "init")
  <2>1. CASE Skip(s, t)
    BY <2>1 DEF Skip, TypeOK
  <2>2. CASE ~Skip(s, t)
    <3>1. skipped' = skipped
      BY <1>3, <2>2 DEF CheckElection, Compare, Begin, Get, GetFails, Raises, Lead,
         ReadLeader, Follow, Synced, history
    <3> QED BY <2>2, <3>1
  <2> QED BY <2>1, <2>2
<1>5. CASE leader[s]
  <2>1. leader'[s] = leader[s] \/ leader'[s] = TRUE
    BY <1>3 DEF CheckElection, Compare, Skip, Begin, Get, GetFails, Raises, Lead,
       ReadLeader, Follow, Synced, globals, TypeOK
  <2> QED BY <1>5, <2>1
<1>6. ASSUME Sees(s, t), pc[s][t] \in Reading, t # "init" \/ pc[s][t] # "grown"
      PROVE  \/ leader'[s]
             \/ pc'[s][t] \in Reading
             \/ zkPath[s] = 0 /\ pc'[s][t] = "follow" /\ t # "init"
  <2>1. CASE Compare(s, t)
    BY <2>1 DEF Compare, Goto, TypeOK, Reading
  <2>2. CASE Skip(s, t)
    BY <1>4, <1>6, <2>2 DEF Skip
  <2>3. CASE Begin(s, t)
    BY <2>3 DEF Begin, Goto, TypeOK, Reading
  <2>4. ASSUME NEW n \in rest[s][t], Get(s, t, n)
        PROVE  pc'[s][t] \in Reading
    BY <2>4 DEF Get, Reading
  <2>5. ~GetFails(s, t)
    BY <1>2, <1>6, FirstIsSeen
  <2>6. CASE Lead(s, t)
    BY <2>6 DEF Lead, TypeOK
  <2>7. CASE ReadLeader(s, t)
    <3>1. minPath[s][t] = zkNode[s] /\ minPath[s][t] # zkPath[s]
      BY <1>1, <1>2, <1>6, <2>7, FirstIsSeen, FirstIsOne DEF ReadLeader
    <3>2. zkPath[s] = 0
      BY <3>1 DEF PathIsNode
    <3>3. t # "init"
      BY <1>2, <3>2, <2>7 DEF ThreadsTakeTurns, ReadLeader, IsOver
    <3> QED BY <2>7, <3>2, <3>3 DEF ReadLeader, Goto, TypeOK
  <2>8. CASE Follow(s, t) \/ Synced(s, t)
    BY <1>6, <2>8 DEF Follow, Synced, Reading
  <2> QED BY <2>1, <2>2, <2>3, <2>4, <2>5, <2>6, <2>7, <2>8 DEF CheckElection
<1>7. ASSUME NEW r \in Checkers, pc[s][r] \in Reading
      PROVE  \/ leader'[s]
             \/ \E q \in Checkers : pc'[s][q] \in Reading
             \/ InitElects(s)'
  <2>1. CASE r # t
    BY <1>1, <1>7, <2>1 DEF Alone, Checkers, Threads
  <2>2. CASE r = t
    <3>1. Sees(s, t) /\ t # "init"
      BY <1>1, <1>7, <2>2 DEF ListIsCurrent, Checkers
    <3>2. CASE zkPath[s] = 0
      <4>1. pc'[s]["init"] = "assign"
        BY <1>1, <1>2, <3>1, <3>2 DEF ThreadsTakeTurns, Alone, Threads
      <4> QED BY <4>1 DEF InitElects
    <3> QED BY <1>6, <1>7, <2>2, <3>1, <3>2
  <2> QED BY <2>1, <2>2
<1>8. ASSUME InitElects(s), \A r \in Checkers : pc[s][r] \notin Reading
      PROVE  leader'[s] \/ InitElects(s)'
  <2>1. CASE t # "init"
    <3>1. Follow(s, t) \/ Synced(s, t)
      BY <1>8, <2>1 DEF CheckElection, Compare, Skip, Begin, Get, GetFails, Lead,
         ReadLeader, IsOver, Reading, Checkers, Threads
    <3>2. numChildren' = numChildren
      BY <1>3, <3>1 DEF Follow, Synced, Raises, globals
    <3> QED BY <1>1, <1>8, <2>1, <3>2 DEF InitElects, Sees, Alone, Threads
  <2>2. CASE t = "init"
    <3>1. pc[s]["init"] \in {"check", "begin", "loop"}
      BY <1>8, <2>2 DEF InitElects, CheckElection, Compare, Skip, Begin, Get, GetFails,
         Lead, ReadLeader, IsOver, Follow, Synced
    <3>2. Sees(s, t) /\ pc[s][t] \in Reading /\ pc[s][t] # "grown"
      BY <1>8, <2>2, <3>1 DEF InitElects, Reading
    <3>3. leader'[s] \/ pc'[s][t] \in Reading
      BY <1>6, <2>2, <3>2
    <3>4. pc'[s][t] \in Reading => Sees(s, t)'
      BY <3>2, ReadingSees
    <3>5. pc'[s][t] \in Reading => pc'[s][t] \in {"begin", "loop"}
      <4>1. CASE Compare(s, t)
        <5>1. ~(Cardinality(rest[s][t]) > numChildren[s])
          <6>1. numChildren[s] = Cardinality(rest[s][t]) /\ numChildren[s] \in Nat
            BY <1>8, <2>2, <4>1 DEF InitElects, Compare, TypeOK
          <6> QED BY <6>1
        <5> QED BY <4>1, <5>1 DEF Compare, Goto, TypeOK
      <4>2. CASE Begin(s, t)
        BY <4>2 DEF Begin, Goto, TypeOK
      <4>3. ASSUME NEW n \in rest[s][t], Get(s, t, n)
            PROVE  pc'[s][t] = "loop"
        BY <4>3 DEF Get
      <4>4. ASSUME Return(s, t)
            PROVE  pc'[s][t] \notin Reading
        BY <4>4, ReturnApart DEF Reading
      <4>5. ReadLeader(s, t) => pc'[s][t] \notin Reading
        BY DEF ReadLeader, Goto, TypeOK, Reading
      <4>6. ~Follow(s, t) /\ ~Synced(s, t) /\ ~Skip(s, t)
        BY <2>2, <3>1 DEF Follow, Synced, Skip
      <4> QED BY <1>3, <4>1, <4>2, <4>3, <4>4, <4>5, <4>6
              DEF CheckElection, GetFails, Raises, Lead
    <3> QED BY <2>2, <3>3, <3>4, <3>5 DEF InitElects
  <2> QED BY <2>1, <2>2
<1> QED BY <1>1, <1>4, <1>5, <1>7, <1>8 DEF IsElected

\* The init thread comes nearer to its election.
LEMMA InitElectsOn ==
  ASSUME TypeOK, ThreadsTakeTurns, NEW s \in Servers, IsElected(s),
         InitElection(s), ~InitCreate(s)
  PROVE  IsElected(s)'
<1> USE DEF globals, history, data, zookeeper
<1>1. nodes' = nodes /\ Alone(s, "init")
  BY InitApart
<1>2. /\ UNCHANGED <<leader, skipped, minPath>>
      /\ \A r \in Checkers : pc'[s][r] = pc[s][r]
  BY <1>1 DEF InitElection, InitEnsurePath, InitCreate, InitAssign, InitList, InitCount,
              Alone, Checkers, Threads
<1>3. InitElects(s) => InitElects(s)'
  <2>1. CASE InitEnsurePath(s)
    BY <2>1 DEF InitEnsurePath, InitElects
  <2>2. CASE InitAssign(s)
    <3>1. pc'[s]["init"] = "list"
      BY <2>2 DEF InitAssign, Goto, TypeOK, Threads
    <3> QED BY <3>1 DEF InitElects
  <2>3. CASE InitList(s)
    <3>1. pc'[s]["init"] = "count" /\ rest'[s]["init"] = nodes
      BY <2>3 DEF InitList, Goto, TypeOK, Threads
    <3>2. minPath[s]["init"] = 0
      BY <2>3 DEF InitList, Threads, ThreadsTakeTurns
    <3> QED BY <1>1, <1>2, <3>1, <3>2 DEF InitElects, Sees
  <2>4. CASE InitCount(s)
    <3>1. /\ pc[s]["init"] = "count" /\ pc'[s]["init"] = "check" /\ rest' = rest
          /\ numChildren'[s] = Cardinality(rest[s]["init"])
      BY <2>4 DEF InitCount, Goto, TypeOK, Threads
    <3> QED BY <1>1, <1>2, <3>1 DEF InitElects, Sees
  <2> QED BY <2>1, <2>2, <2>3, <2>4 DEF InitElection
<1> QED BY <1>1, <1>2, <1>3 DEF IsElected, Alone, Current

LEMMA ElectedStep ==
  ASSUME TypeOK, PathIsNode, ThreadsTakeTurns, ListsAreCurrent, FirstIsElected, [Next]_vars
  PROVE  FirstIsElected'
<1> USE DEF FirstIsElected
<1>1. ASSUME NEW u \in Servers, Apart(u), nodes' = nodes
      PROVE  IsElected(u)'
  BY <1>1 DEF IsElected, InitElects, Apart, Current, Sees
<1>2. CASE \/ \E n \in nodes : Expire(n)
           \/ \E s \in Servers : LoseSession(s) \/ InitCreate(s)
  BY <1>2, FiresAll DEF IsElected
<1>3. CASE UNCHANGED vars
  BY <1>1, <1>3 DEF vars, Apart, zookeeper, globals, kazoo, data, history
<1>4. ASSUME NEW s \in Servers, InitElection(s), ~InitCreate(s)
      PROVE  FirstIsElected'
  BY <1>1, <1>4, InitElectsOn, InitApart
<1>5. ASSUME NEW s \in Servers, NEW t \in Threads, CheckElection(s, t)
      PROVE  FirstIsElected'
  BY <1>1, <1>5, CheckElects, ChecksApart DEF ListsAreCurrent
<1>6. ASSUME NEW s \in Servers, Boot(s) \/ Kill(s) \/ WatchStops(s)
      PROVE  FirstIsElected'
  <2>1. CASE Boot(s)
    <3>1. watch'[s] = "unset"
      BY <2>1 DEF Boot, ThreadsTakeTurns
    <3>2. IsElected(s)'
      BY <3>1 DEF IsElected, Current
    <3> QED BY <1>1, <2>1, <3>2, OthersApart
  <2>2. CASE Kill(s) \/ WatchStops(s)
    <3>1. ~Current(s)'
      BY <2>2 DEF Kill, Dies, WatchStops, Current, TypeOK
    <3>2. IsElected(s)'
      BY <3>1 DEF IsElected
    <3> QED BY <1>1, <2>2, <3>2, OthersApart
  <2> QED BY <1>6, <2>1, <2>2
<1>7. ASSUME NEW s \in Servers, WatchBegin(s) \/ WatchFires(s)
      PROVE  FirstIsElected'
  <2>1. IsElected(s)'
    BY <1>7, FetchSees DEF IsElected, Reading
  <2> QED BY <1>1, <1>7, <2>1, OthersApart
<1> QED
  BY <1>2, <1>3, <1>4, <1>5, <1>6, <1>7 DEF Next

\* What the election of a server needs of the other invariants.
ElectionInv ==
  /\ TypeOK /\ FollowsNode /\ PathIsNode /\ OwnsNode
  /\ ThreadsTakeTurns /\ ListsAreCurrent /\ FirstIsElected

LEMMA ElectionInvariance == Spec => []ElectionInv
<1>1. Init => ElectionInv
  <2> SUFFICES ASSUME Init PROVE ElectionInv
    OBVIOUS
  <2>1. TypeOK /\ FollowsNode /\ OwnsNode
    BY TypeInit DEF Init, FollowsNode, Fresh, OwnsNode
  <2>2. PathIsNode /\ ThreadsTakeTurns
    BY DEF Init, PathIsNode, ThreadsTakeTurns, Fresh, Threads
  <2>3. ListsAreCurrent /\ FirstIsElected
    BY DEF Init, ListsAreCurrent, ListIsCurrent, FirstIsElected, IsElected, Current
  <2> QED BY <2>1, <2>2, <2>3 DEF ElectionInv
<1>2. ElectionInv /\ [Next]_vars => ElectionInv'
  BY TypeStep, FollowsStep, PathStep, OwnsStep, TurnsStep, CurrentStep, ElectedStep
  DEF ElectionInv
<1> QED BY <1>1, <1>2, PTL DEF Spec

\* The server of the first node leads as soon as it is quiet and its last list
\* was not passed over: the init thread and the watch leave the office to
\* nobody between them.
THEOREM FirstTheorem == Spec => []FirstLeads
<1>1. ElectionInv => FirstLeads
  BY DEF ElectionInv, FirstIsElected, IsElected, FirstLeads, Quiet, Current, Checkers,
         Reading, InitElects
<1> QED BY ElectionInvariance, <1>1, PTL

\* One thread of the watch runs check_election() at a time.
LEMMA OneChecks ==
  ASSUME ThreadsTakeTurns, NEW s \in Servers, NEW t \in Checkers, CheckElection(s, t)
  PROVE  \A r \in Checkers \ {t} : pc[s][r] \in {"idle", "done"}
<1>1. pc[s][t] \notin {"idle", "done"}
  BY DEF CheckElection, Compare, Skip, Begin, Get, GetFails, Lead, ReadLeader, IsOver,
         Follow, Synced
<1> QED BY <1>1 DEF ThreadsTakeTurns, Checkers

\* A thread of the watch reads the group.
LEMMA CheckReads ==
  ASSUME TypeOK, PathIsNode, OwnsNode, ThreadsTakeTurns, NEW s \in Servers,
         ListIsCurrent(s), GroupIsRead(s), NEW t \in Threads, CheckElection(s, t)
  PROVE  GroupIsRead(s)'
<1> SUFFICES ASSUME Current(s)', ~skipped'[s], ~raced'[s], zkNode'[s] \in nodes'
             PROVE  /\ \A r \in Checkers : ReadsGroup(s, r)'
                    /\ (\A r \in Checkers : pc'[s][r] \notin Reading \cup {"follow"}) =>
                         KnowsGroup(s)'
  BY DEF GroupIsRead
<1> DEFINE All == Ports(nodes)
           Reads(r) == /\ pc'[s][r] = "loop" => peerPorts'[s] \cup Ports(rest'[s][r]) = All
                       /\ pc'[s][r] = "follow" =>
                            peerPorts'[s] = All /\ IsFirst(minPath'[s][r], nodes)
           Knows == /\ peerPorts'[s] = All
                    /\ \A n \in nodes : IsFirst(n, nodes) => leaderPort'[s] = made[n]
<1>1. /\ nodes' = nodes /\ made' = made /\ Alone(s, t) /\ Current(s)
      /\ zkNode[s] \in nodes /\ nodes # {} /\ ~raced[s]
  BY ChecksApart DEF Alone, Current
<1>2. ~Dies(s)
  BY DEF Dies, Current, TypeOK
<1>3. t \in Checkers
  <2>1. pc[s]["init"] = "done"
    BY <1>1 DEF ThreadsTakeTurns, Current
  <2>2. pc[s][t] # "done"
    BY DEF CheckElection, Compare, Skip, Begin, Get, GetFails, Lead, ReadLeader, IsOver,
           Follow, Synced
  <2> QED BY <2>1, <2>2 DEF Checkers, Threads
<1>4. ~Skip(s, t) /\ ~skipped[s]
  <2>1. ~Skip(s, t)
    BY <1>3 DEF Skip, Checkers, TypeOK
  <2>2. skipped' = skipped
    BY <1>2, <2>1 DEF CheckElection, Compare, Begin, Get, GetFails, Raises, Lead,
       ReadLeader, Follow, Synced, history
  <2> QED BY <2>1, <2>2
<1>5. /\ \A r \in Checkers \ {t} : pc[s][r] \in {"idle", "done"} /\ pc'[s][r] = pc[s][r]
      /\ \A r \in Checkers \ {t} : Reads(r)
  <2>1. \A r \in Checkers \ {t} : pc[s][r] \in {"idle", "done"} /\ pc'[s][r] = pc[s][r]
    BY <1>1, <1>3, OneChecks DEF Alone, Checkers, Threads
  <2> QED BY <2>1
<1>6. /\ pc[s][t] = "loop" => peerPorts[s] \cup Ports(rest[s][t]) = All
      /\ pc[s][t] = "follow" => peerPorts[s] = All /\ IsFirst(minPath[s][t], nodes)
      /\ pc[s][t] = "sync" =>
           /\ peerPorts[s] = All
           /\ \A n \in nodes : IsFirst(n, nodes) => leaderPort[s] = made[n]
  BY <1>1, <1>3, <1>4, <1>5 DEF GroupIsRead, ReadsGroup, KnowsGroup, Reading
<1>7. pc[s][t] \in Reading => Sees(s, t)
  BY <1>1, <1>3 DEF ListIsCurrent
<1>8. ASSUME Reads(t), pc'[s][t] \notin Reading \cup {"follow"} => Knows
      PROVE  /\ \A r \in Checkers : Reads(r)
             /\ (\A r \in Checkers : pc'[s][r] \notin Reading \cup {"follow"}) => Knows
  BY <1>3, <1>5, <1>8
<1>9. ASSUME IsOver(s, t)
      PROVE  /\ peerPorts[s] = All /\ IsFirst(minPath[s][t], nodes)
             /\ minPath[s][t] = zkPath[s] =>
                  \A n \in nodes : IsFirst(n, nodes) => made[n] = s
  <2>1. peerPorts[s] = All
    BY <1>6, <1>9 DEF IsOver, Ports
  <2>2. IsFirst(minPath[s][t], nodes)
    BY <1>1, <1>7, <1>9, FirstIsSeen DEF IsOver, Reading
  <2>3. ASSUME minPath[s][t] = zkPath[s], NEW n \in nodes, IsFirst(n, nodes)
        PROVE  made[n] = s
    BY <2>2, <2>3, FirstIsOne DEF PathIsNode, OwnsNode
  <2> QED BY <2>1, <2>2, <2>3
<1>10. Reads(t) /\ (pc'[s][t] \notin Reading \cup {"follow"} => Knows)
  <2>1. CASE Compare(s, t)
    <3>1. pc'[s][t] \in {"grown", "begin"}
      BY <2>1 DEF Compare, Goto, TypeOK
    <3> QED BY <3>1 DEF Reading
  <2>2. CASE Begin(s, t)
    <3>1. pc'[s][t] = "loop" /\ peerPorts'[s] = {} /\ rest' = rest /\ rest[s][t] = nodes
      BY <1>7, <2>2 DEF Begin, Goto, TypeOK, Sees, Reading
    <3> QED BY <3>1 DEF Reading
  <2>3. ASSUME NEW n \in rest[s][t], Get(s, t, n)
        PROVE  Reads(t) /\ pc'[s][t] \in Reading
    <3>1. /\ pc[s][t] = "loop" /\ pc'[s][t] = "loop"
          /\ peerPorts'[s] = peerPorts[s] \cup {made[n]} /\ rest'[s][t] = rest[s][t] \ {n}
      BY <2>3 DEF Get, TypeOK
    <3>2. Ports(rest[s][t]) = {made[n]} \cup Ports(rest[s][t] \ {n})
      BY DEF Ports
    <3>3. peerPorts'[s] \cup Ports(rest'[s][t]) = All
      BY <1>6, <3>1, <3>2
    <3> QED BY <3>1, <3>3 DEF Reading
  <2>4. ~GetFails(s, t)
    BY <1>1, <1>7, FirstIsSeen DEF GetFails, IsOver, Reading
  <2>5. CASE Lead(s, t)
    <3>1. /\ pc'[s][t] \in {"idle", "done"} /\ peerPorts' = peerPorts
          /\ leaderPort'[s] = s /\ IsOver(s, t) /\ minPath[s][t] = zkPath[s]
      BY <2>5, ReturnApart DEF Lead, TypeOK
    <3> QED BY <1>9, <3>1 DEF Reading
  <2>6. CASE ReadLeader(s, t)
    <3>1. /\ pc'[s][t] = "follow" /\ UNCHANGED <<peerPorts, minPath>> /\ IsOver(s, t)
      BY <2>6 DEF ReadLeader, Goto, TypeOK, globals, data
    <3> QED BY <1>9, <3>1 DEF Reading
  <2>7. CASE Follow(s, t)
    <3>1. /\ pc[s][t] = "follow" /\ leaderPort'[s] = made[minPath[s][t]]
          /\ peerPorts' = peerPorts
      BY <2>7 DEF Follow, TypeOK
    <3>2. pc'[s][t] \in {"idle", "done", "sync"}
      <4>1. CASE Return(s, t)
        BY <4>1, ReturnApart
      <4>2. CASE Goto(s, t, "sync")
        BY <4>2 DEF Goto, TypeOK
      <4> QED BY <2>7, <4>1, <4>2 DEF Follow
    <3>3. \A n \in nodes : IsFirst(n, nodes) => n = minPath[s][t]
      BY <1>6, <3>1, FirstIsOne
    <3> QED BY <1>6, <3>1, <3>2, <3>3
  <2>8. CASE Synced(s, t)
    <3>1. /\ pc[s][t] = "sync" /\ Return(s, t) /\ UNCHANGED <<peerPorts, leaderPort>>
      BY <1>2, <2>8 DEF Synced, Raises, globals
    <3>2. pc'[s][t] \in {"idle", "done"}
      BY <3>1, ReturnApart
    <3> QED BY <1>6, <3>1, <3>2
  <2> QED BY <1>4, <2>1, <2>2, <2>3, <2>4, <2>5, <2>6, <2>7, <2>8 DEF CheckElection
<1>11. (Knows => KnowsGroup(s)') /\ \A r \in Checkers : Reads(r) => ReadsGroup(s, r)'
  BY <1>1 DEF KnowsGroup, ReadsGroup, Ports, IsFirst
<1> HIDE DEF Reads, Knows
<1> QED BY <1>8, <1>10, <1>11

LEMMA ReadStep ==
  ASSUME TypeOK, PathIsNode, OwnsNode, ThreadsTakeTurns, ListsAreCurrent, GroupsAreRead,
         [Next]_vars
  PROVE  GroupsAreRead'
<1> USE DEF GroupsAreRead
<1>1. ASSUME NEW u \in Servers, Apart(u), UNCHANGED <<nodes, made>>
      PROVE  GroupIsRead(u)'
  <2>1. (KnowsGroup(u) => KnowsGroup(u)') /\ \A t \in Checkers : ReadsGroup(u, t) => ReadsGroup(u, t)'
    BY <1>1 DEF KnowsGroup, ReadsGroup, Ports, IsFirst, Apart
  <2>2. /\ Current(u)' = Current(u) /\ pc'[u] = pc[u] /\ zkNode'[u] = zkNode[u]
        /\ skipped'[u] = skipped[u] /\ raced'[u] = raced[u]
    BY <1>1 DEF Apart, Current
  <2> QED BY <1>1, <2>1, <2>2 DEF GroupIsRead
<1>2. CASE \/ \E n \in nodes : Expire(n)
           \/ \E s \in Servers : LoseSession(s) \/ InitCreate(s)
  BY <1>2, FiresAll DEF GroupIsRead
<1>3. CASE UNCHANGED vars
  BY <1>1, <1>3 DEF vars, Apart, zookeeper, globals, kazoo, data, history
<1>4. ASSUME NEW s \in Servers, InitElection(s), ~InitCreate(s)
      PROVE  GroupsAreRead'
  <2>1. Alone(s, "init") /\ pc[s]["init"] # "done"
    BY <1>4, InitApart DEF InitElection, InitEnsurePath, InitAssign, InitList, InitCount
  <2>2. ~Current(s)' \/ raced'[s]
    BY <2>1 DEF Alone, Current, ThreadsTakeTurns
  <2>3. GroupIsRead(s)'
    BY <2>2 DEF GroupIsRead
  <2> QED BY <1>1, <1>4, <2>3, InitApart
<1>5. ASSUME NEW s \in Servers, NEW t \in Threads, CheckElection(s, t)
      PROVE  GroupsAreRead'
  BY <1>1, <1>5, CheckReads, ChecksApart DEF ListsAreCurrent
<1>6. ASSUME NEW s \in Servers, Boot(s) \/ Kill(s) \/ WatchStops(s)
      PROVE  GroupsAreRead'
  <2>1. ~Current(s)'
    BY <1>6 DEF Boot, Kill, Dies, WatchStops, Current, TypeOK, ThreadsTakeTurns
  <2>2. GroupIsRead(s)'
    BY <2>1 DEF GroupIsRead
  <2> QED BY <1>1, <1>6, <2>2, OthersApart
<1>7. ASSUME NEW s \in Servers, WatchBegin(s) \/ WatchFires(s)
      PROVE  GroupsAreRead'
  <2>1. PICK t \in Checkers :
          /\ pc'[s][t] = "check"
          /\ \A r \in Checkers \ {t} : pc'[s][r] \in {"idle", "done"}
    BY <1>7, FetchSees
  <2>2. /\ \A r \in Checkers : pc'[s][r] \notin {"loop", "follow"}
        /\ ~ \A r \in Checkers : pc'[s][r] \notin Reading \cup {"follow"}
    BY <2>1 DEF Reading
  <2>3. GroupIsRead(s)'
    BY <2>2 DEF GroupIsRead, ReadsGroup
  <2> QED BY <1>1, <1>7, <2>3, OthersApart
<1> QED
  BY <1>2, <1>3, <1>4, <1>5, <1>6, <1>7 DEF Next

LEMMA GroupInvariance == Spec => [](ElectionInv /\ GroupsAreRead)
<1>1. Init => GroupsAreRead
  BY DEF Init, GroupsAreRead, GroupIsRead, Current
<1>2. ElectionInv /\ GroupsAreRead /\ [Next]_vars => GroupsAreRead'
  BY ReadStep DEF ElectionInv
<1> QED BY <1>1, <1>2, ElectionInvariance, PTL DEF Spec

\* A quiet server knows the leader and all peers, unless its last list was
\* passed over, or fetched before the init thread was done: each run of
\* check_election() leaves peer_ports and leader_port as its list has them.
THEOREM GroupTheorem == Spec => []GroupIsKnown
<1>1. ElectionInv /\ GroupsAreRead => GroupIsKnown
  <2> SUFFICES ASSUME GroupsAreRead, NEW s \in Servers, Quiet(s), ~skipped[s], ~raced[s],
                      zkNode[s] \in nodes
               PROVE  KnowsGroup(s)
    BY DEF GroupIsKnown, KnowsGroup, Ports
  <2>1. Current(s) /\ \A t \in Checkers : pc[s][t] \notin Reading \cup {"follow"}
    BY DEF Quiet, Current, Checkers, Reading
  <2> QED BY <2>1 DEF GroupsAreRead, GroupIsRead
<1> QED BY GroupInvariance, <1>1, PTL

=============================================================================
