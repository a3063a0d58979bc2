-------------------------------- MODULE Store --------------------------------
(***************************************************************************)
(* The replicated store of a2/src/server.py: the HTTP handlers, and the    *)
(* threads that carry a write from one server to the others.  A follower   *)
(* asks the leader (request_post), the leader tells its peers              *)
(* (broadcast_post), and a server with a new leader copies the leader's    *)
(* whole store (sync_with_leader).                                         *)
(*                                                                         *)
(* A call of another server is two steps, its handler there and the reply  *)
(* here, and breaks when the called process ends.  Elections are those of  *)
(* module Election with check_election() as one step up to its sync.  The  *)
(* n-th write of a behaviour has the value n; 0 is no value.               *)
(***************************************************************************)
EXTENDS Naturals, Sequences, FiniteSets, SequencesExt

CONSTANTS
  Servers,    \* ports
  NoPort,     \* leader_port before any election
  Keys,
  MaxPosts,   \* bound: writes of clients
  MaxEvents   \* bound: writes of clients, and kills and starts of servers, which
              \* count twice while a call is under way

ASSUME StoreAssumption ==
  /\ IsFiniteSet(Servers) /\ Servers # {} /\ NoPort \notin Servers
  /\ MaxPosts \in Nat /\ MaxEvents \in Nat

(* ZooKeeper, and what the election keeps in each server. *)
VARIABLES
  nodes,       \* the children of /election
  made,        \* the ports of all nodes ever made
  up,          \* whether the process runs
  zkPath,      \* its node, or 0
  looked,      \* whether its init thread is done
  leader, leaderPort, peerPorts, numChildren,
  event        \* whether its watch fired

VARIABLES
  datastore,
  posts,       \* the keys of the clients' writes, in their order
  request,     \* of each write, the thread of request_post()
  broadcast,   \* of each write, the thread of broadcast_post()
  sync,        \* of each server, its call of sync_with_leader()
  copy         \* the reply to it

(* A bound, and two histories of the writes. *)
VARIABLES
  events,
  steady,      \* whether nothing went wrong that the code does not make good
  recent       \* key -> its last write, and those under way since all was idle

zookeeper == <<nodes, made>>
views == <<leader, leaderPort, peerPorts, numChildren>>
group == <<up, zkPath, looked, views, event>>
calls == <<request, broadcast, sync, copy>>
history == <<steady, recent>>
vars == <<zookeeper, group, datastore, posts, calls, events, history>>

(* A thread at a server, the server it calls, and those it has yet to call. *)
Thread(pc, at, to, left) == [pc |-> pc, at |-> at, to |-> to, left |-> left]
NoThread == Thread("none", NoPort, NoPort, {})

Writes == 1..Len(posts)
Idle ==
  /\ \A n \in Writes : request[n] = NoThread /\ broadcast[n] = NoThread
  /\ \A s \in Servers : sync[s] = NoThread

First(S) == IF S = {} THEN 0 ELSE CHOOSE n \in S : \A m \in S : n <= m
Ports(S) == {made[n] : n \in S}
Empty == [k \in Keys |-> 0]

\* A group in which each server was started after the ones before it or along
\* with some behind it: it knows those whose nodes there were when it looked.
Init ==
  /\ made \in SetToSeqs(Servers) /\ nodes = DOMAIN made
  /\ up = [s \in Servers |-> TRUE] /\ looked = [s \in Servers |-> TRUE]
  /\ zkPath = [s \in Servers |-> CHOOSE n \in nodes : made[n] = s]
  /\ leader = [s \in Servers |-> made[1] = s]
  /\ leaderPort = [s \in Servers |-> made[1]]
  /\ \E seen \in [nodes -> nodes] :
       /\ \A n \in nodes : n <= seen[n]
       /\ peerPorts = [s \in Servers |-> Ports(1..seen[zkPath[s]])]
  /\ numChildren = [s \in Servers |-> Cardinality(nodes)]
  /\ event = [s \in Servers |-> FALSE]
  /\ datastore = [s \in Servers |-> Empty]
  /\ posts = <<>> /\ request = <<>> /\ broadcast = <<>>
  /\ sync = [s \in Servers |-> NoThread]
  /\ copy = [s \in Servers |-> Empty]
  /\ events = 0 /\ steady = TRUE /\ recent = [k \in Keys |-> {0}]

-----------------------------------------------------------------------------
(* The handlers, and the threads they start. *)

\* Every server follows the one leader, and the leader has them all as peers.
Informed ==
  \E l \in Servers :
    /\ up[l] /\ leader[l]
    /\ \A s \in Servers : up[s] =>
         /\ leaderPort[s] = l /\ s \in peerPorts[l]
         /\ leader[s] => s = l

Put(s, k, n) == datastore' = [datastore EXCEPT ![s][k] = n]

\* broadcast_post() begins with the peers at the time but one.
Broadcasting(s, skip) == Thread("start", s, skip, {})

\* post_data(): the reply to the client is sent before anything is carried on.
Post(s, k) ==
  /\ up[s] /\ Len(posts) < MaxPosts
  /\ events < MaxEvents /\ events' = events + 1
  /\ posts' = Append(posts, k)
  /\ IF leader[s]
     THEN /\ Put(s, k, Len(posts'))
          /\ broadcast' = Append(broadcast, Broadcasting(s, NoPort))
          /\ request' = Append(request, NoThread)
     ELSE /\ request' = Append(request, Thread("start", s, NoPort, {}))
          /\ broadcast' = Append(broadcast, NoThread)
          /\ UNCHANGED datastore
  /\ steady' = (steady /\ Informed)
  /\ recent' = [recent EXCEPT ![k] = (IF Idle THEN {} ELSE @) \cup {Len(posts')}]
  /\ UNCHANGED <<zookeeper, group, sync, copy>>

\* request_post() connects to the leader it knows.  Refused, it keeps the value
\* and fails; without a leader it fails.
RequestCall(n) ==
  /\ request[n].pc = "start"
  /\ LET s == request[n].at  l == leaderPort[s]
     IN \/ /\ l # NoPort /\ up[l]
           /\ request' = [request EXCEPT ![n] = Thread("called", s, l, {})]
           /\ UNCHANGED datastore
        \/ /\ l # NoPort /\ ~up[l]
           /\ Put(s, posts[n], n)
           /\ request' = [request EXCEPT ![n] = NoThread]
        \/ /\ l = NoPort
           /\ request' = [request EXCEPT ![n] = NoThread]
           /\ UNCHANGED datastore
  /\ steady' = (steady /\ request'[n] # NoThread)
  /\ UNCHANGED <<zookeeper, group, posts, broadcast, sync, copy, events, recent>>

\* leader_set(), whether or not the server is the leader.
LeaderSet(n) ==
  /\ request[n].pc = "called"
  /\ Put(request[n].to, posts[n], n)
  /\ broadcast' = [broadcast EXCEPT ![n] = Broadcasting(request[n].to, request[n].at)]
  /\ request' = [request EXCEPT ![n].pc = "handled"]
  /\ UNCHANGED <<zookeeper, group, posts, sync, copy, events, history>>

RequestReply(n) ==
  /\ request[n].pc = "handled"
  /\ Put(request[n].at, posts[n], n)
  /\ request' = [request EXCEPT ![n] = NoThread]
  /\ UNCHANGED <<zookeeper, group, posts, broadcast, sync, copy, events, history>>

\* Mutant: the loop ends at the port to be skipped, if it comes first.
LeftBefore(b) ==
  IF b.pc = "start" /\ b.to \notin peerPorts[b.at] THEN peerPorts[b.at] ELSE b.left

\* The loop goes over the ports that were there when it began.
Left(b) == IF b.pc = "start" THEN peerPorts[b.at] \ {b.to} ELSE b.left

Resume(n, left) ==
  broadcast' = [broadcast EXCEPT ![n] =
    IF left = {} THEN NoThread ELSE Thread("next", @.at, NoPort, left)]

\* A port that refuses the connection is passed over.
BroadcastCall(n) ==
  /\ broadcast[n].pc \in {"start", "next"}
  /\ LET left == Left(broadcast[n])
     IN \/ left = {} /\ Resume(n, {})
        \/ \E p \in left :
             IF up[p]
             THEN broadcast' = [broadcast EXCEPT ![n] = Thread("called", @.at, p, left \ {p})]
             ELSE Resume(n, left \ {p})
  /\ UNCHANGED <<zookeeper, group, datastore, posts, request, sync, copy, events, history>>

FollowerSet(n) ==
  /\ broadcast[n].pc = "called"
  /\ Put(broadcast[n].to, posts[n], n)
  /\ broadcast' = [broadcast EXCEPT ![n].pc = "handled"]
  /\ UNCHANGED <<zookeeper, group, posts, request, sync, copy, events, history>>

BroadcastReply(n) ==
  /\ broadcast[n].pc = "handled"
  /\ Resume(n, broadcast[n].left)
  /\ UNCHANGED <<zookeeper, group, datastore, posts, request, sync, copy, events, history>>

\* A thread whose call broke ends with an exception; a broadcast leaves the
\* ports it has not come to as they are.
CallBreaks(n) ==
  /\ \/ /\ request[n].pc = "broken"
        /\ request' = [request EXCEPT ![n] = NoThread] /\ UNCHANGED broadcast
     \/ /\ broadcast[n].pc = "broken"
        /\ broadcast' = [broadcast EXCEPT ![n] = NoThread] /\ UNCHANGED request
  /\ UNCHANGED <<zookeeper, group, datastore, posts, sync, copy, events, history>>

Write(n) ==
  \/ RequestCall(n) \/ LeaderSet(n) \/ RequestReply(n)
  \/ BroadcastCall(n) \/ FollowerSet(n) \/ BroadcastReply(n) \/ CallBreaks(n)

-----------------------------------------------------------------------------
(* sync_with_leader(), at the end of check_election(). *)

\* It gives up where the leader is gone, breaks, or does not know that it leads.
SyncFails(s) ==
  /\ LET l == sync[s].to
     IN \/ sync[s].pc = "start" /\ ~up[l]
        \/ sync[s].pc = "called" /\ ~leader[l]
        \/ sync[s].pc = "broken"
  /\ sync' = [sync EXCEPT ![s] = NoThread]
  /\ steady' = FALSE
  /\ UNCHANGED <<zookeeper, group, datastore, posts, request, broadcast, copy,
                 events, recent>>

SyncCall(s) ==
  /\ sync[s].pc = "start" /\ up[sync[s].to]
  /\ sync' = [sync EXCEPT ![s].pc = "called"]
  /\ UNCHANGED <<zookeeper, group, datastore, posts, request, broadcast, copy,
                 events, history>>

LeaderSync(s) ==
  /\ sync[s].pc = "called" /\ leader[sync[s].to]
  /\ copy' = [copy EXCEPT ![s] = datastore[sync[s].to]]
  /\ sync' = [sync EXCEPT ![s].pc = "handled"]
  /\ UNCHANGED <<zookeeper, group, datastore, posts, request, broadcast, events, history>>

\* The whole store is replaced, whatever was written to it meanwhile.
SyncReply(s) ==
  /\ sync[s].pc = "handled"
  /\ datastore' = [datastore EXCEPT ![s] = copy[s]]
  /\ copy' = [copy EXCEPT ![s] = Empty]
  /\ sync' = [sync EXCEPT ![s] = NoThread]
  /\ UNCHANGED <<zookeeper, group, posts, request, broadcast, events, history>>

-----------------------------------------------------------------------------
(* Elections: check_election() with the list of all nodes. *)

\* A server that has taken part in an election, and asked a leader for its data
\* unless it became the leader.
Joined(s) == up[s] /\ leaderPort[s] # NoPort

\* The code leads with whatever data it has: it is elected before it has asked
\* anybody for theirs, if the nodes before its own go in the meantime.
ElectedFresh(s) == First(nodes) = zkPath[s] /\ ~Joined(s)

\* Mutant: a leader that is known already is synced with, a new one is not.
ElectUnsynced(s) ==
  LET first == First(nodes)
  IN /\ peerPorts' = [peerPorts EXCEPT ![s] = Ports(nodes)]
     /\ leader' = [leader EXCEPT ![s] = @ \/ first = zkPath[s]]
     /\ leaderPort' = [leaderPort EXCEPT ![s] = IF first = zkPath[s] THEN s ELSE made[first]]
     /\ steady' = (steady /\ Idle /\ ~ElectedFresh(s))
     /\ UNCHANGED sync

\* A new leader is synced with.
Elect(s) ==
  LET first == First(nodes)
  IN /\ peerPorts' = [peerPorts EXCEPT ![s] = Ports(nodes)]
     /\ leader' = [leader EXCEPT ![s] = @ \/ first = zkPath[s]]
     /\ leaderPort' = [leaderPort EXCEPT ![s] = IF first = zkPath[s] THEN s ELSE made[first]]
     /\ IF first # zkPath[s] /\ leaderPort'[s] # leaderPort[s]
        THEN sync' = [sync EXCEPT ![s] = Thread("start", s, leaderPort'[s], {})]
        ELSE UNCHANGED sync
     /\ steady' = (steady /\ Idle /\ ~ElectedFresh(s))

\* A list that has grown is only counted.
WatchFires(s) ==
  /\ up[s] /\ event[s] /\ sync[s] = NoThread
  /\ event' = [event EXCEPT ![s] = FALSE]
  /\ numChildren' = [numChildren EXCEPT ![s] = Cardinality(nodes)]
  /\ IF Cardinality(nodes) > numChildren[s]
     THEN UNCHANGED <<leader, leaderPort, peerPorts, sync, steady>>
     ELSE Elect(s)
  /\ UNCHANGED <<zookeeper, up, zkPath, looked, datastore, posts, request,
                 broadcast, copy, events, recent>>

Fire == event' = up

\* Mutant: the name of the node is taken for the one after it.
MakeNodeAhead(s) ==
  /\ up[s] /\ zkPath[s] = 0
  /\ made' = Append(made, s)
  /\ nodes' = nodes \cup {Len(made')}
  /\ zkPath' = [zkPath EXCEPT ![s] = Len(made') + 1]
  /\ Fire
  /\ UNCHANGED <<up, looked, views, datastore, posts, calls, events, history>>

\* zk_init_election() makes the node, and then looks at the list.
MakeNode(s) ==
  /\ up[s] /\ zkPath[s] = 0
  /\ made' = Append(made, s)
  /\ nodes' = nodes \cup {Len(made')}
  /\ zkPath' = [zkPath EXCEPT ![s] = Len(made')]
  /\ Fire
  /\ UNCHANGED <<up, looked, views, datastore, posts, calls, events, history>>

InitLook(s) ==
  /\ up[s] /\ zkPath[s] # 0 /\ ~looked[s] /\ sync[s] = NoThread
  /\ looked' = [looked EXCEPT ![s] = TRUE]
  /\ numChildren' = [numChildren EXCEPT ![s] = Cardinality(nodes)]
  /\ Elect(s)
  /\ UNCHANGED <<zookeeper, up, zkPath, event, datastore, posts, request,
                 broadcast, copy, events, recent>>

-----------------------------------------------------------------------------
(* The end and the start of servers. *)

\* The end or the start of a server.
Happens ==
  /\ events' = events + (IF Idle THEN 1 ELSE 2)
  /\ events' <= MaxEvents

\* The threads of a process end with it, calls to it break; what it had replied
\* may still arrive.
Cut(call, s, pcs) ==
  IF call.at = s THEN NoThread
  ELSE IF call.to = s /\ call.pc \in pcs THEN [call EXCEPT !.pc = "broken"] ELSE call

Kill(s) ==
  /\ up[s] /\ Happens
  /\ up' = [up EXCEPT ![s] = FALSE]
  /\ zkPath' = [zkPath EXCEPT ![s] = 0] /\ looked' = [looked EXCEPT ![s] = FALSE]
  /\ leader' = [leader EXCEPT ![s] = FALSE]
  /\ leaderPort' = [leaderPort EXCEPT ![s] = NoPort]
  /\ peerPorts' = [peerPorts EXCEPT ![s] = {}]
  /\ numChildren' = [numChildren EXCEPT ![s] = 0]
  /\ event' = [event EXCEPT ![s] = FALSE]
  /\ datastore' = [datastore EXCEPT ![s] = Empty]
  /\ copy' = [copy EXCEPT ![s] = Empty]
  /\ \E pcs \in {{"called"}, {"called", "handled"}} :
       /\ request' = [n \in Writes |-> Cut(request[n], s, pcs)]
       /\ broadcast' = [n \in Writes |-> Cut(broadcast[n], s, pcs)]
       /\ sync' = [t \in Servers |-> Cut(sync[t], s, pcs)]
  /\ steady' = (steady /\ Idle)
  /\ UNCHANGED <<zookeeper, posts, recent>>

\* ZooKeeper removes the node of a process that has ended, some time later.
Expire(n) ==
  /\ n \in nodes /\ \A s \in Servers : zkPath[s] # n
  /\ nodes' = nodes \ {n}
  /\ Fire
  /\ UNCHANGED <<made, up, zkPath, looked, views, datastore, posts, calls, events, history>>

\* The watch is set on the list there is, which counts as grown.
Boot(s) ==
  /\ ~up[s] /\ nodes # {} /\ Happens
  /\ up' = [up EXCEPT ![s] = TRUE]
  /\ numChildren' = [numChildren EXCEPT ![s] = Cardinality(nodes)]
  /\ UNCHANGED <<zookeeper, zkPath, looked, leader, leaderPort, peerPorts, event,
                 datastore, posts, calls, history>>

Next ==
  \/ \E n \in Writes : Write(n)
  \/ \E n \in nodes : Expire(n)
  \/ \E s \in Servers :
       \/ \E k \in Keys : Post(s, k)
       \/ SyncFails(s) \/ SyncCall(s) \/ LeaderSync(s) \/ SyncReply(s)
       \/ WatchFires(s) \/ MakeNode(s) \/ InitLook(s) \/ Kill(s) \/ Boot(s)

Spec == Init /\ [][Next]_vars

-----------------------------------------------------------------------------
(* Properties. *)

ThreadPc == {"none", "start", "next", "called", "handled", "broken"}
Threads == [pc : ThreadPc, at : Servers \cup {NoPort}, to : Servers \cup {NoPort},
            left : SUBSET Servers]

\* The variables hold what the declarations above say.
TypeOK ==
  /\ made \in Seq(Servers) /\ nodes \subseteq DOMAIN made
  /\ up \in [Servers -> BOOLEAN] /\ looked \in [Servers -> BOOLEAN]
  /\ zkPath \in [Servers -> 0..Len(made)]
  /\ leader \in [Servers -> BOOLEAN] /\ event \in [Servers -> BOOLEAN]
  /\ leaderPort \in [Servers -> Servers \cup {NoPort}]
  /\ peerPorts \in [Servers -> SUBSET Servers]
  /\ numChildren \in [Servers -> Nat]
  /\ posts \in Seq(Keys) /\ events \in 0..MaxEvents /\ steady \in BOOLEAN
  /\ datastore \in [Servers -> [Keys -> {0} \cup Writes]]
  /\ copy \in [Servers -> [Keys -> {0} \cup Writes]]
  /\ request \in [Writes -> Threads] /\ broadcast \in [Writes -> Threads]
  /\ sync \in [Servers -> Threads]
  /\ recent \in [Keys -> SUBSET ({0} \cup Writes)]

\* Once every call is done, each server that has followed a leader has the last
\* write of a key, or one of those that were under way along with it: through
\* broadcasts in any order, requests whose reply overtakes or is overtaken,
\* syncs, deaths of leaders and returns of servers -- as long as writes are
\* made to a group that knows its leader and all its members, servers die
\* and elect while no call is under way, a sync finds its leader, and nobody
\* is elected who had not joined before.
ReplicasHoldRecent ==
  steady /\ Idle =>
    \A s \in Servers, k \in Keys : Joined(s) => datastore[s][k] \in recent[k]

-----------------------------------------------------------------------------
(* What a comment says, and the code does not do. *)

\* The leader pushes updates to followers: a single write reaches them all if
\* no server ends or starts.
UpdatesArePushed ==
  Idle /\ events = 1 /\ Len(posts) = 1 =>
    \A s, t \in Servers : datastore[s] = datastore[t]

=============================================================================
