------------------------------ MODULE Election ------------------------------
(***************************************************************************)
(* How the servers of a2/src/server.py find their leader: each makes an    *)
(* ephemeral sequential node under /election, and whenever the list of     *)
(* nodes changes check_election() looks who has the first.                 *)
(*                                                                         *)
(* Two threads of a server run check_election() on the same module         *)
(* variables: the init thread once, the main thread once, when it sets the *)
(* watch, and kazoo's thread each time the watch fires.  What a thread     *)
(* does between two points where another can interleave is an action.      *)
(*                                                                         *)
(* ZooKeeper and kazoo are external.  A node is its sequence number, the   *)
(* data of node n is made[n], and 0 is no node.  A server is its port.     *)
(***************************************************************************)
EXTENDS Naturals, Sequences, FiniteSets

CONSTANTS
  Servers,     \* ports
  NoPort,      \* leader_port before any election
  MaxEvents    \* bound: servers started and sessions lost in a behaviour; one
               \* that comes while a server is not quiet counts twice

ASSUME ElectionAssumption ==
  /\ NoPort \notin Servers
  /\ MaxEvents \in Nat

Threads == {"init", "main", "watch"}

(* ZooKeeper. *)
VARIABLES
  path,        \* whether /election exists
  nodes,       \* its children
  made         \* the data of all nodes ever made

(* The module variables of each server, and what kazoo holds for it. *)
VARIABLES
  up,          \* whether the process runs
  zkNode,      \* the node of its session
  zkPath,      \* zk_path
  leader,
  leaderPort,  \* leader_port
  numChildren, \* num_children
  peerPorts,   \* peer_ports; order and repetition are left out
  watch,       \* the ChildrenWatch: "unset", "set" or "stopped"
  event        \* whether it fired and the list has not been fetched

(* The local variables of each of its threads. *)
VARIABLES
  pc,
  rest,        \* of its children, those it has not read
  minPath,     \* min_path
  oldPort      \* old_leader_port

(* A bound and three histories, which the code does not have. *)
VARIABLES
  events,
  skipped,     \* whether the last list of the watch was passed over
  raced,       \* whether the init thread was not done when it was fetched
  unmade       \* whether leader was set before the server had made its node

zookeeper == <<path, nodes, made>>
globals == <<zkPath, leader, leaderPort, numChildren, peerPorts>>
kazoo == <<up, zkNode, watch, event>>
data == <<rest, minPath, oldPort>>
history == <<skipped, raced, unmade>>
vars == <<zookeeper, globals, kazoo, pc, data, events, history>>

\* The node that sorts first.
IsFirst(n, S) == n \in S /\ \A m \in S : n <= m

Goto(s, t, l) == pc' = [pc EXCEPT ![s][t] = l]
\* A thread leaves check_election(), and its local variables are gone.
Return(s, t) ==
  /\ Goto(s, t, IF t = "watch" THEN "idle" ELSE "done")
  /\ rest' = [rest EXCEPT ![s][t] = {}]
  /\ minPath' = [minPath EXCEPT ![s][t] = 0]
  /\ oldPort' = [oldPort EXCEPT ![s][t] = NoPort]

Fresh(x) == [t \in Threads |-> x]

\* The watch of a server is set and has nothing to do, and no thread is busy.
Quiet(s) ==
  /\ watch[s] = "set" /\ ~event[s]
  /\ pc[s] = [init |-> "done", main |-> "done", watch |-> "idle"]

\* One of the bounded events.
Happens ==
  /\ events' = events + (IF \A s \in Servers : up[s] => Quiet(s) THEN 1 ELSE 2)
  /\ events' <= MaxEvents

\* No server runs yet; /election may be left from earlier ones.
Init ==
  /\ path \in BOOLEAN
  /\ nodes = {} /\ made = <<>>
  /\ up = [s \in Servers |-> FALSE]
  /\ zkNode = [s \in Servers |-> 0]
  /\ zkPath = [s \in Servers |-> 0]
  /\ leader = [s \in Servers |-> FALSE]
  /\ leaderPort = [s \in Servers |-> NoPort]
  /\ numChildren = [s \in Servers |-> 0]
  /\ peerPorts = [s \in Servers |-> {}]
  /\ watch = [s \in Servers |-> "unset"]
  /\ event = [s \in Servers |-> FALSE]
  /\ pc = [s \in Servers |-> Fresh("done")]
  /\ rest = [s \in Servers |-> Fresh({})]
  /\ minPath = [s \in Servers |-> Fresh(0)]
  /\ oldPort = [s \in Servers |-> Fresh(NoPort)]
  /\ events = 0
  /\ skipped = [s \in Servers |-> FALSE]
  /\ raced = [s \in Servers |-> FALSE]
  /\ unmade = [s \in Servers |-> FALSE]

-----------------------------------------------------------------------------
(* ZooKeeper and the processes. *)

\* A change of the list fires the watches that are set on it.
Fire == event' = [s \in Servers |-> event[s] \/ watch[s] = "set"]

Ends(n) ==
  /\ nodes' = nodes \ {n}
  /\ Fire

\* ZooKeeper removes the node of a server that was killed, some time later.
Expire(n) ==
  /\ n \in nodes
  /\ ~ \E s \in Servers : up[s] /\ zkNode[s] = n
  /\ Ends(n)
  /\ UNCHANGED <<path, made, globals, up, zkNode, watch, pc, data, events, history>>

\* It removes the node of one that runs, whose session expired: kazoo connects
\* again under a new session, and nobody makes a new node.
LoseSession(s) ==
  /\ up[s] /\ zkNode[s] \in nodes
  /\ Happens
  /\ Ends(zkNode[s])
  /\ UNCHANGED <<path, made, globals, up, zkNode, watch, pc, data, history>>

\* The module is loaded: the init thread is started, and sleeps.
Boot(s) ==
  /\ ~up[s]
  /\ Happens
  /\ up' = [up EXCEPT ![s] = TRUE]
  /\ pc' = [pc EXCEPT ![s] = [init |-> "sleep", main |-> "load", watch |-> "idle"]]
  /\ UNCHANGED <<zookeeper, globals, zkNode, watch, event, data, history>>

\* The process ends, and nothing of it is left but its node.
Dies(s) ==
  /\ up' = [up EXCEPT ![s] = FALSE]
  /\ zkNode' = [zkNode EXCEPT ![s] = 0]
  /\ zkPath' = [zkPath EXCEPT ![s] = 0]
  /\ leader' = [leader EXCEPT ![s] = FALSE]
  /\ leaderPort' = [leaderPort EXCEPT ![s] = NoPort]
  /\ numChildren' = [numChildren EXCEPT ![s] = 0]
  /\ peerPorts' = [peerPorts EXCEPT ![s] = {}]
  /\ watch' = [watch EXCEPT ![s] = "unset"]
  /\ event' = [event EXCEPT ![s] = FALSE]
  /\ pc' = [pc EXCEPT ![s] = Fresh("done")]
  /\ rest' = [rest EXCEPT ![s] = Fresh({})]
  /\ minPath' = [minPath EXCEPT ![s] = Fresh(0)]
  /\ oldPort' = [oldPort EXCEPT ![s] = Fresh(NoPort)]
  /\ skipped' = [skipped EXCEPT ![s] = FALSE]
  /\ raced' = [raced EXCEPT ![s] = FALSE]
  /\ unmade' = [unmade EXCEPT ![s] = FALSE]
  /\ UNCHANGED <<zookeeper, events>>

Kill(s) == up[s] /\ Dies(s)

-----------------------------------------------------------------------------
(* zk_init_election() *)

InitEnsurePath(s) ==
  /\ pc[s]["init"] = "sleep"
  /\ path' = TRUE
  /\ Goto(s, "init", "create")
  /\ UNCHANGED <<nodes, made, globals, kazoo, data, events, history>>

InitCreate(s) ==
  /\ pc[s]["init"] = "create"
  /\ made' = Append(made, s)
  /\ nodes' = nodes \cup {Len(made) + 1}
  /\ zkNode' = [zkNode EXCEPT ![s] = Len(made) + 1]
  /\ Fire
  /\ Goto(s, "init", "assign")
  /\ UNCHANGED <<path, globals, up, watch, data, events, history>>

\* Mutant: without "global zk_path".
InitAssignLocal(s) ==
  /\ pc[s]["init"] = "assign"
  /\ Goto(s, "init", "list")
  /\ UNCHANGED <<zookeeper, globals, kazoo, data, events, history>>

InitAssign(s) ==
  /\ pc[s]["init"] = "assign"
  /\ zkPath' = [zkPath EXCEPT ![s] = zkNode[s]]
  /\ Goto(s, "init", "list")
  /\ UNCHANGED <<zookeeper, leader, leaderPort, numChildren, peerPorts, kazoo,
                 data, events, history>>

InitList(s) ==
  /\ pc[s]["init"] = "list"
  /\ rest' = [rest EXCEPT ![s]["init"] = nodes]
  /\ Goto(s, "init", "count")
  /\ UNCHANGED <<zookeeper, globals, kazoo, minPath, oldPort, events, history>>

InitCount(s) ==
  /\ pc[s]["init"] = "count"
  /\ numChildren' = [numChildren EXCEPT ![s] = Cardinality(rest[s]["init"])]
  /\ Goto(s, "init", "check")
  /\ UNCHANGED <<zookeeper, zkPath, leader, leaderPort, peerPorts, kazoo, data,
                 events, history>>

-----------------------------------------------------------------------------
(* The children watch. *)

\* The list is fetched, which sets the watch again, and is to be checked.
FetchList(s, t) ==
  /\ rest' = [rest EXCEPT ![s][t] = nodes]
  /\ event' = [event EXCEPT ![s] = FALSE]
  /\ Goto(s, t, "check")
  /\ skipped' = [skipped EXCEPT ![s] = FALSE]
  /\ raced' = [raced EXCEPT ![s] = pc[s]["init"] # "done"]
  /\ UNCHANGED <<zookeeper, globals, up, zkNode, minPath, oldPort, events, unmade>>

\* The decorator sets the watch and calls election_watch(), in the main thread.
WatchBegin(s) ==
  /\ pc[s]["main"] = "load" /\ path
  /\ watch' = [watch EXCEPT ![s] = "set"]
  /\ FetchList(s, "main")

\* kazoo gives a watch up whose path does not exist.
WatchStops(s) ==
  /\ pc[s]["main"] = "load" /\ ~path
  /\ watch' = [watch EXCEPT ![s] = "stopped"]
  /\ Goto(s, "main", "done")
  /\ UNCHANGED <<zookeeper, globals, up, zkNode, event, data, events, history>>

\* The later lists, one after the other.
WatchFires(s) ==
  /\ event[s] /\ pc[s]["main"] = "done" /\ pc[s]["watch"] = "idle"
  /\ FetchList(s, "watch")
  /\ UNCHANGED watch

-----------------------------------------------------------------------------
(* check_election() *)

Compare(s, t) ==
  /\ pc[s][t] = "check"
  /\ Goto(s, t, IF Cardinality(rest[s][t]) > numChildren[s] THEN "grown" ELSE "begin")
  /\ UNCHANGED <<zookeeper, globals, kazoo, data, events, history>>

\* The early return: somebody joined, and there is nothing to elect.
Skip(s, t) ==
  /\ pc[s][t] = "grown"
  /\ numChildren' = [numChildren EXCEPT ![s] = Cardinality(rest[s][t])]
  /\ skipped' = [skipped EXCEPT ![s] = @ \/ t # "init"]
  /\ Return(s, t)
  /\ UNCHANGED <<zookeeper, zkPath, leader, leaderPort, peerPorts, kazoo, events,
                 raced, unmade>>

\* Mutant: peer_ports is not emptied.
BeginKeeping(s, t) ==
  /\ pc[s][t] = "begin"
  /\ numChildren' = [numChildren EXCEPT ![s] = Cardinality(rest[s][t])]
  /\ oldPort' = [oldPort EXCEPT ![s][t] = leaderPort[s]]
  /\ Goto(s, t, "loop")
  /\ UNCHANGED <<zookeeper, zkPath, leader, leaderPort, peerPorts, kazoo, rest,
                 minPath, events, history>>

Begin(s, t) ==
  /\ pc[s][t] = "begin"
  /\ numChildren' = [numChildren EXCEPT ![s] = Cardinality(rest[s][t])]
  /\ oldPort' = [oldPort EXCEPT ![s][t] = leaderPort[s]]
  /\ peerPorts' = [peerPorts EXCEPT ![s] = {}]
  /\ Goto(s, t, "loop")
  /\ UNCHANGED <<zookeeper, zkPath, leader, leaderPort, kazoo, rest, minPath,
                 events, history>>

\* Mutant: the last node instead of the first.
GetLast(s, t, n) ==
  /\ pc[s][t] = "loop" /\ n \in rest[s][t] /\ n \in nodes
  /\ peerPorts' = [peerPorts EXCEPT ![s] = @ \cup {made[n]}]
  /\ minPath' = [minPath EXCEPT ![s][t] = IF n > @ THEN n ELSE @]
  /\ rest' = [rest EXCEPT ![s][t] = @ \ {n}]
  /\ UNCHANGED <<zookeeper, zkPath, leader, leaderPort, numChildren, kazoo, pc,
                 oldPort, events, history>>

\* zk.get() of a node that is there.
Get(s, t, n) ==
  /\ pc[s][t] = "loop" /\ n \in rest[s][t] /\ n \in nodes
  /\ peerPorts' = [peerPorts EXCEPT ![s] = @ \cup {made[n]}]
  /\ minPath' = [minPath EXCEPT ![s][t] = IF @ = 0 \/ n < @ THEN n ELSE @]
  /\ rest' = [rest EXCEPT ![s][t] = @ \ {n}]
  /\ UNCHANGED <<zookeeper, zkPath, leader, leaderPort, numChildren, kazoo, pc,
                 oldPort, events, history>>

\* The loop is over, and the first node is, or is not, the server's own.
IsOver(s, t) == pc[s][t] = "loop" /\ rest[s][t] = {}

\* Nothing catches an exception: it ends the init thread, kazoo logs it in its
\* own, and in the main thread it ends the process.
Raises(s, t) ==
  \/ /\ t # "main"
     /\ Return(s, t)
     /\ UNCHANGED <<zookeeper, globals, kazoo, events, history>>
  \/ t = "main" /\ Dies(s)

\* zk.get() of a node that is gone raises one, and so does None for a path.
GetFails(s, t) ==
  /\ \/ pc[s][t] = "loop" /\ ~(rest[s][t] \subseteq nodes)
     \/ IsOver(s, t) /\ minPath[s][t] # zkPath[s] /\ minPath[s][t] \notin nodes
  /\ Raises(s, t)

\* An empty list gives min_path None, which zk_path is, too, until the server
\* has made its node.
Lead(s, t) ==
  /\ IsOver(s, t) /\ minPath[s][t] = zkPath[s]
  /\ leader' = [leader EXCEPT ![s] = TRUE]
  /\ leaderPort' = [leaderPort EXCEPT ![s] = s]
  /\ unmade' = [unmade EXCEPT ![s] = @ \/ zkPath[s] = 0]
  /\ Return(s, t)
  /\ UNCHANGED <<zookeeper, zkPath, numChildren, peerPorts, kazoo, events,
                 skipped, raced>>

\* The data of the first node is read once more, and then stored.
ReadLeader(s, t) ==
  /\ IsOver(s, t) /\ minPath[s][t] # zkPath[s] /\ minPath[s][t] \in nodes
  /\ Goto(s, t, "follow")
  /\ UNCHANGED <<zookeeper, globals, kazoo, data, events, history>>

\* Mutant: the path of the node is stored, not its data.
FollowPath(s, t) ==
  /\ pc[s][t] = "follow"
  /\ leaderPort' = [leaderPort EXCEPT ![s] = minPath[s][t]]
  /\ Goto(s, t, "sync")
  /\ UNCHANGED <<zookeeper, zkPath, leader, numChildren, peerPorts, kazoo, data,
                 events, history>>

\* A new leader is asked for its data; that touches nothing here.
Follow(s, t) ==
  /\ pc[s][t] = "follow"
  /\ LET p == made[minPath[s][t]]
     IN /\ leaderPort' = [leaderPort EXCEPT ![s] = p]
        /\ IF p = oldPort[s][t] THEN Return(s, t)
                                ELSE Goto(s, t, "sync") /\ UNCHANGED data
  /\ UNCHANGED <<zookeeper, zkPath, leader, numChildren, peerPorts, kazoo, events,
                 history>>

\* sync_with_leader() returns; a connection that breaks under it raises.
Synced(s, t) ==
  /\ pc[s][t] = "sync"
  /\ \/ Return(s, t) /\ UNCHANGED <<zookeeper, globals, kazoo, events, history>>
     \/ Raises(s, t)

-----------------------------------------------------------------------------
CheckElection(s, t) ==
  \/ Compare(s, t) \/ Skip(s, t) \/ Begin(s, t)
  \/ \E n \in rest[s][t] : Get(s, t, n)
  \/ GetFails(s, t) \/ Lead(s, t) \/ ReadLeader(s, t) \/ Follow(s, t) \/ Synced(s, t)

InitElection(s) ==
  \/ InitEnsurePath(s) \/ InitCreate(s) \/ InitAssign(s)
  \/ InitList(s) \/ InitCount(s)

Next ==
  \/ \E n \in nodes : Expire(n)
  \/ \E s \in Servers :
       \/ Boot(s) \/ Kill(s) \/ LoseSession(s)
       \/ InitElection(s) \/ WatchBegin(s) \/ WatchStops(s) \/ WatchFires(s)
       \/ \E t \in Threads : CheckElection(s, t)

Spec == Init /\ [][Next]_vars

-----------------------------------------------------------------------------
(* Properties. *)

NodeIds == 0..Len(made)
Labels == {"done", "idle", "load", "sleep", "create", "assign", "list", "count",
           "check", "grown", "begin", "loop", "follow", "sync"}

\* The variables hold what the declarations above say.
TypeOK ==
  /\ path \in BOOLEAN
  /\ made \in Seq(Servers)
  /\ nodes \subseteq NodeIds \ {0}
  /\ up \in [Servers -> BOOLEAN]
  /\ zkNode \in [Servers -> NodeIds] /\ zkPath \in [Servers -> NodeIds]
  /\ leader \in [Servers -> BOOLEAN]
  /\ leaderPort \in [Servers -> Servers \cup {NoPort}]
  /\ numChildren \in [Servers -> Nat]
  /\ peerPorts \in [Servers -> SUBSET Servers]
  /\ watch \in [Servers -> {"unset", "set", "stopped"}]
  /\ event \in [Servers -> BOOLEAN]
  /\ pc \in [Servers -> [Threads -> Labels]]
  /\ rest \in [Servers -> [Threads -> SUBSET (NodeIds \ {0})]]
  /\ minPath \in [Servers -> [Threads -> NodeIds]]
  /\ oldPort \in [Servers -> [Threads -> Servers \cup {NoPort}]]
  /\ events \in Nat
  /\ skipped \in [Servers -> BOOLEAN] /\ raced \in [Servers -> BOOLEAN]
  /\ unmade \in [Servers -> BOOLEAN]

\* A running server that made itself leader after it had made its node has the
\* first of all nodes, as long as its session lasts: no later node sorts before
\* it, and what it saw was complete.  Two such servers are one.
LeaderIsFirst ==
  \A s \in Servers :
    leader[s] /\ ~unmade[s] /\ zkNode[s] \in nodes => IsFirst(zkNode[s], nodes)

\* The server of the first node leads as soon as it is quiet, unless the last
\* list it fetched was passed over by the early return: no exception, no order
\* of its threads and no node that comes or goes can cost it the office.
FirstLeads ==
  \A s \in Servers :
    Quiet(s) /\ ~skipped[s] /\ IsFirst(zkNode[s], nodes) => leader[s]

\* A quiet server knows the leader and all peers, unless its last list was
\* passed over, or fetched while the init thread was not done.
GroupIsKnown ==
  \A s \in Servers :
    Quiet(s) /\ ~skipped[s] /\ ~raced[s] /\ zkNode[s] \in nodes =>
      /\ peerPorts[s] = {made[n] : n \in nodes}
      /\ \A n \in nodes : IsFirst(n, nodes) => leaderPort[s] = made[n]

=============================================================================
