----------------------------- MODULE ChatServer -----------------------------
(***************************************************************************)
(* The chat server of a1/server.c: one sender thread, one listener thread  *)
(* per accepted connection, and the state they share -- the job queue      *)
(* sendqueue, the message log, and the table of clients with the sockets   *)
(* (sockfds) and the replay position (last_read) of each.                  *)
(*                                                                         *)
(* The unit of atomicity is what another thread can observe: a section     *)
(* under a lock that touches nothing else is one action, every             *)
(* send_message() and recv_header() is an action of its own.  No variable  *)
(* stands for the two rwlocks: the only section over several actions that  *)
(* holds clients_lock is the sender's walk (senderPc = "walk"), the only   *)
(* one that holds the log's lock is a replay (listener = "replay").        *)
(*                                                                         *)
(* Log nodes are positions 1..Len(log); 0 is NULL.  The job queue is the   *)
(* FIFO that module JobQueue implements.                                   *)
(***************************************************************************)
EXTENDS Naturals, Sequences, FiniteSets, SequencesExt

CONSTANTS
  ClientIds,  \* the ids of --client_ids, in the order of the hash table
  Strangers,  \* ids a peer may present that are not in the table
  Fds,        \* descriptors accept() hands out; close() makes them free again
  SayKinds,   \* kinds of message a connected peer sends besides DCON
  Conduct,    \* what peers do besides speaking and reading
  MaxConns,   \* bound: connections accepted in a behaviour
  MaxSays     \* bound: messages said by peers in a behaviour

Known == {ClientIds[i] : i \in 1..Len(ClientIds)}

ASSUME IdsAssumption ==
  /\ ClientIds \in Seq(Nat \ {0})
  /\ \A i, j \in 1..Len(ClientIds) : ClientIds[i] = ClientIds[j] => i = j
  /\ Strangers \subseteq Nat
  /\ Strangers \cap Known = {}

ASSUME PeerAssumption ==
  /\ SayKinds \subseteq {"DATA", "CONN"}
  /\ Conduct \subseteq {"quit", "vanish", "partial", "reset", "stall"}
  /\ MaxConns \in Nat
  /\ MaxSays \in Nat

VARIABLES
  server,     \* "up", or what ended the process: "sigpipe" or "segv"
  queue,      \* sendqueue
  log,        \* log->list
  lastRead,   \* client id -> last_read, a position in the log
  sockfds,    \* client id -> the list sockfds
  senderPc,   \* where the sender thread is
  senderMsg,  \* its m
  lastNode,   \* its last_node
  cAt,        \* its c, as an index into ClientIds
  nAt,        \* its n, as an index into sockfds[c]
  listener,   \* fd -> where the listener thread of that connection is
  clientId,   \* fd -> its client_id
  cursor,     \* fd -> the cursor of its fast_forward()
  inbox,      \* fd -> messages the peer sent and the server has not received
  peer,       \* fd -> the other end of the connection
  conns, says \* how much of MaxConns and MaxSays is used

(* History of the connection now on a descriptor, read by properties only. *)
VARIABLES
  out,        \* fd -> what its peer was sent: 0 for the reply, else positions
  from,       \* fd -> the position its replay began at
  upto,       \* fd -> the last position its replay covered
  since       \* fd -> the length of the log when it entered sockfds

senderVars == <<senderPc, senderMsg, lastNode, cAt, nAt>>
listenerVars == <<listener, clientId, cursor>>
netVars == <<inbox, peer, out>>
bounds == <<conns, says>>
history == <<from, upto, since>>
shared == <<queue, log, lastRead, sockfds>>
vars == <<server, shared, senderVars, listenerVars, netVars, bounds, history>>

(***************************************************************************)
(* Messages.  The payload is left out: no branch depends on it.  "PART" is *)
(* a DATA message cut short by the end of its sender.                      *)
(***************************************************************************)
Kind == {"DATA", "CONN", "DCON", "PART"}
Message == [kind : Kind, id : Nat]
Msg(k, i) == [kind |-> k, id |-> i]
NoMsg == Msg("DATA", 0)

ListenerPc == {"none", "handshake", "refuse", "greet", "catchup",
               "replay", "register", "recv", "leave", "close"}
PeerState == {"none", "open", "stalled", "closed", "reset"}

\* A listener between its accepted handshake and the end of its receive loop.
Greeted(fd) == listener[fd] \in {"catchup", "replay", "register", "recv"}
\* A peer that still holds its end of the connection.
Present(fd) == peer[fd] \in {"open", "stalled"}

Init ==
  /\ server = "up"
  /\ queue = <<>>
  /\ log = <<>>
  /\ lastRead = [i \in Known |-> 0]
  /\ sockfds = [i \in Known |-> <<>>]
  /\ senderPc = "dequeue" /\ senderMsg = NoMsg /\ lastNode = 0
  /\ cAt = 1 /\ nAt = 1
  /\ listener = [fd \in Fds |-> "none"]
  /\ clientId = [fd \in Fds |-> 0]
  /\ cursor = [fd \in Fds |-> 0]
  /\ inbox = [fd \in Fds |-> <<>>]
  /\ peer = [fd \in Fds |-> "none"]
  /\ conns = 0 /\ says = 0
  /\ out = [fd \in Fds |-> <<>>]
  /\ from = [fd \in Fds |-> 0]
  /\ upto = [fd \in Fds |-> 0]
  /\ since = [fd \in Fds |-> 0]

-----------------------------------------------------------------------------
(* send_message() and the kernel behind it. *)

\* It returns 0.  What a departed peer is sent is lost, and may be answered by
\* a reset; what a present peer is sent may fill its socket.
Sent(fd, p) ==
  \/ /\ peer[fd] = "open"
     /\ out' = [out EXCEPT ![fd] = Append(@, p)]
     /\ \E s \in {"open"} \cup {t \in {"stalled"} : "stall" \in Conduct} :
          peer' = [peer EXCEPT ![fd] = s]
  \/ /\ peer[fd] = "closed"
     /\ \E s \in {"closed"} \cup {t \in {"reset"} : t \in Conduct} :
          peer' = [peer EXCEPT ![fd] = s]
     /\ UNCHANGED out

\* It returns -1: the connection was reset.
SendFailed(fd) == peer[fd] = "reset" /\ UNCHANGED <<out, peer>>

-----------------------------------------------------------------------------
(* The sender thread. *)

SenderDequeue ==
  /\ server = "up" /\ senderPc = "dequeue" /\ queue # <<>>
  /\ senderMsg' = Head(queue)
  /\ queue' = Tail(queue)
  /\ senderPc' = "append"
  /\ UNCHANGED <<server, log, lastRead, sockfds, lastNode, cAt, nAt,
                 listenerVars, netVars, bounds, history>>

\* The write lock of the log waits for the replays that hold the read lock.
LogHasReaders == \E fd \in Fds : listener[fd] = "replay"

SenderAppend ==
  /\ server = "up" /\ senderPc = "append" /\ ~LogHasReaders
  /\ log' = Append(log, senderMsg)
  /\ lastNode' = Len(log) + 1
  /\ senderPc' = "lock"
  /\ UNCHANGED <<server, queue, lastRead, sockfds, senderMsg, cAt, nAt,
                 listenerVars, netVars, bounds, history>>

\* Mutant: the lists of sockets are walked from an index 0.
SenderLockAtZero ==
  /\ server = "up" /\ senderPc = "lock"
  /\ senderPc' = "walk" /\ cAt' = 1 /\ nAt' = 0
  /\ UNCHANGED <<server, shared, senderMsg, lastNode,
                 listenerVars, netVars, bounds, history>>

SenderLock ==
  /\ server = "up" /\ senderPc = "lock"
  /\ senderPc' = "walk" /\ cAt' = 1 /\ nAt' = 1
  /\ UNCHANGED <<server, shared, senderMsg, lastNode,
                 listenerVars, netVars, bounds, history>>

AtClient == senderPc = "walk" /\ cAt <= Len(ClientIds)
Visited == ClientIds[cAt]
\* Mutant: the walk stops before the last socket of a list.
AtConnectionButLast ==
  /\ AtClient
  /\ Visited # senderMsg.id
  /\ nAt < Len(sockfds[Visited])

\* The walk stands at a connection that is to be sent the message.
AtConnection ==
  /\ AtClient
  /\ Visited # senderMsg.id
  /\ nAt <= Len(sockfds[Visited])

\* Mutant: "continue" without the step to the next client.
SenderSkipStays ==
  /\ server = "up" /\ AtClient /\ sockfds[Visited] = <<>>
  /\ UNCHANGED vars

\* A client without a connection is passed over, and keeps its last_read.
SenderSkip ==
  /\ server = "up" /\ AtClient /\ sockfds[Visited] = <<>>
  /\ cAt' = cAt + 1 /\ nAt' = 1
  /\ UNCHANGED <<server, shared, senderPc, senderMsg, lastNode,
                 listenerVars, netVars, bounds, history>>

\* A failed send is reported and the walk goes on.
SenderSend ==
  /\ server = "up" /\ AtConnection
  /\ LET fd == sockfds[Visited][nAt]
     IN Sent(fd, lastNode) \/ SendFailed(fd)
  /\ nAt' = nAt + 1
  /\ UNCHANGED <<server, shared, senderPc, senderMsg, lastNode, cAt,
                 listenerVars, inbox, bounds, history>>

SenderMark ==
  /\ server = "up" /\ AtClient /\ sockfds[Visited] # <<>> /\ ~AtConnection
  /\ lastRead' = [lastRead EXCEPT ![Visited] = lastNode]
  /\ cAt' = cAt + 1 /\ nAt' = 1
  /\ UNCHANGED <<server, queue, log, sockfds, senderPc, senderMsg, lastNode,
                 listenerVars, netVars, bounds, history>>

SenderUnlock ==
  /\ server = "up" /\ senderPc = "walk" /\ cAt > Len(ClientIds)
  /\ senderPc' = "dequeue"
  /\ UNCHANGED <<server, shared, senderMsg, lastNode, cAt, nAt,
                 listenerVars, netVars, bounds, history>>

Sender ==
  \/ SenderDequeue \/ SenderAppend \/ SenderLock
  \/ SenderSkip \/ SenderSend \/ SenderMark \/ SenderUnlock

-----------------------------------------------------------------------------
(* Listener threads.  A thread is named by the descriptor it was given. *)

ClientsLocked == senderPc = "walk"

Goto(fd, l) == listener' = [listener EXCEPT ![fd] = l]
\* Mutant: a new job is put before the waiting ones.
EnqueueAtHead(m) == queue' = <<m>> \o queue
Enqueue(m) == queue' = Append(queue, m)

\* The main thread accepts a connection and starts its listener.  The first
\* message of the peer is already on its way.
Accept(fd, hello) ==
  /\ server = "up" /\ listener[fd] = "none" /\ conns < MaxConns
  /\ conns' = conns + 1
  /\ Goto(fd, "handshake")
  /\ peer' = [peer EXCEPT ![fd] = "open"]
  /\ inbox' = [inbox EXCEPT ![fd] = <<hello>>]
  /\ UNCHANGED <<server, shared, senderVars, clientId, cursor, out, says, history>>

\* handshake() and the lookup of the id, for which the table is read locked.
\* The table itself never changes.
Handshake(fd) ==
  /\ server = "up" /\ listener[fd] = "handshake" /\ inbox[fd] # <<>> /\ ~ClientsLocked
  /\ inbox' = [inbox EXCEPT ![fd] = Tail(@)]
  /\ LET m == Head(inbox[fd])
     IN IF m.kind = "CONN" /\ m.id > 0 /\ m.id \in Known
        THEN /\ clientId' = [clientId EXCEPT ![fd] = m.id]
             /\ Goto(fd, "greet")
        ELSE /\ Goto(fd, "refuse")
             /\ UNCHANGED clientId
  /\ UNCHANGED <<server, shared, senderVars, cursor, peer, out, bounds, history>>

Refuse(fd) ==
  /\ server = "up" /\ listener[fd] = "refuse"
  /\ Sent(fd, 0) \/ SendFailed(fd)
  /\ Goto(fd, "close")
  /\ UNCHANGED <<server, shared, senderVars, clientId, cursor, inbox,
                 bounds, history>>

\* Mutant: the connection is registered before its replay, and again after it.
GreetRegistering(fd) ==
  /\ server = "up" /\ listener[fd] = "greet" /\ ~ClientsLocked
  /\ Sent(fd, 0) \/ SendFailed(fd)
  /\ Enqueue(Msg("CONN", clientId[fd]))
  /\ sockfds' = [sockfds EXCEPT ![clientId[fd]] = Append(@, fd)]
  /\ Goto(fd, "catchup")
  /\ UNCHANGED <<server, log, lastRead, senderVars, clientId, cursor, inbox,
                 bounds, history>>

\* The greeting of the peer and the announcement to everybody else.
Greet(fd) ==
  /\ server = "up" /\ listener[fd] = "greet"
  /\ Sent(fd, 0) \/ SendFailed(fd)
  /\ Enqueue(Msg("CONN", clientId[fd]))
  /\ Goto(fd, "catchup")
  /\ UNCHANGED <<server, log, lastRead, sockfds, senderVars, clientId, cursor,
                 inbox, bounds, history>>

\* fast_forward() begins at last_read, or at the head of the log.
ReplayStart(i) == IF lastRead[i] = 0 THEN (IF log = <<>> THEN 0 ELSE 1)
                                     ELSE lastRead[i]

ReplayBegin(fd) ==
  /\ server = "up" /\ listener[fd] = "catchup"
  /\ cursor' = [cursor EXCEPT ![fd] = ReplayStart(clientId[fd])]
  /\ from' = [from EXCEPT ![fd] = ReplayStart(clientId[fd])]
  /\ Goto(fd, "replay")
  /\ UNCHANGED <<server, shared, senderVars, clientId, netVars, bounds,
                 upto, since>>

Replaying(fd) == listener[fd] = "replay" /\ cursor[fd] # 0
\* The replay stands at a message that is not the client's own.
AtForeign(fd) == Replaying(fd) /\ log[cursor[fd]].id # clientId[fd]

\* Mutant: the replay ends before the tail of the log.
ReplayStepShort(fd) ==
  /\ server = "up" /\ Replaying(fd)
  /\ AtForeign(fd) => Sent(fd, cursor[fd])
  /\ ~AtForeign(fd) => UNCHANGED <<peer, out>>
  /\ cursor' = [cursor EXCEPT ![fd] = IF @ + 1 >= Len(log) THEN 0 ELSE @ + 1]
  /\ UNCHANGED <<server, shared, senderVars, listener, clientId, inbox,
                 bounds, history>>

\* The loop of fast_forward() for one message: sent unless it is the
\* client's own.  A failed send leaves the loop, and last_read as it was.
ReplayStep(fd) ==
  /\ server = "up" /\ Replaying(fd)
  /\ \/ /\ AtForeign(fd) => Sent(fd, cursor[fd])
        /\ ~AtForeign(fd) => UNCHANGED <<peer, out>>
        /\ cursor' = [cursor EXCEPT ![fd] = IF @ = Len(log) THEN 0 ELSE @ + 1]
        /\ UNCHANGED <<listener, upto>>
     \/ /\ AtForeign(fd) /\ SendFailed(fd)
        /\ upto' = [upto EXCEPT ![fd] = cursor[fd]]
        /\ Goto(fd, "register")
        /\ UNCHANGED cursor
  /\ UNCHANGED <<server, shared, senderVars, clientId, inbox, bounds, from, since>>

\* Mutant: last_read is set to where the replay began.
ReplayEndAtStart(fd) ==
  /\ server = "up" /\ listener[fd] = "replay" /\ cursor[fd] = 0
  /\ lastRead' = [lastRead EXCEPT ![clientId[fd]] = from[fd]]
  /\ upto' = [upto EXCEPT ![fd] = Len(log)]
  /\ Goto(fd, "register")
  /\ UNCHANGED <<server, queue, log, sockfds, senderVars, clientId, cursor,
                 netVars, bounds, from, since>>

\* Mutant: a replay is repeated while the sender has more to do.
ReplayEndRepeats(fd) ==
  /\ server = "up" /\ listener[fd] = "replay" /\ cursor[fd] = 0
  /\ lastRead' = [lastRead EXCEPT ![clientId[fd]] = Len(log)]
  /\ upto' = [upto EXCEPT ![fd] = Len(log)]
  /\ Goto(fd, IF queue = <<>> THEN "register" ELSE "catchup")
  /\ UNCHANGED <<server, queue, log, sockfds, senderVars, clientId, cursor,
                 netVars, bounds, from, since>>

ReplayEnd(fd) ==
  /\ server = "up" /\ listener[fd] = "replay" /\ cursor[fd] = 0
  /\ lastRead' = [lastRead EXCEPT ![clientId[fd]] = Len(log)]
  /\ upto' = [upto EXCEPT ![fd] = Len(log)]
  /\ Goto(fd, "register")
  /\ UNCHANGED <<server, queue, log, sockfds, senderVars, clientId, cursor,
                 netVars, bounds, from, since>>

\* client_hash_add_connection() and client_hash_remove_connection()
AddConnection(id, fd) == sockfds' = [sockfds EXCEPT ![id] = Append(@, fd)]
RemoveConnection(id, fd) == sockfds' = [sockfds EXCEPT ![id] = RemoveFirst(@, fd)]

\* The result of fast_forward() is not looked at.
Register(fd) ==
  /\ server = "up" /\ listener[fd] = "register" /\ ~ClientsLocked
  /\ AddConnection(clientId[fd], fd)
  /\ since' = [since EXCEPT ![fd] = Len(log)]
  /\ Goto(fd, "recv")
  /\ UNCHANGED <<server, queue, log, lastRead, senderVars, clientId, cursor,
                 netVars, bounds, from, upto>>

\* Mutant: a DCON is forwarded like any message, and the loop goes on.
ReceiveOn(fd) ==
  /\ server = "up" /\ listener[fd] = "recv" /\ inbox[fd] # <<>>
  /\ LET m == Head(inbox[fd])
     IN /\ m.kind # "PART"
        /\ IF m.kind = "CONN" THEN UNCHANGED queue ELSE Enqueue(m)
  /\ inbox' = [inbox EXCEPT ![fd] = Tail(@)]
  /\ UNCHANGED <<server, log, lastRead, sockfds, senderVars, listenerVars,
                 peer, out, bounds, history>>

\* A DCON ends the loop, a CONN is dropped, a DATA goes to the sender.  On a
\* connection its peer closed, recv() returns 0 for ever and nothing changes.
Receive(fd) ==
  /\ server = "up" /\ listener[fd] = "recv" /\ inbox[fd] # <<>>
  /\ LET m == Head(inbox[fd])
     IN /\ m.kind # "PART"
        /\ IF m.kind = "CONN" THEN UNCHANGED queue ELSE Enqueue(m)
        /\ IF m.kind = "DCON" THEN Goto(fd, "leave") ELSE UNCHANGED listener
  /\ inbox' = [inbox EXCEPT ![fd] = Tail(@)]
  /\ UNCHANGED <<server, log, lastRead, sockfds, senderVars, clientId, cursor,
                 peer, out, bounds, history>>

\* Mutant: the error path closes the socket and skips its removal.
ReceivePartialCloses(fd) ==
  /\ server = "up" /\ listener[fd] = "recv" /\ inbox[fd] # <<>>
  /\ Head(inbox[fd]).kind = "PART" /\ peer[fd] = "reset"
  /\ inbox' = [inbox EXCEPT ![fd] = Tail(@)]
  /\ Goto(fd, "close")
  /\ UNCHANGED <<server, shared, senderVars, clientId, cursor, peer, out,
                 bounds, history>>

\* recv_payload() fails on a reset connection, which ends the loop silently.
ReceivePartial(fd) ==
  /\ server = "up" /\ listener[fd] = "recv" /\ inbox[fd] # <<>>
  /\ Head(inbox[fd]).kind = "PART" /\ peer[fd] = "reset"
  /\ inbox' = [inbox EXCEPT ![fd] = Tail(@)]
  /\ Goto(fd, "leave")
  /\ UNCHANGED <<server, shared, senderVars, clientId, cursor, peer, out,
                 bounds, history>>

\* Mutant: the list is left as it is.
LeaveListed(fd) ==
  /\ server = "up" /\ listener[fd] = "leave" /\ ~ClientsLocked
  /\ Goto(fd, "close")
  /\ UNCHANGED <<server, shared, senderVars, clientId, cursor, netVars, bounds,
                 history>>

Leave(fd) ==
  /\ server = "up" /\ listener[fd] = "leave" /\ ~ClientsLocked
  /\ RemoveConnection(clientId[fd], fd)
  /\ Goto(fd, "close")
  /\ UNCHANGED <<server, queue, log, lastRead, senderVars, clientId, cursor,
                 netVars, bounds, history>>

\* close(fd) and the end of the thread: what the descriptor was is forgotten.
Close(fd) ==
  /\ server = "up" /\ listener[fd] = "close"
  /\ Goto(fd, "none")
  /\ clientId' = [clientId EXCEPT ![fd] = 0]
  /\ cursor' = [cursor EXCEPT ![fd] = 0]
  /\ inbox' = [inbox EXCEPT ![fd] = <<>>]
  /\ peer' = [peer EXCEPT ![fd] = "none"]
  /\ out' = [out EXCEPT ![fd] = <<>>]
  /\ from' = [from EXCEPT ![fd] = 0]
  /\ upto' = [upto EXCEPT ![fd] = 0]
  /\ since' = [since EXCEPT ![fd] = 0]
  /\ UNCHANGED <<server, shared, senderVars, bounds>>

Listener(fd) ==
  \/ Handshake(fd) \/ Refuse(fd) \/ Greet(fd)
  \/ ReplayBegin(fd) \/ ReplayStep(fd) \/ ReplayEnd(fd)
  \/ Register(fd) \/ Receive(fd) \/ ReceivePartial(fd) \/ Leave(fd) \/ Close(fd)

-----------------------------------------------------------------------------
(* The two ways a connection error ends the process. *)

\* A thread is about to send on fd.
Sending(fd) ==
  \/ listener[fd] \in {"refuse", "greet"}
  \/ AtForeign(fd)
  \/ AtConnection /\ sockfds[Visited][nAt] = fd

\* send() on a reset connection raises SIGPIPE, which nothing handles.
SigPipe(fd) ==
  /\ server = "up" /\ Sending(fd) /\ peer[fd] = "reset"
  /\ server' = "sigpipe"
  /\ UNCHANGED <<shared, senderVars, listenerVars, netVars, bounds, history>>

\* recv_header() returns NULL and the loop reads m->kind.
RecvHeaderFails(fd) ==
  /\ server = "up" /\ listener[fd] = "recv" /\ inbox[fd] = <<>> /\ peer[fd] = "reset"
  /\ server' = "segv"
  /\ UNCHANGED <<shared, senderVars, listenerVars, netVars, bounds, history>>

-----------------------------------------------------------------------------
(* Peers: the client program of a1/client.c, at the other end of a socket. *)

\* A peer presents itself first; the server must cope with one that does not.
Hello == [kind : {"CONN"}, id : Known \cup Strangers]
           \cup [kind : {"DATA"}, id : Strangers]

\* The client's sender thread runs once the handshake was accepted.
PeerSay(fd, k) ==
  /\ server = "up" /\ Greeted(fd) /\ Present(fd) /\ says < MaxSays
  /\ says' = says + 1
  /\ inbox' = [inbox EXCEPT ![fd] = Append(@, Msg(k, clientId[fd]))]
  /\ UNCHANGED <<server, shared, senderVars, listenerVars, peer, out, conns, history>>

\* A peer goes: a close() with unread data resets the connection at once.
PeerGoes(fd) ==
  /\ Present(fd)
  /\ \E s \in {"closed"} \cup {t \in {"reset"} : t \in Conduct /\ out[fd] # <<>>} :
       peer' = [peer EXCEPT ![fd] = s]

\* "<<quit>>": DCON is sent, then the socket is closed.
PeerQuit(fd) ==
  /\ server = "up" /\ "quit" \in Conduct /\ Greeted(fd) /\ PeerGoes(fd)
  /\ inbox' = [inbox EXCEPT ![fd] = Append(@, Msg("DCON", clientId[fd]))]
  /\ UNCHANGED <<server, shared, senderVars, listenerVars, out, bounds, history>>

\* The end of the input, a refused handshake or a kill: no DCON, and perhaps
\* the first part of a message.
PeerVanish(fd) ==
  /\ server = "up" /\ "vanish" \in Conduct /\ PeerGoes(fd)
  /\ \/ UNCHANGED inbox
     \/ /\ "partial" \in Conduct /\ Greeted(fd)
        /\ inbox' = [inbox EXCEPT ![fd] = Append(@, Msg("PART", clientId[fd]))]
  /\ UNCHANGED <<server, shared, senderVars, listenerVars, out, bounds, history>>

\* The client's receiver thread reads on, and its socket has room again.
PeerRead(fd) ==
  /\ server = "up" /\ peer[fd] = "stalled"
  /\ peer' = [peer EXCEPT ![fd] = "open"]
  /\ UNCHANGED <<server, shared, senderVars, listenerVars, inbox, out, bounds, history>>

Peer(fd) ==
  \/ \E k \in SayKinds : PeerSay(fd, k)
  \/ PeerQuit(fd) \/ PeerVanish(fd) \/ PeerRead(fd)

-----------------------------------------------------------------------------
Next ==
  \/ Sender
  \/ \E fd \in Fds :
       \/ \E hello \in Hello : Accept(fd, hello)
       \/ Listener(fd) \/ Peer(fd) \/ SigPipe(fd) \/ RecvHeaderFails(fd)

Spec == Init /\ [][Next]_vars

\* Threads that can run do run; a peer that has not gone reads what it is
\* sent.  Peers need not come, speak or go.
Fairness ==
  /\ WF_vars(Sender)
  /\ \A fd \in Fds : WF_vars(Listener(fd)) /\ WF_vars(PeerRead(fd))

FairSpec == Spec /\ Fairness

-----------------------------------------------------------------------------
(* Properties. *)

\* The variables hold what the declarations above say.
TypeOK ==
  /\ server \in {"up", "sigpipe", "segv"}
  /\ queue \in Seq(Message) /\ log \in Seq(Message)
  /\ lastRead \in [Known -> Nat]
  /\ sockfds \in [Known -> Seq(Fds)]
  /\ senderPc \in {"dequeue", "append", "lock", "walk"}
  /\ senderMsg \in Message /\ lastNode \in Nat
  /\ cAt \in Nat \ {0} /\ nAt \in Nat \ {0}
  /\ listener \in [Fds -> ListenerPc]
  /\ clientId \in [Fds -> Nat]
  /\ cursor \in [Fds -> Nat]
  /\ inbox \in [Fds -> Seq(Message)]
  /\ peer \in [Fds -> PeerState]
  /\ conns \in Nat /\ says \in Nat
  /\ out \in [Fds -> Seq(Nat)]
  /\ from \in [Fds -> Nat] /\ upto \in [Fds -> Nat] /\ since \in [Fds -> Nat]

\* A listener that is in sockfds, or about to take itself out of it.
Registered(fd) == listener[fd] \in {"recv", "leave"}

\* The lists of sockets hold exactly the descriptors whose listeners are past
\* registration and before removal, each once, under the id that was presented:
\* although close() makes a number free for the next accept(), the sender's
\* walk never writes to a closed descriptor, to the connection of another
\* client, or to one whose listener still writes to it.
SocketsAreLive ==
  \A i \in Known :
    /\ Range(sockfds[i]) = {fd \in Fds : Registered(fd) /\ clientId[fd] = i}
    /\ IsInjective(sockfds[i])

\* A connection is sent messages in the order of the log, although its replay
\* and the walks of the sender run in different threads.
SentInLogOrder ==
  \A fd \in Fds : \A j, k \in 1..Len(out[fd]) : j < k => out[fd][j] <= out[fd][k]

\* The one message a connection can be sent twice is the one that the sender
\* was about to broadcast when the replay ended and the connection was
\* registered: the last its replay covered, with nothing logged in between.
TwiceOnlyAtTheSeam ==
  \A fd \in Fds : \A j, k \in 1..Len(out[fd]) :
    j # k /\ out[fd][j] = out[fd][k] =>
      out[fd][j] = upto[fd] /\ upto[fd] = since[fd]

\* last_read never goes back, although fast_forward() writes it without
\* clients_lock and the sender without the log's lock.
LastReadAdvances == [][\A i \in Known : lastRead'[i] >= lastRead[i]]_vars

\* The walk for position p has passed fd.
Walked(p, fd) ==
  \/ p < Len(log) \/ senderPc \in {"dequeue", "append"}
  \/ /\ senderPc = "walk"
     /\ \/ cAt > Len(ClientIds)
        \/ \E k \in 1..(cAt - 1) : ClientIds[k] = clientId[fd]
        \/ Visited = clientId[fd] /\ \E k \in 1..(nAt - 1) : sockfds[Visited][k] = fd

\* Position p is owed to the connection fd: not its client's own, and walked.
Owed(p, fd) == p \in 1..Len(log) /\ log[p].id # clientId[fd] /\ Walked(p, fd)

WasSent(p, fd) == p \in Range(out[fd])

\* A registered connection was sent all its replay covers and all that was
\* logged since its registration: what the walks and replays miss lies in the
\* window between the two.
OnlyTheWindowIsMissed ==
  \A fd \in Fds : Registered(fd) /\ Present(fd) =>
    \A p \in 1..Len(log) :
      /\ p > since[fd] /\ Owed(p, fd) => WasSent(p, fd)
      /\ p \in from[fd]..upto[fd] /\ log[p].id # clientId[fd] => WasSent(p, fd)

Logged(m, p) == {q \in 1..p : log[q] = m}

\* Seen through the log, a client speaks only while connected: each prefix has
\* no more DCONs than CONNs of an id, and more CONNs where that id has a DATA.
SpeaksWhileConnected ==
  \A i \in Known, p \in 1..Len(log) :
    LET joins == Cardinality(Logged(Msg("CONN", i), p))
        parts == Cardinality(Logged(Msg("DCON", i), p))
    IN /\ parts <= joins
       /\ log[p] = Msg("DATA", i) => parts < joins

\* All that was logged for fd since its registration was sent to it.
CaughtUp(fd) ==
  \A p \in (since[fd] + 1)..Len(log) : log[p].id # clientId[fd] => WasSent(p, fd)

\* A registered connection is again and again up to date with the log, as long
\* as its peer stays and the server runs, whatever the other connections do.
BroadcastReaches ==
  \A fd \in Fds :
    (Registered(fd) /\ ~CaughtUp(fd)) ~> (CaughtUp(fd) \/ ~Present(fd) \/ server # "up")

\* A connection whose handshake is refused, or whose peer said DCON, is closed.
EndedConnectionsClose ==
  \A fd \in Fds :
    (listener[fd] = "refuse" \/ \E k \in 1..Len(inbox[fd]) : inbox[fd][k].kind = "DCON")
      ~> (listener[fd] = "none" \/ server # "up")

-----------------------------------------------------------------------------
(* What the documentation and comments say, and the code does not do. *)

\* Documentation.pdf: the replay sends "all message that would have been
\* received since they were last connected".
MissesNothing ==
  \A fd \in Fds : Registered(fd) /\ Present(fd) =>
    \A p \in 1..Len(log) : p >= from[fd] /\ Owed(p, fd) => WasSent(p, fd)

=============================================================================
