-------------------------- MODULE ChatServerProofs --------------------------
(***************************************************************************)
(* Proofs about ChatServer, for every table of clients, every set of       *)
(* descriptors, every conduct of the peers and every bound.                *)
(*                                                                         *)
(* The inductive invariant Inductive adds three facts to the properties:   *)
(* a greeted listener has the id of a client in the table, the positions   *)
(* the threads keep (last_read, last_node, cursors) lie in the log, and a  *)
(* replay's cursor is not behind what its connection was sent.             *)
(*                                                                         *)
(* Who gets what is proved above it: ReplayIsWhole says how far the replay *)
(* of a connection has come, and WalkIsWhole what the walks since its      *)
(* registration have sent it, each of one connection that all the others'  *)
(* threads leave alone.  SpeechIsAnnounced counts what was announced and   *)
(* said of a client, logged or not, against its connections.               *)
(***************************************************************************)
EXTENDS ChatServer, SequenceLemmas, FiniteSetTheorems

-----------------------------------------------------------------------------
(* The inductive invariant: the properties, and what they rest on. *)

\* A listener that has looked its client up.
Identified(fd) == Greeted(fd) \/ listener[fd] \in {"greet", "leave"}

\* Its client is in the table.
ClientsAreKnown == \A fd \in Fds : Identified(fd) => clientId[fd] \in Known

\* The nodes the threads hold are in the log, and the sender walks with its tail.
NodesAreLogged ==
  /\ \A i \in Known : lastRead[i] <= Len(log)
  /\ \A fd \in Fds : cursor[fd] <= Len(log)
  /\ senderPc \in {"lock", "walk"} => lastNode = Len(log)

\* Nothing but the reply is sent before the replay, and a replay is ahead of
\* all it has sent.
ReplayIsAhead ==
  \A fd \in Fds : \A k \in 1..Len(out[fd]) :
    /\ out[fd][k] <= Len(log)
    /\ listener[fd] \in {"none", "handshake", "refuse", "greet", "catchup"}
         => out[fd][k] = 0
    /\ Replaying(fd) => out[fd][k] <= cursor[fd]

Inductive ==
  /\ TypeOK /\ SocketsAreLive /\ ClientsAreKnown
  /\ NodesAreLogged /\ ReplayIsAhead /\ SentInLogOrder

-----------------------------------------------------------------------------
(* Type correctness. *)

\* A message has a kind and an id.
LEMMA MsgType == \A k \in Kind, i \in Nat : Msg(k, i) \in Message
BY DEF Msg, Message

\* What a successful or failed send does to the connections.
LEMMA SendType ==
  ASSUME TypeOK, NEW fd \in Fds, NEW p \in Nat, Sent(fd, p) \/ SendFailed(fd)
  PROVE  peer' \in [Fds -> PeerState] /\ out' \in [Fds -> Seq(Nat)]
<1> USE DEF TypeOK, PeerState
<1>1. CASE Sent(fd, p) /\ peer[fd] = "open"
  <2>1. out' = [out EXCEPT ![fd] = Append(@, p)]
    BY <1>1 DEF Sent
  <2>2. PICK s \in {"open", "stalled"} : peer' = [peer EXCEPT ![fd] = s]
    BY <1>1 DEF Sent
  <2> QED BY <2>1, <2>2
<1>2. CASE Sent(fd, p) /\ peer[fd] = "closed"
  <2>1. PICK s \in {"closed", "reset"} : peer' = [peer EXCEPT ![fd] = s]
    BY <1>2 DEF Sent
  <2> QED BY <1>2, <2>1 DEF Sent
<1>3. CASE SendFailed(fd)
  BY <1>3 DEF SendFailed
<1> QED BY <1>1, <1>2, <1>3 DEF Sent

\* What a listener that moves on does to the program counters.
LEMMA GotoType ==
  ASSUME TypeOK, NEW fd \in Fds, NEW l \in ListenerPc, Goto(fd, l)
  PROVE  listener' \in [Fds -> ListenerPc]
BY DEF TypeOK, Goto

\* What a receive does to the socket.
LEMMA InboxType ==
  ASSUME TypeOK, NEW fd \in Fds, inbox[fd] # <<>>
  PROVE  /\ Head(inbox[fd]) \in Message
         /\ [inbox EXCEPT ![fd] = Tail(@)] \in [Fds -> Seq(Message)]
<1>1. inbox[fd] \in Seq(Message)
  BY DEF TypeOK
<1>2. Head(inbox[fd]) \in Message /\ Tail(inbox[fd]) \in Seq(Message)
  BY <1>1, HeadTailProperties
<1> QED BY <1>2 DEF TypeOK

\* What speaking does to the socket.
LEMMA SayType ==
  ASSUME TypeOK, NEW fd \in Fds, NEW k \in Kind
  PROVE  [inbox EXCEPT ![fd] = Append(@, Msg(k, clientId[fd]))]
           \in [Fds -> Seq(Message)]
<1>1. Msg(k, clientId[fd]) \in Message
  BY MsgType DEF TypeOK
<1> QED BY <1>1 DEF TypeOK

\* What a peer that goes does to the connections.
LEMMA PeerGoesType ==
  ASSUME TypeOK, NEW fd \in Fds, PeerGoes(fd)
  PROVE  peer' \in [Fds -> PeerState]
<1>1. PICK s \in {"closed", "reset"} : peer' = [peer EXCEPT ![fd] = s]
  BY DEF PeerGoes
<1> QED BY <1>1 DEF TypeOK, PeerState

\* Where a replay starts is a position.
LEMMA ReplayStartType ==
  ASSUME TypeOK, ClientsAreKnown, NEW fd \in Fds, listener[fd] = "catchup"
  PROVE  ReplayStart(clientId[fd]) \in Nat
<1>1. clientId[fd] \in Known
  BY DEF ClientsAreKnown, Identified, Greeted
<1> QED BY <1>1 DEF TypeOK, ReplayStart

\* Where the walk stands is a client of the table, and a connection of it.
LEMMA ConnectionType ==
  ASSUME TypeOK, AtClient
  PROVE  Visited \in Known /\ (AtConnection => sockfds[Visited][nAt] \in Fds)
<1>1. cAt \in 1..Len(ClientIds)
  BY IdsAssumption DEF AtClient, TypeOK
<1>2. Visited \in Known
  BY <1>1 DEF Visited, Known
<1>3. sockfds[Visited] \in Seq(Fds)
  BY <1>2 DEF TypeOK
<1> QED BY <1>2, <1>3 DEF AtConnection, TypeOK

\* A step preserves the types; Leave needs the lists of sockets to be without
\* repetitions, ReplayBegin an id of the table.
LEMMA TypeStep ==
  ASSUME TypeOK, SocketsAreLive, ClientsAreKnown, [Next]_vars
  PROVE  TypeOK'
<1> USE DEF TypeOK, shared, senderVars, listenerVars, netVars, bounds, history
<1>1. CASE SenderDequeue
  <2>1. senderMsg' \in Message /\ queue' \in Seq(Message)
    BY <1>1, HeadTailProperties DEF SenderDequeue
  <2> QED BY <1>1, <2>1 DEF SenderDequeue
<1>2. CASE SenderAppend
  BY <1>2 DEF SenderAppend
<1>3. CASE SenderLock
  BY <1>3 DEF SenderLock
<1>4. CASE SenderSkip
  BY <1>4 DEF SenderSkip
<1>5. CASE SenderSend
  <2>1. PICK fd \in Fds : Sent(fd, lastNode) \/ SendFailed(fd)
    BY <1>5, ConnectionType DEF SenderSend, AtConnection, AtClient
  <2>2. peer' \in [Fds -> PeerState] /\ out' \in [Fds -> Seq(Nat)]
    BY SendType, <2>1
  <2>3. nAt' \in Nat \ {0}
    BY <1>5 DEF SenderSend
  <2> QED BY <1>5, <2>1, <2>2, <2>3 DEF SenderSend
<1>6. CASE SenderMark
  <2>1. lastRead' \in [Known -> Nat]
    BY <1>6 DEF SenderMark
  <2>2. cAt' \in Nat \ {0} /\ nAt' \in Nat \ {0}
    BY <1>6 DEF SenderMark
  <2> QED BY <1>6, <2>1, <2>2 DEF SenderMark
<1>7. CASE SenderUnlock
  BY <1>7 DEF SenderUnlock
<1>8. ASSUME NEW fd \in Fds, NEW hello \in Hello, Accept(fd, hello)
      PROVE  TypeOK'
  <2>1. hello \in Message
    <3>1. \A i \in 1..Len(ClientIds) : ClientIds[i] \in Nat
      BY IdsAssumption
    <3>2. Known \cup Strangers \subseteq Nat
      BY <3>1, IdsAssumption DEF Known
    <3> QED BY <3>2 DEF Hello, Message, Kind
  <2>2. inbox' \in [Fds -> Seq(Message)] /\ peer' \in [Fds -> PeerState]
    <3>1. inbox \in [Fds -> Seq(Message)] /\ peer \in [Fds -> PeerState]
      BY Zenon DEF TypeOK
    <3>2. <<hello>> \in Seq(Message) /\ "open" \in PeerState
      BY <2>1 DEF PeerState
    <3>3. /\ inbox' = [inbox EXCEPT ![fd] = <<hello>>]
          /\ peer' = [peer EXCEPT ![fd] = "open"]
      BY <1>8, Zenon DEF Accept
    <3> QED BY <3>1, <3>2, <3>3
  <2>3. listener' \in [Fds -> ListenerPc] /\ conns' \in Nat
    BY <1>8 DEF Accept, Goto, ListenerPc
  <2> QED BY <1>8, <2>2, <2>3 DEF Accept
<1>9. ASSUME NEW fd \in Fds, Handshake(fd)
      PROVE  TypeOK'
  <2>1. inbox' \in [Fds -> Seq(Message)]
    BY <1>9, InboxType DEF Handshake
  <2>2. listener' \in [Fds -> ListenerPc]
    BY <1>9, GotoType DEF Handshake, ListenerPc
  <2>3. clientId' \in [Fds -> Nat]
    BY <1>9, InboxType DEF Handshake, Message
  <2> QED BY <1>9, <2>1, <2>2, <2>3 DEF Handshake
<1>10. ASSUME NEW fd \in Fds, Refuse(fd)
      PROVE  TypeOK'
  <2>1. peer' \in [Fds -> PeerState] /\ out' \in [Fds -> Seq(Nat)]
    BY <1>10, SendType DEF Refuse
  <2>2. listener' \in [Fds -> ListenerPc]
    BY <1>10, GotoType DEF Refuse, ListenerPc
  <2> QED BY <1>10, <2>1, <2>2 DEF Refuse
<1>11. ASSUME NEW fd \in Fds, Greet(fd)
      PROVE  TypeOK'
  <2>1. peer' \in [Fds -> PeerState] /\ out' \in [Fds -> Seq(Nat)]
    BY <1>11, SendType DEF Greet
  <2>2. listener' \in [Fds -> ListenerPc]
    BY <1>11, GotoType DEF Greet, ListenerPc
  <2>3. queue' \in Seq(Message)
    BY <1>11, MsgType DEF Greet, Enqueue, Kind
  <2> QED BY <1>11, <2>1, <2>2, <2>3 DEF Greet
<1>12. ASSUME NEW fd \in Fds, ReplayBegin(fd)
      PROVE  TypeOK'
  <2>1. listener' \in [Fds -> ListenerPc]
    BY <1>12, GotoType DEF ReplayBegin, ListenerPc
  <2>2. ReplayStart(clientId[fd]) \in Nat
    BY <1>12, ReplayStartType DEF ReplayBegin
  <2> QED BY <1>12, <2>1, <2>2 DEF ReplayBegin
<1>13. ASSUME NEW fd \in Fds, ReplayStep(fd)
      PROVE  TypeOK'
  <2>1. peer' \in [Fds -> PeerState] /\ out' \in [Fds -> Seq(Nat)]
    <3>1. CASE Sent(fd, cursor[fd]) \/ SendFailed(fd)
      BY <3>1, SendType
    <3>2. CASE UNCHANGED <<peer, out>>
      BY <3>2
    <3> QED BY <1>13, <3>1, <3>2 DEF ReplayStep
  <2>2. listener' \in [Fds -> ListenerPc]
    BY <1>13, GotoType DEF ReplayStep, ListenerPc
  <2>3. cursor' \in [Fds -> Nat] /\ upto' \in [Fds -> Nat]
    <3>1. CASE cursor' = [cursor EXCEPT ![fd] = IF @ = Len(log) THEN 0 ELSE @ + 1]
               /\ UNCHANGED upto
      BY <3>1
    <3>2. CASE UNCHANGED cursor /\ upto' = [upto EXCEPT ![fd] = cursor[fd]]
      BY <3>2
    <3> QED BY <1>13, <3>1, <3>2 DEF ReplayStep
  <2> QED BY <1>13, <2>1, <2>2, <2>3 DEF ReplayStep
<1>14. ASSUME NEW fd \in Fds, ReplayEnd(fd)
      PROVE  TypeOK'
  <2>1. listener' \in [Fds -> ListenerPc]
    BY <1>14, GotoType DEF ReplayEnd, ListenerPc
  <2>2. lastRead' \in [Known -> Nat] /\ upto' \in [Fds -> Nat]
    <3>1. Len(log) \in Nat
      OBVIOUS
    <3>2. lastRead' \in [Known -> Nat]
      BY <1>14, <3>1 DEF ReplayEnd
    <3>3. upto' \in [Fds -> Nat]
      BY <1>14, <3>1 DEF ReplayEnd
    <3> QED BY <3>2, <3>3
  <2> QED BY <1>14, <2>1, <2>2 DEF ReplayEnd
<1>15. ASSUME NEW fd \in Fds, Register(fd)
      PROVE  TypeOK'
  <2>1. listener' \in [Fds -> ListenerPc]
    BY <1>15, GotoType DEF Register, AddConnection, ListenerPc
  <2>2. sockfds' \in [Known -> Seq(Fds)]
    <3>1. clientId[fd] \in Known
      BY <1>15 DEF Register, AddConnection, ClientsAreKnown, Identified, Greeted
    <3> QED BY <1>15, <3>1 DEF Register, AddConnection
  <2>3. since' \in [Fds -> Nat]
    BY <1>15 DEF Register, AddConnection
  <2> QED BY <1>15, <2>1, <2>2, <2>3 DEF Register, AddConnection
<1>16. ASSUME NEW fd \in Fds, Receive(fd)
      PROVE  TypeOK'
  <2>1. inbox' \in [Fds -> Seq(Message)]
    BY <1>16, InboxType DEF Receive
  <2>2. listener' \in [Fds -> ListenerPc]
    BY <1>16, GotoType DEF Receive, ListenerPc
  <2>3. queue' \in Seq(Message)
    <3>1. Head(inbox[fd]) \in Message
      BY <1>16, InboxType DEF Receive
    <3>2. CASE UNCHANGED queue
      BY <3>2
    <3>3. CASE Enqueue(Head(inbox[fd]))
      BY <3>1, <3>3 DEF Enqueue
    <3> QED BY <1>16, <3>2, <3>3 DEF Receive
  <2> QED BY <1>16, <2>1, <2>2, <2>3 DEF Receive
<1>17. ASSUME NEW fd \in Fds, ReceivePartial(fd)
      PROVE  TypeOK'
  <2>1. inbox' \in [Fds -> Seq(Message)]
    BY <1>17, InboxType DEF ReceivePartial
  <2>2. listener' \in [Fds -> ListenerPc]
    BY <1>17, GotoType DEF ReceivePartial, ListenerPc
  <2> QED BY <1>17, <2>1, <2>2 DEF ReceivePartial
<1>18. ASSUME NEW fd \in Fds, Leave(fd)
      PROVE  TypeOK'
  <2>1. listener' \in [Fds -> ListenerPc]
    BY <1>18, GotoType DEF Leave, RemoveConnection, ListenerPc
  <2>2. sockfds' \in [Known -> Seq(Fds)]
    <3>1. clientId[fd] \in Known
      BY <1>18 DEF Leave, RemoveConnection, ClientsAreKnown, Identified
    <3>2. RemoveFirst(sockfds[clientId[fd]], fd) \in Seq(Fds)
      BY <3>1, RemoveFirstProperties DEF SocketsAreLive
    <3> QED BY <1>18, <3>1, <3>2 DEF Leave, RemoveConnection
  <2> QED BY <1>18, <2>1, <2>2 DEF Leave, RemoveConnection
<1>19. ASSUME NEW fd \in Fds, Close(fd)
      PROVE  TypeOK'
  <2>1. listener' \in [Fds -> ListenerPc]
    BY <1>19, GotoType DEF Close, ListenerPc
  <2>2. /\ clientId' \in [Fds -> Nat] /\ cursor' \in [Fds -> Nat]
        /\ inbox' \in [Fds -> Seq(Message)] /\ peer' \in [Fds -> PeerState]
    BY <1>19 DEF Close, PeerState
  <2>3. /\ out' \in [Fds -> Seq(Nat)] /\ from' \in [Fds -> Nat]
        /\ upto' \in [Fds -> Nat] /\ since' \in [Fds -> Nat]
    BY <1>19 DEF Close
  <2> QED BY <1>19, <2>1, <2>2, <2>3 DEF Close
<1>20. ASSUME NEW fd \in Fds, SigPipe(fd)
      PROVE  TypeOK'
  BY <1>20 DEF SigPipe
<1>21. ASSUME NEW fd \in Fds, RecvHeaderFails(fd)
      PROVE  TypeOK'
  BY <1>21 DEF RecvHeaderFails
<1>22. ASSUME NEW fd \in Fds, NEW k \in SayKinds, PeerSay(fd, k)
      PROVE  TypeOK'
  <2>1. inbox' \in [Fds -> Seq(Message)]
    BY <1>22, SayType, PeerAssumption DEF PeerSay, Kind
  <2> QED BY <1>22, <2>1 DEF PeerSay
<1>23. ASSUME NEW fd \in Fds, PeerQuit(fd)
      PROVE  TypeOK'
  <2>1. peer' \in [Fds -> PeerState]
    BY <1>23, PeerGoesType DEF PeerQuit
  <2>2. inbox' \in [Fds -> Seq(Message)]
    BY <1>23, SayType DEF PeerQuit, Kind
  <2> QED BY <1>23, <2>1, <2>2 DEF PeerQuit
<1>24. ASSUME NEW fd \in Fds, PeerVanish(fd)
      PROVE  TypeOK'
  <2>1. peer' \in [Fds -> PeerState]
    BY <1>24, PeerGoesType DEF PeerVanish
  <2>2. inbox' \in [Fds -> Seq(Message)]
    <3>1. CASE UNCHANGED inbox
      BY <3>1
    <3>2. CASE inbox' = [inbox EXCEPT ![fd] = Append(@, Msg("PART", clientId[fd]))]
      BY <3>2, SayType DEF Kind
    <3> QED BY <1>24, <3>1, <3>2 DEF PeerVanish
  <2> QED BY <1>24, <2>1, <2>2 DEF PeerVanish
<1>25. ASSUME NEW fd \in Fds, PeerRead(fd)
      PROVE  TypeOK'
  <2>1. peer' \in [Fds -> PeerState]
    BY <1>25 DEF PeerRead, PeerState
  <2> QED BY <1>25, <2>1 DEF PeerRead
<1>26. CASE UNCHANGED vars
  BY <1>26 DEF vars
<1> QED
  BY <1>1, <1>2, <1>3, <1>4, <1>5, <1>6, <1>7, <1>8, <1>9, <1>10, <1>11,
     <1>12, <1>13, <1>14, <1>15, <1>16, <1>17, <1>18, <1>19, <1>20, <1>21,
     <1>22, <1>23, <1>24, <1>25, <1>26
     DEF Next, Sender, Listener, Peer

-----------------------------------------------------------------------------
(* Clients, sockets and nodes. *)

\* The variables the connections' identities and sockets are in change in the
\* listeners' actions alone.
LEMMA SocketFrame ==
  ASSUME \/ Sender
         \/ \E fd \in Fds : Peer(fd) \/ SigPipe(fd) \/ RecvHeaderFails(fd)
         \/ UNCHANGED vars
  PROVE  UNCHANGED <<sockfds, listener, clientId>>
<1> USE DEF shared, senderVars, listenerVars, netVars, bounds, history
<1>1. CASE Sender
  BY <1>1 DEF Sender, SenderDequeue, SenderAppend, SenderLock, SenderSkip,
              SenderSend, SenderMark, SenderUnlock
<1>2. CASE \E fd \in Fds : Peer(fd) \/ SigPipe(fd) \/ RecvHeaderFails(fd)
  BY <1>2 DEF Peer, PeerSay, PeerQuit, PeerVanish, PeerRead, SigPipe,
              RecvHeaderFails
<1>3. CASE UNCHANGED vars
  BY <1>3 DEF vars
<1> QED BY <1>1, <1>2, <1>3

\* A listener has looked its client up when it goes on.
LEMMA ClientsStep ==
  ASSUME TypeOK, ClientsAreKnown, [Next]_vars
  PROVE  ClientsAreKnown'
<1> USE DEF TypeOK, ClientsAreKnown, Identified, Greeted, Goto
<1>1. CASE UNCHANGED <<listener, clientId>>
  BY <1>1
<1>2. ASSUME NEW fd \in Fds, NEW hello \in Hello, Accept(fd, hello)
      PROVE  ClientsAreKnown'
  BY <1>2 DEF Accept
<1>3. ASSUME NEW fd \in Fds, Handshake(fd)
      PROVE  ClientsAreKnown'
  BY <1>3 DEF Handshake
<1>4. ASSUME NEW fd \in Fds, Refuse(fd) \/ Greet(fd) \/ Leave(fd) \/ Close(fd)
      PROVE  ClientsAreKnown'
  BY <1>4 DEF Refuse, Greet, Leave, RemoveConnection, Close
<1>5. ASSUME NEW fd \in Fds, ReplayBegin(fd) \/ ReplayStep(fd) \/ ReplayEnd(fd)
      PROVE  ClientsAreKnown'
  BY <1>5 DEF ReplayBegin, ReplayStep, ReplayEnd, Replaying
<1>6. ASSUME NEW fd \in Fds, Register(fd) \/ Receive(fd) \/ ReceivePartial(fd)
      PROVE  ClientsAreKnown'
  BY <1>6 DEF Register, AddConnection, Receive, ReceivePartial
<1> QED BY <1>1, <1>2, <1>3, <1>4, <1>5, <1>6, SocketFrame DEF Next, Listener

\* Where the lists do not change and no listener enters or leaves them, they
\* stay right.
LEMMA ListsStay ==
  ASSUME SocketsAreLive, UNCHANGED sockfds,
         \A fd \in Fds : Registered(fd)' <=> Registered(fd),
         \A fd \in Fds : Registered(fd) => clientId'[fd] = clientId[fd]
  PROVE  SocketsAreLive'
<1>1. ASSUME NEW i \in Known
      PROVE  Range(sockfds'[i])
               = {fd \in Fds : Registered(fd)' /\ clientId'[fd] = i}
  BY DEF SocketsAreLive
<1> QED BY <1>1 DEF SocketsAreLive

\* A step keeps the lists of sockets and the listeners together.
LEMMA SocketsStep ==
  ASSUME TypeOK, ClientsAreKnown, SocketsAreLive, [Next]_vars
  PROVE  SocketsAreLive'
<1> USE DEF TypeOK, Goto, Registered
<1>1. CASE UNCHANGED <<sockfds, listener, clientId>>
  BY <1>1, ListsStay
<1>2. ASSUME NEW fd \in Fds, NEW hello \in Hello, Accept(fd, hello)
      PROVE  SocketsAreLive'
  BY <1>2, ListsStay DEF Accept, shared
<1>3. ASSUME NEW fd \in Fds, Handshake(fd)
      PROVE  SocketsAreLive'
  BY <1>3, ListsStay DEF Handshake, shared
<1>4. ASSUME NEW fd \in Fds, Refuse(fd)
      PROVE  SocketsAreLive'
  BY <1>4, ListsStay DEF Refuse, shared
<1>5. ASSUME NEW fd \in Fds, Greet(fd)
      PROVE  SocketsAreLive'
  BY <1>5, ListsStay DEF Greet
<1>6. ASSUME NEW fd \in Fds, ReplayBegin(fd)
      PROVE  SocketsAreLive'
  BY <1>6, ListsStay DEF ReplayBegin, shared
<1>7. ASSUME NEW fd \in Fds, ReplayStep(fd)
      PROVE  SocketsAreLive'
  BY <1>7, ListsStay DEF ReplayStep, Replaying, shared
<1>8. ASSUME NEW fd \in Fds, ReplayEnd(fd)
      PROVE  SocketsAreLive'
  BY <1>8, ListsStay DEF ReplayEnd
<1>9. ASSUME NEW fd \in Fds, Register(fd)
      PROVE  SocketsAreLive'
  <2> DEFINE c == clientId[fd]
             old == sockfds[c]
             new == Append(old, fd)
  <2>1. c \in Known /\ old \in Seq(Fds)
    BY <1>9 DEF Register, AddConnection, ClientsAreKnown, Identified, Greeted
  <2>2. /\ sockfds' = [sockfds EXCEPT ![c] = new]
        /\ listener' = [listener EXCEPT ![fd] = "recv"]
        /\ UNCHANGED clientId /\ listener[fd] = "register"
    BY <1>9 DEF Register, AddConnection
  <2>3. Range(new) = Range(old) \cup {fd} /\ IsInjective(new)
    <3>1. fd \notin Range(old) /\ IsInjective(old)
      BY <2>1, <2>2 DEF SocketsAreLive
    <3>2. ASSUME NEW s \in Seq(Fds), NEW f \in Fds, f \notin Range(s), IsInjective(s)
          PROVE  Range(Append(s, f)) = Range(s) \cup {f} /\ IsInjective(Append(s, f))
      BY <3>2, AppendNew
    <3> HIDE DEF old
    <3> QED BY <2>1, <3>1, <3>2
  <2>4. sockfds'[c] = new /\ \A i \in Known \ {c} : sockfds'[i] = sockfds[i]
    BY <2>1, <2>2
  <2> HIDE DEF new
  <2>5. ASSUME NEW i \in Known
        PROVE  /\ Range(sockfds'[i])
                    = {g \in Fds : Registered(g)' /\ clientId'[g] = i}
               /\ IsInjective(sockfds'[i])
    BY <2>2, <2>3, <2>4, SMTT(40) DEF SocketsAreLive
  <2> QED BY <2>5 DEF SocketsAreLive
<1>10. ASSUME NEW fd \in Fds, Receive(fd) \/ ReceivePartial(fd)
       PROVE  SocketsAreLive'
  BY <1>10, ListsStay DEF Receive, ReceivePartial, shared
<1>11. ASSUME NEW fd \in Fds, Leave(fd)
       PROVE  SocketsAreLive'
  <2> DEFINE c == clientId[fd]
             old == sockfds[c]
             new == RemoveFirst(old, fd)
  <2>1. c \in Known /\ old \in Seq(Fds)
    BY <1>11 DEF Leave, RemoveConnection, ClientsAreKnown, Identified, Greeted
  <2>2. /\ sockfds' = [sockfds EXCEPT ![c] = new]
        /\ listener' = [listener EXCEPT ![fd] = "close"]
        /\ UNCHANGED clientId /\ listener[fd] = "leave"
    BY <1>11 DEF Leave, RemoveConnection
  <2>3. Range(new) = Range(old) \ {fd} /\ IsInjective(new)
    BY <2>1, RemoveFirstProperties DEF SocketsAreLive
  <2>4. sockfds'[c] = new /\ \A i \in Known \ {c} : sockfds'[i] = sockfds[i]
    BY <2>1, <2>2
  <2> HIDE DEF new
  <2>5. ASSUME NEW i \in Known
        PROVE  /\ Range(sockfds'[i])
                    = {g \in Fds : Registered(g)' /\ clientId'[g] = i}
               /\ IsInjective(sockfds'[i])
    BY <2>2, <2>3, <2>4, SMTT(40) DEF SocketsAreLive
  <2> QED BY <2>5 DEF SocketsAreLive
<1>12. ASSUME NEW fd \in Fds, Close(fd)
       PROVE  SocketsAreLive'
  BY <1>12, ListsStay DEF Close, shared
<1> QED
  BY <1>1, <1>2, <1>3, <1>4, <1>5, <1>6, <1>7, <1>8, <1>9, <1>10, <1>11, <1>12,
     SocketFrame DEF Next, Listener

\* A replay starts in the log.
LEMMA ReplayStartLogged ==
  ASSUME TypeOK, ClientsAreKnown, NodesAreLogged, NEW fd \in Fds,
         listener[fd] = "catchup"
  PROVE  ReplayStart(clientId[fd]) \in 0..Len(log)
<1>1. clientId[fd] \in Known
  BY DEF ClientsAreKnown, Identified, Greeted
<1>2. lastRead[clientId[fd]] \in 0..Len(log)
  BY <1>1 DEF TypeOK, NodesAreLogged
<1>3. log # <<>> => 1 \in 0..Len(log)
  BY DEF TypeOK
<1>4. 0 \in 0..Len(log)
  BY DEF TypeOK
<1> QED BY <1>2, <1>3, <1>4 DEF ReplayStart

\* Nodes, positions and the sender's place change in few actions.
LEMMA NodeFrame ==
  ASSUME \/ SenderSkip \/ SenderSend
         \/ \E fd \in Fds :
              \/ \E hello \in Hello : Accept(fd, hello)
              \/ Handshake(fd) \/ Refuse(fd) \/ Greet(fd) \/ Register(fd)
              \/ Receive(fd) \/ ReceivePartial(fd) \/ Leave(fd)
              \/ Peer(fd) \/ SigPipe(fd) \/ RecvHeaderFails(fd)
         \/ UNCHANGED vars
  PROVE  UNCHANGED <<log, lastRead, senderPc, lastNode, cursor>>
<1> USE DEF shared, senderVars, listenerVars, netVars, bounds, history
<1>1. CASE SenderSkip \/ SenderSend
  BY <1>1 DEF SenderSkip, SenderSend
<1>2. CASE \E fd \in Fds : \E hello \in Hello : Accept(fd, hello)
  BY <1>2 DEF Accept
<1>3. CASE \E fd \in Fds :
             \/ Handshake(fd) \/ Refuse(fd) \/ Greet(fd) \/ Register(fd)
             \/ Receive(fd) \/ ReceivePartial(fd) \/ Leave(fd)
  BY <1>3 DEF Handshake, Refuse, Greet, Register, AddConnection, Receive,
              ReceivePartial, Leave, RemoveConnection
<1>4. CASE \E fd \in Fds : Peer(fd) \/ SigPipe(fd) \/ RecvHeaderFails(fd)
  BY <1>4 DEF Peer, PeerSay, PeerQuit, PeerVanish, PeerRead, SigPipe, RecvHeaderFails
<1>5. CASE UNCHANGED vars
  BY <1>5 DEF vars
<1> QED BY <1>1, <1>2, <1>3, <1>4, <1>5

\* A step leaves last_read where it is or moves it to the tail of the log, and
\* keeps the nodes that are held in the log.
LEMMA NodesStep ==
  ASSUME TypeOK, ClientsAreKnown, NodesAreLogged, [Next]_vars
  PROVE  /\ NodesAreLogged'
         /\ \A i \in Known : lastRead'[i] >= lastRead[i]
<1> DEFINE Goal == NodesAreLogged' /\ \A i \in Known : lastRead'[i] >= lastRead[i]
<1> USE DEF TypeOK, NodesAreLogged
<1>1. CASE UNCHANGED <<log, lastRead, senderPc, lastNode, cursor>>
  BY <1>1
<1>2. CASE SenderDequeue
  BY <1>2 DEF SenderDequeue, listenerVars
<1>3. CASE SenderAppend
  <2>1. /\ Len(log') = Len(log) + 1 /\ lastNode' = Len(log')
        /\ UNCHANGED <<lastRead, cursor>>
    BY <1>3 DEF SenderAppend, listenerVars
  <2> QED BY <2>1
<1>4. CASE SenderLock
  BY <1>4 DEF SenderLock, shared, listenerVars
<1>5. CASE SenderMark
  <2>1. /\ lastRead' = [lastRead EXCEPT ![Visited] = Len(log)]
        /\ UNCHANGED <<log, senderPc, lastNode, cursor>>
    BY <1>5 DEF SenderMark, AtClient, listenerVars
  <2>2. \A i \in Known : lastRead'[i] \in {lastRead[i], Len(log)}
    BY <2>1
  <2> QED BY <2>1, <2>2
<1>6. CASE SenderUnlock
  BY <1>6 DEF SenderUnlock, shared, listenerVars
<1>7. ASSUME NEW fd \in Fds, ReplayBegin(fd)
      PROVE  Goal
  <2>1. ReplayStart(clientId[fd]) \in 0..Len(log)
    BY <1>7, ReplayStartLogged DEF ReplayBegin
  <2> QED BY <1>7, <2>1 DEF ReplayBegin, shared, senderVars
<1>8. ASSUME NEW fd \in Fds, ReplayStep(fd)
      PROVE  Goal
  <2>1. /\ UNCHANGED <<log, lastRead, senderPc, lastNode>>
        /\ \/ cursor' = [cursor EXCEPT ![fd] = IF @ = Len(log) THEN 0 ELSE @ + 1]
           \/ UNCHANGED cursor
    BY <1>8 DEF ReplayStep, shared, senderVars
  <2>2. cursor[fd] \in 0..Len(log) /\ Len(log) \in Nat
    OBVIOUS
  <2>3. \A g \in Fds : cursor'[g] <= Len(log)
    <3>1. CASE cursor' = [cursor EXCEPT ![fd] = IF @ = Len(log) THEN 0 ELSE @ + 1]
      <4>1. /\ cursor'[fd] = IF cursor[fd] = Len(log) THEN 0 ELSE cursor[fd] + 1
            /\ \A g \in Fds \ {fd} : cursor'[g] = cursor[g]
        BY <3>1
      <4>2. cursor'[fd] <= Len(log)
        BY <2>2, <4>1
      <4> QED BY <4>1, <4>2
    <3>2. CASE UNCHANGED cursor
      BY <3>2
    <3> QED BY <2>1, <3>1, <3>2
  <2>4. \A i \in Known : lastRead[i] >= lastRead[i]
    OBVIOUS
  <2> QED BY <2>1, <2>3, <2>4
<1>9. ASSUME NEW fd \in Fds, ReplayEnd(fd)
      PROVE  Goal
  <2>1. /\ lastRead' = [lastRead EXCEPT ![clientId[fd]] = Len(log)]
        /\ UNCHANGED <<log, senderPc, lastNode, cursor>>
    BY <1>9 DEF ReplayEnd, senderVars
  <2>2. \A i \in Known : lastRead'[i] \in {lastRead[i], Len(log)}
    BY <2>1
  <2> QED BY <2>1, <2>2
<1>10. ASSUME NEW fd \in Fds, Close(fd)
       PROVE  Goal
  BY <1>10 DEF Close, shared, senderVars
<1> QED
  BY <1>1, <1>2, <1>3, <1>4, <1>5, <1>6, <1>7, <1>8, <1>9, <1>10, NodeFrame
     DEF Next, Sender, Listener

-----------------------------------------------------------------------------
(* What the connections are sent. *)

\* A send adds its position to one connection, or nothing.
LEMMA SendAdds ==
  ASSUME TypeOK, NEW fd \in Fds, NEW p \in Nat, Sent(fd, p) \/ SendFailed(fd)
  PROVE  /\ \A g \in Fds \ {fd} : out'[g] = out[g]
         /\ out'[fd] = out[fd] \/ out'[fd] = Append(out[fd], p)
BY DEF TypeOK, Sent, SendFailed

\* A send of a position no smaller than what went before keeps the order.
LEMMA SendInOrder ==
  ASSUME TypeOK, SentInLogOrder, NEW fd \in Fds, NEW p \in Nat,
         Sent(fd, p) \/ SendFailed(fd),
         \A k \in 1..Len(out[fd]) : out[fd][k] <= p
  PROVE  /\ SentInLogOrder'
         /\ \A g \in Fds \ {fd} : out'[g] = out[g]
         /\ \A k \in 1..Len(out'[fd]) : out'[fd][k] <= p /\ out'[fd][k] \in Nat
<1>1. out[fd] \in Seq(Nat)
  BY DEF TypeOK
<1>2. /\ \A j, k \in 1..Len(out'[fd]) : j < k => out'[fd][j] <= out'[fd][k]
      /\ \A k \in 1..Len(out'[fd]) : out'[fd][k] <= p /\ out'[fd][k] \in Nat
  <2>1. CASE out'[fd] = out[fd]
    BY <1>1, <2>1 DEF SentInLogOrder
  <2>2. CASE out'[fd] = Append(out[fd], p)
    BY <1>1, <2>2 DEF SentInLogOrder
  <2> QED BY <2>1, <2>2, SendAdds
<1> QED BY <1>2, SendAdds DEF SentInLogOrder

\* Before its replay and with what was just sent, a connection holds zeros.
Unserved(fd) == listener[fd] \in {"none", "handshake", "refuse", "greet", "catchup"}

\* Where nothing is sent, a replay stays ahead as long as listeners move on.
LEMMA NothingSent ==
  ASSUME TypeOK, ReplayIsAhead, SentInLogOrder, UNCHANGED out,
         Len(log') >= Len(log), Len(log') \in Nat,
         \A fd \in Fds : Unserved(fd)' => Unserved(fd),
         \A fd \in Fds : Replaying(fd)' =>
           cursor'[fd] \in Nat /\ (Unserved(fd) \/ (Replaying(fd) /\ cursor'[fd] >= cursor[fd]))
  PROVE  ReplayIsAhead' /\ SentInLogOrder'
<1>1. SentInLogOrder'
  BY DEF SentInLogOrder
<1>2. ASSUME NEW fd \in Fds, NEW k \in 1..Len(out[fd])
      PROVE  /\ out[fd][k] <= Len(log')
             /\ Unserved(fd)' => out[fd][k] = 0
             /\ Replaying(fd)' => out[fd][k] <= cursor'[fd]
  <2>1. out[fd][k] \in Nat /\ Len(log) \in Nat /\ cursor[fd] \in Nat
    BY DEF TypeOK
  <2>2. /\ out[fd][k] <= Len(log)
        /\ Unserved(fd) => out[fd][k] = 0
        /\ Replaying(fd) => out[fd][k] <= cursor[fd]
    BY DEF ReplayIsAhead, Unserved
  <2> QED BY <2>1, <2>2
<1> QED BY <1>1, <1>2 DEF ReplayIsAhead, Unserved

\* The variables that say what was sent change where messages are sent or
\* logged and where listeners move.
LEMMA SendFrame ==
  ASSUME \/ SenderDequeue \/ SenderLock \/ SenderSkip \/ SenderMark \/ SenderUnlock
         \/ \E fd \in Fds : Peer(fd) \/ SigPipe(fd) \/ RecvHeaderFails(fd)
         \/ UNCHANGED vars
  PROVE  UNCHANGED <<out, log, listener, cursor>>
<1> USE DEF shared, senderVars, listenerVars, netVars, bounds, history
<1>1. CASE SenderDequeue \/ SenderLock \/ SenderSkip \/ SenderMark \/ SenderUnlock
  BY <1>1 DEF SenderDequeue, SenderLock, SenderSkip, SenderMark, SenderUnlock
<1>2. CASE \E fd \in Fds : Peer(fd) \/ SigPipe(fd) \/ RecvHeaderFails(fd)
  BY <1>2 DEF Peer, PeerSay, PeerQuit, PeerVanish, PeerRead, SigPipe, RecvHeaderFails
<1>3. CASE UNCHANGED vars
  BY <1>3 DEF vars
<1> QED BY <1>1, <1>2, <1>3

\* Every connection is sent positions of the log in their order: a replay is
\* ahead of what it sent, a walk writes the tail of the log, and to registered
\* connections alone.
LEMMA SendStep ==
  ASSUME Inductive, [Next]_vars
  PROVE  ReplayIsAhead' /\ SentInLogOrder'
<1> DEFINE Goal == ReplayIsAhead' /\ SentInLogOrder'
<1> USE DEF Inductive, Goto, Unserved, Replaying
<1>0. /\ Len(log) \in Nat /\ cursor \in [Fds -> Nat] /\ lastNode \in Nat
      /\ listener \in [Fds -> ListenerPc]
  BY DEF TypeOK
<1>1. CASE UNCHANGED <<out, log, listener, cursor>>
  BY <1>0, <1>1, NothingSent
<1>2. CASE SenderAppend
  <2>1. Len(log') = Len(log) + 1 /\ UNCHANGED <<out, listener, cursor>>
    BY <1>2 DEF SenderAppend, listenerVars, netVars, TypeOK
  <2> QED BY <1>0, <2>1, NothingSent
<1>3. CASE SenderSend
  <2> DEFINE fd == sockfds[Visited][nAt]
  <2>1. /\ Sent(fd, lastNode) \/ SendFailed(fd)
        /\ lastNode = Len(log) /\ UNCHANGED <<log, listener, cursor>>
    BY <1>3 DEF SenderSend, AtConnection, AtClient, NodesAreLogged, shared, listenerVars
  <2>2. fd \in Fds /\ Registered(fd)
    <3>1. AtClient /\ AtConnection /\ Visited \in Known /\ fd \in Fds
      BY <1>3, ConnectionType DEF SenderSend, AtConnection
    <3>2. fd \in Range(sockfds[Visited])
      <4>1. nAt \in 1..Len(sockfds[Visited]) /\ sockfds[Visited] \in Seq(Fds)
        BY <3>1 DEF AtConnection, TypeOK
      <4> QED BY <4>1 DEF Range
    <3> QED BY <3>1, <3>2 DEF SocketsAreLive
  <2> HIDE DEF fd
  <2>3. \A k \in 1..Len(out[fd]) : out[fd][k] <= lastNode
    BY <2>1, <2>2 DEF ReplayIsAhead
  <2>4. /\ SentInLogOrder'
        /\ \A g \in Fds \ {fd} : out'[g] = out[g]
        /\ \A k \in 1..Len(out'[fd]) : out'[fd][k] <= lastNode
    BY <1>0, <2>1, <2>2, <2>3, SendInOrder
  <2>5. ASSUME NEW g \in Fds, NEW k \in 1..Len(out'[g])
        PROVE  /\ out'[g][k] <= Len(log')
               /\ Unserved(g)' => out'[g][k] = 0
               /\ Replaying(g)' => out'[g][k] <= cursor'[g]
    <3>1. CASE g = fd
      BY <2>1, <2>2, <2>4, <3>1 DEF Registered
    <3>2. CASE g # fd
      BY <2>1, <2>4, <3>2 DEF ReplayIsAhead
    <3> QED BY <3>1, <3>2
  <2> QED BY <2>4, <2>5 DEF ReplayIsAhead
<1>4. ASSUME NEW fd \in Fds, NEW hello \in Hello, Accept(fd, hello)
      PROVE  Goal
  BY <1>0, <1>4, NothingSent DEF Accept, shared
<1>5. ASSUME NEW fd \in Fds, Handshake(fd)
      PROVE  Goal
  BY <1>0, <1>5, NothingSent DEF Handshake, shared
<1>6. ASSUME NEW fd \in Fds, Refuse(fd) \/ Greet(fd)
      PROVE  Goal
  <2>1. /\ Sent(fd, 0) \/ SendFailed(fd)
        /\ listener[fd] \in {"refuse", "greet"} /\ UNCHANGED <<log, cursor>>
        /\ \A g \in Fds \ {fd} : listener'[g] = listener[g]
        /\ listener'[fd] \in {"close", "catchup"}
    BY <1>0, <1>6 DEF Refuse, Greet, shared
  <2>2. \A k \in 1..Len(out[fd]) : out[fd][k] <= 0
    BY <2>1 DEF ReplayIsAhead
  <2>3. /\ SentInLogOrder'
        /\ \A g \in Fds \ {fd} : out'[g] = out[g]
        /\ \A k \in 1..Len(out'[fd]) : out'[fd][k] <= 0 /\ out'[fd][k] \in Nat
    BY <2>1, <2>2, SendInOrder
  <2>4. ASSUME NEW g \in Fds, NEW k \in 1..Len(out'[g])
        PROVE  /\ out'[g][k] <= Len(log')
               /\ Unserved(g)' => out'[g][k] = 0
               /\ Replaying(g)' => out'[g][k] <= cursor'[g]
    <3>1. CASE g = fd
      BY <1>0, <2>1, <2>3, <3>1
    <3>2. CASE g # fd
      BY <2>1, <2>3, <3>2 DEF ReplayIsAhead
    <3> QED BY <3>1, <3>2
  <2> QED BY <2>3, <2>4 DEF ReplayIsAhead
<1>7. ASSUME NEW fd \in Fds, ReplayBegin(fd)
      PROVE  Goal
  <2>1. ReplayStart(clientId[fd]) \in Nat
    BY <1>7, ReplayStartType DEF ReplayBegin
  <2>2. /\ UNCHANGED <<out, log>> /\ listener[fd] = "catchup"
        /\ listener' = [listener EXCEPT ![fd] = "replay"]
        /\ cursor' = [cursor EXCEPT ![fd] = ReplayStart(clientId[fd])]
    BY <1>7 DEF ReplayBegin, shared, netVars
  <2> QED BY <1>0, <2>1, <2>2, NothingSent
<1>8. ASSUME NEW fd \in Fds, ReplayStep(fd)
      PROVE  Goal
  <2>1. listener[fd] = "replay" /\ cursor[fd] # 0 /\ UNCHANGED log
    BY <1>8 DEF ReplayStep, shared
  <2>2. \A k \in 1..Len(out[fd]) : out[fd][k] <= cursor[fd]
    BY <2>1 DEF ReplayIsAhead
  <2>3. /\ SentInLogOrder'
        /\ \A g \in Fds \ {fd} : out'[g] = out[g]
        /\ \A k \in 1..Len(out'[fd]) : out'[fd][k] <= cursor[fd] /\ out'[fd][k] \in Nat
    <3>1. CASE Sent(fd, cursor[fd]) \/ SendFailed(fd)
      BY <1>0, <2>2, <3>1, SendInOrder
    <3>2. CASE UNCHANGED out
      BY <2>2, <3>2, SMTT(40) DEF SentInLogOrder, TypeOK
    <3> QED BY <1>8, <3>1, <3>2 DEF ReplayStep
  <2>4. /\ \A g \in Fds \ {fd} : listener'[g] = listener[g] /\ cursor'[g] = cursor[g]
        /\ \/ /\ listener'[fd] = "replay"
              /\ cursor'[fd] \in {0, cursor[fd] + 1}
           \/ listener'[fd] = "register"
    BY <1>0, <1>8 DEF ReplayStep
  <2>5. cursor[fd] \in 0..Len(log)
    BY <1>0 DEF NodesAreLogged
  <2>6. ASSUME NEW g \in Fds, NEW k \in 1..Len(out'[g])
        PROVE  /\ out'[g][k] <= Len(log')
               /\ Unserved(g)' => out'[g][k] = 0
               /\ Replaying(g)' => out'[g][k] <= cursor'[g]
    <3>1. CASE g = fd
      BY <1>0, <2>1, <2>3, <2>4, <2>5, <3>1
    <3>2. CASE g # fd
      BY <2>1, <2>3, <2>4, <3>2 DEF ReplayIsAhead
    <3> QED BY <3>1, <3>2
  <2> QED BY <2>3, <2>6 DEF ReplayIsAhead
<1>9. ASSUME NEW fd \in Fds, ReplayEnd(fd) \/ Register(fd)
      PROVE  Goal
  BY <1>0, <1>9, NothingSent DEF ReplayEnd, Register, AddConnection, netVars
<1>10. ASSUME NEW fd \in Fds, Receive(fd) \/ ReceivePartial(fd) \/ Leave(fd)
       PROVE  Goal
  BY <1>0, <1>10, NothingSent
     DEF Receive, ReceivePartial, Leave, RemoveConnection, shared, netVars
<1>11. ASSUME NEW fd \in Fds, Close(fd)
       PROVE  Goal
  <2>1. /\ out' = [out EXCEPT ![fd] = <<>>] /\ UNCHANGED log
        /\ \A g \in Fds \ {fd} : listener'[g] = listener[g] /\ cursor'[g] = cursor[g]
    BY <1>0, <1>11 DEF Close, shared
  <2>2. out'[fd] = <<>> /\ \A g \in Fds \ {fd} : out'[g] = out[g]
    BY <2>1 DEF TypeOK
  <2>3. SentInLogOrder'
    BY <2>2 DEF SentInLogOrder
  <2>4. ReplayIsAhead'
    BY <2>1, <2>2 DEF ReplayIsAhead
  <2> QED BY <2>3, <2>4
<1> QED
  BY <1>1, <1>2, <1>3, <1>4, <1>5, <1>6, <1>7, <1>8, <1>9, <1>10, <1>11, SendFrame
     DEF Next, Sender, Listener

-----------------------------------------------------------------------------
(* The theorems. *)

\* The initial states satisfy the inductive invariant.
LEMMA InitInductive == Init => Inductive
<1> SUFFICES ASSUME Init PROVE Inductive
  OBVIOUS
<1>1. TypeOK
  <2>1. NoMsg \in Message
    BY MsgType DEF NoMsg, Kind
  <2> QED BY <2>1 DEF Init, TypeOK, ListenerPc, PeerState
<1>2. SocketsAreLive
  BY DEF Init, SocketsAreLive, Registered, Range, IsInjective
<1>3. ClientsAreKnown
  BY DEF Init, ClientsAreKnown, Identified, Greeted
<1>4. NodesAreLogged
  BY DEF Init, NodesAreLogged
<1>5. ReplayIsAhead /\ SentInLogOrder
  BY DEF Init, ReplayIsAhead, SentInLogOrder
<1> QED BY <1>1, <1>2, <1>3, <1>4, <1>5 DEF Inductive

\* Every step preserves it.
LEMMA NextInductive == Inductive /\ [Next]_vars => Inductive'
BY TypeStep, ClientsStep, SocketsStep, NodesStep, SendStep DEF Inductive

\* It holds in every behaviour of the server, for every table of clients and
\* any number of descriptors, connections and messages.
THEOREM InductiveInvariance == Spec => []Inductive
BY InitInductive, NextInductive, PTL DEF Spec

\* The variables keep their types.
THEOREM TypeCorrectness == Spec => []TypeOK
<1>1. Inductive => TypeOK
  BY DEF Inductive
<1> QED BY InductiveInvariance, <1>1, PTL

\* The lists of sockets that the sender walks through hold exactly the
\* descriptors of the connections that are registered.
THEOREM SocketsTheorem == Spec => []SocketsAreLive
<1>1. Inductive => SocketsAreLive
  BY DEF Inductive
<1> QED BY InductiveInvariance, <1>1, PTL

\* No connection is sent a message after a later one.
THEOREM OrderTheorem == Spec => []SentInLogOrder
<1>1. Inductive => SentInLogOrder
  BY DEF Inductive
<1> QED BY InductiveInvariance, <1>1, PTL

\* last_read never goes back, whichever thread writes it.
THEOREM AdvanceTheorem == Spec => LastReadAdvances
<1>1. Inductive /\ [Next]_vars => [\A i \in Known : lastRead'[i] >= lastRead[i]]_vars
  BY NodesStep DEF Inductive
<1> QED BY InductiveInvariance, <1>1, PTL DEF Spec, LastReadAdvances

-----------------------------------------------------------------------------
(* Deliveries: the inductive invariant above Inductive. *)

\* The walk is for the message that was logged last.
SenderHoldsTail ==
  senderPc \in {"lock", "walk"} => log # <<>> /\ log[Len(log)] = senderMsg

\* A connection before its greeting, and one that is not yet registered.
Unheard(fd) == listener[fd] \in {"none", "handshake", "refuse", "greet"}
Catching(fd) == listener[fd] \in {"catchup", "replay", "register"}

\* Of the positions a..b, a peer that is present was sent what is not its own.
Covered(fd, a, b) ==
  Present(fd) => \A p \in 1..Len(log) :
    a <= p /\ p <= b /\ log[p].id # clientId[fd] => WasSent(p, fd)

\* A replay sends each message of its part of the log, and each of them once.
ReplayIsWhole(fd) ==
  /\ Unheard(fd) => out[fd] = <<>>
  /\ Catching(fd) => IsInjective(out[fd])
  /\ Replaying(fd) =>
       /\ \A k \in 1..Len(out[fd]) : out[fd][k] < cursor[fd]
       /\ Covered(fd, from[fd], cursor[fd] - 1)
  /\ listener[fd] = "replay" /\ cursor[fd] = 0 => Covered(fd, from[fd], Len(log))
  /\ listener[fd] = "register" => \A k \in 1..Len(out[fd]) : out[fd][k] <= upto[fd]
  /\ listener[fd] = "register" \/ Registered(fd) =>
       upto[fd] <= Len(log) /\ Covered(fd, from[fd], upto[fd])

ReplaysAreWhole == \A fd \in Fds : ReplayIsWhole(fd)

\* The walks have sent what was logged since the registration, and the last
\* message is new to a connection that its walk has not come to -- or was the
\* last of the connection's replay.
WalkIsWhole(fd) ==
  Registered(fd) =>
    /\ upto[fd] <= since[fd] /\ since[fd] <= Len(log)
    /\ Present(fd) => \A p \in 1..Len(log) :
         p > since[fd] /\ Owed(p, fd) => WasSent(p, fd)
    /\ ~Walked(Len(log), fd) =>
         \A k \in 1..Len(out[fd]) : out[fd][k] < Len(log) \/ out[fd][k] <= upto[fd]

WalksAreWhole == \A fd \in Fds : WalkIsWhole(fd)

Delivery ==
  /\ SenderHoldsTail /\ ReplaysAreWhole /\ WalksAreWhole /\ TwiceOnlyAtTheSeam

-----------------------------------------------------------------------------
(* What a step leaves alone. *)

\* The variables of a connection that its replay is about.
Kept(fd) ==
  /\ listener'[fd] = listener[fd] /\ clientId'[fd] = clientId[fd]
  /\ cursor'[fd] = cursor[fd] /\ out'[fd] = out[fd]
  /\ from'[fd] = from[fd] /\ upto'[fd] = upto[fd] /\ since'[fd] = since[fd]
  /\ Present(fd)' => Present(fd)

\* A send disturbs no other connection, and brings no peer back.
LEMMA SendKeeps ==
  ASSUME TypeOK, NEW fd \in Fds, NEW p \in Nat, Sent(fd, p) \/ SendFailed(fd)
  PROVE  /\ \A g \in Fds \ {fd} : out'[g] = out[g] /\ peer'[g] = peer[g]
         /\ Present(fd)' => Present(fd) /\ out'[fd] = Append(out[fd], p)
         /\ out'[fd] = out[fd] \/ out'[fd] = Append(out[fd], p)
<1>1. CASE Sent(fd, p) /\ peer[fd] = "open"
  <2>1. out' = [out EXCEPT ![fd] = Append(@, p)] /\ Present(fd)
    BY <1>1 DEF Sent, Present
  <2>2. PICK s \in {"open", "stalled"} : peer' = [peer EXCEPT ![fd] = s]
    BY <1>1 DEF Sent
  <2> QED BY <2>1, <2>2 DEF TypeOK
<1>2. CASE Sent(fd, p) /\ peer[fd] = "closed"
  <2>1. PICK s \in {"closed", "reset"} : peer' = [peer EXCEPT ![fd] = s]
    BY <1>2 DEF Sent
  <2>2. out' = out
    BY <1>2 DEF Sent
  <2> QED BY <2>1, <2>2 DEF TypeOK, Present
<1>3. CASE SendFailed(fd)
  BY <1>3 DEF SendFailed, Present
<1> QED BY <1>1, <1>2, <1>3 DEF Sent

\* What a peer does disturbs no connection.
LEMMA PeerKeeps ==
  ASSUME TypeOK, NEW fd \in Fds, Peer(fd)
  PROVE  /\ \A g \in Fds : Kept(g)
         /\ UNCHANGED <<log, senderVars, sockfds>>
<1> USE DEF Kept, Present, listenerVars, netVars, history, shared
<1>1. ASSUME NEW k \in SayKinds, PeerSay(fd, k)
      PROVE  UNCHANGED <<listenerVars, out, history, log, senderVars, sockfds>> /\ peer' = peer
  BY <1>1 DEF PeerSay
<1>2. ASSUME PeerQuit(fd) \/ PeerVanish(fd)
      PROVE  /\ UNCHANGED <<listenerVars, out, history, log, senderVars, sockfds>>
             /\ \A g \in Fds : Present(g)' => Present(g)
  <2>1. PICK s \in {"closed", "reset"} : peer' = [peer EXCEPT ![fd] = s]
    BY <1>2 DEF PeerQuit, PeerVanish, PeerGoes
  <2>2. \A g \in Fds : Present(g)' => Present(g)
    BY <2>1 DEF TypeOK
  <2> QED BY <1>2, <2>2 DEF PeerQuit, PeerVanish
<1>3. ASSUME PeerRead(fd)
      PROVE  /\ UNCHANGED <<listenerVars, out, history, log, senderVars, sockfds>>
             /\ \A g \in Fds : Present(g)' => Present(g)
  BY <1>3 DEF PeerRead, TypeOK
<1> QED BY <1>1, <1>2, <1>3 DEF Peer

\* A listener, and the thread that accepts for it, disturb no other connection
\* and leave the sender and the log alone.
LEMMA ListenerKeeps ==
  ASSUME TypeOK, NEW fd \in Fds,
         Listener(fd) \/ \E hello \in Hello : Accept(fd, hello)
  PROVE  /\ \A g \in Fds \ {fd} : Kept(g)
         /\ UNCHANGED <<log, senderVars>>
<1> USE DEF Kept, Present, Goto, TypeOK, listenerVars, netVars, history, shared
<1>1. ASSUME NEW hello \in Hello, Accept(fd, hello)
      PROVE  (\A g \in Fds \ {fd} : Kept(g)) /\ UNCHANGED <<log, senderVars>>
  BY <1>1 DEF Accept
<1>2. CASE Handshake(fd)
  BY <1>2 DEF Handshake
<1>3. CASE Refuse(fd) \/ Greet(fd)
  <2>1. \A g \in Fds \ {fd} : out'[g] = out[g] /\ peer'[g] = peer[g]
    BY <1>3, SendKeeps DEF Refuse, Greet
  <2>2. /\ UNCHANGED <<clientId, cursor, history, log, senderVars>>
        /\ \A g \in Fds \ {fd} : listener'[g] = listener[g]
    BY <1>3 DEF Refuse, Greet
  <2> QED BY <2>1, <2>2
<1>4. CASE ReplayBegin(fd)
  BY <1>4 DEF ReplayBegin
<1>5. CASE ReplayStep(fd)
  <2>1. \A g \in Fds \ {fd} : out'[g] = out[g] /\ peer'[g] = peer[g]
    <3>1. CASE Sent(fd, cursor[fd]) \/ SendFailed(fd)
      BY <3>1, SendKeeps
    <3>2. CASE UNCHANGED <<peer, out>>
      BY <3>2
    <3> QED BY <1>5, <3>1, <3>2 DEF ReplayStep
  <2>2. /\ UNCHANGED <<clientId, from, since, log, senderVars>>
        /\ \A g \in Fds \ {fd} : /\ listener'[g] = listener[g] /\ upto'[g] = upto[g]
                                 /\ cursor'[g] = cursor[g]
    BY <1>5 DEF ReplayStep
  <2> QED BY <2>1, <2>2
<1>6. CASE ReplayEnd(fd)
  BY <1>6 DEF ReplayEnd
<1>7. CASE Register(fd)
  BY <1>7 DEF Register, AddConnection
<1>8. CASE Receive(fd) \/ ReceivePartial(fd)
  BY <1>8 DEF Receive, ReceivePartial
<1>9. CASE Leave(fd)
  BY <1>9 DEF Leave, RemoveConnection
<1>10. CASE Close(fd)
  BY <1>10 DEF Close
<1> QED
  BY <1>1, <1>2, <1>3, <1>4, <1>5, <1>6, <1>7, <1>8, <1>9, <1>10 DEF Listener

\* The sender between two sends disturbs no connection.
LEMMA SenderKeeps ==
  ASSUME \/ SenderDequeue \/ SenderAppend \/ SenderLock
         \/ SenderSkip \/ SenderMark \/ SenderUnlock
  PROVE  (\A g \in Fds : Kept(g)) /\ UNCHANGED sockfds
BY DEF SenderDequeue, SenderAppend, SenderLock, SenderSkip, SenderMark, SenderUnlock,
       Kept, Present, listenerVars, netVars, history, shared

\* Nor do the two ends of the process.
LEMMA EndKeeps ==
  ASSUME \/ \E fd \in Fds : SigPipe(fd) \/ RecvHeaderFails(fd)
         \/ UNCHANGED vars
  PROVE  (\A g \in Fds : Kept(g)) /\ UNCHANGED <<log, senderVars, sockfds>>
<1> USE DEF Kept, Present, listenerVars, netVars, history, shared, vars
<1>1. CASE \E fd \in Fds : SigPipe(fd) \/ RecvHeaderFails(fd)
  BY <1>1 DEF SigPipe, RecvHeaderFails
<1>2. CASE UNCHANGED vars
  BY <1>2
<1> QED BY <1>1, <1>2

-----------------------------------------------------------------------------
(* The replays. *)

\* What the sender holds while it walks is the tail of the log.
LEMMA HoldsTailStep ==
  ASSUME TypeOK, SenderHoldsTail, [Next]_vars
  PROVE  SenderHoldsTail'
<1> USE DEF SenderHoldsTail
<1>1. CASE UNCHANGED <<log, senderPc, senderMsg>>
  BY <1>1
<1>2. CASE SenderDequeue
  BY <1>2 DEF SenderDequeue
<1>3. CASE SenderAppend
  <2>1. log' = Append(log, senderMsg) /\ senderMsg' = senderMsg
    BY <1>3 DEF SenderAppend
  <2>2. log \in Seq(Message) /\ senderMsg \in Message
    BY DEF TypeOK
  <2>3. /\ Len(Append(log, senderMsg)) = Len(log) + 1 /\ Append(log, senderMsg) # <<>>
        /\ Append(log, senderMsg)[Len(log) + 1] = senderMsg
    BY <2>2, AppendKeeps
  <2> QED BY <2>1, <2>3
<1>4. CASE SenderLock
  BY <1>4 DEF SenderLock, shared
<1>5. CASE SenderSkip \/ SenderSend \/ SenderMark
  BY <1>5, <1>1 DEF SenderSkip, SenderSend, SenderMark, shared
<1>6. CASE SenderUnlock
  BY <1>6 DEF SenderUnlock
<1>7. CASE \E fd \in Fds : Listener(fd) \/ \E hello \in Hello : Accept(fd, hello)
  BY <1>7, <1>1, ListenerKeeps DEF senderVars
<1>8. CASE \E fd \in Fds : Peer(fd)
  BY <1>8, <1>1, PeerKeeps DEF senderVars
<1>9. CASE (\E fd \in Fds : SigPipe(fd) \/ RecvHeaderFails(fd)) \/ UNCHANGED vars
  BY <1>9, <1>1, EndKeeps DEF senderVars
<1> QED
  BY <1>2, <1>3, <1>4, <1>5, <1>6, <1>7, <1>8, <1>9 DEF Next, Sender

\* What was sent and logged stays so: a connection that nobody disturbs has its
\* part of the log, also while others are logged behind it.
LEMMA ReplayKept ==
  ASSUME TypeOK, NEW fd \in Fds, ReplayIsWhole(fd), Kept(fd),
         Len(log') \in Nat, Len(log) <= Len(log'),
         \A p \in 1..Len(log) : log'[p] = log[p],
         listener[fd] = "replay" => Len(log') = Len(log)
  PROVE  ReplayIsWhole(fd)'
<1> USE DEF ReplayIsWhole, Kept
<1>1. Len(log) \in Nat /\ cursor[fd] \in Nat /\ from[fd] \in Nat /\ upto[fd] \in Nat
  BY DEF TypeOK
<1>2. /\ listener'[fd] = listener[fd] /\ clientId'[fd] = clientId[fd]
      /\ cursor'[fd] = cursor[fd] /\ out'[fd] = out[fd]
      /\ from'[fd] = from[fd] /\ upto'[fd] = upto[fd]
  OBVIOUS
<1>3. /\ Unheard(fd)' <=> Unheard(fd)
      /\ Catching(fd)' <=> Catching(fd)
      /\ Replaying(fd)' <=> Replaying(fd)
  BY <1>2 DEF Unheard, Catching, Replaying
<1>4. ASSUME NEW a, NEW b, Covered(fd, a, b),
             listener[fd] = "replay" \/ (b \in Nat /\ b <= Len(log)),
             Present(fd)', NEW p \in 1..Len(log'), a <= p, p <= b, log'[p].id # clientId'[fd]
      PROVE  p \in Range(out'[fd])
  <2>1. p \in 1..Len(log) /\ Present(fd) /\ log[p].id # clientId[fd]
    <3>1. Len(log) \in Nat
      BY DEF TypeOK
    <3>2. p \in 1..Len(log)
      BY <1>4, <3>1
    <3> QED BY <1>2, <1>4, <3>2
  <2> QED BY <1>2, <1>4, <2>1 DEF Covered, WasSent
<1>5. Replaying(fd)' => Covered(fd, from[fd], cursor[fd] - 1)'
  <2> SUFFICES ASSUME Replaying(fd)
               PROVE  Covered(fd, from[fd], cursor[fd] - 1)'
    BY <1>3
  <2>1. listener[fd] = "replay" /\ Covered(fd, from[fd], cursor[fd] - 1)
    BY DEF Replaying
  <2> QED BY <1>2, <1>4, <2>1 DEF Covered, WasSent
<1>6. listener'[fd] = "replay" /\ cursor'[fd] = 0 => Covered(fd, from[fd], Len(log))'
  <2> SUFFICES ASSUME listener[fd] = "replay", cursor[fd] = 0
               PROVE  Covered(fd, from[fd], Len(log))'
    BY <1>2
  <2>1. Covered(fd, from[fd], Len(log)) /\ Len(log') = Len(log)
    OBVIOUS
  <2> QED BY <1>2, <1>4, <2>1 DEF Covered, WasSent
<1>7. listener'[fd] = "register" \/ Registered(fd)' =>
        upto'[fd] <= Len(log') /\ Covered(fd, from[fd], upto[fd])'
  <2> SUFFICES ASSUME listener[fd] = "register" \/ Registered(fd)
               PROVE  upto'[fd] <= Len(log') /\ Covered(fd, from[fd], upto[fd])'
    BY <1>2 DEF Registered
  <2>1. upto[fd] \in Nat /\ Len(log) \in Nat
    BY DEF TypeOK
  <2>2. upto[fd] <= Len(log) /\ Covered(fd, from[fd], upto[fd])
    OBVIOUS
  <2>3. upto'[fd] <= Len(log')
    BY <1>2, <2>1, <2>2
  <2> QED BY <1>2, <1>4, <2>1, <2>2, <2>3 DEF Covered, WasSent
<1> QED BY <1>2, <1>3, <1>5, <1>6, <1>7

\* A replay that begins has everything before it; what its connection was sent
\* is the reply.
LEMMA ReplayBegins ==
  ASSUME Inductive, NEW fd \in Fds, ReplayIsWhole(fd), ReplayBegin(fd)
  PROVE  ReplayIsWhole(fd)'
<1>1. /\ listener[fd] = "catchup" /\ listener'[fd] = "replay"
      /\ cursor'[fd] = ReplayStart(clientId[fd]) /\ from'[fd] = cursor'[fd]
      /\ UNCHANGED <<out, log, clientId>>
  BY DEF ReplayBegin, Inductive, TypeOK, Goto, shared, netVars
<1>2. cursor'[fd] \in Nat /\ (cursor'[fd] = 0 => log = <<>>)
  BY <1>1, ReplayStartType DEF Inductive, ReplayStart
<1>3. IsInjective(out'[fd])
  BY <1>1 DEF ReplayIsWhole, Catching
<1>4. \A k \in 1..Len(out[fd]) : out[fd][k] = 0
  BY <1>1 DEF Inductive, ReplayIsAhead
<1>5. Replaying(fd)' => /\ \A k \in 1..Len(out'[fd]) : out'[fd][k] < cursor'[fd]
                        /\ Covered(fd, from[fd], cursor[fd] - 1)'
  <2>1. Replaying(fd)' => \A k \in 1..Len(out'[fd]) : out'[fd][k] < cursor'[fd]
    BY <1>1, <1>2, <1>4 DEF Replaying
  <2>2. \A p \in 1..Len(log) : ~(cursor'[fd] <= p /\ p <= cursor'[fd] - 1)
    BY <1>2
  <2> QED BY <1>1, <2>1, <2>2 DEF Covered
<1>6. cursor'[fd] = 0 => Covered(fd, from[fd], Len(log))'
  BY <1>1, <1>2 DEF Covered
<1> QED
  BY <1>1, <1>3, <1>5, <1>6 DEF ReplayIsWhole, Unheard, Registered

\* One message of a replay.
LEMMA ReplaySteps ==
  ASSUME Inductive, NEW fd \in Fds, ReplayIsWhole(fd), ReplayStep(fd)
  PROVE  ReplayIsWhole(fd)'
<1>1. /\ listener[fd] = "replay" /\ cursor[fd] # 0 /\ cursor[fd] \in 1..Len(log)
      /\ UNCHANGED <<log, clientId, from>> /\ Len(log) \in Nat
  BY DEF ReplayStep, Replaying, shared, Inductive, TypeOK, NodesAreLogged
<1>2. out[fd] \in Seq(Nat) /\ IsInjective(out[fd])
  BY <1>1 DEF ReplayIsWhole, Catching, Inductive, TypeOK
<1>3. /\ \A k \in 1..Len(out[fd]) : out[fd][k] < cursor[fd]
      /\ Covered(fd, from[fd], cursor[fd] - 1)
  BY <1>1 DEF ReplayIsWhole, Replaying
<1>4. CASE AtForeign(fd) /\ SendFailed(fd) /\ Goto(fd, "register")
           /\ upto' = [upto EXCEPT ![fd] = cursor[fd]]
  <2>1. listener'[fd] = "register" /\ out' = out /\ ~Present(fd)' /\ upto'[fd] = cursor[fd]
    BY <1>4 DEF Inductive, TypeOK, Goto, SendFailed, Present
  <2>2. \A k \in 1..Len(out[fd]) : out[fd][k] <= cursor[fd]
    BY <1>1, <1>2, <1>3
  <2> QED
    BY <1>1, <1>2, <2>1, <2>2 DEF ReplayIsWhole, Unheard, Replaying, Covered
<1>5. ASSUME AtForeign(fd) => Sent(fd, cursor[fd]),
             ~AtForeign(fd) => UNCHANGED <<peer, out>>,
             cursor' = [cursor EXCEPT ![fd] = IF @ = Len(log) THEN 0 ELSE @ + 1],
             listener' = listener
      PROVE  ReplayIsWhole(fd)'
  <2>1. /\ \A g \in Fds : listener'[g] = listener[g]
        /\ cursor'[fd] = IF cursor[fd] = Len(log) THEN 0 ELSE cursor[fd] + 1
    BY <1>5 DEF Inductive, TypeOK
  <2>2. /\ Present(fd)' => Present(fd) /\ (AtForeign(fd) => out'[fd] = Append(out[fd], cursor[fd]))
        /\ out'[fd] = out[fd] \/ out'[fd] = Append(out[fd], cursor[fd])
    <3>1. CASE AtForeign(fd)
      BY <1>1, <1>5, <3>1, SendKeeps DEF Inductive, TypeOK
    <3>2. CASE ~AtForeign(fd)
      BY <1>5, <3>2 DEF Present
    <3> QED BY <3>1, <3>2
  <2>3. IsInjective(out'[fd]) /\ \A k \in 1..Len(out'[fd]) : out'[fd][k] <= cursor[fd]
    <3>1. CASE out'[fd] = out[fd]
      <4>1. \A k \in 1..Len(out[fd]) : out[fd][k] \in Nat
        BY <1>2
      <4> QED BY <1>1, <1>2, <1>3, <3>1, <4>1
    <3>2. CASE out'[fd] = Append(out[fd], cursor[fd])
      <4>1. cursor[fd] \in Nat
        BY <1>1
      <4>2. IsInjective(Append(out[fd], cursor[fd]))
        BY <1>2, <1>3, <4>1, AppendGreater
      <4>3. \A k \in 1..Len(Append(out[fd], cursor[fd])) :
              Append(out[fd], cursor[fd])[k] <= cursor[fd]
        BY <1>2, <1>3, <4>1, AppendGreater
      <4> QED BY <3>2, <4>2, <4>3
    <3> QED BY <2>2, <3>1, <3>2
  <2> DEFINE More == Append(out[fd], cursor[fd])
  <2>4. Range(More) = Range(out[fd]) \cup {cursor[fd]} /\ More \in Seq(Nat)
    BY <1>1, <1>2, AppendAdds, AppendKeeps
  <2> HIDE DEF More
  <2>5. ASSUME Present(fd)', NEW p \in 1..Len(log), from[fd] <= p, p <= cursor[fd],
               log[p].id # clientId[fd]
        PROVE  WasSent(p, fd)'
    <3>1. CASE p = cursor[fd]
      <4>1. out'[fd] = More
        BY <1>1, <2>2, <2>5, <3>1 DEF AtForeign, Replaying, More
      <4> QED BY <2>4, <3>1, <4>1 DEF WasSent
    <3>2. CASE p # cursor[fd]
      <4>1. p <= cursor[fd] - 1
        BY <1>1, <2>5, <3>2
      <4>2. p \in Range(out[fd])
        BY <1>3, <2>2, <2>5, <4>1 DEF Covered, WasSent
      <4> QED BY <2>2, <2>4, <4>2 DEF WasSent, More
    <3> QED BY <3>1, <3>2
  <2>6. Replaying(fd)' => /\ \A k \in 1..Len(out'[fd]) : out'[fd][k] < cursor'[fd]
                          /\ Covered(fd, from[fd], cursor[fd] - 1)'
    <3>1. Replaying(fd)' => cursor'[fd] = cursor[fd] + 1
      BY <2>1 DEF Replaying
    <3>2. out'[fd] \in Seq(Nat)
      BY <1>2, <2>2, <2>4 DEF More
    <3>3. Replaying(fd)' => \A k \in 1..Len(out'[fd]) : out'[fd][k] < cursor'[fd]
      BY <1>1, <2>3, <3>1, <3>2
    <3>4. Replaying(fd)' => Covered(fd, from[fd], cursor[fd] - 1)'
      <4>1. cursor[fd] \in Nat /\ (Replaying(fd)' => cursor'[fd] - 1 = cursor[fd])
        BY <1>1, <3>1
      <4> QED BY <1>1, <2>5, <4>1 DEF Covered
    <3> QED BY <3>3, <3>4
  <2>7. cursor'[fd] = 0 => Covered(fd, from[fd], Len(log))'
    <3>1. cursor'[fd] = 0 => cursor[fd] = Len(log)
      BY <1>1, <2>1
    <3> QED BY <1>1, <2>5, <3>1 DEF Covered
  <2> QED
    BY <1>1, <2>1, <2>3, <2>6, <2>7 DEF ReplayIsWhole, Unheard, Registered
<1> QED BY <1>4, <1>5 DEF ReplayStep

\* The end of a replay.
LEMMA ReplayEnds ==
  ASSUME Inductive, NEW fd \in Fds, ReplayIsWhole(fd), ReplayEnd(fd)
  PROVE  ReplayIsWhole(fd)'
<1>1. /\ listener[fd] = "replay" /\ cursor[fd] = 0 /\ listener'[fd] = "register"
      /\ upto'[fd] = Len(log) /\ UNCHANGED <<out, log, clientId, from, peer>>
      /\ Len(log) \in Nat
  BY DEF ReplayEnd, Goto, netVars, Inductive, TypeOK
<1>2. IsInjective(out[fd]) /\ Covered(fd, from[fd], Len(log))
  BY <1>1 DEF ReplayIsWhole, Catching
<1>3. \A k \in 1..Len(out[fd]) : out[fd][k] <= Len(log)
  BY DEF Inductive, ReplayIsAhead
<1>4. Covered(fd, from[fd], upto[fd])'
  BY <1>1, <1>2 DEF Covered, Present, WasSent
<1> QED
  BY <1>1, <1>2, <1>3, <1>4 DEF ReplayIsWhole, Unheard, Replaying

\* The other steps of a listener: what its replay sent is as it was, until the
\* descriptor is closed.
LEMMA ListenerReplays ==
  ASSUME Inductive, NEW fd \in Fds, ReplayIsWhole(fd),
         Listener(fd) \/ \E hello \in Hello : Accept(fd, hello)
  PROVE  ReplayIsWhole(fd)'
<1> USE DEF Inductive, TypeOK, Goto, ReplayIsWhole, Unheard, Catching, Replaying,
            Registered
<1>1. ASSUME NEW hello \in Hello, Accept(fd, hello)
      PROVE  ReplayIsWhole(fd)'
  <2>1. listener[fd] = "none" /\ listener'[fd] = "handshake" /\ out' = out
    BY <1>1 DEF Accept
  <2> QED BY <2>1
<1>2. CASE Handshake(fd)
  <2>1. listener[fd] = "handshake" /\ listener'[fd] \in {"greet", "refuse"} /\ out' = out
    BY <1>2 DEF Handshake
  <2> QED BY <2>1
<1>3. CASE Refuse(fd)
  <2>1. listener'[fd] = "close"
    BY <1>3 DEF Refuse
  <2> QED BY <2>1
<1>4. CASE Greet(fd)
  <2>1. listener[fd] = "greet" /\ listener'[fd] = "catchup"
    BY <1>4 DEF Greet
  <2>2. out[fd] = <<>>
    BY <2>1
  <2>3. out'[fd] = out[fd] \/ out'[fd] = Append(out[fd], 0)
    <3> HIDE DEF Inductive, TypeOK
    <3>1. TypeOK /\ (Sent(fd, 0) \/ SendFailed(fd))
      BY <1>4 DEF Greet, Inductive
    <3> QED BY <3>1, SendKeeps
  <2>4. Append(<<>>, 0) = <<0>>
    OBVIOUS
  <2>5. IsInjective(out'[fd])
    BY <2>2, <2>3, <2>4 DEF IsInjective
  <2> QED BY <2>1, <2>5
<1>5. CASE ReplayBegin(fd) \/ ReplayStep(fd) \/ ReplayEnd(fd)
  BY <1>5, ReplayBegins, ReplaySteps, ReplayEnds
<1>6. CASE Register(fd) \/ Receive(fd) \/ ReceivePartial(fd) \/ Leave(fd)
  <2>1. /\ listener[fd] = "register" \/ Registered(fd)
        /\ listener'[fd] \in {"recv", "leave", "close"}
        /\ UNCHANGED <<out, log, clientId, from, upto, peer>>
    BY <1>6 DEF Register, AddConnection, Receive, ReceivePartial, Leave,
                RemoveConnection, shared, netVars, history
  <2>2. Covered(fd, from[fd], upto[fd])'
    BY <2>1 DEF Covered, Present, WasSent
  <2> QED BY <2>1, <2>2
<1>7. CASE Close(fd)
  <2>1. listener'[fd] = "none" /\ out'[fd] = <<>>
    BY <1>7 DEF Close
  <2> QED BY <2>1
<1> QED
  BY <1>1, <1>2, <1>3, <1>4, <1>5, <1>6, <1>7 DEF Listener

\* The connection the walk stands at is a registered one of the client it visits.
LEMMA WalkStands ==
  ASSUME Inductive, AtConnection
  PROVE  LET fd == sockfds[Visited][nAt]
         IN /\ fd \in Fds /\ Registered(fd) /\ clientId[fd] = Visited
            /\ ~Walked(Len(log), fd)
<1> DEFINE fd == sockfds[Visited][nAt]
<1>1. /\ Visited \in Known /\ sockfds[Visited] \in Seq(Fds)
      /\ nAt \in 1..Len(sockfds[Visited]) /\ cAt \in 1..Len(ClientIds)
      /\ Len(log) \in Nat /\ senderPc = "walk"
  <2>1. TypeOK /\ AtClient
    BY Zenon DEF Inductive, AtConnection
  <2>2. Visited \in Known
    BY <2>1, ConnectionType, Zenon
  <2>3. sockfds[Visited] \in Seq(Fds) /\ Len(log) \in Nat /\ nAt \in Nat \ {0}
    BY <2>1, <2>2 DEF TypeOK
  <2>4. cAt \in 1..Len(ClientIds)
    BY <2>1, IdsAssumption DEF TypeOK, AtClient
  <2>5. nAt \in 1..Len(sockfds[Visited])
    BY <2>3 DEF AtConnection
  <2>6. senderPc = "walk"
    BY <2>1, Zenon DEF AtClient
  <2> QED BY <2>2, <2>3, <2>4, <2>5, <2>6, Zenon
<1>2. fd \in Fds /\ fd \in Range(sockfds[Visited])
  BY <1>1, ElementsOfRange
<1>3. Registered(fd) /\ clientId[fd] = Visited
  BY <1>1, <1>2 DEF Inductive, SocketsAreLive
<1>4. \A k \in 1..(cAt - 1) : ClientIds[k] # clientId[fd]
  BY <1>1, <1>3, IdsAssumption DEF Visited
<1>5. \A k \in 1..(nAt - 1) : sockfds[Visited][k] # fd
  BY <1>1 DEF Inductive, SocketsAreLive, IsInjective
<1> QED
  BY <1>1, <1>2, <1>3, <1>4, <1>5 DEF Walked

\* What a send of the walk does.
LEMMA WalkSends ==
  ASSUME Inductive, SenderSend
  PROVE  \E fd \in Fds :
           /\ fd = sockfds[Visited][nAt] /\ Registered(fd) /\ clientId[fd] = Visited
           /\ ~Walked(Len(log), fd) /\ senderPc = "walk"
           /\ \A g \in Fds \ {fd} : Kept(g)
           /\ Present(fd)' => Present(fd) /\ out'[fd] = Append(out[fd], Len(log))
           /\ out'[fd] = out[fd] \/ out'[fd] = Append(out[fd], Len(log))
           /\ UNCHANGED <<log, listener, clientId, cursor, from, upto, since>>
<1> DEFINE fd == sockfds[Visited][nAt]
<1>1. /\ fd \in Fds /\ Registered(fd) /\ clientId[fd] = Visited
      /\ ~Walked(Len(log), fd) /\ senderPc = "walk"
  BY WalkStands DEF SenderSend, AtConnection, AtClient
<1>2. /\ Sent(fd, lastNode) \/ SendFailed(fd)
      /\ UNCHANGED <<log, listener, clientId, cursor, from, upto, since>>
  BY DEF SenderSend, shared, listenerVars, history
<1>3. lastNode = Len(log) /\ lastNode \in Nat /\ TypeOK
  BY <1>1 DEF Inductive, TypeOK, NodesAreLogged
<1>4. PICK f \in Fds : f = fd
  BY <1>1
<1>5. /\ \A g \in Fds \ {f} : out'[g] = out[g] /\ peer'[g] = peer[g]
      /\ Present(f)' => Present(f) /\ out'[f] = Append(out[f], Len(log))
      /\ out'[f] = out[f] \/ out'[f] = Append(out[f], Len(log))
  BY <1>2, <1>3, <1>4, SendKeeps
<1>6. \A g \in Fds \ {f} : Kept(g)
  BY <1>2, <1>5 DEF Kept, Present
<1> HIDE DEF fd
<1>7. Registered(f) /\ clientId[f] = Visited /\ ~Walked(Len(log), f) /\ senderPc = "walk"
  BY <1>1, <1>4
<1>8. f = sockfds[Visited][nAt]
  BY <1>4 DEF fd
<1> QED BY <1>2, <1>5, <1>6, <1>7, <1>8

\* Every step preserves the replays.
LEMMA ReplaysStep ==
  ASSUME Inductive, ReplaysAreWhole, [Next]_vars
  PROVE  ReplaysAreWhole'
<1> USE DEF ReplaysAreWhole
<1>0. TypeOK /\ log \in Seq(Message) /\ Len(log) \in Nat
  BY DEF Inductive, TypeOK
<1>1. ASSUME log' = log, NEW g \in Fds, Kept(g) PROVE ReplayIsWhole(g)'
  BY <1>0, <1>1, ReplayKept
<1>2. CASE SenderDequeue \/ SenderLock \/ SenderSkip \/ SenderMark \/ SenderUnlock
  <2>1. log' = log /\ \A g \in Fds : Kept(g)
    BY <1>2, SenderKeeps
       DEF SenderDequeue, SenderLock, SenderSkip, SenderMark, SenderUnlock, shared
  <2> QED BY <1>1, <2>1
<1>3. CASE SenderAppend
  <2>1. /\ log' = Append(log, senderMsg) /\ senderMsg \in Message
        /\ \A g \in Fds : Kept(g) /\ listener[g] # "replay"
    BY <1>0, <1>3, SenderKeeps DEF SenderAppend, LogHasReaders, TypeOK
  <2>2. Len(log') = Len(log) + 1 /\ \A p \in 1..Len(log) : log'[p] = log[p]
    BY <1>0, <2>1, AppendKeeps
  <2>3. Len(log') \in Nat /\ Len(log) <= Len(log')
    BY <1>0, <2>2
  <2> QED BY <1>0, <2>1, <2>2, <2>3, ReplayKept
<1>4. CASE SenderSend
  <2>1. PICK fd \in Fds :
          /\ Registered(fd) /\ (\A g \in Fds \ {fd} : Kept(g))
          /\ Present(fd)' => Present(fd)
          /\ out'[fd] = out[fd] \/ out'[fd] = Append(out[fd], Len(log))
          /\ UNCHANGED <<log, listener, clientId, cursor, from, upto, since>>
    BY <1>4, WalkSends
  <2>2. \A g \in Fds \ {fd} : ReplayIsWhole(g)'
    BY <1>1, <2>1
  <2>3. upto[fd] <= Len(log) /\ Covered(fd, from[fd], upto[fd])
    BY <2>1 DEF ReplayIsWhole
  <2>4. Range(out[fd]) \subseteq Range(out'[fd])
    <3>1. out[fd] \in Seq(Nat)
      BY <1>0 DEF TypeOK
    <3>2. Range(Append(out[fd], Len(log))) = Range(out[fd]) \cup {Len(log)}
      BY <1>0, <3>1, AppendAdds
    <3> QED BY <2>1, <3>2
  <2>5. Covered(fd, from[fd], upto[fd])'
    BY <2>1, <2>3, <2>4 DEF Covered, WasSent
  <2>6. ReplayIsWhole(fd)'
    BY <2>1, <2>3, <2>5
       DEF ReplayIsWhole, Registered, Unheard, Catching, Replaying
  <2> QED BY <2>2, <2>6
<1>5. ASSUME NEW fd \in Fds, Listener(fd) \/ \E hello \in Hello : Accept(fd, hello)
      PROVE  ReplaysAreWhole'
  <2>1. ReplayIsWhole(fd)'
    BY <1>5, ListenerReplays
  <2>2. log' = log /\ \A g \in Fds \ {fd} : Kept(g)
    BY <1>0, <1>5, ListenerKeeps
  <2> QED BY <1>1, <2>1, <2>2
<1>6. CASE \E fd \in Fds : Peer(fd)
  BY <1>0, <1>1, <1>6, PeerKeeps
<1>7. CASE (\E fd \in Fds : SigPipe(fd) \/ RecvHeaderFails(fd)) \/ UNCHANGED vars
  BY <1>1, <1>7, EndKeeps
<1> QED
  BY <1>2, <1>3, <1>4, <1>5, <1>6, <1>7 DEF Next, Sender

-----------------------------------------------------------------------------
(* The walks. *)

\* What a walk does between two sends: it comes to connections that were not
\* to be sent the message, and takes none back.
LEMMA WalkMoves ==
  ASSUME TypeOK, NEW g \in Fds, WalkIsWhole(g), log' = log,
         Registered(g)' =>
           /\ Registered(g) /\ (Present(g)' => Present(g))
           /\ clientId'[g] = clientId[g] /\ out'[g] = out[g]
           /\ upto'[g] = upto[g] /\ since'[g] = since[g],
         Registered(g) /\ Walked(Len(log), g) => Walked(Len(log), g)',
         Registered(g) /\ Walked(Len(log), g)' =>
           Walked(Len(log), g) \/ log[Len(log)].id = clientId[g]
  PROVE  WalkIsWhole(g)'
<1> SUFFICES ASSUME Registered(g)' PROVE WalkIsWhole(g)'
  BY DEF WalkIsWhole
<1>1. /\ Registered(g) /\ Len(log) \in Nat
      /\ (Present(g)' => Present(g)) /\ clientId'[g] = clientId[g]
      /\ out'[g] = out[g] /\ upto'[g] = upto[g] /\ since'[g] = since[g]
  BY DEF TypeOK
<1>2. /\ upto[g] <= since[g] /\ since[g] <= Len(log)
      /\ Present(g) => \A p \in 1..Len(log) :
           p > since[g] /\ Owed(p, g) => WasSent(p, g)
      /\ ~Walked(Len(log), g) =>
           \A k \in 1..Len(out[g]) : out[g][k] < Len(log) \/ out[g][k] <= upto[g]
  BY <1>1 DEF WalkIsWhole
<1>3. ASSUME NEW p \in 1..Len(log), Owed(p, g)' PROVE Owed(p, g)
  <2>1. log[p].id # clientId[g]
    BY <1>1, <1>3 DEF Owed
  <2>2. CASE p = Len(log)
    BY <1>1, <1>3, <2>1, <2>2 DEF Owed
  <2>3. CASE p < Len(log)
    BY <2>1, <2>3 DEF Owed, Walked
  <2> QED BY <1>1, <2>2, <2>3
<1>4. ASSUME Present(g)', NEW p \in 1..Len(log'), p > since'[g], Owed(p, g)'
      PROVE  WasSent(p, g)'
  <2>1. WasSent(p, g)
    BY <1>1, <1>2, <1>3, <1>4
  <2> QED BY <1>1, <2>1 DEF WasSent
<1>5. ~Walked(Len(log), g)' => ~Walked(Len(log), g)
  BY <1>1
<1> QED BY <1>1, <1>2, <1>4, <1>5 DEF WalkIsWhole

\* A connection that is registered is one of a client of the table.
LEMMA RegisteredIsKnown ==
  ASSUME Inductive, NEW g \in Fds, Registered(g)
  PROVE  /\ \E k \in 1..Len(ClientIds) : ClientIds[k] = clientId[g]
         /\ \E k \in 1..Len(sockfds[clientId[g]]) : sockfds[clientId[g]][k] = g
<1>1. clientId[g] \in Known
  BY DEF Inductive, ClientsAreKnown, Identified, Greeted, Registered
<1>2. g \in Range(sockfds[clientId[g]]) /\ sockfds[clientId[g]] \in Seq(Fds)
  BY <1>1 DEF Inductive, SocketsAreLive, TypeOK
<1> QED BY <1>1, <1>2, ElementsOfRange DEF Known

\* The walk goes on to the next client, and leaves the connections of one behind.
LEMMA NextClient ==
  ASSUME Inductive, AtClient, senderPc' = senderPc, cAt' = cAt + 1, nAt' = 1,
         UNCHANGED <<log, clientId, sockfds>>, NEW g \in Fds, Registered(g)
  PROVE  /\ Walked(Len(log), g) => Walked(Len(log), g)'
         /\ Walked(Len(log), g)' => Walked(Len(log), g) \/ Visited = clientId[g]
<1>1. /\ cAt \in 1..Len(ClientIds) /\ Len(ClientIds) \in Nat /\ senderPc = "walk"
      /\ Len(log) \in Nat /\ nAt \in Nat
  BY IdsAssumption DEF AtClient, Inductive, TypeOK
<1>2. Walked(Len(log), g)' <=> \E k \in 1..cAt : ClientIds[k] = clientId[g]
  <2>1. cAt' - 1 = cAt /\ 1..(nAt' - 1) = {}
    BY <1>1
  <2>2. cAt' > Len(ClientIds) => cAt = Len(ClientIds)
    BY <1>1
  <2>3. (\E k \in 1..cAt : ClientIds[k] = clientId[g]) => Walked(Len(log), g)'
    BY <1>1, <2>1 DEF Walked
  <2>4. Walked(Len(log), g)' =>
          cAt' > Len(ClientIds) \/ \E k \in 1..cAt : ClientIds[k] = clientId[g]
    BY <1>1, <2>1 DEF Walked
  <2>5. \E k \in 1..Len(ClientIds) : ClientIds[k] = clientId[g]
    BY RegisteredIsKnown
  <2> QED BY <2>2, <2>3, <2>4, <2>5
<1>3. (\E k \in 1..(cAt - 1) : ClientIds[k] = clientId[g]) => Walked(Len(log), g)
  BY <1>1 DEF Walked
<1>4. Walked(Len(log), g) =>
        Visited = clientId[g] \/ \E k \in 1..(cAt - 1) : ClientIds[k] = clientId[g]
  BY <1>1 DEF Walked
<1> QED BY <1>1, <1>2, <1>3, <1>4 DEF Visited

\* The walk for a new message has come to no connection.
LEMMA AppendWalks ==
  ASSUME Inductive, NEW g \in Fds, WalkIsWhole(g), SenderAppend
  PROVE  WalkIsWhole(g)'
<1>1. /\ log' = Append(log, senderMsg) /\ senderPc = "append" /\ senderPc' = "lock"
      /\ Kept(g) /\ log \in Seq(Message) /\ senderMsg \in Message /\ Len(log) \in Nat
  BY SenderKeeps DEF SenderAppend, Inductive, TypeOK
<1>2. /\ Len(log') = Len(log) + 1 /\ Len(log') \in Nat
      /\ \A p \in 1..Len(log) : log'[p] = log[p]
  BY <1>1, AppendKeeps
<1> SUFFICES ASSUME Registered(g)' PROVE WalkIsWhole(g)'
  BY DEF WalkIsWhole
<1>3. /\ Registered(g) /\ since[g] \in Nat /\ upto[g] \in Nat
      /\ upto[g] <= since[g] /\ since[g] <= Len(log)
      /\ Present(g) => \A p \in 1..Len(log) :
           p > since[g] /\ Owed(p, g) => WasSent(p, g)
  BY <1>1 DEF Kept, Registered, WalkIsWhole, Inductive, TypeOK
<1>4. ASSUME Present(g)', NEW p \in 1..Len(log'), p > since[g], Owed(p, g)'
      PROVE  WasSent(p, g)'
  <2>1. p < Len(log')
    BY <1>1, <1>4 DEF Owed, Walked
  <2>2. p \in 1..Len(log)
    BY <1>1, <1>2, <2>1
  <2>3. Owed(p, g)
    BY <1>1, <1>2, <1>4, <2>2 DEF Owed, Walked, Kept
  <2>4. WasSent(p, g)
    BY <1>1, <1>3, <1>4, <2>2, <2>3 DEF Kept
  <2> QED BY <1>1, <2>4 DEF WasSent, Kept
<1>5. \A k \in 1..Len(out'[g]) : out'[g][k] < Len(log')
  <2>1. ASSUME NEW k \in 1..Len(out[g]) PROVE out[g][k] < Len(log) + 1
    <3>1. out[g][k] \in Nat /\ out[g][k] <= Len(log)
      BY DEF Inductive, ReplayIsAhead, TypeOK
    <3> QED BY <1>1, <3>1
  <2> QED BY <1>1, <1>2, <2>1 DEF Kept
<1>6. upto'[g] <= since'[g] /\ since'[g] <= Len(log')
  BY <1>1, <1>2, <1>3 DEF Kept
<1>7. since'[g] = since[g]
  BY <1>1 DEF Kept
<1> QED BY <1>4, <1>5, <1>6, <1>7 DEF WalkIsWhole

\* The connection a walk sends the last message to has it.
LEMMA SendWalks ==
  ASSUME Inductive, NEW g \in Fds, WalkIsWhole(g), SenderSend
  PROVE  WalkIsWhole(g)'
<1>1. PICK fd \in Fds :
        /\ fd = sockfds[Visited][nAt] /\ Registered(fd) /\ clientId[fd] = Visited
        /\ ~Walked(Len(log), fd) /\ senderPc = "walk"
        /\ \A f \in Fds \ {fd} : Kept(f)
        /\ Present(fd)' => Present(fd) /\ out'[fd] = Append(out[fd], Len(log))
        /\ UNCHANGED <<log, listener, clientId, cursor, from, upto, since>>
  BY WalkSends
<1>2. /\ nAt' = nAt + 1 /\ UNCHANGED <<senderPc, cAt, sockfds>> /\ Visited' = Visited
      /\ 1..(nAt' - 1) = 1..(nAt - 1) \cup {nAt}
  <2>1. nAt' = nAt + 1 /\ UNCHANGED <<senderPc, cAt, sockfds>>
    BY DEF SenderSend, shared
  <2>2. nAt \in Nat \ {0}
    BY DEF Inductive, TypeOK
  <2>3. 1..(nAt' - 1) = 1..(nAt - 1) \cup {nAt}
    BY <2>1, <2>2
  <2> QED BY <2>1, <2>3 DEF Visited
<1>3. TypeOK /\ Len(log) \in Nat
  <2>1. TypeOK
    BY DEF Inductive
  <2>2. log \in Seq(Message)
    BY <2>1 DEF TypeOK
  <2> QED BY <2>1, <2>2
<1>4. CASE g # fd
  <2>1. Walked(Len(log), g)' <=> Walked(Len(log), g)
    BY <1>1, <1>2, <1>4 DEF Walked
  <2>2. Kept(g) /\ log' = log
    BY <1>1, <1>4
  <2>3. /\ Registered(g)' => Registered(g)
        /\ Present(g)' => Present(g)
        /\ clientId'[g] = clientId[g] /\ out'[g] = out[g]
        /\ upto'[g] = upto[g] /\ since'[g] = since[g]
    BY <2>2 DEF Kept, Registered
  <2> QED BY <1>3, <2>1, <2>2, <2>3, WalkMoves
<1>5. CASE g = fd
  <2>1. /\ Registered(g) /\ upto[g] <= since[g] /\ since[g] <= Len(log)
        /\ Present(g) => \A p \in 1..Len(log) :
             p > since[g] /\ Owed(p, g) => WasSent(p, g)
    BY <1>1, <1>5 DEF WalkIsWhole
  <2>2. Walked(Len(log), g)'
    BY <1>1, <1>2, <1>5 DEF Walked
  <2>3. out[g] \in Seq(Nat)
    BY <1>3 DEF TypeOK
  <2>4. Present(g)' => Range(out'[g]) = Range(out[g]) \cup {Len(log)}
    <3>1. Range(Append(out[g], Len(log))) = Range(out[g]) \cup {Len(log)}
      BY <1>3, <2>3, AppendAdds
    <3> QED BY <1>1, <1>5, <3>1
  <2>5. ASSUME Present(g)', NEW p \in 1..Len(log), p > since[g], Owed(p, g)'
        PROVE  WasSent(p, g)'
    <3>1. CASE p = Len(log)
      BY <2>4, <2>5, <3>1 DEF WasSent
    <3>2. CASE p # Len(log)
      <4>1. Owed(p, g)
        BY <1>1, <1>3, <2>5, <3>2 DEF Owed, Walked
      <4>2. WasSent(p, g)
        BY <1>1, <1>5, <2>1, <2>5, <4>1
      <4> QED BY <2>4, <2>5, <4>2 DEF WasSent
    <3> QED BY <3>1, <3>2
  <2> QED BY <1>1, <2>1, <2>2, <2>5 DEF WalkIsWhole
<1> QED BY <1>4, <1>5

\* The sender's other steps.
LEMMA SenderWalks ==
  ASSUME Inductive, SenderHoldsTail, NEW g \in Fds, WalkIsWhole(g),
         \/ SenderDequeue \/ SenderLock \/ SenderSkip \/ SenderMark \/ SenderUnlock
  PROVE  WalkIsWhole(g)'
<1> DEFINE Before == Walked(Len(log), g)
<1>1. TypeOK /\ Kept(g) /\ UNCHANGED <<log, sockfds>>
  BY SenderKeeps DEF Inductive, SenderDequeue, SenderLock, SenderSkip, SenderMark,
                     SenderUnlock, shared
<1>2. /\ Registered(g)' => Registered(g)
      /\ Present(g)' => Present(g)
      /\ clientId'[g] = clientId[g] /\ out'[g] = out[g]
      /\ upto'[g] = upto[g] /\ since'[g] = since[g]
  BY <1>1 DEF Kept, Registered
<1>3. Len(log) \in Nat /\ cAt \in Nat \ {0} /\ nAt \in Nat \ {0} /\ Len(ClientIds) \in Nat
  BY <1>1, IdsAssumption DEF TypeOK
<1> SUFFICES ASSUME Registered(g)
             PROVE  /\ Before => Walked(Len(log), g)'
                    /\ Walked(Len(log), g)' => Before \/ log[Len(log)].id = clientId[g]
  <2> HIDE DEF Before
  <2> QED BY <1>1, <1>2, WalkMoves DEF Before
<1>4. CASE SenderDequeue \/ SenderUnlock
  <2>1. Before
    BY <1>4 DEF Walked, SenderDequeue, SenderUnlock
  <2>2. Walked(Len(log), g)'
    BY <1>4 DEF Walked, SenderDequeue, SenderUnlock
  <2> QED BY <2>1, <2>2
<1>5. CASE SenderLock
  <2>1. ~Before
    BY <1>3, <1>5 DEF Walked, SenderLock
  <2>2. /\ senderPc' = "walk" /\ cAt' = 1 /\ nAt' = 1
        /\ 1..(cAt' - 1) = {} /\ 1..(nAt' - 1) = {}
    BY <1>5 DEF SenderLock
  <2>3. Len(ClientIds) >= 1
    BY <1>3, RegisteredIsKnown
  <2>4. ~Walked(Len(log), g)'
    BY <1>1, <1>3, <2>2, <2>3 DEF Walked
  <2> QED BY <2>1, <2>4
<1>6. CASE SenderSkip \/ SenderMark
  <2>1. /\ AtClient /\ senderPc' = senderPc /\ cAt' = cAt + 1 /\ nAt' = 1
        /\ clientId' = clientId
    BY <1>6 DEF SenderSkip, SenderMark, listenerVars
  <2>2. /\ Before => Walked(Len(log), g)'
        /\ Walked(Len(log), g)' => Before \/ Visited = clientId[g]
    BY <1>1, <2>1, NextClient
  <2>3. ASSUME Visited = clientId[g]
        PROVE  Before \/ log[Len(log)].id = clientId[g]
    <3>1. PICK k \in 1..Len(sockfds[Visited]) : sockfds[Visited][k] = g
      BY <2>3, RegisteredIsKnown
    <3>2. sockfds[Visited] \in Seq(Fds)
      BY <1>1, <2>1, ConnectionType DEF TypeOK
    <3>3. CASE Visited = senderMsg.id
      BY <2>1, <2>3, <3>3 DEF SenderHoldsTail, AtClient
    <3>4. CASE Visited # senderMsg.id
      <4>1. ~(nAt <= Len(sockfds[Visited]))
        BY <1>6, <2>1, <3>1, <3>2, <3>4 DEF SenderSkip, SenderMark, AtConnection
      <4>2. k \in 1..(nAt - 1)
        BY <1>3, <3>1, <3>2, <4>1
      <4> QED BY <2>1, <2>3, <3>1, <4>2 DEF Walked, AtClient
    <3> QED BY <3>3, <3>4
  <2> QED BY <2>2, <2>3
<1> QED BY <1>4, <1>5, <1>6

\* A connection that is registered is owed what is logged from then on.
LEMMA RegisterWalks ==
  ASSUME Inductive, NEW fd \in Fds, ReplayIsWhole(fd), Register(fd)
  PROVE  WalkIsWhole(fd)'
<1>1. /\ listener[fd] = "register" /\ since'[fd] = Len(log)
      /\ UNCHANGED <<log, out, upto>> /\ Len(log) \in Nat
  BY DEF Register, netVars, Inductive, TypeOK
<1>2. upto[fd] <= Len(log) /\ \A k \in 1..Len(out[fd]) : out[fd][k] <= upto[fd]
  BY <1>1 DEF ReplayIsWhole
<1>3. \A p \in 1..Len(log') : ~(p > since'[fd])
  BY <1>1
<1> QED BY <1>1, <1>2, <1>3 DEF WalkIsWhole

\* Listeners that are registered have their sockets and their past until they
\* close.
LEMMA ListenerWalks ==
  ASSUME Inductive, NEW fd \in Fds, NEW g \in Fds, WalkIsWhole(g),
         Listener(fd) \/ \E hello \in Hello : Accept(fd, hello),
         Register(fd) => g # fd
  PROVE  WalkIsWhole(g)'
<1>1. TypeOK /\ UNCHANGED <<log, senderVars>> /\ (g # fd => Kept(g))
  BY ListenerKeeps DEF Inductive
<1>2. senderPc = "walk" => sockfds' = sockfds
  BY DEF Listener, Accept, Handshake, Refuse, Greet, ReplayBegin, ReplayStep, ReplayEnd,
         Register, Receive, ReceivePartial, Leave, Close, ClientsLocked, shared
<1>3. Walked(Len(log), g)' => Walked(Len(log), g) \/ clientId'[g] # clientId[g]
  BY <1>1, <1>2 DEF Walked, senderVars, Visited
<1>4. Walked(Len(log), g) => Walked(Len(log), g)' \/ clientId'[g] # clientId[g]
  BY <1>1, <1>2 DEF Walked, senderVars, Visited
<1>5. Registered(g)' =>
        /\ Registered(g) /\ (Present(g)' => Present(g))
        /\ clientId'[g] = clientId[g] /\ out'[g] = out[g]
        /\ upto'[g] = upto[g] /\ since'[g] = since[g]
  <2>1. CASE g # fd
    BY <1>1, <2>1 DEF Kept, Registered
  <2>2. CASE g = fd /\ (Receive(fd) \/ ReceivePartial(fd) \/ Leave(fd))
    <3>1. UNCHANGED <<clientId, out, upto, since, peer>> /\ Registered(fd)
      BY <2>2 DEF Receive, ReceivePartial, Leave, RemoveConnection, Registered,
                  netVars, history
    <3> QED BY <2>2, <3>1 DEF Present
  <2>3. CASE g = fd /\ ~(Receive(fd) \/ ReceivePartial(fd) \/ Leave(fd))
    <3>1. listener'[fd] \notin {"recv", "leave"}
      <4> USE <2>3 DEF Inductive, TypeOK, Goto
      <4>1. CASE \E hello \in Hello : Accept(fd, hello)
        BY <4>1 DEF Accept
      <4>2. CASE Handshake(fd) \/ Refuse(fd) \/ Greet(fd)
        BY <4>2 DEF Handshake, Refuse, Greet
      <4>3. CASE ReplayBegin(fd) \/ ReplayStep(fd) \/ ReplayEnd(fd)
        BY <4>3 DEF ReplayBegin, ReplayStep, ReplayEnd, Replaying
      <4>4. CASE Close(fd)
        BY <4>4 DEF Close
      <4> QED BY <4>1, <4>2, <4>3, <4>4 DEF Listener
    <3> QED BY <2>3, <3>1 DEF Registered
  <2> QED BY <2>1, <2>2, <2>3
<1>6. ASSUME ~Registered(g)' PROVE WalkIsWhole(g)'
  BY <1>6 DEF WalkIsWhole
<1>7. ASSUME Registered(g)' PROVE WalkIsWhole(g)'
  BY <1>1, <1>3, <1>4, <1>5, <1>7, WalkMoves
<1> QED BY <1>6, <1>7

\* Every step preserves the walks.
LEMMA WalksStep ==
  ASSUME Inductive, SenderHoldsTail, ReplaysAreWhole, WalksAreWhole, [Next]_vars
  PROVE  WalksAreWhole'
<1> USE DEF WalksAreWhole
<1>1. ASSUME UNCHANGED <<log, senderVars, sockfds>>, NEW g \in Fds, Kept(g)
      PROVE  WalkIsWhole(g)'
  <2>1. Walked(Len(log), g)' <=> Walked(Len(log), g)
    BY <1>1 DEF Walked, Kept, senderVars, Visited
  <2>2. /\ Registered(g)' => Registered(g)
        /\ Present(g)' => Present(g)
        /\ clientId'[g] = clientId[g] /\ out'[g] = out[g]
        /\ upto'[g] = upto[g] /\ since'[g] = since[g]
    BY <1>1 DEF Kept, Registered
  <2>3. TypeOK /\ log' = log
    BY <1>1 DEF Inductive
  <2> QED BY <2>1, <2>2, <2>3, WalkMoves
<1>2. CASE SenderDequeue \/ SenderLock \/ SenderSkip \/ SenderMark \/ SenderUnlock
  BY <1>2, SenderWalks
<1>3. CASE SenderAppend
  BY <1>3, AppendWalks
<1>4. CASE SenderSend
  BY <1>4, SendWalks
<1>5. ASSUME NEW fd \in Fds, Listener(fd) \/ \E hello \in Hello : Accept(fd, hello)
      PROVE  WalksAreWhole'
  <2>1. ASSUME Register(fd) PROVE WalkIsWhole(fd)'
    BY <2>1, RegisterWalks DEF ReplaysAreWhole
  <2>2. ASSUME NEW g \in Fds, Register(fd) => g # fd PROVE WalkIsWhole(g)'
    BY <1>5, <2>2, ListenerWalks
  <2> QED BY <2>1, <2>2
<1>6. CASE \E fd \in Fds : Peer(fd)
  BY <1>1, <1>6, PeerKeeps DEF Inductive
<1>7. CASE (\E fd \in Fds : SigPipe(fd) \/ RecvHeaderFails(fd)) \/ UNCHANGED vars
  BY <1>1, <1>7, EndKeeps
<1> QED
  BY <1>2, <1>3, <1>4, <1>5, <1>6, <1>7 DEF Next, Sender

-----------------------------------------------------------------------------
(* Nothing is sent twice but at the seam of replay and walk. *)

\* The connection has no message twice but the last of its replay.
TwiceAtSeam(fd) ==
  \A j, k \in 1..Len(out[fd]) :
    j # k /\ out[fd][j] = out[fd][k] => out[fd][j] = upto[fd] /\ upto[fd] = since[fd]

\* Nothing is twice in a sequence that is empty or without repetitions.
LEMMA OnceIsSafe ==
  ASSUME NEW s \in Seq(Nat), s = <<>> \/ IsInjective(s)
  PROVE  \A j, k \in 1..Len(s) : s[j] = s[k] => j = k
<1>1. DOMAIN s = 1..Len(s)
  OBVIOUS
<1> QED BY <1>1 DEF IsInjective

\* A walk sends the last message to connections that have not got it, or got
\* it as the last of their replay.
LEMMA SendTwice ==
  ASSUME Inductive, WalksAreWhole, TwiceOnlyAtTheSeam, SenderSend, NEW g \in Fds
  PROVE  TwiceAtSeam(g)'
<1>1. PICK fd \in Fds :
        /\ Registered(fd) /\ ~Walked(Len(log), fd)
        /\ \A f \in Fds \ {fd} : Kept(f)
        /\ out'[fd] = out[fd] \/ out'[fd] = Append(out[fd], Len(log))
        /\ UNCHANGED <<log, upto, since>>
  BY WalkSends
<1>2. TwiceAtSeam(g)
  BY DEF TwiceOnlyAtTheSeam, TwiceAtSeam
<1>3. CASE g # fd \/ out'[g] = out[g]
  BY <1>1, <1>2, <1>3 DEF TwiceAtSeam, Kept
<1>4. CASE g = fd /\ out'[g] = Append(out[g], Len(log))
  <2> DEFINE n == Len(out[g])
  <2>1. out[g] \in Seq(Nat) /\ Len(log) \in Nat /\ n \in Nat
        /\ upto[g] \in Nat /\ since[g] \in Nat
    <3>1. /\ out \in [Fds -> Seq(Nat)] /\ log \in Seq(Message)
          /\ upto \in [Fds -> Nat] /\ since \in [Fds -> Nat]
      BY Zenon DEF Inductive, TypeOK
    <3> QED BY <3>1
  <2>2. /\ Len(Append(out[g], Len(log))) = n + 1
        /\ Append(out[g], Len(log))[n + 1] = Len(log)
        /\ \A k \in 1..n : Append(out[g], Len(log))[k] = out[g][k]
    BY <2>1, AppendKeeps
  <2>3. /\ Len(out'[g]) = n + 1 /\ out'[g][n + 1] = Len(log)
        /\ \A k \in 1..n : out'[g][k] = out[g][k]
    BY <1>4, <2>2
  <2>4. ASSUME NEW k \in 1..n, out[g][k] = Len(log)
        PROVE  Len(log) = upto[g] /\ upto[g] = since[g]
    <3>1. /\ upto[g] <= since[g] /\ since[g] <= Len(log)
          /\ out[g][k] < Len(log) \/ out[g][k] <= upto[g]
      BY <1>1, <1>4 DEF WalksAreWhole, WalkIsWhole
    <3> QED BY <2>1, <2>4, <3>1
  <2>5. ASSUME NEW j \in 1..(n + 1), NEW k \in 1..(n + 1), j # k,
               out'[g][j] = out'[g][k]
        PROVE  out'[g][j] = upto[g] /\ upto[g] = since[g]
    <3>1. CASE j \in 1..n /\ k \in 1..n
      BY <1>2, <2>3, <2>5, <3>1 DEF TwiceAtSeam
    <3>2. CASE j = n + 1 /\ k \in 1..n
      BY <2>3, <2>4, <2>5, <3>2
    <3>3. CASE j \in 1..n /\ k = n + 1
      BY <2>3, <2>4, <2>5, <3>3
    <3>4. (j \in 1..n \/ j = n + 1) /\ (k \in 1..n \/ k = n + 1)
      BY <2>1
    <3> QED BY <2>5, <3>1, <3>2, <3>3, <3>4
  <2> HIDE DEF n
  <2>6. UNCHANGED <<upto, since>>
    BY <1>1
  <2> QED BY <2>3, <2>5, <2>6 DEF TwiceAtSeam
<1> QED BY <1>1, <1>3, <1>4

LEMMA TwiceStep ==
  ASSUME Inductive, ReplaysAreWhole, WalksAreWhole, TwiceOnlyAtTheSeam,
         Inductive', ReplaysAreWhole', [Next]_vars
  PROVE  TwiceOnlyAtTheSeam'
<1> SUFFICES ASSUME NEW g \in Fds PROVE TwiceAtSeam(g)'
  BY DEF TwiceOnlyAtTheSeam, TwiceAtSeam
<1>0. TypeOK /\ TypeOK' /\ TwiceAtSeam(g)
  BY DEF Inductive, TwiceOnlyAtTheSeam, TwiceAtSeam
<1>1. ASSUME out'[g] = out[g], upto'[g] = upto[g], since'[g] = since[g]
      PROVE  TwiceAtSeam(g)'
  BY <1>0, <1>1 DEF TwiceAtSeam
<1>2. ASSUME Unheard(g)' \/ Catching(g)' PROVE TwiceAtSeam(g)'
  <2>1. out'[g] = <<>> \/ IsInjective(out'[g])
    BY <1>2 DEF ReplaysAreWhole, ReplayIsWhole
  <2>2. out'[g] \in Seq(Nat)
    BY <1>0 DEF TypeOK
  <2>3. \A j, k \in 1..Len(out'[g]) : out'[g][j] = out'[g][k] => j = k
    BY <2>1, <2>2, OnceIsSafe
  <2> QED BY <2>3 DEF TwiceAtSeam
<1>3. CASE SenderSend
  BY <1>3, SendTwice
<1>4. CASE \/ SenderDequeue \/ SenderAppend \/ SenderLock
           \/ SenderSkip \/ SenderMark \/ SenderUnlock
  BY <1>1, <1>4, SenderKeeps DEF Kept
<1>5. ASSUME NEW fd \in Fds, Listener(fd) \/ \E hello \in Hello : Accept(fd, hello)
      PROVE  TwiceAtSeam(g)'
  <2>1. CASE g # fd
    BY <1>0, <1>1, <1>5, <2>1, ListenerKeeps DEF Kept
  <2>2. CASE g = fd /\ Refuse(fd)
    <3>1. out[g] = <<>> /\ (out'[g] = <<>> \/ out'[g] = <<0>>)
      BY <1>0, <2>2, SendKeeps DEF Refuse, ReplaysAreWhole, ReplayIsWhole, Unheard
    <3> QED BY <3>1 DEF TwiceAtSeam
  <2>3. CASE g = fd /\ Register(fd)
    <3>1. IsInjective(out[g]) /\ out' = out
      BY <2>3 DEF Register, netVars, ReplaysAreWhole, ReplayIsWhole, Catching
    <3>2. out[g] \in Seq(Nat)
      BY <1>0 DEF TypeOK
    <3>3. \A j, k \in 1..Len(out[g]) : out[g][j] = out[g][k] => j = k
      BY <3>1, <3>2, OnceIsSafe
    <3> QED BY <3>1, <3>3 DEF TwiceAtSeam
  <2>4. CASE g = fd /\ (Receive(fd) \/ ReceivePartial(fd) \/ Leave(fd))
    BY <1>1, <2>4 DEF Receive, ReceivePartial, Leave, netVars, history
  <2>5. CASE g = fd /\ ~(Refuse(fd) \/ Register(fd) \/ Receive(fd)
                         \/ ReceivePartial(fd) \/ Leave(fd))
    <3>1. Unheard(g)' \/ Catching(g)'
      <4> USE <2>5, <1>0 DEF TypeOK, Goto, Unheard, Catching
      <4>1. CASE \E hello \in Hello : Accept(fd, hello)
        BY <4>1 DEF Accept
      <4>2. CASE Handshake(fd) \/ Greet(fd) \/ Close(fd)
        BY <4>2 DEF Handshake, Greet, Close
      <4>3. CASE ReplayBegin(fd) \/ ReplayStep(fd) \/ ReplayEnd(fd)
        BY <4>3 DEF ReplayBegin, ReplayStep, ReplayEnd, Replaying
      <4> QED BY <1>5, <4>1, <4>2, <4>3 DEF Listener
    <3> QED BY <1>2, <3>1
  <2> QED BY <2>1, <2>2, <2>3, <2>4, <2>5
<1>6. CASE \E fd \in Fds : Peer(fd)
  BY <1>0, <1>1, <1>6, PeerKeeps DEF Kept
<1>7. CASE (\E fd \in Fds : SigPipe(fd) \/ RecvHeaderFails(fd)) \/ UNCHANGED vars
  BY <1>1, <1>7, EndKeeps DEF Kept
<1> QED
  BY <1>3, <1>4, <1>5, <1>6, <1>7 DEF Next, Sender

-----------------------------------------------------------------------------
(* The theorems about delivery. *)

\* The initial states satisfy the inductive invariant, and every step
\* preserves it.
LEMMA DeliveryInit == Init => Delivery
<1> SUFFICES ASSUME Init PROVE Delivery
  OBVIOUS
<1>1. SenderHoldsTail
  BY DEF Init, SenderHoldsTail
<1>2. ReplaysAreWhole
  BY DEF Init, ReplaysAreWhole, ReplayIsWhole, Unheard, Catching, Replaying, Registered
<1>3. WalksAreWhole
  BY DEF Init, WalksAreWhole, WalkIsWhole, Registered
<1>4. TwiceOnlyAtTheSeam
  BY DEF Init, TwiceOnlyAtTheSeam
<1> QED BY <1>1, <1>2, <1>3, <1>4 DEF Delivery

LEMMA DeliveryStep ==
  Inductive /\ Inductive' /\ Delivery /\ [Next]_vars => Delivery'
<1> SUFFICES ASSUME Inductive, Inductive', Delivery, [Next]_vars PROVE Delivery'
  OBVIOUS
<1> USE DEF Delivery
<1>1. SenderHoldsTail'
  BY HoldsTailStep DEF Inductive
<1>2. ReplaysAreWhole'
  BY ReplaysStep
<1>3. WalksAreWhole'
  BY WalksStep
<1>4. TwiceOnlyAtTheSeam'
  BY <1>2, TwiceStep
<1> QED BY <1>1, <1>2, <1>3, <1>4

\* Replays and walks together deliver: it holds in every behaviour of the
\* server, for every table of clients and any number of descriptors,
\* connections and messages.
THEOREM DeliveryInvariance == Spec => []Delivery
BY InductiveInvariance, DeliveryInit, DeliveryStep, PTL DEF Spec

\* A connection is sent no message twice, but the last of its replay when
\* nothing was logged between the replay and the registration.
THEOREM SeamTheorem == Spec => []TwiceOnlyAtTheSeam
<1>1. Delivery => TwiceOnlyAtTheSeam
  BY DEF Delivery
<1> QED BY DeliveryInvariance, <1>1, PTL

\* A registered connection whose peer is present was sent all its replay covers
\* and all that was logged since its registration and walked.
THEOREM WindowTheorem == Spec => []OnlyTheWindowIsMissed
<1>1. Delivery => OnlyTheWindowIsMissed
  <2> SUFFICES ASSUME Delivery, NEW fd \in Fds, Registered(fd), Present(fd),
                      NEW p \in 1..Len(log)
               PROVE  /\ p > since[fd] /\ Owed(p, fd) => WasSent(p, fd)
                      /\ p \in from[fd]..upto[fd] /\ log[p].id # clientId[fd]
                           => WasSent(p, fd)
    BY DEF OnlyTheWindowIsMissed
  <2>1. p > since[fd] /\ Owed(p, fd) => WasSent(p, fd)
    BY DEF Delivery, WalksAreWhole, WalkIsWhole
  <2>2. Covered(fd, from[fd], upto[fd])
    BY DEF Delivery, ReplaysAreWhole, ReplayIsWhole
  <2>3. p \in from[fd]..upto[fd] => from[fd] <= p /\ p <= upto[fd]
    OBVIOUS
  <2> QED BY <2>1, <2>2, <2>3 DEF Covered
<1> QED BY DeliveryInvariance, <1>1, PTL

-----------------------------------------------------------------------------
(* What the log says of the clients. *)

\* What was announced or said, in the order of the log: the log, what the
\* sender has in hand and the queue.
Held == IF senderPc = "append" THEN <<senderMsg>> ELSE <<>>
Events == (log \o Held) \o queue

Speaking(i) == {fd \in Fds : Greeted(fd) /\ clientId[fd] = i}

\* How often m is among the first p of s.
Times(s, m, p) == Cardinality({q \in 1..p : s[q] = m})

\* Each prefix of s has no more DCONs than CONNs of i, and more CONNs before a
\* DATA.
WellSpoken(s, i) ==
  \A p \in 1..Len(s) :
    /\ Times(s, Msg("DCON", i), p) <= Times(s, Msg("CONN", i), p)
    /\ s[p] = Msg("DATA", i) => Times(s, Msg("DCON", i), p) < Times(s, Msg("CONN", i), p)

\* All of s leaves at least n connections of i.
Leaves(s, i, n) ==
  Times(s, Msg("CONN", i), Len(s)) >= Times(s, Msg("DCON", i), Len(s)) + n

\* A connection that can speak was announced, and its DCON was not.
SpeechIsAnnounced ==
  \A i \in Known :
    /\ IsFiniteSet(Speaking(i))
    /\ WellSpoken(Events, i) /\ Leaves(Events, i, Cardinality(Speaking(i)))

\* A listener that has greeted its peer finds no message of another id.
InboxIsOwn(fd) ==
  /\ listener[fd] = "handshake" => Len(inbox[fd]) <= 1
  /\ listener[fd] \in {"refuse", "greet"} => inbox[fd] = <<>>
  /\ Greeted(fd) => \A k \in 1..Len(inbox[fd]) : inbox[fd][k].id = clientId[fd]

InboxesAreOwn == \A fd \in Fds : InboxIsOwn(fd)

LEMMA TimesType ==
  ASSUME NEW s, NEW m, NEW p \in Nat
  PROVE  /\ IsFiniteSet({q \in 1..p : s[q] = m})
         /\ Times(s, m, p) \in Nat
<1>1. IsFiniteSet(1..p)
  BY FS_Interval
<1>2. {q \in 1..p : s[q] = m} \in SUBSET (1..p)
  OBVIOUS
<1>3. IsFiniteSet({q \in 1..p : s[q] = m})
  BY <1>1, <1>2, FS_Subset
<1> QED BY <1>3, FS_CardinalityType DEF Times

\* What is appended counts once, and the prefixes stay.
LEMMA TimesAppend ==
  ASSUME NEW S, NEW s \in Seq(S), NEW e \in S, NEW m
  PROVE  /\ \A p \in 0..Len(s) : Times(Append(s, e), m, p) = Times(s, m, p)
         /\ Times(Append(s, e), m, Len(s) + 1)
              = Times(s, m, Len(s)) + (IF e = m THEN 1 ELSE 0)
<1> DEFINE t == Append(s, e)
<1>1. /\ Len(s) \in Nat /\ t[Len(s) + 1] = e
      /\ \A k \in 1..Len(s) : t[k] = s[k]
  BY AppendKeeps
<1> HIDE DEF t
<1>2. ASSUME NEW p \in 0..Len(s)
      PROVE  {q \in 1..p : t[q] = m} = {q \in 1..p : s[q] = m}
  BY <1>1
<1> DEFINE A == {q \in 1..Len(s) : s[q] = m}
           B == {q \in 1..(Len(s) + 1) : t[q] = m}
<1>3. IsFiniteSet(A) /\ Cardinality(A) \in Nat /\ Len(s) + 1 \notin A
  <2>1. IsFiniteSet(A) /\ Times(s, m, Len(s)) \in Nat
    BY <1>1, TimesType
  <2> QED BY <1>1, <2>1 DEF Times
<1>4. 1..(Len(s) + 1) = 1..Len(s) \cup {Len(s) + 1}
  BY <1>1
<1>5. CASE e = m
  <2>1. B = A \cup {Len(s) + 1}
    BY <1>1, <1>4, <1>5
  <2>2. Cardinality(B) = Cardinality(A) + 1
    <3> HIDE DEF A, B
    <3> QED BY <1>3, <2>1, FS_AddElement
  <2> QED BY <1>2, <1>5, <2>2 DEF Times, t
<1>6. CASE e # m
  <2>1. B = A
    BY <1>1, <1>4, <1>6
  <2>2. Cardinality(A) + 0 = Cardinality(A)
    <3> HIDE DEF A
    <3> QED BY <1>3
  <2> QED BY <1>2, <1>6, <2>1, <2>2 DEF Times, t
<1> QED BY <1>5, <1>6

\* What may be said: a CONN makes one connection more, a DCON takes one, a DATA
\* needs one.
LEMMA SpeechGrows ==
  ASSUME NEW i \in Nat, NEW s \in Seq(Message), NEW e \in Message,
         NEW n \in Nat, NEW k \in Nat,
         WellSpoken(s, i), Leaves(s, i, n),
         k <= n + (IF e = Msg("CONN", i) THEN 1 ELSE 0),
         e = Msg("DATA", i) => n > 0,
         e = Msg("DCON", i) => k < n
  PROVE  WellSpoken(Append(s, e), i) /\ Leaves(Append(s, e), i, k)
<1> DEFINE C == Msg("CONN", i)
           D == Msg("DCON", i)
           A == Msg("DATA", i)
           t == Append(s, e)
           l == Len(s)
<1>1. C # D /\ A # C /\ A # D
  BY DEF Msg
<1>2. l \in Nat /\ Len(t) = l + 1 /\ t[l + 1] = e /\ \A p \in 1..l : t[p] = s[p]
  BY AppendKeeps
<1>3. /\ \A p \in 0..l : Times(t, C, p) = Times(s, C, p) /\ Times(t, D, p) = Times(s, D, p)
      /\ Times(t, C, l + 1) = Times(s, C, l) + (IF e = C THEN 1 ELSE 0)
      /\ Times(t, D, l + 1) = Times(s, D, l) + (IF e = D THEN 1 ELSE 0)
  <2>1. ASSUME NEW m \in {C, D}
        PROVE  /\ \A p \in 0..l : Times(t, m, p) = Times(s, m, p)
               /\ Times(t, m, l + 1) = Times(s, m, l) + (IF e = m THEN 1 ELSE 0)
    BY TimesAppend
  <2> HIDE DEF t, l
  <2> QED BY <2>1
<1>4. Times(s, C, l) \in Nat /\ Times(s, D, l) \in Nat
  BY <1>2, TimesType
<1>5. Times(s, C, l) >= Times(s, D, l) + n
  BY DEF Leaves
<1>6. \A p \in 1..l : /\ Times(s, D, p) <= Times(s, C, p)
                      /\ s[p] = A => Times(s, D, p) < Times(s, C, p)
  BY DEF WellSpoken
<1> HIDE DEF C, D, A, t, l
<1>7. Times(t, C, l + 1) >= Times(t, D, l + 1) + k
  BY <1>1, <1>3, <1>4, <1>5 DEF C, D
<1>8. /\ Times(t, D, l + 1) <= Times(t, C, l + 1)
      /\ e = A => Times(t, D, l + 1) < Times(t, C, l + 1)
  BY <1>1, <1>3, <1>4, <1>5 DEF C, D, A
<1>9. ASSUME NEW p \in 1..(l + 1)
      PROVE  /\ Times(t, D, p) <= Times(t, C, p)
             /\ t[p] = A => Times(t, D, p) < Times(t, C, p)
  <2>1. CASE p = l + 1
    BY <1>2, <1>8, <2>1
  <2>2. CASE p \in 1..l
    BY <1>2, <1>3, <1>6, <2>2
  <2> QED BY <1>2, <2>1, <2>2
<1>10. WellSpoken(t, i)
  BY <1>2, <1>9 DEF WellSpoken, C, D, A
<1>11. Leaves(t, i, k)
  BY <1>2, <1>7 DEF Leaves, C, D
<1> QED BY <1>10, <1>11 DEF t

LEMMA EventsType ==
  ASSUME TypeOK
  PROVE  Held \in Seq(Message) /\ log \o Held \in Seq(Message) /\ Events \in Seq(Message)
<1>1. log \in Seq(Message) /\ queue \in Seq(Message) /\ senderMsg \in Message
  BY DEF TypeOK
<1>2. Held \in Seq(Message)
  BY <1>1 DEF Held
<1>3. log \o Held \in Seq(Message)
  BY <1>1, <1>2, ConcatProperties
<1> QED BY <1>1, <1>2, <1>3, ConcatProperties DEF Events

\* The sender moves messages from the queue to the log: all are where they were.
LEMMA SenderSaysNothing ==
  ASSUME TypeOK, Sender
  PROVE  Events' = Events
<1> USE DEF shared
<1>1. log \in Seq(Message) /\ queue \in Seq(Message) /\ senderMsg \in Message
  BY DEF TypeOK
<1>2. CASE SenderDequeue
  <2>1. /\ queue # <<>> /\ log' = log /\ queue' = Tail(queue)
        /\ Held = <<>> /\ Held' = <<Head(queue)>>
    BY <1>2 DEF SenderDequeue, Held
  <2>2. Head(queue) \in Message /\ Tail(queue) \in Seq(Message)
    BY <1>1, <2>1, HeadTailProperties
  <2>3. log \o <<>> = log
    BY <1>1, ConcatEmptySeq
  <2>4. (log \o <<Head(queue)>>) \o Tail(queue) = log \o (<<Head(queue)>> \o Tail(queue))
    <3>1. <<Head(queue)>> \in Seq(Message)
      BY <2>2
    <3> QED BY <1>1, <2>2, <3>1, ConcatAssociative
  <2>5. <<Head(queue)>> \o Tail(queue) = queue
    BY <1>1, <2>1, HeadAndTail
  <2> QED BY <2>1, <2>3, <2>4, <2>5, Zenon DEF Events
<1>3. CASE SenderAppend
  <2>1. /\ log' = Append(log, senderMsg) /\ queue' = queue
        /\ Held = <<senderMsg>> /\ Held' = <<>>
    BY <1>3 DEF SenderAppend, Held
  <2>2. Append(log, senderMsg) \in Seq(Message)
    BY <1>1, AppendProperties
  <2>3. Append(log, senderMsg) \o <<>> = Append(log, senderMsg)
    BY <2>2, ConcatEmptySeq
  <2>4. Append(log, senderMsg) = log \o <<senderMsg>>
    BY <1>1, AppendIsConcat
  <2> QED BY <2>1, <2>3, <2>4, Zenon DEF Events
<1>4. CASE SenderLock \/ SenderSkip \/ SenderSend \/ SenderMark \/ SenderUnlock
  <2>1. log' = log /\ queue' = queue /\ senderPc # "append" /\ senderPc' # "append"
    BY <1>4 DEF SenderLock, SenderSkip, SenderSend, SenderMark, SenderUnlock,
                AtConnection, AtClient
  <2> QED BY <2>1 DEF Events, Held
<1> QED BY <1>2, <1>3, <1>4 DEF Sender

\* A listener appends to the events.
LEMMA EnqueueSays ==
  ASSUME TypeOK, NEW m \in Message, Enqueue(m),
         UNCHANGED <<log, senderPc, senderMsg>>
  PROVE  Events' = Append(Events, m)
<1>1. Events' = (log \o Held) \o Append(queue, m)
  BY DEF Enqueue, Events, Held
<1>2. log \o Held \in Seq(Message) /\ queue \in Seq(Message)
  BY EventsType DEF TypeOK
<1>3. (log \o Held) \o Append(queue, m) = Append((log \o Held) \o queue, m)
  BY <1>2, ConcatAppend
<1> QED BY <1>1, <1>3 DEF Events

\* Nothing is said and nobody comes.
LEMMA SpeechKept ==
  ASSUME SpeechIsAnnounced, TypeOK, Events' = Events,
         \A i \in Known : Speaking(i)' \subseteq Speaking(i)
  PROVE  SpeechIsAnnounced'
<1> SUFFICES ASSUME NEW i \in Known
             PROVE  /\ IsFiniteSet(Speaking(i)')
                    /\ WellSpoken(Events, i)
                    /\ Leaves(Events, i, Cardinality(Speaking(i)'))
  BY DEF SpeechIsAnnounced
<1>1. /\ IsFiniteSet(Speaking(i)) /\ WellSpoken(Events, i)
      /\ Leaves(Events, i, Cardinality(Speaking(i)))
  BY DEF SpeechIsAnnounced
<1>2. /\ IsFiniteSet(Speaking(i)')
      /\ Cardinality(Speaking(i)') <= Cardinality(Speaking(i))
  BY <1>1, FS_Subset
<1>3. Cardinality(Speaking(i)') \in Nat /\ Cardinality(Speaking(i)) \in Nat
  BY <1>1, <1>2, FS_CardinalityType
<1>4. \A m : Times(Events, m, Len(Events)) \in Nat
  <2>1. Len(Events) \in Nat
    BY EventsType
  <2> QED BY <2>1, TimesType
<1> QED BY <1>1, <1>2, <1>3, <1>4 DEF Leaves

\* One message is said: a CONN by a connection that comes, a DATA by one that
\* stays, a DCON by one that goes.
LEMMA SpeechSaid ==
  ASSUME SpeechIsAnnounced, TypeOK, NEW m \in Message, Events' = Append(Events, m),
         NEW fd,
         \A i \in Known :
           /\ Speaking(i)' \subseteq Speaking(i) \cup {fd}
           /\ m # Msg("CONN", i) => Speaking(i)' \subseteq Speaking(i)
           /\ m = Msg("DATA", i) => fd \in Speaking(i)
           /\ m = Msg("DCON", i) => Speaking(i)' \subseteq Speaking(i) \ {fd} /\ fd \in Speaking(i)
  PROVE  SpeechIsAnnounced'
<1> SUFFICES ASSUME NEW i \in Known
             PROVE  /\ IsFiniteSet(Speaking(i)')
                    /\ WellSpoken(Append(Events, m), i)
                    /\ Leaves(Append(Events, m), i, Cardinality(Speaking(i)'))
  BY DEF SpeechIsAnnounced
<1> DEFINE A == Speaking(i)
<1>1. /\ IsFiniteSet(A) /\ WellSpoken(Events, i)
      /\ Leaves(Events, i, Cardinality(A))
  BY DEF SpeechIsAnnounced
<1>2. PICK B : B = Speaking(i)'
  OBVIOUS
<1>3. /\ B \subseteq A \cup {fd}
      /\ m # Msg("CONN", i) => B \subseteq A
      /\ m = Msg("DATA", i) => fd \in A
      /\ m = Msg("DCON", i) => B \subseteq A \ {fd} /\ fd \in A
  BY <1>2
<1> HIDE DEF A
<1>4. /\ IsFiniteSet(A \cup {fd}) /\ Cardinality(A \cup {fd}) <= Cardinality(A) + 1
      /\ IsFiniteSet(A \ {fd})
      /\ fd \in A => Cardinality(A \ {fd}) = Cardinality(A) - 1 /\ Cardinality(A) > 0
      /\ Cardinality(A) \in Nat
  <2>1. Cardinality(A) \in Nat /\ (Cardinality(A) = 0 <=> A = {})
    BY <1>1, FS_CardinalityType, FS_EmptySet
  <2>2. /\ IsFiniteSet(A \cup {fd})
        /\ Cardinality(A \cup {fd}) = IF fd \in A THEN Cardinality(A) ELSE Cardinality(A) + 1
    BY <1>1, FS_AddElement
  <2>3. /\ IsFiniteSet(A \ {fd})
        /\ Cardinality(A \ {fd}) = IF fd \in A THEN Cardinality(A) - 1 ELSE Cardinality(A)
    BY <1>1, FS_RemoveElement
  <2>4. fd \in A => A # {}
    OBVIOUS
  <2> QED BY <2>1, <2>2, <2>3, <2>4
<1>5. /\ IsFiniteSet(B) /\ Cardinality(B) <= Cardinality(A) + 1 /\ Cardinality(B) \in Nat
  <2>1. IsFiniteSet(B) /\ Cardinality(B) <= Cardinality(A \cup {fd})
    BY <1>3, <1>4, FS_Subset
  <2>2. Cardinality(B) \in Nat /\ Cardinality(A \cup {fd}) \in Nat
    BY <1>4, <2>1, FS_CardinalityType
  <2> QED BY <1>4, <2>1, <2>2
<1>6. m # Msg("CONN", i) => Cardinality(B) <= Cardinality(A)
  BY <1>1, <1>3, FS_Subset
<1>7. m = Msg("DCON", i) => Cardinality(B) < Cardinality(A)
  <2> SUFFICES ASSUME m = Msg("DCON", i) PROVE Cardinality(B) < Cardinality(A)
    OBVIOUS
  <2>1. Cardinality(B) <= Cardinality(A \ {fd})
    BY <1>3, <1>4, FS_Subset
  <2> QED BY <1>3, <1>4, <1>5, <2>1
<1>8. m = Msg("DATA", i) => Cardinality(A) > 0
  BY <1>3, <1>4
<1>9. Events \in Seq(Message) /\ i \in Nat
  BY EventsType, IdsAssumption DEF Known
<1>10. Cardinality(B) <= Cardinality(A) + (IF m = Msg("CONN", i) THEN 1 ELSE 0)
  BY <1>4, <1>5, <1>6
<1>11. WellSpoken(Append(Events, m), i) /\ Leaves(Append(Events, m), i, Cardinality(B))
  BY <1>1, <1>4, <1>5, <1>7, <1>8, <1>9, <1>10, SpeechGrows
<1> QED BY <1>2, <1>5, <1>11

\* Only the thread of a connection changes who speaks, and the events.
LEMMA SpeechStays ==
  ASSUME SpeechIsAnnounced, TypeOK,
         UNCHANGED <<log, queue, senderPc, senderMsg>>,
         \A g \in Fds : Greeted(g)' => Greeted(g) /\ clientId'[g] = clientId[g]
  PROVE  SpeechIsAnnounced'
<1>1. Events' = Events
  BY DEF Events, Held
<1>2. \A i \in Known : Speaking(i)' \subseteq Speaking(i)
  BY DEF Speaking
<1> QED BY <1>1, <1>2, SpeechKept

\* The greeting announces a connection that may speak.
LEMMA GreetSpeaks ==
  ASSUME SpeechIsAnnounced, TypeOK, ClientsAreKnown, NEW fd \in Fds, Greet(fd)
  PROVE  SpeechIsAnnounced'
<1> USE DEF senderVars
<1>1. clientId[fd] \in Nat
  BY DEF TypeOK
<1>2. PICK m : m = Msg("CONN", clientId[fd])
  OBVIOUS
<1>3. m \in Message /\ Enqueue(m) /\ UNCHANGED <<log, senderPc, senderMsg>>
  BY <1>1, <1>2, MsgType DEF Greet, Kind
<1>4. Events' = Append(Events, m)
  BY <1>3, EnqueueSays
<1>5. ASSUME NEW i \in Known
      PROVE  /\ Speaking(i)' \subseteq Speaking(i) \cup {fd}
             /\ m # Msg("CONN", i) => Speaking(i)' \subseteq Speaking(i)
             /\ m # Msg("DATA", i) /\ m # Msg("DCON", i)
  <2>1. listener' = [listener EXCEPT ![fd] = "catchup"] /\ clientId' = clientId
    BY DEF Greet, Goto
  <2>2. \A g \in Fds \ {fd} : Greeted(g)' = Greeted(g)
    BY <2>1 DEF TypeOK, Greeted
  <2>3. m # Msg("CONN", i) => clientId[fd] # i
    BY <1>2
  <2>4. m # Msg("DATA", i) /\ m # Msg("DCON", i)
    BY <1>2 DEF Msg
  <2> QED BY <2>1, <2>2, <2>3, <2>4 DEF Speaking
<1> QED BY <1>3, <1>4, <1>5, SpeechSaid

\* What is received is said by a connection that was announced.
LEMMA ReceiveSpeaks ==
  ASSUME SpeechIsAnnounced, TypeOK, InboxesAreOwn, NEW fd \in Fds, Receive(fd)
  PROVE  SpeechIsAnnounced'
<1> USE DEF senderVars
<1>1. PICK m : m = Head(inbox[fd])
  OBVIOUS
<1>2. m \in Message /\ m.id = clientId[fd]
  <2>1. inbox[fd] \in Seq(Message) /\ inbox[fd] # <<>> /\ Greeted(fd)
    BY DEF TypeOK, Receive, Greeted
  <2>2. 1 \in 1..Len(inbox[fd]) /\ m = inbox[fd][1] /\ m \in Message
    BY <1>1, <2>1, TailKeeps, HeadTailProperties
  <2> QED BY <2>1, <2>2 DEF InboxesAreOwn, InboxIsOwn
<1>3. m = Msg(m.kind, clientId[fd])
  BY <1>2 DEF Message, Msg
<1>4. /\ UNCHANGED <<log, senderPc, senderMsg, clientId>>
      /\ Greeted(fd) /\ \A g \in Fds : Greeted(g)' => Greeted(g)
  BY DEF Receive, Goto, TypeOK, Greeted
<1>5. CASE m.kind = "CONN"
  BY <1>1, <1>4, <1>5, SpeechStays DEF Receive
<1>6. CASE m.kind # "CONN"
  <2>1. Enqueue(m) /\ m.kind # "CONN"
    BY <1>1, <1>6 DEF Receive
  <2>2. Events' = Append(Events, m)
    BY <1>2, <1>4, <2>1, EnqueueSays
  <2>3. m.kind = "DCON" => ~Greeted(fd)'
    BY <1>1 DEF Receive, Goto, TypeOK, Greeted
  <2>4. ASSUME NEW i \in Known
        PROVE  /\ Speaking(i)' \subseteq Speaking(i)
               /\ m = Msg("DATA", i) => fd \in Speaking(i)
               /\ m = Msg("DCON", i) => Speaking(i)' \subseteq Speaking(i) \ {fd} /\ fd \in Speaking(i)
    <3>1. Speaking(i)' \subseteq Speaking(i)
      BY <1>4 DEF Speaking
    <3>2. \A k : m = Msg(k, i) => m.kind = k /\ clientId[fd] = i
      BY <1>2 DEF Msg
    <3>3. clientId[fd] = i => fd \in Speaking(i)
      BY <1>4 DEF Speaking
    <3>4. ~Greeted(fd)' => fd \notin Speaking(i)'
      BY DEF Speaking
    <3> QED BY <2>3, <3>1, <3>2, <3>3, <3>4
  <2> QED BY <1>2, <2>2, <2>4, SpeechSaid
<1> QED BY <1>5, <1>6

\* A connection's messages are of its client: a handshake takes the one message
\* that came before it, and only a greeted peer sends another.
LEMMA InboxesStep ==
  ASSUME TypeOK, InboxesAreOwn, [Next]_vars
  PROVE  InboxesAreOwn'
<1> USE DEF InboxesAreOwn, InboxIsOwn, Greeted
<1>1. CASE UNCHANGED <<listener, clientId, inbox>>
  BY <1>1
<1>2. CASE Sender
  BY <1>1, <1>2 DEF Sender, SenderDequeue, SenderAppend, SenderLock, SenderSkip,
                    SenderSend, SenderMark, SenderUnlock, listenerVars, netVars
<1>3. ASSUME NEW fd \in Fds,
             \A g \in Fds \ {fd} : /\ listener'[g] = listener[g] /\ clientId'[g] = clientId[g]
                                   /\ inbox'[g] = inbox[g],
             InboxIsOwn(fd)'
      PROVE  InboxesAreOwn'
  BY <1>3
<1>4. ASSUME NEW fd \in Fds, NEW hello \in Hello, Accept(fd, hello)
      PROVE  InboxesAreOwn'
  <2>1. /\ listener' = [listener EXCEPT ![fd] = "handshake"]
        /\ inbox' = [inbox EXCEPT ![fd] = <<hello>>] /\ clientId' = clientId
    BY <1>4 DEF Accept, Goto
  <2>2. Len(<<hello>>) = 1
    OBVIOUS
  <2>3. InboxIsOwn(fd)'
    BY <2>1, <2>2 DEF TypeOK
  <2> QED BY <1>3, <2>1, <2>3 DEF TypeOK
<1>5. ASSUME NEW fd \in Fds, inbox[fd] # <<>>,
             inbox' = [inbox EXCEPT ![fd] = Tail(@)]
      PROVE  /\ Len(inbox[fd]) <= 1 => inbox'[fd] = <<>>
             /\ Len(inbox'[fd]) = Len(inbox[fd]) - 1
             /\ \A k \in 1..Len(inbox'[fd]) : inbox'[fd][k] = inbox[fd][k + 1]
             /\ \A g \in Fds \ {fd} : inbox'[g] = inbox[g]
             /\ Len(inbox[fd]) \in Nat
  <2>1. inbox[fd] \in Seq(Message) /\ inbox'[fd] = Tail(inbox[fd])
    BY <1>5 DEF TypeOK
  <2>2. /\ Tail(inbox[fd]) \in Seq(Message) /\ Len(Tail(inbox[fd])) = Len(inbox[fd]) - 1
        /\ \A k \in 1..(Len(inbox[fd]) - 1) : Tail(inbox[fd])[k] = inbox[fd][k + 1]
    BY <1>5, <2>1, TailKeeps
  <2>3. Len(Tail(inbox[fd])) = 0 => Tail(inbox[fd]) = <<>>
    <3>1. \A t \in Seq(Message) : Len(t) = 0 => t = <<>>
      OBVIOUS
    <3> QED BY <2>2, <3>1, Zenon
  <2>4. Len(inbox[fd]) \in Nat /\ Len(Tail(inbox[fd])) \in Nat
    BY <2>1, <2>2
  <2>5. \A g \in Fds \ {fd} : inbox'[g] = inbox[g]
    BY <1>5 DEF TypeOK
  <2> QED BY <2>1, <2>2, <2>3, <2>4, <2>5
<1>6. ASSUME NEW fd \in Fds, Handshake(fd)
      PROVE  InboxesAreOwn'
  <2>1. inbox'[fd] = <<>> /\ \A g \in Fds \ {fd} : inbox'[g] = inbox[g]
    BY <1>5, <1>6 DEF Handshake
  <2>2. /\ listener'[fd] \in {"greet", "refuse"}
        /\ \A g \in Fds \ {fd} : listener'[g] = listener[g] /\ clientId'[g] = clientId[g]
    BY <1>6 DEF Handshake, Goto, TypeOK
  <2> QED BY <1>3, <2>1, <2>2
<1>7. ASSUME NEW fd \in Fds, Refuse(fd) \/ Greet(fd)
      PROVE  InboxesAreOwn'
  <2>1. /\ inbox' = inbox /\ clientId' = clientId /\ inbox[fd] = <<>>
        /\ listener'[fd] \in {"close", "catchup"}
        /\ \A g \in Fds \ {fd} : listener'[g] = listener[g]
    BY <1>7 DEF Refuse, Greet, Goto, TypeOK
  <2> QED BY <1>3, <2>1
<1>8. ASSUME NEW fd \in Fds,
             ReplayBegin(fd) \/ ReplayStep(fd) \/ ReplayEnd(fd) \/ Register(fd) \/ Leave(fd)
      PROVE  InboxesAreOwn'
  <2>1. /\ inbox' = inbox /\ clientId' = clientId
        /\ listener'[fd] \notin {"handshake", "refuse", "greet"}
        /\ Greeted(fd)' => Greeted(fd)
        /\ \A g \in Fds \ {fd} : listener'[g] = listener[g]
    BY <1>8 DEF ReplayBegin, ReplayStep, ReplayEnd, Register, Leave, Replaying,
                AddConnection, RemoveConnection, Goto, TypeOK, netVars
  <2> QED BY <1>3, <2>1
<1>9. ASSUME NEW fd \in Fds, Receive(fd) \/ ReceivePartial(fd)
      PROVE  InboxesAreOwn'
  <2>1. /\ clientId' = clientId /\ listener[fd] = "recv" /\ listener'[fd] \in {"recv", "leave"}
        /\ inbox[fd] # <<>> /\ inbox' = [inbox EXCEPT ![fd] = Tail(@)]
        /\ \A g \in Fds \ {fd} : listener'[g] = listener[g]
    BY <1>9 DEF Receive, ReceivePartial, Goto, TypeOK
  <2>2. /\ Len(inbox'[fd]) = Len(inbox[fd]) - 1 /\ Len(inbox[fd]) \in Nat
        /\ \A k \in 1..Len(inbox'[fd]) : inbox'[fd][k] = inbox[fd][k + 1]
        /\ \A g \in Fds \ {fd} : inbox'[g] = inbox[g]
    BY <1>5, <2>1
  <2>3. \A k \in 1..Len(inbox'[fd]) : k + 1 \in 1..Len(inbox[fd])
    BY <2>2
  <2>4. \A k \in 1..Len(inbox[fd]) : inbox[fd][k].id = clientId[fd]
    BY <2>1
  <2>5. InboxIsOwn(fd)'
    BY <2>1, <2>2, <2>3, <2>4
  <2> QED BY <1>3, <2>1, <2>2, <2>5
<1>10. ASSUME NEW fd \in Fds, Close(fd)
      PROVE  InboxesAreOwn'
  <2>1. /\ listener'[fd] = "none"
        /\ \A g \in Fds \ {fd} : /\ listener'[g] = listener[g] /\ clientId'[g] = clientId[g]
                                 /\ inbox'[g] = inbox[g]
    BY <1>10 DEF Close, Goto, TypeOK
  <2> QED BY <1>3, <2>1
<1>11. ASSUME NEW fd \in Fds, NEW k \in Kind, Greeted(fd),
              UNCHANGED <<listener, clientId>>,
              inbox' = [inbox EXCEPT ![fd] = Append(@, Msg(k, clientId[fd]))]
      PROVE  InboxesAreOwn'
  <2>1. PICK m : m = Msg(k, clientId[fd])
    OBVIOUS
  <2>2. m \in Message /\ m.id = clientId[fd]
    <3>1. clientId[fd] \in Nat
      BY DEF TypeOK
    <3> QED BY <2>1, <3>1, MsgType DEF Msg
  <2>3. inbox[fd] \in Seq(Message)
    BY DEF TypeOK
  <2>4. inbox'[fd] = Append(inbox[fd], m) /\ \A g \in Fds \ {fd} : inbox'[g] = inbox[g]
    BY <1>11, <2>1 DEF TypeOK
  <2>5. /\ Len(Append(inbox[fd], m)) = Len(inbox[fd]) + 1 /\ Len(inbox[fd]) \in Nat
        /\ \A j \in 1..Len(inbox[fd]) : Append(inbox[fd], m)[j] = inbox[fd][j]
        /\ Append(inbox[fd], m)[Len(inbox[fd]) + 1] = m
    BY <2>2, <2>3, AppendKeeps
  <2>6. ASSUME NEW j \in 1..(Len(inbox[fd]) + 1)
        PROVE  Append(inbox[fd], m)[j].id = clientId[fd]
    <3>1. j \in 1..Len(inbox[fd]) \/ j = Len(inbox[fd]) + 1
      BY <2>5
    <3> QED BY <1>11, <2>2, <2>5, <3>1
  <2>7. InboxIsOwn(fd)'
    BY <1>11, <2>4, <2>5, <2>6
  <2> QED BY <1>3, <1>11, <2>4, <2>7
<1>12. ASSUME NEW fd \in Fds, Peer(fd)
      PROVE  InboxesAreOwn'
  <2>1. ASSUME NEW k \in SayKinds, PeerSay(fd, k)
        PROVE  InboxesAreOwn'
    <3>1. k \in Kind
      BY PeerAssumption DEF Kind
    <3> QED BY <1>11, <2>1, <3>1 DEF PeerSay, listenerVars
  <2>2. CASE PeerQuit(fd)
    BY <1>11, <2>2 DEF PeerQuit, listenerVars, Kind
  <2>3. CASE PeerVanish(fd)
    <3>1. UNCHANGED <<listener, clientId>>
      BY <2>3 DEF PeerVanish, listenerVars
    <3>2. CASE UNCHANGED inbox
      BY <1>1, <3>1, <3>2
    <3>3. CASE Greeted(fd) /\ inbox' = [inbox EXCEPT ![fd] = Append(@, Msg("PART", clientId[fd]))]
      <4>1. "PART" \in Kind
        BY DEF Kind
      <4> HIDE DEF InboxesAreOwn, InboxIsOwn, Greeted
      <4> QED BY <1>11, <3>1, <3>3, <4>1
    <3> QED BY <2>3, <3>2, <3>3 DEF PeerVanish
  <2>4. CASE PeerRead(fd)
    BY <1>1, <2>4 DEF PeerRead, listenerVars
  <2> QED BY <1>12, <2>1, <2>2, <2>3, <2>4 DEF Peer
<1>13. ASSUME NEW fd \in Fds, SigPipe(fd) \/ RecvHeaderFails(fd)
      PROVE  InboxesAreOwn'
  BY <1>1, <1>13 DEF SigPipe, RecvHeaderFails, listenerVars, netVars
<1>14. CASE UNCHANGED vars
  BY <1>1, <1>14 DEF vars, listenerVars, netVars
<1> QED
  BY <1>2, <1>4, <1>6, <1>7, <1>8, <1>9, <1>10, <1>12, <1>13, <1>14 DEF Next, Listener

LEMMA SpeechStep ==
  ASSUME TypeOK, ClientsAreKnown, InboxesAreOwn, SpeechIsAnnounced, [Next]_vars
  PROVE  SpeechIsAnnounced'
<1>1. CASE Sender
  <2>1. Events' = Events
    BY <1>1, SenderSaysNothing
  <2>2. \A i \in Known : Speaking(i)' \subseteq Speaking(i)
    BY <1>1, SocketFrame DEF Speaking, Greeted
  <2> QED BY <2>1, <2>2, SpeechKept
<1>2. CASE \/ \E fd \in Fds : Peer(fd) \/ SigPipe(fd) \/ RecvHeaderFails(fd)
           \/ UNCHANGED vars
  <2>1. UNCHANGED <<log, queue, senderPc, senderMsg>>
    BY <1>2 DEF Peer, PeerSay, PeerQuit, PeerVanish, PeerRead, SigPipe,
                RecvHeaderFails, shared, senderVars, vars
  <2>2. UNCHANGED <<listener, clientId>>
    BY <1>2, SocketFrame
  <2> QED BY <2>1, <2>2, SpeechStays DEF Greeted
<1>3. ASSUME NEW fd \in Fds, NEW hello \in Hello, Accept(fd, hello)
      PROVE  SpeechIsAnnounced'
  <2>1. /\ UNCHANGED <<log, queue, senderPc, senderMsg, clientId>>
        /\ \A g \in Fds : Greeted(g)' => Greeted(g)
    BY <1>3 DEF Accept, Goto, TypeOK, shared, senderVars, Greeted
  <2> QED BY <2>1, SpeechStays
<1>4. ASSUME NEW fd \in Fds, Handshake(fd) \/ Refuse(fd) \/ Close(fd)
      PROVE  SpeechIsAnnounced'
  <2>1. /\ UNCHANGED <<log, queue, senderPc, senderMsg>>
        /\ ~Greeted(fd)' /\ ~Greeted(fd)
        /\ \A g \in Fds \ {fd} : listener'[g] = listener[g] /\ clientId'[g] = clientId[g]
    <3>1. CASE Handshake(fd)
      BY <3>1 DEF Handshake, Goto, TypeOK, shared, senderVars, Greeted
    <3>2. CASE Refuse(fd)
      BY <3>2 DEF Refuse, Goto, TypeOK, shared, senderVars, Greeted
    <3>3. CASE Close(fd)
      BY <3>3 DEF Close, Goto, TypeOK, shared, senderVars, Greeted
    <3> QED BY <1>4, <3>1, <3>2, <3>3, Zenon
  <2>2. \A g \in Fds : Greeted(g)' => Greeted(g) /\ clientId'[g] = clientId[g]
    BY <2>1 DEF Greeted
  <2> QED BY <2>1, <2>2, SpeechStays
<1>5. ASSUME NEW fd \in Fds,
             ReplayBegin(fd) \/ ReplayStep(fd) \/ ReplayEnd(fd) \/ Register(fd)
      PROVE  SpeechIsAnnounced'
  <2>1. /\ UNCHANGED <<log, queue, senderPc, senderMsg, clientId>>
        /\ \A g \in Fds : Greeted(g)' => Greeted(g)
    BY <1>5 DEF ReplayBegin, ReplayStep, ReplayEnd, Register, Replaying, AddConnection,
                Goto, TypeOK, shared, senderVars, Greeted
  <2> QED BY <2>1, SpeechStays
<1>6. ASSUME NEW fd \in Fds, ReceivePartial(fd) \/ Leave(fd)
      PROVE  SpeechIsAnnounced'
  <2>1. /\ UNCHANGED <<log, queue, senderPc, senderMsg, clientId>>
        /\ \A g \in Fds : Greeted(g)' => Greeted(g)
    BY <1>6 DEF ReceivePartial, Leave, RemoveConnection,
                Goto, TypeOK, shared, senderVars, Greeted
  <2> QED BY <2>1, SpeechStays
<1> QED
  BY <1>1, <1>2, <1>3, <1>4, <1>5, <1>6, GreetSpeaks, ReceiveSpeaks DEF Next, Listener

Speech == InboxesAreOwn /\ SpeechIsAnnounced

LEMMA SpeechInit == Init => Speech
<1> SUFFICES ASSUME Init PROVE Speech
  OBVIOUS
<1>1. InboxesAreOwn
  BY DEF Init, InboxesAreOwn, InboxIsOwn, Greeted
<1>2. ASSUME NEW i \in Known
      PROVE  /\ IsFiniteSet(Speaking(i))
             /\ WellSpoken(Events, i) /\ Leaves(Events, i, Cardinality(Speaking(i)))
  <2>1. Speaking(i) = {}
    BY DEF Init, Speaking, Greeted
  <2>2. IsFiniteSet(Speaking(i)) /\ Cardinality(Speaking(i)) = 0
    BY <2>1, FS_EmptySet
  <2>3. Events = <<>> /\ Len(Events) = 0
    BY DEF Init, Events, Held
  <2>4. WellSpoken(Events, i)
    BY <2>3 DEF WellSpoken
  <2>5. \A m : Times(Events, m, 0) = 0
    <3>1. ASSUME NEW m PROVE Times(Events, m, 0) = 0
      <4>1. {q \in 1..0 : Events[q] = m} = {}
        OBVIOUS
      <4> QED BY <4>1, FS_EmptySet DEF Times
    <3> QED BY <3>1
  <2> QED BY <2>2, <2>3, <2>4, <2>5 DEF Leaves
<1> QED BY <1>1, <1>2 DEF Speech, SpeechIsAnnounced

LEMMA SpeechInvariance == Spec => []Speech
<1>1. Inductive /\ Speech /\ [Next]_vars => Speech'
  BY InboxesStep, SpeechStep DEF Inductive, Speech
<1> QED BY InductiveInvariance, SpeechInit, <1>1, PTL DEF Spec

\* In the log a client speaks only while connected, whatever the order in which
\* the listeners of its connections and of others come to the queue.
THEOREM SpeechTheorem == Spec => []SpeaksWhileConnected
<1>1. Inductive /\ Speech => SpeaksWhileConnected
  <2> SUFFICES ASSUME TypeOK, SpeechIsAnnounced, NEW i \in Known, NEW p \in 1..Len(log)
               PROVE  LET joins == Cardinality(Logged(Msg("CONN", i), p))
                          parts == Cardinality(Logged(Msg("DCON", i), p))
                      IN /\ parts <= joins
                         /\ log[p] = Msg("DATA", i) => parts < joins
    BY DEF Inductive, Speech, SpeaksWhileConnected
  <2>1. /\ log \in Seq(Message) /\ Held \in Seq(Message) /\ queue \in Seq(Message)
        /\ log \o Held \in Seq(Message)
    BY EventsType DEF TypeOK
  <2>2. Len(Events) = (Len(log) + Len(Held)) + Len(queue)
    BY <2>1, ConcatProperties DEF Events
  <2>3. /\ Len(log) \in Nat /\ Len(Held) \in Nat /\ Len(queue) \in Nat
        /\ Len(log \o Held) = Len(log) + Len(Held)
    BY <2>1, ConcatProperties
  <2>4. ASSUME NEW q \in 1..Len(log) PROVE Events[q] = log[q]
    <3>1. (log \o Held)[q] = log[q]
      BY <2>1, <2>3, ConcatProperties
    <3>2. q \in 1..(Len(log \o Held) + Len(queue)) /\ q <= Len(log \o Held)
      BY <2>3
    <3>3. ((log \o Held) \o queue)[q] = (log \o Held)[q]
      BY <2>1, <3>2, ConcatProperties
    <3> QED BY <3>1, <3>3 DEF Events
  <2>5. \A m : Cardinality(Logged(m, p)) = Times(Events, m, p)
    <3>1. ASSUME NEW m PROVE Logged(m, p) = {q \in 1..p : Events[q] = m}
      BY <2>3, <2>4 DEF Logged
    <3> QED BY <3>1 DEF Times
  <2>6. p \in 1..Len(Events)
    BY <2>2, <2>3
  <2>7. WellSpoken(Events, i)
    BY DEF SpeechIsAnnounced
  <2>8. /\ Times(Events, Msg("DCON", i), p) <= Times(Events, Msg("CONN", i), p)
        /\ log[p] = Msg("DATA", i)
             => Times(Events, Msg("DCON", i), p) < Times(Events, Msg("CONN", i), p)
    BY <2>4, <2>6, <2>7 DEF WellSpoken
  <2> QED BY <2>5, <2>8
<1> QED BY InductiveInvariance, SpeechInvariance, <1>1, PTL

=============================================================================
