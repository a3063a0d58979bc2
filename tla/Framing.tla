------------------------------ MODULE Framing ------------------------------
(***************************************************************************)
(* Messages as bytes: a1/message.c makes, marshals and unmarshals them,    *)
(* a1/message_net.c moves them through the two sockets a line of chat      *)
(* takes.  A client that types sends "up" to the server, and the server    *)
(* sends "down" to a client that listens.  send() and recv() take all or a *)
(* piece of what they are offered; recv() on a connection that was closed  *)
(* returns 0, which changes nothing in its loop.                           *)
(*                                                                         *)
(* The job queue and the log between the hops are a queue (ChatServer has  *)
(* the threads); the text of a line is the numbers of its characters.      *)
(***************************************************************************)
EXTENDS Integers, Sequences, FiniteSets, SequencesExt

CONSTANTS
  MaxLen,     \* MESG_MAX_LEN
  DiscardLen, \* the size of discard_buf
  Typist,     \* the id of the client that types
  Oversize,   \* lengths of payloads of a peer that does not cut them
  Faults,     \* what happens to connections: "close", "reset"
  LineLens,   \* bound: how many characters a line has
  Pieces,     \* bound: how many bytes send() or recv() take, if not all
  MaxLines,   \* bound: lines typed in a behaviour
  MaxFailed   \* bound: connections that fail in a behaviour

\* The largest uint16_t, and the largest int: recv_payload() keeps the length
\* of a payload in one.
MaxShort == 65535
MaxInt == 2147483647

ASSUME FramingAssumption ==
  /\ MaxLen \in 1..MaxInt /\ DiscardLen \in Nat \ {0}
  /\ Typist \in 1..MaxShort
  /\ Oversize \subseteq 1..MaxInt
  /\ Faults \subseteq {"close", "reset"}
  /\ LineLens \subseteq Nat /\ Pieces \subseteq Nat \ {0}
  /\ MaxLines \in Nat /\ MaxFailed \in Nat

Hops == {"up", "down"}
HeaderLen == 8
DATA == 0
CONN == 1
DCON == 2

VARIABLES
  input,     \* the input of the typist: "open" or "ended"
  todo,      \* hop -> messages to be sent
  out,       \* hop -> bytes of mesg_bytes that are still to be sent
  wire,      \* hop -> bytes in the connection
  link,      \* hop -> "up", "closed" by its sender, "reset", or "lost": both
  pc,        \* hop -> where its receiver is
  buf,       \* hop -> recv_buf, or the payload as far as it has come
  recvd,     \* hop -> recvd
  msg,       \* hop -> m, with the length of the header
  typed,     \* history: the texts typed
  sent,      \* history: hop -> messages whose send began
  received   \* history: hop -> messages handed to the receiver's caller

senders == <<input, todo, out>>
receivers == <<pc, buf, recvd, msg>>
vars == <<senders, wire, link, receivers, typed, sent, received>>

-----------------------------------------------------------------------------
(* message.c *)

Least(a, b) == IF a < b THEN a ELSE b
Skip(s, n) == SubSeq(s, n + 1, Len(s))

\* What send() or recv() may return when offered n bytes.
Taken(n) == {k \in Pieces \cup {n} : k \in 1..n}

Header(length, id, kind) == [id |-> id, kind |-> kind, length |-> length, payload |-> <<>>]

\* create_message(): the payload is cut, and its last byte is made the
\* terminator whatever it was.
Message(length, id, kind, bytes) ==
  LET n == Least(length, MaxLen)
  IN [id |-> id, kind |-> kind, length |-> n,
      payload |-> [SubSeq(bytes, 1, n) EXCEPT ![n] = 0]]

\* Mutant: a byte takes all of what is above the lower one.
HtonsUncut(n) == <<n \div 256, n>>

\* A number of 16 or 32 bits in network order, and the number of such bytes.
Htons(n) == <<(n \div 256) % 256, n % 256>>
Htonl(n) ==
  <<(n \div 16777216) % 256, (n \div 65536) % 256, (n \div 256) % 256, n % 256>>
Ntohs(b) == 256 * b[1] + b[2]
Ntohl(b) == 16777216 * b[1] + 65536 * b[2] + 256 * b[3] + b[4]

Marshal(m) == Htons(m.id) \o Htons(m.kind) \o Htonl(m.length) \o m.payload

\* Mutant: the length is taken in the order of a little-endian host.
UnmarshalHostOrder(b) ==
  Header(Ntohl(Reverse(SubSeq(b, 5, 8))), Ntohs(SubSeq(b, 1, 2)), Ntohs(SubSeq(b, 3, 4)))

\* message_unmarshal_header()
Unmarshal(b) ==
  Header(Ntohl(SubSeq(b, 5, 8)), Ntohs(SubSeq(b, 1, 2)), Ntohs(SubSeq(b, 3, 4)))

-----------------------------------------------------------------------------
(* What is sent. *)

\* The first n characters of any line: a terminator is none of them.
Text(n) == [i \in 1..n |-> 1 + ((i - 1) % 255)]
\* The texts of refusals: a string literal with its terminator.
Refusal == Message(2, 0, DCON, <<7, 0>>)
Accepted == todo["down"] # <<Refusal>> /\ sent["down"] # <<Refusal>>

Init ==
  /\ input = "open"
  /\ \E reply \in {Header(0, 0, CONN), Refusal} :
       todo = [h \in Hops |-> <<IF h = "up" THEN Header(0, Typist, CONN) ELSE reply>>]
  /\ out = [h \in Hops |-> <<>>]
  /\ wire = [h \in Hops |-> <<>>]
  /\ link = [h \in Hops |-> "up"]
  /\ pc = [h \in Hops |-> "header"]
  /\ buf = [h \in Hops |-> <<>>]
  /\ recvd = [h \in Hops |-> 0]
  /\ msg = [h \in Hops |-> Header(0, 0, DATA)]
  /\ typed = <<>>
  /\ sent = [h \in Hops |-> <<>>]
  /\ received = [h \in Hops |-> <<>>]

\* The client's sender thread is in getline().
AtInput ==
  /\ input = "open" /\ link["up"] = "up"
  /\ todo["up"] = <<>> /\ out["up"] = <<>>
  /\ Len(typed) < MaxLines

\* What the listening client shows of a line of n characters and perhaps a
\* newline: room for a terminator is made at the cost of the last character.
Shown(n, newline) == Text(Least(n + newline, MaxLen) - 1)

\* Mutant: the newline is taken off the length as well.
TypeChopping(n, newline) ==
  /\ AtInput /\ n + newline > 0
  /\ todo' = [todo EXCEPT !["up"] = <<Message(n, Typist, DATA, Text(n) \o <<0>>)>>]
  /\ typed' = Append(typed, Shown(n, newline))
  /\ input' = IF newline = 1 THEN "open" ELSE "ended"
  /\ UNCHANGED <<out, wire, link, receivers, sent, received>>

\* A line: its newline is replaced by the terminator, and counts as its last
\* byte.  Only the last line of an input can be without.
Type(n, newline) ==
  /\ AtInput /\ n + newline > 0
  /\ todo' = [todo EXCEPT !["up"] =
                <<Message(n + newline, Typist, DATA, Text(n) \o <<0>>)>>]
  /\ typed' = Append(typed, Shown(n, newline))
  /\ input' = IF newline = 1 THEN "open" ELSE "ended"
  /\ UNCHANGED <<out, wire, link, receivers, sent, received>>

\* A line of a peer that is not client.c, of any length.
TypeUncut(n) ==
  /\ AtInput
  /\ todo' = [todo EXCEPT !["up"] =
                <<[id |-> Typist, kind |-> DATA, length |-> n,
                   payload |-> Text(n - 1) \o <<0>>]>>]
  /\ typed' = Append(typed, Text(Least(n, MaxLen) - 1))
  /\ UNCHANGED <<input, out, wire, link, receivers, sent, received>>

\* "<<quit>>"
Quit ==
  /\ AtInput
  /\ todo' = [todo EXCEPT !["up"] = <<Header(0, Typist, DCON)>>]
  /\ input' = "ended"
  /\ UNCHANGED <<out, wire, link, receivers, typed, sent, received>>

-----------------------------------------------------------------------------
(* send_message() *)

SendBegin(h) ==
  /\ out[h] = <<>> /\ todo[h] # <<>>
  /\ out' = [out EXCEPT ![h] = Marshal(Head(todo[h]))]
  /\ sent' = [sent EXCEPT ![h] = Append(@, Head(todo[h]))]
  /\ todo' = [todo EXCEPT ![h] = Tail(@)]
  /\ UNCHANGED <<input, wire, link, receivers, typed, received>>

SendBytes(h) ==
  /\ out[h] # <<>> /\ link[h] = "up"
  /\ \E n \in Taken(Len(out[h])) :
       /\ wire' = [wire EXCEPT ![h] = @ \o SubSeq(out[h], 1, n)]
       /\ out' = [out EXCEPT ![h] = Skip(@, n)]
  /\ UNCHANGED <<input, todo, link, receivers, typed, sent, received>>

\* send() returns -1, and the rest of the message is given up.
SendFails(h) ==
  /\ out[h] # <<>> /\ link[h] = "reset"
  /\ out' = [out EXCEPT ![h] = <<>>]
  /\ UNCHANGED <<input, todo, wire, link, receivers, typed, sent, received>>

Send(h) == SendBegin(h) \/ SendBytes(h) \/ SendFails(h)

-----------------------------------------------------------------------------
(* recv_header() and recv_payload() *)

\* What recv() may return when up to limit bytes are asked for.
Arrivals(h, limit) == Taken(Least(limit, Len(wire[h])))

Take(h, n) ==
  /\ wire' = [wire EXCEPT ![h] = Skip(@, n)]
  /\ recvd' = [recvd EXCEPT ![h] = @ + n]

RecvHeader(h) ==
  /\ pc[h] = "header"
  /\ \E n \in Arrivals(h, HeaderLen - recvd[h]) :
       /\ buf' = [buf EXCEPT ![h] = @ \o SubSeq(wire[h], 1, n)]
       /\ Take(h, n)
  /\ UNCHANGED <<senders, link, pc, msg, typed, sent, received>>

\* The caller gets m, and goes on to the next header or ends.
Hand(h, m, next) ==
  /\ received' = [received EXCEPT ![h] = Append(@, m)]
  /\ pc' = [pc EXCEPT ![h] = next]
  /\ buf' = [buf EXCEPT ![h] = <<>>]
  /\ recvd' = [recvd EXCEPT ![h] = 0]

\* What the server forwards to a client it has accepted and not closed: the
\* typist's arrival, its lines and its end.
Forward(h, m) ==
  IF h = "up" /\ Accepted /\ link["down"] \notin {"closed", "lost"}
  THEN todo' = [todo EXCEPT !["down"] = Append(@, m)]
  ELSE UNCHANGED todo

\* The payload is read of a DATA, and of the DCON that refuses a handshake.
HasPayload(h, m) ==
  \/ m.kind = DATA
  \/ h = "down" /\ m.kind = DCON /\ received[h] = <<>>

\* The loops end with the client's DCON, or with one of the server.
Ends(h, m) == m.kind = DCON /\ (h = "up" \/ m.id = 0)

HeaderDone(h) ==
  /\ pc[h] = "header" /\ recvd[h] = HeaderLen
  /\ LET m == Unmarshal(buf[h])
     IN IF HasPayload(h, m)
        THEN /\ msg' = [msg EXCEPT ![h] = m]
             /\ pc' = [pc EXCEPT ![h] = "payload"]
             /\ buf' = [buf EXCEPT ![h] = <<>>]
             /\ recvd' = [recvd EXCEPT ![h] = 0]
             /\ UNCHANGED <<received, todo>>
        ELSE /\ Hand(h, m, IF Ends(h, m) THEN "done" ELSE "header")
             /\ Forward(h, m)
             /\ UNCHANGED msg
  /\ UNCHANGED <<input, out, wire, link, typed, sent>>

\* Mutant: the cut is one byte too early.
KeptLess(h) == Least(msg[h].length, MaxLen - 1)

\* m->length, once it is cut.
Kept(h) == Least(msg[h].length, MaxLen)

RecvPayload(h) ==
  /\ pc[h] = "payload" /\ recvd[h] < Kept(h)
  /\ \E n \in Arrivals(h, Kept(h) - recvd[h]) :
       /\ buf' = [buf EXCEPT ![h] = @ \o SubSeq(wire[h], 1, n)]
       /\ Take(h, n)
  /\ UNCHANGED <<senders, link, pc, msg, typed, sent, received>>

\* Mutant: a whole buffer is discarded even if less belongs to the message.
DiscardWhole(h) ==
  /\ pc[h] = "payload" /\ recvd[h] >= Kept(h) /\ recvd[h] < msg[h].length
  /\ \E n \in Arrivals(h, DiscardLen) : Take(h, n)
  /\ UNCHANGED <<senders, link, pc, buf, msg, typed, sent, received>>

\* What is over MESG_MAX_LEN is read and thrown away.
Discard(h) ==
  /\ pc[h] = "payload" /\ recvd[h] >= Kept(h) /\ recvd[h] < msg[h].length
  /\ \E n \in Arrivals(h, Least(msg[h].length - recvd[h], DiscardLen)) : Take(h, n)
  /\ UNCHANGED <<senders, link, pc, buf, msg, typed, sent, received>>

PayloadDone(h) ==
  /\ pc[h] = "payload" /\ recvd[h] >= msg[h].length
  /\ LET m == Message(Kept(h), msg[h].id, msg[h].kind, buf[h])
     IN /\ Hand(h, m, IF Ends(h, m) THEN "done" ELSE "header")
        /\ Forward(h, m)
  /\ UNCHANGED <<input, out, wire, link, msg, typed, sent>>

\* recv() returns -1: NULL instead of a header, or an error from the payload.
RecvFails(h) ==
  /\ link[h] \in {"reset", "lost"} /\ pc[h] \in {"header", "payload"}
  /\ pc' = [pc EXCEPT ![h] = IF @ = "header" THEN "null" ELSE "failed"]
  /\ UNCHANGED <<senders, wire, link, buf, recvd, msg, typed, sent, received>>

Recv(h) ==
  \/ RecvHeader(h) \/ HeaderDone(h)
  \/ RecvPayload(h) \/ Discard(h) \/ PayloadDone(h) \/ RecvFails(h)

-----------------------------------------------------------------------------
(* The connections. *)

MayFail(h) == Cardinality({g \in Hops \ {h} : link[g] # "up"}) < MaxFailed

\* The sending program ends, perhaps in the middle of a message.
Close(h) ==
  /\ "close" \in Faults /\ MayFail(h) /\ link[h] = "up"
  /\ link' = [link EXCEPT ![h] = "closed"]
  /\ out' = [out EXCEPT ![h] = <<>>]
  /\ todo' = [todo EXCEPT ![h] = <<>>]
  /\ UNCHANGED <<input, wire, receivers, typed, sent, received>>

\* What had not been received is lost, of a closed connection too.
Reset(h) ==
  /\ "reset" \in Faults /\ MayFail(h) /\ link[h] \in {"up", "closed"}
  /\ link' = [link EXCEPT ![h] = IF @ = "up" THEN "reset" ELSE "lost"]
  /\ wire' = [wire EXCEPT ![h] = <<>>]
  /\ UNCHANGED <<senders, receivers, typed, sent, received>>

Next ==
  \/ \E n \in LineLens, newline \in 0..1 : Type(n, newline)
  \/ \E n \in Oversize : TypeUncut(n)
  \/ Quit
  \/ \E h \in Hops : Send(h) \/ Recv(h) \/ Close(h) \/ Reset(h)

Spec == Init /\ [][Next]_vars

\* The threads run, and the network delivers what it has not lost.  Every
\* behaviour is finite: that one of them runs while any can is enough.
Fairness == WF_vars(\E h \in Hops : Send(h) \/ Recv(h))

FairSpec == Spec /\ Fairness

-----------------------------------------------------------------------------
(* Properties. *)

Byte == 0..255
MessageType == [id : Nat, kind : Nat, length : Nat, payload : Seq(Byte)]

\* The variables hold what the declarations above say.
TypeOK ==
  /\ input \in {"open", "ended"}
  /\ todo \in [Hops -> Seq(MessageType)]
  /\ out \in [Hops -> Seq(Byte)] /\ wire \in [Hops -> Seq(Byte)]
  /\ link \in [Hops -> {"up", "closed", "reset", "lost"}]
  /\ pc \in [Hops -> {"header", "payload", "done", "null", "failed"}]
  /\ buf \in [Hops -> Seq(Byte)] /\ recvd \in [Hops -> Nat]
  /\ msg \in [Hops -> MessageType]
  /\ typed \in Seq(Seq(Byte))
  /\ sent \in [Hops -> Seq(MessageType)] /\ received \in [Hops -> Seq(MessageType)]

\* Bytes sent on a hop that no receiver has used up, from the message on that
\* is being received.
Unfinished(h) ==
  FlattenSeq([k \in 1..(Len(sent[h]) - Len(received[h])) |->
                Marshal(sent[h][Len(received[h]) + k])])
Consumed(h) == recvd[h] + IF pc[h] = "payload" THEN HeaderLen ELSE 0

\* However the bytes are split by send() and recv(), the receiver is in the
\* message the sender meant: what is in the connection and in mesg_bytes is
\* what is left of the messages from that one on, so that every header is read
\* at the first byte of a message, also behind a payload that was too long.
Aligned ==
  \A h \in Hops : link[h] = "up" =>
    wire[h] \o out[h] = Skip(Unfinished(h), Consumed(h))

\* A payload that is received has room for its terminator: the length of a
\* line counts its newline, and only messages with a line are read as such.
TerminatorInBuffer == \A h \in Hops : pc[h] = "payload" => msg[h].length > 0

\* What the listening client shows of the messages it is handed.
TextOf(m) == SubSeq(m.payload, 1, m.length - 1)
ShownOf(ms) ==
  FlattenSeq([k \in 1..Len(ms) |->
                IF ms[k].kind = DATA THEN <<TextOf(ms[k])>> ELSE <<>>])

Abstract == INSTANCE Channel WITH
  Texts <- {Text(n) : n \in 0..(MaxLen - 1)},
  shown <- ShownOf(received["down"])

\* Both hops together carry the lines that were typed to the client that
\* shows them, in order and each as a whole, also when one of the connections
\* fails or a program ends in the middle of a message.
ImplementsChannel == Abstract!Spec

\* What is sent is received in the end, unless the connection fails.
EverythingArrives ==
  \A h \in Hops :
    (Len(received[h]) < Len(sent[h]))
      ~> (Len(received[h]) = Len(sent[h]) \/ link[h] # "up")

=============================================================================
