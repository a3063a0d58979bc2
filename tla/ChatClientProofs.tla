-------------------------- MODULE ChatClientProofs --------------------------
(***************************************************************************)
(* Proofs about ChatClient, for any lines, any number of addresses and any *)
(* conduct of the server: the client says hello first and goodbye last, it *)
(* crashes for the named reasons only, and main() tears nothing down that  *)
(* a thread still uses.                                                    *)
(***************************************************************************)
EXTENDS ChatClient, SequenceLemmas

-----------------------------------------------------------------------------
(* The inductive invariant. *)

\* main() before the handshake, and before it has created each thread.
Early == mainPc \in {"options", "connect", "hello"}
BeforeReceiver == Early \/ mainPc \in {"reply", "create_recv"}
BeforeSender == BeforeReceiver \/ mainPc = "create_send"

\* The server has said farewell.
Farewell == Contains(said, "GOODBYE")

\* A thread exists from its creation on, and main() leaves a join when the
\* thread it waits for has ended.
ThreadsFollowMain ==
  /\ recvPc = "none" <=> BeforeReceiver
  /\ sendPc = "none" <=> BeforeSender
  /\ mainPc \in {"join_send", "close"} => recvPc = "ended"
  /\ mainPc = "close" => sendPc = "ended"
  /\ link = "none" <=> mainPc \in {"options", "connect"}

\* What was sent is a CONN from the handshake on; a DCON, once it is sent, has
\* taken the sender thread out of its loop.
FarewellEndsLoop ==
  /\ wire = <<>> <=> Early
  /\ sendPc \in {"none", "getline", "send"} => \A k \in 1..Len(wire) : wire[k] # "DCON"
  /\ Running /\ sendPc = "send" => line \in Lines \cup {"DCON"}

\* The receiver leaves its loop by itself, or cancels the sender, only when the
\* server said farewell or the connection was reset.
FarewellHasCause ==
  /\ \A k \in 1..Len(inbox) : inbox[k] = "GOODBYE" => Farewell
  /\ recvPc = "cancel" => link = "reset" \/ Farewell
  /\ "send" \in cancelled => link = "reset" \/ Farewell

\* While the sender is in its loop, every line it took was sent but the one it
\* holds; what it fails to send later has a cause.
TypedIsSent ==
  /\ Early => typed = 0
  /\ sendPc = "none" /\ ~Early => Len(wire) = 1 /\ typed = 0
  /\ sendPc = "getline" => Len(wire) = 1 + typed
  /\ sendPc = "send" => Len(wire) = typed
  /\ sendPc \in {"cancel", "ended"} =>
       Len(wire) = 1 + typed \/ link # "open" \/ Farewell

Inductive ==
  /\ TypeOK /\ ThreadsFollowMain
  /\ FarewellEndsLoop /\ SpeaksInOrder
  /\ FarewellHasCause /\ CrashHasCause
  /\ TypedIsSent

-----------------------------------------------------------------------------
(* Types. *)

\* Every step keeps the types: a sender thread that sends holds a line.
LEMMA TypeStep == TypeOK /\ FarewellEndsLoop /\ [Next]_vars => TypeOK'
<1> SUFFICES ASSUME TypeOK, FarewellEndsLoop, [Next]_vars PROVE TypeOK'
  OBVIOUS
<1> USE DEF TypeOK, End
<1>1. ASSUME NEW o \in Required \cup {"file"}, NEW legal \in BOOLEAN, ReadOption(o, legal)
      PROVE  TypeOK'
  BY <1>1 DEF ReadOption, threads, net
<1>2. CASE ConnectFails
  BY <1>2, ClientAssumption DEF ConnectFails, threads, net
<1>3. CASE Resolve
  BY <1>3 DEF Resolve, threads, net
<1>4. CASE Connect
  BY <1>4 DEF Connect, threads
<1>5. CASE Hello
  <2>1. Append(wire, "CONN") \in Seq(Spoken)
    BY AppendKeeps DEF Spoken
  <2> QED BY <1>5, <2>1 DEF Hello, Sent, threads
<1>6. CASE Reply
  <2>1. inbox' \in Seq(Kinds)
    BY <1>6, TailKeeps DEF Reply
  <2> QED BY <1>6, <2>1 DEF Reply, threads
<1>7. CASE ReplyFails
  BY <1>7 DEF ReplyFails, threads, net
<1>8. CASE CreateThreads \/ Join \/ Finish
  <2>1. CASE CreateThreads
    BY <2>1 DEF CreateThreads, threads, net
  <2>2. CASE Join
    BY <2>2 DEF Join, threads, net
  <2>3. CASE Finish
    BY <2>3 DEF Finish, threads, net
  <2> QED BY <1>8, <2>1, <2>2, <2>3
<1>9. CASE Receive \/ ReceivePart
  <2>1. inbox' \in Seq(Kinds)
    <3>1. inbox # <<>> /\ inbox' = Tail(inbox)
      BY <1>9 DEF Receive, ReceivePart
    <3> QED BY <3>1, TailKeeps
  <2>2. recvPc' \in {"recv", "cancel"}
    BY <1>9 DEF Receive, ReceivePart
  <2>3. UNCHANGED <<status, mainPc, given, address, sendPc, cancelled, line, link, wire,
                    typed, said>>
    BY <1>9 DEF Receive, ReceivePart
  <2> QED BY <2>1, <2>2, <2>3
<1>10. CASE ReceiveFails \/ CancelSender \/ CancelNobody \/ ReceiverCancelled
  <2>1. CASE ReceiveFails \/ CancelNobody
    BY <2>1 DEF ReceiveFails, CancelNobody, threads, net
  <2>2. CASE CancelSender
    BY <2>2 DEF CancelSender, net
  <2>3. CASE ReceiverCancelled
    BY <2>3 DEF ReceiverCancelled, net
  <2> QED BY <1>10, <2>1, <2>2, <2>3
<1>11. ASSUME NEW l \in Lines \cup {"<<quit>>"}, GetLine(l)
       PROVE  TypeOK'
  BY <1>11, ClientAssumption DEF GetLine, net
<1>12. CASE Send
  <2>1. Append(wire, line) \in Seq(Spoken)
    BY <1>12, AppendKeeps DEF Send, FarewellEndsLoop, Spoken
  <2> QED BY <1>12, <2>1 DEF Send, Sent, SendFails, SigPipe
<1>13. CASE InputEnds \/ CancelReceiver \/ SenderCancelled
  <2>1. CASE InputEnds
    BY <2>1 DEF InputEnds, net
  <2>2. CASE CancelReceiver
    <3>1. /\ status' \in {"segv", status} /\ sendPc' \in {"ended", sendPc}
          /\ cancelled' \in {cancelled, {}, {"recv"}}
          /\ UNCHANGED <<mainPc, given, address, recvPc, line, net, typed>>
      BY <2>2 DEF CancelReceiver, End
    <3> QED BY <3>1 DEF net
  <2>3. CASE SenderCancelled
    BY <2>3 DEF SenderCancelled, net
  <2> QED BY <1>13, <2>1, <2>2, <2>3
<1>14. CASE ServerReplies \/ ServerSays
  <2>1. PICK k \in Kinds : inbox' = Append(inbox, k) /\ said' = Append(said, k)
    BY <1>14 DEF ServerReplies, ServerSays, Say, Kinds
  <2>2. inbox' \in Seq(Kinds) /\ said' \in Seq(Kinds)
    BY <2>1, AppendKeeps
  <2>3. UNCHANGED <<status, mainPc, given, address, threads, link, wire, typed>>
    BY <1>14 DEF ServerReplies, ServerSays, Say
  <2> QED BY <2>2, <2>3 DEF threads
<1>15. CASE LinkFails
  BY <1>15 DEF LinkFails, threads
<1>16. CASE UNCHANGED vars
  BY <1>16 DEF vars, threads, net
<1> QED
  BY <1>1, <1>2, <1>3, <1>4, <1>5, <1>6, <1>7, <1>8, <1>9, <1>10, <1>11, <1>12, <1>13,
     <1>14, <1>15, <1>16
     DEF Next, Main, Receiver, Sender

-----------------------------------------------------------------------------
(* Every step preserves the rest of the invariant. *)

\* main() and its threads: joins come after the ends, which are final.
LEMMA ThreadsStep == TypeOK /\ ThreadsFollowMain /\ [Next]_vars => ThreadsFollowMain'
<1> SUFFICES ASSUME TypeOK, ThreadsFollowMain, [Next]_vars PROVE ThreadsFollowMain'
  OBVIOUS
<1> USE DEF TypeOK, ThreadsFollowMain, BeforeSender, BeforeReceiver, Early, End
<1>1. ASSUME NEW o \in Required \cup {"file"}, NEW legal \in BOOLEAN, ReadOption(o, legal)
      PROVE  ThreadsFollowMain'
  BY <1>1 DEF ReadOption, threads, net
<1>2. CASE ConnectFails \/ Resolve \/ ReplyFails \/ Finish
  BY <1>2 DEF ConnectFails, Resolve, ReplyFails, Finish, threads, net
<1>3. CASE Connect \/ Reply
  BY <1>3 DEF Connect, Reply, threads
<1>4. CASE Hello
  BY <1>4 DEF Hello, Sent, threads
<1>5. CASE CreateThreads
  BY <1>5 DEF CreateThreads, net
<1>6. CASE Join
  BY <1>6 DEF Join, threads, net
<1>7. CASE Receive \/ ReceivePart
  BY <1>7 DEF Receive, ReceivePart
<1>8. CASE ReceiveFails \/ CancelSender \/ CancelNobody \/ ReceiverCancelled
  BY <1>8 DEF ReceiveFails, CancelSender, CancelNobody, ReceiverCancelled, threads, net
<1>9. ASSUME NEW l \in Lines \cup {"<<quit>>"}, GetLine(l)
      PROVE  ThreadsFollowMain'
  BY <1>9 DEF GetLine, net
<1>10. CASE Send
  BY <1>10 DEF Send, Sent, SendFails, SigPipe
<1>11. CASE InputEnds \/ CancelReceiver \/ SenderCancelled
  BY <1>11 DEF InputEnds, CancelReceiver, SenderCancelled, net
<1>12. CASE ServerReplies \/ ServerSays
  BY <1>12 DEF ServerReplies, ServerSays, Say, threads
<1>13. CASE LinkFails
  BY <1>13 DEF LinkFails, threads
<1>14. CASE UNCHANGED vars
  BY <1>14 DEF vars, threads, net
<1> QED
  BY <1>1, <1>2, <1>3, <1>4, <1>5, <1>6, <1>7, <1>8, <1>9, <1>10, <1>11, <1>12, <1>13, <1>14
     DEF Next, Main, Receiver, Sender

\* What is sent: a CONN first, no DCON while the sender thread is in its loop.
LEMMA SpeaksStep ==
  TypeOK /\ ThreadsFollowMain /\ FarewellEndsLoop /\ SpeaksInOrder /\ [Next]_vars
    => FarewellEndsLoop' /\ SpeaksInOrder'
<1> DEFINE Speaks == FarewellEndsLoop /\ SpeaksInOrder
<1> SUFFICES ASSUME TypeOK, ThreadsFollowMain, Speaks, [Next]_vars PROVE Speaks'
  OBVIOUS
<1> USE DEF Running, End
<1>1. ASSUME wire' = wire, Early' <=> Early,
             sendPc' \in {"none", "getline", "send"} => sendPc \in {"none", "getline", "send"},
             Running' /\ sendPc' = "send" => line' \in Lines \cup {"DCON"}
      PROVE  Speaks'
  BY <1>1 DEF FarewellEndsLoop, SpeaksInOrder
<1>2. ASSUME wire' = wire, Early' <=> Early, UNCHANGED <<sendPc, line>>,
             Running' => Running
      PROVE  Speaks'
  BY <1>1, <1>2 DEF FarewellEndsLoop
<1>3. ASSUME NEW o \in Required \cup {"file"}, NEW legal \in BOOLEAN, ReadOption(o, legal)
      PROVE  Speaks'
  BY <1>2, <1>3 DEF ReadOption, threads, net, Early
<1>4. CASE ConnectFails \/ Resolve \/ ReplyFails \/ Join \/ Finish
  BY <1>2, <1>4 DEF ConnectFails, Resolve, ReplyFails, Join, Finish, threads, net, Early
<1>5. CASE Connect \/ Reply
  BY <1>2, <1>5 DEF Connect, Reply, threads, Early
<1>6. CASE Hello
  <2>1. CASE link = "reset" /\ UNCHANGED <<mainPc, wire, link>>
    BY <1>2, <1>6, <2>1 DEF Hello, threads, Early
  <2>2. CASE Sent("CONN") /\ mainPc' = "reply"
    <3>1. wire' = <<"CONN">>
      BY <1>6, <2>2 DEF Hello, Sent, FarewellEndsLoop, Early
    <3>2. Len(wire') = 1 /\ wire'[1] = "CONN"
      BY <3>1
    <3>3. sendPc' = "none"
      BY <1>6 DEF Hello, threads, ThreadsFollowMain, BeforeSender, BeforeReceiver, Early
    <3> QED BY <2>2, <3>1, <3>2, <3>3 DEF FarewellEndsLoop, SpeaksInOrder, Early
  <2> QED BY <1>6, <2>1, <2>2 DEF Hello
<1>7. CASE CreateThreads
  <2>1. wire' = wire /\ (Early' <=> Early) /\ sendPc' \in {sendPc, "getline"}
    BY <1>7 DEF CreateThreads, net, Early
  <2>2. sendPc' = "getline" => sendPc \in {"none", "getline"}
    BY <1>7 DEF CreateThreads, ThreadsFollowMain, BeforeSender, BeforeReceiver
  <2>3. line' = line
    BY <1>7 DEF CreateThreads
  <2> QED BY <1>1, <1>7, <2>1, <2>2, <2>3 DEF FarewellEndsLoop, CreateThreads
<1>8. CASE Receive \/ ReceivePart
  BY <1>2, <1>8 DEF Receive, ReceivePart, Early
<1>9. CASE ReceiveFails \/ CancelSender \/ CancelNobody \/ ReceiverCancelled
  BY <1>2, <1>9
     DEF ReceiveFails, CancelSender, CancelNobody, ReceiverCancelled, threads, net, Early
<1>10. ASSUME NEW l \in Lines \cup {"<<quit>>"}, GetLine(l)
       PROVE  Speaks'
  BY <1>1, <1>10 DEF GetLine, net, Early
<1>11. CASE Send
  <2>1. (Early' <=> Early) /\ sendPc = "send" /\ sendPc' # "none" /\ ~Early
    BY <1>11 DEF Send, Early, ThreadsFollowMain, BeforeSender, BeforeReceiver
  <2>2. CASE (SendFails /\ sendPc' = "cancel") \/ (SigPipe /\ UNCHANGED <<sendPc, wire, link>>)
    <3>1. wire' = wire /\ ~(Running' /\ sendPc' = "send")
      BY <2>2 DEF SendFails, SigPipe
    <3>2. sendPc' \in {"send", "cancel"}
      BY <2>1, <2>2
    <3> QED BY <1>1, <2>1, <3>1, <3>2
  <2>3. CASE Sent(line)
    <3>1. wire' = Append(wire, line) /\ line \in Lines \cup {"DCON"}
      BY <1>11, <2>1, <2>3 DEF Send, Sent, FarewellEndsLoop
    <3>2. /\ wire \in Seq(Spoken) /\ wire # <<>> /\ line \in Spoken
          /\ \A k \in 1..Len(wire) : wire[k] # "DCON"
      BY <2>1, <3>1 DEF TypeOK, FarewellEndsLoop, Spoken
    <3>3. /\ wire' # <<>> /\ Len(wire') = Len(wire) + 1 /\ wire'[Len(wire) + 1] = line
          /\ \A k \in 1..Len(wire) : wire'[k] = wire[k]
      BY <3>1, <3>2, AppendKeeps
    <3>4. Len(wire) \in Nat \ {0} /\ line # "CONN"
      BY <3>1, <3>2, ClientAssumption
    <3>5. \A k \in 1..(Len(wire) + 1) : k \in 1..Len(wire) \/ k = Len(wire) + 1
      BY <3>4
    <3>6. SpeaksInOrder'
      BY <3>2, <3>3, <3>4, <3>5 DEF SpeaksInOrder
    <3>7. sendPc' \in {"none", "getline", "send"} => line # "DCON" /\ sendPc' = "getline"
      BY <1>11, <2>1, <3>1, <3>3 DEF Send, SendFails, SigPipe
    <3>8. FarewellEndsLoop'
      BY <2>1, <3>2, <3>3, <3>5, <3>7 DEF FarewellEndsLoop
    <3> QED BY <3>6, <3>8
  <2> QED BY <1>11, <2>2, <2>3 DEF Send, SendFails, SigPipe
<1>12. CASE InputEnds \/ CancelReceiver \/ SenderCancelled
  BY <1>1, <1>12
     DEF InputEnds, CancelReceiver, SenderCancelled, net, Early, FarewellEndsLoop
<1>13. CASE ServerReplies \/ ServerSays
  BY <1>2, <1>13 DEF ServerReplies, ServerSays, Say, threads, Early
<1>14. CASE LinkFails
  BY <1>2, <1>14 DEF LinkFails, threads, Early
<1>15. CASE UNCHANGED vars
  BY <1>2, <1>15 DEF vars, threads, net, Early
<1> QED
  BY <1>3, <1>4, <1>5, <1>6, <1>7, <1>8, <1>9, <1>10, <1>11, <1>12, <1>13, <1>14, <1>15
     DEF Next, Main, Receiver, Sender

\* A farewell that was said stays said.
LEMMA FarewellStays == TypeOK /\ [Next]_vars /\ Farewell => Farewell'
<1> SUFFICES ASSUME TypeOK, [Next]_vars, said' # said, Farewell PROVE Farewell'
  BY DEF Farewell
<1>1. PICK k \in Kinds : said' = Append(said, k)
  <2>1. CASE Main \/ ConnectFails \/ \E o \in Required \cup {"file"}, legal \in BOOLEAN : ReadOption(o, legal)
    BY <2>1 DEF Main, Resolve, Connect, Hello, Reply, ReplyFails, CreateThreads, Join,
                Finish, ConnectFails, ReadOption, net
  <2>2. CASE Receiver
    BY <2>2 DEF Receiver, Receive, ReceivePart, ReceiveFails, CancelSender, CancelNobody,
                ReceiverCancelled, net
  <2>3. CASE Sender \/ GetLine("<<quit>>")
    BY <2>3 DEF Sender, GetLine, InputEnds, Send, CancelReceiver, SenderCancelled, net
  <2>4. CASE ServerReplies \/ ServerSays
    BY <2>4 DEF ServerReplies, ServerSays, Say, Kinds
  <2>5. CASE LinkFails \/ UNCHANGED vars
    BY <2>5 DEF LinkFails, vars, net
  <2> QED BY <2>1, <2>2, <2>3, <2>4, <2>5 DEF Next
<1>2. /\ Len(said') = Len(said) + 1 /\ Len(said) \in Nat
      /\ \A i \in 1..Len(said) : said'[i] = said[i]
  BY <1>1, AppendKeeps DEF TypeOK
<1>3. \A i \in 1..Len(said) : i \in 1..(Len(said) + 1)
  BY <1>2
<1> QED BY <1>2, <1>3 DEF Farewell, Contains

\* A connection that was reset stays so.
LEMMA ResetStays == TypeOK /\ ThreadsFollowMain /\ [Next]_vars =>
  /\ link = "reset" => link' = "reset"
  /\ link # "open" /\ ~BeforeReceiver => link' # "open"
<1> SUFFICES ASSUME TypeOK, ThreadsFollowMain, [Next]_vars, link' # link
             PROVE  /\ link # "reset"
                    /\ link # "open" /\ ~BeforeReceiver => link' # "open"
  OBVIOUS
<1>1. CASE Main
  <2>1. CASE Connect
    BY <2>1 DEF Connect, ThreadsFollowMain, BeforeReceiver, Early
  <2>2. CASE Hello
    BY <2>2 DEF Hello, Sent, BeforeReceiver, Early
  <2> QED BY <1>1, <2>1, <2>2
          DEF Main, Resolve, Reply, ReplyFails, CreateThreads, Join, Finish, net
<1>2. CASE ConnectFails \/ \E o \in Required \cup {"file"}, legal \in BOOLEAN : ReadOption(o, legal)
  BY <1>2 DEF ConnectFails, ReadOption, net
<1>3. CASE Receiver
  BY <1>3 DEF Receiver, Receive, ReceivePart, ReceiveFails, CancelSender, CancelNobody,
              ReceiverCancelled, net
<1>4. CASE Send
  BY <1>4 DEF Send, Sent, SendFails, SigPipe
<1>5. CASE Sender \/ GetLine("<<quit>>")
  BY <1>4, <1>5 DEF Sender, GetLine, InputEnds, CancelReceiver, SenderCancelled, net
<1>6. CASE ServerReplies \/ ServerSays
  BY <1>6 DEF ServerReplies, ServerSays, Say
<1>7. CASE LinkFails
  BY <1>7 DEF LinkFails
<1>8. CASE UNCHANGED vars
  BY <1>8 DEF vars, net
<1> QED BY <1>1, <1>2, <1>3, <1>5, <1>6, <1>7, <1>8 DEF Next

\* Who leaves the loop or crashes for a reason: a farewell and a reset last.
LEMMA CauseStep ==
  TypeOK /\ ThreadsFollowMain /\ FarewellHasCause /\ CrashHasCause /\ [Next]_vars
    => FarewellHasCause' /\ CrashHasCause'
<1> DEFINE Causes == FarewellHasCause /\ CrashHasCause
<1> SUFFICES ASSUME TypeOK, ThreadsFollowMain, Causes, [Next]_vars PROVE Causes'
  OBVIOUS
<1> USE DEF Running, End
<1>1. /\ Farewell => Farewell'
      /\ link = "reset" => link' = "reset"
  BY FarewellStays, ResetStays
<1>2. ASSUME inbox' = inbox, recvPc' = "cancel" => recvPc = "cancel",
             "send" \in cancelled' => "send" \in cancelled,
             status' \in {"segv", "sigpipe"} => link' = "reset"
      PROVE  Causes'
  BY <1>1, <1>2 DEF FarewellHasCause, CrashHasCause
<1>3. ASSUME NEW o \in Required \cup {"file"}, NEW legal \in BOOLEAN, ReadOption(o, legal)
      PROVE  Causes'
  BY <1>2, <1>3 DEF ReadOption, threads, net
<1>4. CASE Resolve
  <2>1. FarewellHasCause'
    BY <1>1, <1>4 DEF Resolve, threads, net, FarewellHasCause
  <2>2. CrashHasCause'
    BY <1>4 DEF Resolve, CrashHasCause
  <2> QED BY <2>1, <2>2
<1>5. CASE ConnectFails \/ Connect \/ Join \/ Finish
  BY <1>2, <1>5 DEF ConnectFails, Connect, Join, Finish, threads, net
<1>6. CASE Hello
  BY <1>2, <1>6 DEF Hello, Sent, threads
<1>7. CASE ReplyFails \/ ReceiveFails
  BY <1>2, <1>7 DEF ReplyFails, ReceiveFails, threads, net
<1>8. CASE CreateThreads
  BY <1>2, <1>8 DEF CreateThreads, net
<1>9. CASE Reply \/ Receive \/ ReceivePart
  <2>1. inbox # <<>> /\ inbox' = Tail(inbox) /\ cancelled' = cancelled /\ said' = said
    BY <1>9 DEF Reply, Receive, ReceivePart, threads
  <2>2. /\ Len(inbox) \in Nat /\ Len(inbox') = Len(inbox) - 1
        /\ \A k \in 1..Len(inbox') : inbox'[k] = inbox[k + 1] /\ k + 1 \in 1..Len(inbox)
        /\ 1 \in 1..Len(inbox) /\ Head(inbox) = inbox[1]
    BY <2>1, TailKeeps DEF TypeOK
  <2>3. \A k \in 1..Len(inbox') : inbox'[k] = "GOODBYE" => Farewell'
    BY <1>1, <2>2 DEF FarewellHasCause
  <2>4. recvPc' = "cancel" => link' = "reset" \/ Farewell'
    <3>1. CASE Reply
      BY <1>1, <3>1 DEF Reply, threads, FarewellHasCause
    <3>2. CASE Receive
      BY <1>1, <2>2, <3>2 DEF Receive, FarewellHasCause
    <3>3. CASE ReceivePart
      BY <3>3 DEF ReceivePart
    <3> QED BY <1>9, <3>1, <3>2, <3>3
  <2>5. FarewellHasCause'
    BY <1>1, <2>1, <2>3, <2>4 DEF FarewellHasCause
  <2>6. status' \notin {"segv", "sigpipe"}
    BY <1>9 DEF Reply, Receive, ReceivePart
  <2> QED BY <2>5, <2>6 DEF CrashHasCause
<1>10. CASE CancelSender
  <2>1. FarewellHasCause'
    BY <1>1, <1>10 DEF CancelSender, net, FarewellHasCause
  <2> QED BY <1>10, <2>1 DEF CancelSender, CrashHasCause
<1>11. CASE CancelNobody
  <2>1. FarewellHasCause'
    BY <1>1, <1>11 DEF CancelNobody, threads, net, FarewellHasCause
  <2>2. mainPc' = "create_send"
    BY <1>11 DEF CancelNobody, ThreadsFollowMain, BeforeSender
  <2>3. link' = "reset" \/ Farewell'
    BY <1>1, <1>11 DEF CancelNobody, FarewellHasCause
  <2> QED BY <2>1, <2>2, <2>3 DEF CrashHasCause, Farewell
<1>12. CASE ReceiverCancelled
  BY <1>2, <1>12 DEF ReceiverCancelled, net
<1>13. ASSUME NEW l \in Lines \cup {"<<quit>>"}, GetLine(l)
       PROVE  Causes'
  BY <1>2, <1>13 DEF GetLine, net
<1>14. CASE Send
  BY <1>2, <1>14 DEF Send, Sent, SendFails, SigPipe
<1>15. CASE CancelReceiver
  <2>1. recvPc # "none"
    BY <1>15 DEF CancelReceiver, ThreadsFollowMain, BeforeSender
  <2> QED BY <1>2, <1>15, <2>1 DEF CancelReceiver, net
<1>16. CASE InputEnds \/ SenderCancelled
  BY <1>2, <1>16 DEF InputEnds, SenderCancelled, net
<1>17. CASE ServerReplies \/ ServerSays
  <2>1. PICK k \in Kinds : inbox' = Append(inbox, k) /\ said' = Append(said, k)
    BY <1>17 DEF ServerReplies, ServerSays, Say, Kinds
  <2>2. UNCHANGED <<status, link, threads>> /\ status = "running"
    BY <1>17 DEF ServerReplies, ServerSays, Say
  <2>3. /\ Len(inbox) \in Nat /\ Len(inbox') = Len(inbox) + 1 /\ inbox'[Len(inbox) + 1] = k
        /\ \A i \in 1..Len(inbox) : inbox'[i] = inbox[i]
    BY <2>1, AppendKeeps DEF TypeOK
  <2>4. /\ Len(said) \in Nat /\ Len(said') = Len(said) + 1 /\ said'[Len(said) + 1] = k
    BY <2>1, AppendKeeps DEF TypeOK
  <2>5. k = "GOODBYE" => Farewell'
    BY <2>4 DEF Farewell, Contains
  <2>6. \A i \in 1..Len(inbox') : inbox'[i] = "GOODBYE" => Farewell'
    BY <1>1, <2>3, <2>5 DEF FarewellHasCause
  <2> QED BY <1>1, <2>2, <2>6 DEF FarewellHasCause, CrashHasCause, threads
<1>18. CASE LinkFails
  BY <1>2, <1>18 DEF LinkFails, threads
<1>19. CASE UNCHANGED vars
  <2>1. FarewellHasCause'
    BY <1>1, <1>19 DEF vars, threads, net, FarewellHasCause
  <2> QED BY <1>19, <2>1 DEF vars, net, CrashHasCause
<1> QED
  BY <1>3, <1>4, <1>5, <1>6, <1>7, <1>8, <1>9, <1>10, <1>11, <1>12, <1>13, <1>14, <1>15,
     <1>16, <1>17, <1>18, <1>19
     DEF Next, Main, Receiver, Sender

\* Every line that was taken was sent, but the one in the sender's hands.
LEMMA TypedStep ==
  TypeOK /\ ThreadsFollowMain /\ FarewellEndsLoop /\ FarewellHasCause /\ TypedIsSent /\ [Next]_vars
    => TypedIsSent'
<1> SUFFICES ASSUME TypeOK, ThreadsFollowMain, FarewellEndsLoop, FarewellHasCause,
                    TypedIsSent, [Next]_vars
             PROVE  TypedIsSent'
  OBVIOUS
<1> USE DEF End
<1>1. /\ Farewell => Farewell'
      /\ link = "reset" => link' = "reset"
      /\ link # "open" /\ ~BeforeReceiver => link' # "open"
  BY FarewellStays, ResetStays
<1>2. ASSUME UNCHANGED <<wire, typed, sendPc>>, Early' <=> Early
      PROVE  TypedIsSent'
  <2>1. sendPc \in {"cancel", "ended"} => ~BeforeReceiver
    BY DEF ThreadsFollowMain, BeforeSender
  <2> QED BY <1>1, <1>2, <2>1 DEF TypedIsSent
<1>3. ASSUME NEW o \in Required \cup {"file"}, NEW legal \in BOOLEAN, ReadOption(o, legal)
      PROVE  TypedIsSent'
  BY <1>2, <1>3 DEF ReadOption, threads, net, Early
<1>4. CASE ConnectFails \/ Resolve \/ ReplyFails \/ Join \/ Finish
  BY <1>2, <1>4 DEF ConnectFails, Resolve, ReplyFails, Join, Finish, threads, net, Early
<1>5. CASE Connect \/ Reply
  BY <1>2, <1>5 DEF Connect, Reply, threads, Early
<1>6. CASE Hello
  <2>1. CASE UNCHANGED <<mainPc, wire, link>>
    BY <1>2, <1>6, <2>1 DEF Hello, threads, Early
  <2>2. CASE Sent("CONN") /\ mainPc' = "reply"
    <3>1. wire' = <<"CONN">> /\ typed' = 0
      BY <1>6, <2>2 DEF Hello, Sent, FarewellEndsLoop, TypedIsSent, Early
    <3>2. Len(wire') = 1
      BY <3>1
    <3>3. sendPc' = "none"
      BY <1>6 DEF Hello, threads, ThreadsFollowMain, BeforeSender, BeforeReceiver, Early
    <3> QED BY <2>2, <3>1, <3>2, <3>3 DEF TypedIsSent, Early
  <2> QED BY <1>6, <2>1, <2>2 DEF Hello
<1>7. CASE CreateThreads
  <2>1. CASE sendPc' = sendPc
    BY <1>2, <1>7, <2>1 DEF CreateThreads, net, Early
  <2>2. CASE sendPc' # sendPc
    <3>1. sendPc = "none" /\ sendPc' = "getline" /\ ~Early /\ ~Early'
      BY <1>7, <2>2 DEF CreateThreads, ThreadsFollowMain, BeforeSender, Early
    <3> QED BY <1>7, <3>1 DEF CreateThreads, net, TypedIsSent
  <2> QED BY <2>1, <2>2
<1>8. CASE Receive \/ ReceivePart
  BY <1>2, <1>8 DEF Receive, ReceivePart, Early
<1>9. CASE ReceiveFails \/ CancelSender \/ CancelNobody \/ ReceiverCancelled
  BY <1>2, <1>9
     DEF ReceiveFails, CancelSender, CancelNobody, ReceiverCancelled, threads, net, Early
<1>10. ASSUME NEW l \in Lines \cup {"<<quit>>"}, GetLine(l)
       PROVE  TypedIsSent'
  <2>1. sendPc = "getline" /\ sendPc' = "send" /\ typed' = typed + 1 /\ wire' = wire /\ ~Early'
    BY <1>10 DEF GetLine, net, ThreadsFollowMain, BeforeSender, BeforeReceiver, Early
  <2> QED BY <2>1 DEF TypedIsSent, TypeOK
<1>11. CASE Send
  <2>1. sendPc = "send" /\ typed' = typed /\ ~Early /\ ~Early'
    BY <1>11 DEF Send, Early, ThreadsFollowMain, BeforeSender, BeforeReceiver
  <2>2. CASE Sent(line) /\ sendPc' \in {"cancel", "getline"}
    <3>1. Len(wire') = Len(wire) + 1
      BY <2>2 DEF Sent, TypeOK
    <3> QED BY <2>1, <2>2, <3>1 DEF TypedIsSent, TypeOK
  <2>3. CASE SendFails /\ sendPc' = "cancel"
    BY <2>1, <2>3 DEF SendFails, TypedIsSent
  <2>4. CASE SigPipe /\ UNCHANGED <<sendPc, wire, link>>
    BY <2>1, <2>4 DEF TypedIsSent
  <2> QED BY <1>11, <2>2, <2>3, <2>4 DEF Send
<1>12. CASE InputEnds \/ SenderCancelled
  <2>1. /\ sendPc' \in {"cancel", "ended"} /\ sendPc \in {"getline", "send"}
        /\ UNCHANGED <<wire, typed, link, said>> /\ ~Early'
        /\ sendPc = "send" => "send" \in cancelled
    BY <1>12 DEF InputEnds, SenderCancelled, net, Early,
                 ThreadsFollowMain, BeforeSender, BeforeReceiver
  <2> QED BY <1>1, <2>1 DEF TypedIsSent, FarewellHasCause
<1>13. CASE CancelReceiver
  <2>1. /\ sendPc' \in {"cancel", "ended"} /\ sendPc = "cancel"
        /\ UNCHANGED <<wire, typed, link, said>> /\ ~Early'
    BY <1>13 DEF CancelReceiver, net, Early, ThreadsFollowMain, BeforeSender, BeforeReceiver
  <2> QED BY <1>1, <2>1 DEF TypedIsSent
<1>14. CASE ServerReplies \/ ServerSays
  BY <1>2, <1>14 DEF ServerReplies, ServerSays, Say, threads, Early
<1>15. CASE LinkFails
  BY <1>2, <1>15 DEF LinkFails, threads, Early
<1>16. CASE UNCHANGED vars
  BY <1>2, <1>16 DEF vars, threads, net, Early
<1> QED
  BY <1>3, <1>4, <1>5, <1>6, <1>7, <1>8, <1>9, <1>10, <1>11, <1>12, <1>13, <1>14, <1>15, <1>16
     DEF Next, Main, Receiver, Sender

-----------------------------------------------------------------------------
(* The theorems. *)

\* The invariant holds in the beginning.
LEMMA InitInductive == Init => Inductive
<1> SUFFICES ASSUME Init PROVE Inductive
  OBVIOUS
<1>1. Len(wire) = 0 /\ Len(inbox) = 0
  BY DEF Init
<1>2. TypeOK
  BY ClientAssumption DEF Init, TypeOK
<1>3. ThreadsFollowMain
  BY DEF Init, ThreadsFollowMain, BeforeSender, BeforeReceiver, Early
<1>4. FarewellEndsLoop /\ SpeaksInOrder
  BY <1>1 DEF Init, FarewellEndsLoop, SpeaksInOrder, Early
<1>5. FarewellHasCause /\ CrashHasCause
  BY <1>1 DEF Init, FarewellHasCause, CrashHasCause
<1>6. TypedIsSent
  BY DEF Init, TypedIsSent, Early
<1> QED BY <1>2, <1>3, <1>4, <1>5, <1>6 DEF Inductive

\* Every behaviour keeps it.
LEMMA InductiveInvariant == Spec => []Inductive
<1>1. Inductive /\ [Next]_vars => Inductive'
  BY TypeStep, ThreadsStep, SpeaksStep, CauseStep, TypedStep DEF Inductive
<1> QED BY <1>1, InitInductive, PTL DEF Spec

\* The variables of the client keep their types.
THEOREM TypeCorrectness == Spec => []TypeOK
<1>1. Inductive => TypeOK
  BY DEF Inductive
<1> QED BY <1>1, InductiveInvariant, PTL

\* The server hears one CONN, before everything else, and after a DCON nothing.
THEOREM OrderTheorem == Spec => []SpeaksInOrder
<1>1. Inductive => SpeaksInOrder
  BY DEF Inductive
<1> QED BY <1>1, InductiveInvariant, PTL

\* A reset, an option that is missing, and a farewell before the sender thread
\* exists are all that can crash the client.
THEOREM CrashTheorem == Spec => []CrashHasCause
<1>1. Inductive => CrashHasCause
  BY DEF Inductive
<1> QED BY <1>1, InductiveInvariant, PTL

\* main() closes the socket after both threads have ended, with all lines sent
\* unless the connection or the server prevented it.
THEOREM TeardownTheorem == Spec => []TeardownIsLast
<1>1. Inductive => TeardownIsLast
  <2> SUFFICES ASSUME Inductive, mainPc = "close"
               PROVE  /\ recvPc = "ended" /\ sendPc = "ended"
                      /\ Len(wire) = 1 + typed \/ link # "open" \/ Farewell
    BY DEF TeardownIsLast, Farewell
  <2> QED BY DEF Inductive, ThreadsFollowMain, TypedIsSent
<1> QED BY <1>1, InductiveInvariant, PTL

=============================================================================
