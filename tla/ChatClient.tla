----------------------------- MODULE ChatClient -----------------------------
(***************************************************************************)
(* The client program of a1/client.c: main() reads the options, connects   *)
(* and shakes hands, then starts a thread that receives and one that sends *)
(* and waits for both.  Whichever of the two ends first cancels the other. *)
(*                                                                         *)
(* A pthread_cancel() is acted on where the thread next blocks: in recv(), *)
(* send() and the read() of getline().  A getline() that finds its line in *)
(* the buffer of the file returns all the same.  Messages are taken whole  *)
(* (Framing has their bytes); the server is the environment.               *)
(***************************************************************************)
EXTENDS Naturals, Sequences, FiniteSets, SequencesExt

CONSTANTS
  Addresses,  \* how many addresses getaddrinfo() returns
  Lines,      \* the texts of lines
  Conduct,    \* what the server and the network do besides replying
  MaxTyped,   \* bound: lines of the input
  MaxSaid     \* bound: messages of the server after its reply

ASSUME ClientAssumption ==
  /\ Addresses \in Nat \ {0}
  /\ Lines \cap {"<<quit>>", "CONN", "DCON", "none"} = {}
  /\ Conduct \subseteq {"goodbye", "close", "part", "reset"}
  /\ MaxTyped \in Nat /\ MaxSaid \in Nat

VARIABLES
  status,    \* "running", or how the process ended
  mainPc,    \* where main() is
  given,     \* options that were given
  address,   \* p, as the number of addresses tried
  recvPc,    \* the receiver thread: "none" before, "ended" after its life
  sendPc,    \* the sender thread, likewise
  cancelled, \* threads with a pthread_cancel() they have not acted on
  line,      \* what the sender thread is about to send
  link,      \* the connection: "none", "open", "closed" by the server, "reset"
  inbox,     \* kinds of messages from the server that were not received
  wire,      \* history: what was sent
  typed,     \* how much of MaxTyped is used
  said       \* history: the kinds of messages the server sent, its reply first

threads == <<recvPc, sendPc, cancelled, line>>
net == <<link, inbox, wire, said>>
vars == <<status, mainPc, given, address, threads, net, typed>>

Required == {"client_id", "server", "port"}

Spoken == Lines \cup {"CONN", "DCON"}  \* what the client may send
Kinds == {"CONN", "GOODBYE", "DATA", "PART"}  \* what the server may send
Running == status = "running"

Init ==
  /\ status = "running"
  /\ mainPc = "options" /\ given = {} /\ address = 0
  /\ recvPc = "none" /\ sendPc = "none" /\ cancelled = {}
  /\ line = "none"
  /\ link = "none" /\ inbox = <<>> /\ wire = <<>>
  /\ typed = 0 /\ said = <<>>

End(how) == status' = how

-----------------------------------------------------------------------------
(* main(), up to the handshake. *)

\* An option and whether its argument is legal, in any order and repeatedly.
\* An option that is unknown or lacks its argument ends the program likewise.
ReadOption(o, legal) ==
  /\ Running /\ mainPc = "options"
  /\ IF legal THEN given' = given \cup {o} /\ UNCHANGED status
              ELSE End("exit") /\ UNCHANGED given
  /\ UNCHANGED <<mainPc, address, threads, net, typed>>

\* Without any option the usage is printed.  Options that are missing are not
\* noticed: the pointers to them are whatever the stack holds.
Resolve ==
  /\ Running /\ mainPc = "options"
  /\ \/ given # {} /\ mainPc' = "connect" /\ UNCHANGED status
     \/ End("exit") /\ UNCHANGED mainPc
     \/ ~(Required \subseteq given) /\ End("segv") /\ UNCHANGED mainPc
  /\ UNCHANGED <<given, address, threads, net, typed>>

\* socket() or connect() fails for an address, and the next one is tried.
ConnectFails ==
  /\ Running /\ mainPc = "connect" /\ address < Addresses
  /\ address' = address + 1
  /\ IF address' = Addresses THEN End("exit") ELSE UNCHANGED status
  /\ UNCHANGED <<mainPc, given, threads, net, typed>>

Connect ==
  /\ Running /\ mainPc = "connect" /\ address < Addresses
  /\ link' = "open"
  /\ mainPc' = "hello"
  /\ UNCHANGED <<status, given, address, threads, inbox, wire, typed, said>>

\* send_message() returns 0; to a server that closed, it draws a reset.
Sent(m) ==
  /\ link \in {"open", "closed"}
  /\ wire' = Append(wire, m)
  /\ link' \in IF link = "closed" THEN {"closed", "reset"} ELSE {"open"}

\* send() on a reset connection raises SIGPIPE, or returns -1 the first time.
SigPipe == link = "reset" /\ End("sigpipe")
SendFails == link = "reset" /\ UNCHANGED <<wire, link, status>>

Hello ==
  /\ Running /\ mainPc = "hello"
  /\ \/ Sent("CONN") /\ mainPc' = "reply" /\ UNCHANGED status
     \/ link = "reset" /\ status' \in {"exit", "sigpipe"} /\ UNCHANGED <<mainPc, wire, link>>
  /\ UNCHANGED <<given, address, threads, inbox, typed, said>>

\* The reply: a CONN is an acceptance, everything else a refusal.
Reply ==
  /\ Running /\ mainPc = "reply" /\ inbox # <<>>
  /\ inbox' = Tail(inbox)
  /\ IF Head(inbox) = "CONN" THEN mainPc' = "create_recv" /\ UNCHANGED status
                             ELSE End("exit") /\ UNCHANGED mainPc
  /\ UNCHANGED <<given, address, threads, link, wire, typed, said>>

\* recv_header() returns NULL and its kind is read.
ReplyFails ==
  /\ Running /\ mainPc = "reply" /\ inbox = <<>> /\ link = "reset"
  /\ End("segv")
  /\ UNCHANGED <<mainPc, given, address, threads, net, typed>>

-----------------------------------------------------------------------------
(* main(), with its two threads. *)

\* Mutant: the sender is created first.
CreateSenderFirst ==
  /\ Running
  /\ \/ /\ mainPc = "create_recv" /\ mainPc' = "create_send"
        /\ sendPc' = "getline" /\ UNCHANGED recvPc
     \/ /\ mainPc = "create_send" /\ mainPc' = "join_recv"
        /\ recvPc' = "recv" /\ UNCHANGED sendPc
  /\ UNCHANGED <<status, given, address, cancelled, line, net, typed>>

CreateThreads ==
  /\ Running
  /\ \/ /\ mainPc = "create_recv" /\ mainPc' = "create_send"
        /\ recvPc' = "recv" /\ UNCHANGED sendPc
     \/ /\ mainPc = "create_send" /\ mainPc' = "join_recv"
        /\ sendPc' = "getline" /\ UNCHANGED recvPc
  /\ UNCHANGED <<status, given, address, cancelled, line, net, typed>>

\* Mutant: the first thread to end ends the program.
JoinEither ==
  /\ Running
  /\ \/ mainPc = "join_recv" /\ "ended" \in {recvPc, sendPc} /\ mainPc' = "join_send"
     \/ mainPc = "join_send" /\ mainPc' = "close"
  /\ UNCHANGED <<status, given, address, threads, net, typed>>

Join ==
  /\ Running
  /\ \/ mainPc = "join_recv" /\ recvPc = "ended" /\ mainPc' = "join_send"
     \/ mainPc = "join_send" /\ sendPc = "ended" /\ mainPc' = "close"
  /\ UNCHANGED <<status, given, address, threads, net, typed>>

\* The input and the socket are closed, info is freed, main() returns.
Finish ==
  /\ Running /\ mainPc = "close"
  /\ End("exit")
  /\ UNCHANGED <<mainPc, given, address, threads, net, typed>>

Main ==
  \/ Resolve \/ Connect \/ Hello \/ Reply \/ ReplyFails
  \/ CreateThreads \/ Join \/ Finish

-----------------------------------------------------------------------------
(* The receiver thread. *)

\* A message that is shown.  A DCON of the server itself ends the loop.
Receive ==
  /\ Running /\ recvPc = "recv" /\ "recv" \notin cancelled
  /\ inbox # <<>> /\ Head(inbox) # "PART"
  /\ inbox' = Tail(inbox)
  /\ recvPc' = IF Head(inbox) = "GOODBYE" THEN "cancel" ELSE "recv"
  /\ UNCHANGED <<status, mainPc, given, address, sendPc, cancelled, line,
                 link, wire, typed, said>>

\* recv_payload() fails in the middle of a message.
ReceivePart ==
  /\ Running /\ recvPc = "recv" /\ "recv" \notin cancelled
  /\ inbox # <<>> /\ Head(inbox) = "PART" /\ link = "reset"
  /\ inbox' = Tail(inbox)
  /\ recvPc' = "cancel"
  /\ UNCHANGED <<status, mainPc, given, address, sendPc, cancelled, line,
                 link, wire, typed, said>>

\* recv_header() returns NULL and its kind is read.
ReceiveFails ==
  /\ Running /\ recvPc = "recv" /\ "recv" \notin cancelled
  /\ inbox = <<>> /\ link = "reset"
  /\ End("segv")
  /\ UNCHANGED <<mainPc, given, address, threads, net, typed>>

\* Mutant: a sender that is waiting for input is not cancelled.
CancelSenderAtWork ==
  /\ Running /\ recvPc = "cancel" /\ sendPc # "none"
  /\ recvPc' = "ended"
  /\ cancelled' = {"send"} \cap {sendPc}
  /\ UNCHANGED <<status, mainPc, given, address, sendPc, line, net, typed>>

\* The pthread_t in send_thread is 0 until the thread is created.
CancelSender ==
  /\ Running /\ recvPc = "cancel" /\ sendPc # "none"
  /\ recvPc' = "ended"
  /\ cancelled' = IF sendPc = "ended" THEN {} ELSE {"send"}
  /\ UNCHANGED <<status, mainPc, given, address, sendPc, line, net, typed>>

CancelNobody ==
  /\ Running /\ recvPc = "cancel" /\ sendPc = "none"
  /\ End("segv")
  /\ UNCHANGED <<mainPc, given, address, threads, net, typed>>

ReceiverCancelled ==
  /\ Running /\ recvPc = "recv" /\ "recv" \in cancelled
  /\ recvPc' = "ended"
  /\ cancelled' = cancelled \ {"recv"}
  /\ UNCHANGED <<status, mainPc, given, address, sendPc, line, net, typed>>

Receiver ==
  \/ Receive \/ ReceivePart \/ ReceiveFails
  \/ CancelSender \/ CancelNobody \/ ReceiverCancelled

-----------------------------------------------------------------------------
(* The sender thread. *)

\* Mutant: the newline is not cut off, and no line is a quit.
GetLineUncut(l) ==
  /\ Running /\ sendPc = "getline" /\ typed < MaxTyped
  /\ typed' = typed + 1
  /\ line' = l
  /\ sendPc' = "send"
  /\ UNCHANGED <<status, mainPc, given, address, recvPc, cancelled, net>>

\* getline() has a line.
GetLine(l) ==
  /\ Running /\ sendPc = "getline" /\ typed < MaxTyped
  /\ typed' = typed + 1
  /\ line' = IF l = "<<quit>>" THEN "DCON" ELSE l
  /\ sendPc' = "send"
  /\ UNCHANGED <<status, mainPc, given, address, recvPc, cancelled, net>>

\* getline() returns -1.
InputEnds ==
  /\ Running /\ sendPc = "getline"
  /\ sendPc' = "cancel"
  /\ UNCHANGED <<status, mainPc, given, address, recvPc, cancelled, line, net, typed>>

\* Mutant: the loop goes on after the DCON.
SendAndGoOn ==
  /\ Running /\ sendPc = "send" /\ "send" \notin cancelled
  /\ \/ Sent(line) /\ sendPc' = "getline" /\ UNCHANGED status
     \/ SendFails /\ sendPc' = "cancel"
     \/ SigPipe /\ UNCHANGED <<sendPc, wire, link>>
  /\ line' = "none"
  /\ UNCHANGED <<mainPc, given, address, recvPc, cancelled, inbox, typed, said>>

\* The loop ends with a DCON, and with an error.
Send ==
  /\ Running /\ sendPc = "send" /\ "send" \notin cancelled
  /\ \/ Sent(line) /\ sendPc' = (IF line = "DCON" THEN "cancel" ELSE "getline") /\ UNCHANGED status
     \/ SendFails /\ sendPc' = "cancel"
     \/ SigPipe /\ UNCHANGED <<sendPc, wire, link>>
  /\ line' = "none"
  /\ UNCHANGED <<mainPc, given, address, recvPc, cancelled, inbox, typed, said>>

\* recv_thread may have ended, and may even have been joined.
CancelReceiver ==
  /\ Running /\ sendPc = "cancel"
  /\ IF recvPc = "none" THEN End("segv") /\ UNCHANGED <<sendPc, cancelled>>
     ELSE /\ sendPc' = "ended"
          /\ cancelled' = IF recvPc = "ended" THEN {} ELSE {"recv"}
          /\ UNCHANGED status
  /\ UNCHANGED <<mainPc, given, address, recvPc, line, net, typed>>

SenderCancelled ==
  /\ Running /\ sendPc \in {"getline", "send"} /\ "send" \in cancelled
  /\ sendPc' = "ended"
  /\ cancelled' = cancelled \ {"send"}
  /\ line' = "none"
  /\ UNCHANGED <<status, mainPc, given, address, recvPc, net, typed>>

Sender == InputEnds \/ Send \/ CancelReceiver \/ SenderCancelled \/ \E l \in Lines : GetLine(l)

-----------------------------------------------------------------------------
(* The server and the network. *)

Say(kinds) ==
  /\ Running /\ link = "open"
  /\ \E k \in kinds : inbox' = Append(inbox, k) /\ said' = Append(said, k)
  /\ UNCHANGED <<status, mainPc, given, address, threads, link, wire, typed>>

\* The reply to the CONN: an acceptance, or a DCON and its reason.
ServerReplies == wire # <<>> /\ said = <<>> /\ Say({"CONN", "GOODBYE"})

\* Messages of other clients, a farewell, a message cut short by a reset.
ServerSays ==
  /\ Len(said) \in 1..MaxSaid /\ Head(said) = "CONN" /\ Last(said) \notin {"PART", "GOODBYE"}
  /\ Say({"DATA"} \cup {k \in {"GOODBYE"} : "goodbye" \in Conduct}
                  \cup {k \in {"PART"} : "part" \in Conduct})

LinkFails ==
  /\ Running
  /\ \/ "close" \in Conduct /\ link = "open" /\ link' = "closed"
     \/ "reset" \in Conduct /\ link \in {"open", "closed"} /\ link' = "reset"
  /\ UNCHANGED <<status, mainPc, given, address, threads, inbox, wire, typed, said>>

Next ==
  \/ \E o \in Required \cup {"file"}, legal \in BOOLEAN : ReadOption(o, legal)
  \/ ConnectFails \/ Main \/ Receiver \/ Sender \/ GetLine("<<quit>>")
  \/ ServerReplies \/ ServerSays \/ LinkFails

Spec == Init /\ [][Next]_vars

\* Threads run where they need not wait for input or for the server.
Fairness ==
  /\ WF_vars(CreateThreads \/ Join \/ Finish)
  /\ WF_vars(Receiver)
  /\ WF_vars(Send \/ CancelReceiver \/ SenderCancelled)

FairSpec == Spec /\ Fairness

-----------------------------------------------------------------------------
(* Properties. *)

\* The variables hold what the declarations above say.
TypeOK ==
  /\ status \in {"running", "exit", "segv", "sigpipe"}
  /\ mainPc \in {"options", "connect", "hello", "reply", "create_recv",
                 "create_send", "join_recv", "join_send", "close"}
  /\ given \subseteq Required \cup {"file"}
  /\ address \in 0..Addresses
  /\ recvPc \in {"none", "recv", "cancel", "ended"}
  /\ sendPc \in {"none", "getline", "send", "cancel", "ended"}
  /\ cancelled \subseteq {"recv", "send"}
  /\ line \in Lines \cup {"none", "DCON"}
  /\ link \in {"none", "open", "closed", "reset"}
  /\ inbox \in Seq(Kinds) /\ said \in Seq(Kinds)
  /\ wire \in Seq(Spoken)
  /\ typed \in 0..MaxTyped

\* The server hears a CONN first and only once, and a DCON last of all,
\* although main() and a thread write to the socket and cancellation can
\* strike anywhere.
SpeaksInOrder ==
  \A k \in 1..Len(wire) :
    /\ wire[k] = "CONN" <=> k = 1
    /\ wire[k] = "DCON" => k = Len(wire)

\* The process crashes for no other reasons than the three in the code: a
\* connection that was reset, an option that is missing, and a farewell that
\* comes before the sender thread was created.  In particular the sender never
\* cancels a thread that is not there yet.
CrashHasCause ==
  status \in {"segv", "sigpipe"} =>
    \/ link = "reset"
    \/ mainPc = "options" /\ ~(Required \subseteq given)
    \/ mainPc = "create_send" /\ Contains(said, "GOODBYE")

\* The socket and info outlive the threads that use them, and what was typed
\* was sent by then, unless the connection failed or the server ended it.
TeardownIsLast ==
  mainPc = "close" =>
    /\ recvPc = "ended" /\ sendPc = "ended"
    /\ Len(wire) = 1 + typed \/ link # "open" \/ Contains(said, "GOODBYE")

\* The two threads end together: when one has left its loop, the process ends,
\* whatever the other is blocked in and whenever the cancellation comes.
StopsTogether == ({recvPc, sendPc} \cap {"cancel", "ended"} # {}) ~> (status # "running")

=============================================================================
