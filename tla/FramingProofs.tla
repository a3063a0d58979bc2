--------------------------- MODULE FramingProofs ---------------------------
(***************************************************************************)
(* Proofs about Framing, for every length of lines, payloads and buffers   *)
(* that an int can hold, and however the bytes are split by send() and     *)
(* recv().                                                                 *)
(*                                                                         *)
(* Of each hop the inductive invariant says how the bytes the receiver has *)
(* not used up are divided between its buffers, the connection and         *)
(* mesg_bytes (Flow), which message a payload is read of (InMessage), that *)
(* a message has a payload just where its receiver reads one (Fits),       *)
(* and that what was handed on is what was sent, cut (Handed).  Of the two *)
(* hops together it says that the server forwards what it received         *)
(* (Relayed) and that the messages of the typist are the lines typed       *)
(* (TextsAreTyped).                                                        *)
(***************************************************************************)
EXTENDS Framing, SequenceLemmas

-----------------------------------------------------------------------------
(* The inductive invariant. *)

\* The bytes of the messages s after the first n.
Behind(s, n) == FlattenSeq([k \in 1..(Len(s) - n) |-> Marshal(s[n + k])])

\* One sequence and another: the provers take it as it is, and not apart.
Cat(s, t) == s \o t

\* What recv_payload() makes of a message.
Cut(m) == IF m.length = 0 THEN m ELSE Message(m.length, m.id, m.kind, m.payload)
AllCut(ms) == [k \in 1..Len(ms) |-> Cut(ms[k])]

\* A message as the constructors make it, from numbers of the widths in
\* struct message.
WellMade(m) ==
  /\ m \in MessageType
  /\ m.id <= MaxShort /\ m.kind \in {DATA, CONN, DCON} /\ m.length <= MaxInt
  /\ Len(m.payload) = m.length
  /\ m.length > 0 => m.payload[m.length] = 0

\* The k-th message of a hop.  The first one down may be a refusal, which has
\* a text.
Suits(h, k, m) ==
  /\ WellMade(m)
  /\ m.length > 0 <=> m.kind = DATA \/ (h = "down" /\ m.kind = DCON /\ k = 1)

Fits(h, s) == \A k \in 1..Len(s) : Suits(h, k, s[k])

\* Bytes of messages are divided into the first of them, what is in a buffer,
\* what was thrown away, what is in the connection, and what is ahead of that:
\* bytes that are still to be sent or were given up.
DividedBy(first, over, ahead, bytes, p, b, r, w, o, l, kept) ==
  /\ bytes = Cat(first, Cat(b, Cat(over, Cat(w, ahead))))
  /\ Len(first) = IF p = "payload" THEN HeaderLen ELSE 0
  /\ Len(b) + Len(over) = r
  /\ over = <<>> \/ (p = "payload" /\ Len(b) = kept)
  /\ l = "up" => ahead = o

Divided(bytes, p, b, r, w, o, l, kept) ==
  \E first, over, ahead \in Seq(Byte) :
    DividedBy(first, over, ahead, bytes, p, b, r, w, o, l, kept)

(***************************************************************************)
(* The parts of the invariant of a hop are stated of the values of its     *)
(* variables, under these names: s of sent, ms of received, p of pc, b of  *)
(* buf, r of recvd, w of wire, o of out, l of link, m of msg.              *)
(***************************************************************************)

\* The message the receiver is in.
Current(s, ms) == s[Len(ms) + 1]

Handed(s, ms) == Len(ms) <= Len(s) /\ \A k \in 1..Len(ms) : ms[k] = Cut(s[k])

\* The bytes behind the messages that were handed are divided; the first of
\* them are the header of the current message, if that has been read.
Flow(s, ms, p, b, r, w, o, l, m) ==
  p \in {"header", "payload", "done"} =>
    Divided(Behind(s, Len(ms)), p, b, r, w, o, l, Least(m.length, MaxLen))

\* What a closed or a reset connection has lost.
Broken(p, w, o, l) ==
  /\ l = "up" => p \in {"header", "payload", "done"}
  /\ l \in {"closed", "lost"} => o = <<>>
  /\ l \in {"reset", "lost"} => w = <<>>

InMessage(s, ms, p, b, r, m) ==
  /\ p = "header" => r <= HeaderLen
  /\ p = "payload" =>
       /\ Len(ms) < Len(s) /\ Current(s, ms).length > 0
       /\ m = Header(Current(s, ms).length, Current(s, ms).id, Current(s, ms).kind)
       /\ r <= m.length /\ Len(b) <= Least(m.length, MaxLen)

HopOf(s, ms, p, b, r, w, o, l, m) ==
  /\ Handed(s, ms)
  /\ Flow(s, ms, p, b, r, w, o, l, m)
  /\ Broken(p, w, o, l)
  /\ InMessage(s, ms, p, b, r, m)

HopInv(h) ==
  HopOf(sent[h], received[h], pc[h], buf[h], recvd[h], wire[h], out[h], link[h], msg[h])

\* All messages of a hop.
Stream(h) == Cat(sent[h], todo[h])

TodoInv(h) ==
  /\ Fits(h, Stream(h))
  /\ link[h] \in {"closed", "lost"} => todo[h] = <<>>

\* The messages s of a connection down that was not refused are what the server
\* received, ms, in that order, and nothing after the connection was closed.
Relays(s, l, ms) ==
  \/ s = <<Refusal>>
  \/ s = <<>> /\ l \in {"closed", "lost"}
  \/ /\ Len(s) >= 1 /\ s[1] = Header(0, 0, CONN)
     /\ Len(s) <= Len(ms) + 1
     /\ l \in {"up", "reset"} => Len(s) = Len(ms) + 1
     /\ \A k \in 1..(Len(s) - 1) : s[k + 1] = ms[k]

Relayed == Relays(Stream("down"), link["down"], received["up"])

IsStartOf(s, t) == Len(s) <= Len(t) /\ \A k \in 1..Len(s) : s[k] = t[k]

Texts == {Text(n) : n \in 0..(MaxLen - 1)}

\* The messages s of the typist have the texts ts that were typed.
Tells(s, l, ts) ==
  /\ IsStartOf(ShownOf(AllCut(s)), ts)
  /\ l = "up" => ShownOf(AllCut(s)) = ts

TextsAreTyped ==
  /\ Tells(Stream("up"), link["up"], typed)
  /\ typed \in Seq(Texts)

Inductive ==
  /\ TypeOK /\ Relayed /\ TextsAreTyped
  /\ \A h \in Hops : HopInv(h) /\ TodoInv(h)

-----------------------------------------------------------------------------
(* Sequences of bytes. *)

LEMMA CatType ==
  ASSUME NEW S, NEW a \in Seq(S), NEW b \in Seq(S)
  PROVE  Cat(a, b) \in Seq(S) /\ Len(Cat(a, b)) = Len(a) + Len(b)
BY DEF Cat

\* The sequence of both, and where its elements are.
IsCat(c, a, b) ==
  /\ c = Cat(a, b) /\ Len(c) = Len(a) + Len(b)
  /\ \A i \in 1..Len(a) : c[i] = a[i]
  /\ \A i \in 1..Len(b) : c[Len(a) + i] = b[i]

LEMMA CatMade ==
  ASSUME NEW S, NEW a \in Seq(S), NEW b \in Seq(S)
  PROVE  Cat(a, b) \in Seq(S) /\ IsCat(Cat(a, b), a, b)
BY DEF Cat, IsCat

LEMMA CatAssociates ==
  ASSUME NEW S, NEW a \in Seq(S), NEW b \in Seq(S), NEW c \in Seq(S)
  PROVE  Cat(Cat(a, b), c) = Cat(a, Cat(b, c))
BY ConcatAssociative DEF Cat

LEMMA CatEmpty ==
  ASSUME NEW S, NEW a \in Seq(S)
  PROVE  Cat(a, <<>>) = a /\ Cat(<<>>, a) = a
BY DEF Cat

\* Where the parts are divided, they are the same.
LEMMA CatCancels ==
  ASSUME NEW S, NEW a \in Seq(S), NEW b \in Seq(S), NEW c \in Seq(S), NEW d \in Seq(S)
  PROVE  Cat(a, b) = Cat(c, d) /\ Len(a) = Len(c) => a = c /\ b = d
<1>1. /\ \A i \in 1..Len(a) : Cat(a, b)[i] = a[i]
      /\ \A i \in 1..Len(b) : Cat(a, b)[Len(a) + i] = b[i]
      /\ Len(Cat(a, b)) = Len(a) + Len(b)
  BY DEF Cat
<1>2. /\ \A i \in 1..Len(c) : Cat(c, d)[i] = c[i]
      /\ \A i \in 1..Len(d) : Cat(c, d)[Len(c) + i] = d[i]
      /\ Len(Cat(c, d)) = Len(c) + Len(d)
  BY DEF Cat
<1> HAVE Cat(a, b) = Cat(c, d) /\ Len(a) = Len(c)
<1>3. PICK m \in Nat, n \in Nat, k \in Nat : m = Len(a) /\ n = Len(b) /\ k = Len(d)
  OBVIOUS
<1>4. n = k
  <2>1. m + n = m + k
    BY <1>1, <1>2, <1>3
  <2> QED BY <2>1
<1>5. \A i \in 1..Len(a) : a[i] = c[i]
  BY <1>1, <1>2, Zenon
<1>6. \A i \in 1..Len(b) : b[i] = d[i]
  BY <1>1, <1>2, <1>3, <1>4, Zenon
<1>7. Len(b) = Len(d)
  BY <1>3, <1>4
<1> QED BY <1>5, <1>6, <1>7, SeqEqual

\* What is taken from the front, and what is left.
LEMMA CatSplits ==
  ASSUME NEW S, NEW s \in Seq(S), NEW n \in 0..Len(s)
  PROVE  /\ SubSeq(s, 1, n) \in Seq(S) /\ Len(SubSeq(s, 1, n)) = n
         /\ Skip(s, n) \in Seq(S) /\ Len(Skip(s, n)) = Len(s) - n
         /\ s = Cat(SubSeq(s, 1, n), Skip(s, n))
<1>1. SubSeq(s, 1, n) \in Seq(S) /\ Len(SubSeq(s, 1, n)) = n
  BY SubSeqProperties
<1>2. Skip(s, n) \in Seq(S) /\ Len(Skip(s, n)) = Len(s) - n
  <2>1. PICK m \in Nat : m = Len(s) /\ n <= m /\ n \in Nat
    OBVIOUS
  <2>2. \A i \in (n + 1)..m : s[i] \in S
    BY <2>1
  <2>3. /\ SubSeq(s, n + 1, m) \in Seq(S)
        /\ Len(SubSeq(s, n + 1, m)) = IF n + 1 <= m THEN (m - (n + 1)) + 1 ELSE 0
    BY <2>1, <2>2, SubSeqProperties
  <2> QED BY <2>1, <2>3 DEF Skip
<1>3. SubSeq(s, 1, n) \o SubSeq(s, n + 1, Len(s)) = SubSeq(s, 1, Len(s))
  <2>1. 1 \in 1..(Len(s) + 1) /\ n \in (1 - 1)..Len(s) /\ Len(s) \in n..Len(s)
    OBVIOUS
  <2> QED BY <2>1, ConcatAdjacentSubSeq, Zenon
<1>4. SubSeq(s, 1, Len(s)) = s
  BY SubSeqFull
<1> QED BY <1>1, <1>2, <1>3, <1>4 DEF Skip, Cat

LEMMA SkipOfCat ==
  ASSUME NEW S, NEW a \in Seq(S), NEW b \in Seq(S)
  PROVE  Skip(Cat(a, b), Len(a)) = b /\ SubSeq(Cat(a, b), 1, Len(a)) = a
<1>1. PICK s \in Seq(S) : s = Cat(a, b) /\ Len(s) = Len(a) + Len(b)
  BY CatType
<1>2. Len(a) \in 0..Len(s)
  BY <1>1
<1>3. /\ SubSeq(s, 1, Len(a)) \in Seq(S) /\ Len(SubSeq(s, 1, Len(a))) = Len(a)
      /\ Skip(s, Len(a)) \in Seq(S)
      /\ s = Cat(SubSeq(s, 1, Len(a)), Skip(s, Len(a)))
  BY <1>2, CatSplits
<1> QED BY <1>1, <1>3, CatCancels

-----------------------------------------------------------------------------
(* message.c *)

LEMMA LeastIs ==
  ASSUME NEW a \in Nat, NEW b \in Nat
  PROVE  /\ Least(a, b) \in Nat /\ Least(a, b) <= a /\ Least(a, b) <= b
         /\ a <= b => Least(a, b) = a
         /\ b <= a => Least(a, b) = b
         /\ a > 0 /\ b > 0 => Least(a, b) > 0
BY DEF Least

\* htons() and htonl() make bytes, and ntohs() and ntohl() take them back.
LEMMA ShortOrder ==
  ASSUME NEW n \in Nat
  PROVE  /\ Htons(n) \in Seq(Byte) /\ Len(Htons(n)) = 2
         /\ n <= MaxShort => Ntohs(Htons(n)) = n
<1>1. (n \div 256) % 256 \in Byte /\ n % 256 \in Byte
  BY SMT DEF Byte
<1>2. n <= MaxShort => 256 * ((n \div 256) % 256) + (n % 256) = n
  BY SMT DEF MaxShort
<1>3. n <= MaxShort => Ntohs(Htons(n)) = n
  BY <1>2, SMT DEF Htons, Ntohs
<1> QED BY <1>1, <1>3, SMT DEF Htons

LEMMA LongOrder ==
  ASSUME NEW n \in Nat
  PROVE  /\ Htonl(n) \in Seq(Byte) /\ Len(Htonl(n)) = 4
         /\ n <= MaxInt => Ntohl(Htonl(n)) = n
<1>1. /\ (n \div 16777216) % 256 \in Byte /\ (n \div 65536) % 256 \in Byte
      /\ (n \div 256) % 256 \in Byte /\ n % 256 \in Byte
  BY SMT DEF Byte
<1>2. n <= MaxInt =>
        16777216 * ((n \div 16777216) % 256) + 65536 * ((n \div 65536) % 256)
          + 256 * ((n \div 256) % 256) + (n % 256) = n
  BY SMT DEF MaxInt
<1>3. n <= MaxInt => Ntohl(Htonl(n)) = n
  BY <1>2, SMT DEF Htonl, Ntohl
<1> QED BY <1>1, <1>3, SMT DEF Htonl

\* They look at their bytes only.
LEMMA SameBytes ==
  ASSUME NEW b, NEW c
  PROVE  /\ b[1] = c[1] /\ b[2] = c[2] => Ntohs(b) = Ntohs(c)
         /\ b[1] = c[1] /\ b[2] = c[2] /\ b[3] = c[3] /\ b[4] = c[4] => Ntohl(b) = Ntohl(c)
BY SMT DEF Ntohs, Ntohl

LEMMA MaxShortInNat == MaxShort \in Nat /\ 0 < MaxShort /\ DATA <= MaxShort /\ CONN <= MaxShort /\ DCON <= MaxShort
BY SMT DEF MaxShort, DATA, CONN, DCON

LEMMA MaxIntInNat == MaxInt \in Nat
BY SMT DEF MaxInt

LEMMA WellMadeType ==
  ASSUME NEW m, WellMade(m)
  PROVE  /\ m \in MessageType
         /\ m.id \in Nat /\ m.kind \in Nat /\ m.length \in Nat
         /\ m.id <= MaxShort /\ m.kind <= MaxShort /\ m.length <= MaxInt
         /\ m.payload \in Seq(Byte) /\ Len(m.payload) = m.length
<1>1. m \in MessageType
  BY DEF WellMade
<1>2. m.kind <= MaxShort
  BY MaxShortInNat DEF WellMade
<1> QED BY <1>1, <1>2 DEF WellMade, MessageType

\* The bytes of a header.
HeaderBytes(m) == Cat(Cat(Htons(m.id), Htons(m.kind)), Htonl(m.length))

\* message_unmarshal_header() reads back what message_marshal() wrote.
LEMMA HeaderIs ==
  ASSUME NEW m, WellMade(m)
  PROVE  /\ HeaderBytes(m) \in Seq(Byte) /\ Len(HeaderBytes(m)) = HeaderLen
         /\ Unmarshal(HeaderBytes(m)) = Header(m.length, m.id, m.kind)
<1>1. PICK a \in Seq(Byte), b \in Seq(Byte), c \in Seq(Byte) :
        a = Htons(m.id) /\ b = Htons(m.kind) /\ c = Htonl(m.length)
  BY WellMadeType, ShortOrder, LongOrder
<1>2. /\ Len(a) = 2 /\ Len(b) = 2 /\ Len(c) = 4
      /\ Ntohs(a) = m.id /\ Ntohs(b) = m.kind /\ Ntohl(c) = m.length
  BY <1>1, WellMadeType, ShortOrder, LongOrder
<1>3. PICK t \in Seq(Byte) : IsCat(t, a, b)
  BY CatMade
<1>4. PICK s \in Seq(Byte) : IsCat(s, t, c)
  BY CatMade
<1>5. /\ s[1] = a[1] /\ s[2] = a[2] /\ s[3] = b[1] /\ s[4] = b[2]
      /\ s[5] = c[1] /\ s[6] = c[2] /\ s[7] = c[3] /\ s[8] = c[4]
      /\ Len(s) = 8 /\ s = HeaderBytes(m)
  <2>1. /\ t[1] = a[1] /\ t[2] = a[2] /\ t[3] = b[1] /\ t[4] = b[2]
        /\ Len(t) = 4
    BY <1>2, <1>3 DEF IsCat
  <2>2. /\ s[1] = t[1] /\ s[2] = t[2] /\ s[3] = t[3] /\ s[4] = t[4]
        /\ s[5] = c[1] /\ s[6] = c[2] /\ s[7] = c[3] /\ s[8] = c[4]
        /\ Len(s) = 8
    BY <1>2, <1>4, <2>1 DEF IsCat
  <2>3. s = HeaderBytes(m)
    BY <1>1, <1>3, <1>4 DEF HeaderBytes, IsCat
  <2> QED BY <2>1, <2>2, <2>3
<1>6. /\ SubSeq(s, 1, 2)[1] = s[1] /\ SubSeq(s, 1, 2)[2] = s[2]
      /\ SubSeq(s, 3, 4)[1] = s[3] /\ SubSeq(s, 3, 4)[2] = s[4]
      /\ SubSeq(s, 5, 8)[1] = s[5] /\ SubSeq(s, 5, 8)[2] = s[6]
      /\ SubSeq(s, 5, 8)[3] = s[7] /\ SubSeq(s, 5, 8)[4] = s[8]
  BY <1>5
<1>7. /\ Ntohs(SubSeq(s, 1, 2)) = Ntohs(a) /\ Ntohs(SubSeq(s, 3, 4)) = Ntohs(b)
      /\ Ntohl(SubSeq(s, 5, 8)) = Ntohl(c)
  <2>1. Ntohs(SubSeq(s, 1, 2)) = Ntohs(a)
    BY <1>5, <1>6, SameBytes, Zenon
  <2>2. Ntohs(SubSeq(s, 3, 4)) = Ntohs(b)
    BY <1>5, <1>6, SameBytes, Zenon
  <2>3. Ntohl(SubSeq(s, 5, 8)) = Ntohl(c)
    BY <1>5, <1>6, SameBytes, Zenon
  <2> QED BY <2>1, <2>2, <2>3, Zenon
<1>8. Unmarshal(s) = Header(m.length, m.id, m.kind)
  BY <1>2, <1>7 DEF Unmarshal
<1> QED BY <1>5, <1>8 DEF HeaderLen

LEMMA MarshalIs ==
  ASSUME NEW m, WellMade(m)
  PROVE  /\ Marshal(m) = Cat(HeaderBytes(m), m.payload)
         /\ Marshal(m) \in Seq(Byte) /\ Len(Marshal(m)) = HeaderLen + m.length
<1>1. Marshal(m) = Cat(HeaderBytes(m), m.payload)
  BY DEF Marshal, HeaderBytes, Cat
<1>2. HeaderBytes(m) \in Seq(Byte) /\ m.payload \in Seq(Byte)
  BY HeaderIs, WellMadeType
<1>3. /\ Cat(HeaderBytes(m), m.payload) \in Seq(Byte)
      /\ Len(Cat(HeaderBytes(m), m.payload)) = Len(HeaderBytes(m)) + Len(m.payload)
  BY <1>2, CatType
<1> QED BY <1>1, <1>3, HeaderIs, WellMadeType

-----------------------------------------------------------------------------
(* The bytes of several messages. *)

Messages == {m \in MessageType : WellMade(m)}

\* Their marshalled forms.
Forms(s, n) == [k \in 1..(Len(s) - n) |-> Marshal(s[n + k])]

LEMMA FormsType ==
  ASSUME NEW s \in Seq(Messages), NEW n \in 0..Len(s)
  PROVE  /\ Forms(s, n) \in Seq(Seq(Byte)) /\ Len(Forms(s, n)) = Len(s) - n
         /\ \A k \in 1..(Len(s) - n) : Forms(s, n)[k] = Marshal(s[n + k])
         /\ Behind(s, n) = FlattenSeq(Forms(s, n))
         /\ Behind(s, n) \in Seq(Byte)
<1>1. PICK l \in Nat : l = Len(s) - n
  OBVIOUS
<1>2. \A k \in 1..l : n + k \in 1..Len(s)
  BY <1>1
<1>3. \A k \in 1..Len(s) : s[k] \in Messages
  OBVIOUS
<1>4. \A k \in 1..l : Marshal(s[n + k]) \in Seq(Byte)
  BY <1>2, <1>3, MarshalIs DEF Messages
<1>5. PICK f : f = [k \in 1..l |-> Marshal(s[n + k])]
  OBVIOUS
<1>6. f \in [1..l -> Seq(Byte)]
  BY <1>4, <1>5
<1>7. f \in Seq(Seq(Byte)) /\ Len(f) = l
  BY <1>6
<1>8. f = Forms(s, n) /\ Behind(s, n) = FlattenSeq(f)
  BY <1>1, <1>5 DEF Forms, Behind
<1>9. FlattenSeq(f) \in Seq(Byte)
  BY <1>7, FlattenType
<1> QED BY <1>1, <1>5, <1>7, <1>8, <1>9

\* There is nothing behind the last message,
LEMMA BehindNone ==
  ASSUME NEW s \in Seq(Messages)
  PROVE  Behind(s, Len(s)) = <<>>
<1>1. Forms(s, Len(s)) = <<>>
  BY DEF Forms
<1>2. Len(s) \in 0..Len(s)
  OBVIOUS
<1> QED BY <1>1, <1>2, FormsType, FlattenNone

\* before that there is the next message,
LEMMA BehindNext ==
  ASSUME NEW s \in Seq(Messages), NEW n \in 0..(Len(s) - 1)
  PROVE  Behind(s, n) = Cat(Marshal(s[n + 1]), Behind(s, n + 1))
<1>1. /\ n \in 0..Len(s) /\ n + 1 \in 0..Len(s) /\ n + 1 \in 1..Len(s)
  OBVIOUS
<1>2. s[n + 1] \in Messages
  BY <1>1
<1>3. PICK a \in Seq(Byte) : a = Marshal(s[n + 1])
  BY <1>2, MarshalIs DEF Messages
<1>4. PICK f \in Seq(Seq(Byte)), g \in Seq(Seq(Byte)) :
        f = Forms(s, n) /\ g = Forms(s, n + 1)
  <2>1. Forms(s, n) \in Seq(Seq(Byte))
    BY <1>1, FormsType, Zenon
  <2>2. Forms(s, n + 1) \in Seq(Seq(Byte))
    BY <1>1, FormsType, Zenon
  <2> QED BY <2>1, <2>2, Zenon
<1>5. PICK l \in Nat : l = Len(s) - (n + 1)
  <2>1. Len(s) - (n + 1) \in Nat
    BY <1>1
  <2> QED BY <2>1, Zenon
<1>6. /\ f = [k \in 1..(l + 1) |-> Marshal(s[n + k])]
      /\ g = [k \in 1..l |-> Marshal(s[(n + 1) + k])]
  BY <1>1, <1>4, <1>5 DEF Forms
<1>7. f = <<a>> \o g
  <2>1. Len(f) = l + 1 /\ Len(g) = l
    BY <1>6
  <2>2. <<a>> \in Seq(Seq(Byte)) /\ Len(<<a>>) = 1
    OBVIOUS
  <2>3. <<a>> \o g \in Seq(Seq(Byte)) /\ Len(<<a>> \o g) = l + 1
    <3>1. <<a>> \o g \in Seq(Seq(Byte)) /\ Len(<<a>> \o g) = Len(<<a>>) + Len(g)
      BY <2>2, ConcatProperties, Zenon
    <3>2. Len(<<a>> \o g) = 1 + l
      BY <2>1, <2>2, <3>1, Zenon
    <3> QED BY <3>1, <3>2
  <2>4. ASSUME NEW k \in 1..(l + 1)
        PROVE  f[k] = (<<a>> \o g)[k]
    <3>1. CASE k = 1
      BY <3>1, <1>3, <1>6
    <3>2. CASE k # 1
      <4>1. k - 1 \in 1..l /\ (n + 1) + (k - 1) = n + k
        BY <3>2, <1>1
      <4>2. g[k - 1] = Marshal(s[n + k])
        BY <4>1, <1>6
      <4>3. (<<a>> \o g)[k] = g[k - 1]
        BY <4>1, <2>1
      <4> QED BY <4>2, <4>3, <1>6
    <3> QED BY <3>1, <3>2
  <2> QED BY <2>1, <2>2, <2>3, <2>4, SeqEqual
<1>8. <<a>> \in Seq(Seq(Byte))
  OBVIOUS
<1>9. FlattenSeq(f) = FlattenSeq(<<a>>) \o FlattenSeq(g)
  BY <1>7, <1>8, FlattenConcat
<1>10. FlattenSeq(<<a>>) = a
  BY FlattenOne
<1>11. Behind(s, n) = FlattenSeq(f) /\ Behind(s, n + 1) = FlattenSeq(g)
  BY <1>1, <1>4, FormsType
<1> QED BY <1>3, <1>9, <1>10, <1>11 DEF Cat

\* and a new message is put behind all others.
LEMMA BehindAppend ==
  ASSUME NEW s \in Seq(Messages), NEW n \in 0..Len(s), NEW m \in Messages
  PROVE  Behind(Append(s, m), n) = Cat(Behind(s, n), Marshal(m))
<1>1. PICK t \in Seq(Messages) :
        /\ t = Append(s, m) /\ Len(t) = Len(s) + 1 /\ t[Len(s) + 1] = m
        /\ \A k \in 1..Len(s) : t[k] = s[k]
  <2>1. /\ Append(s, m) \in Seq(Messages) /\ Len(Append(s, m)) = Len(s) + 1
        /\ \A k \in 1..Len(s) : Append(s, m)[k] = s[k]
        /\ Append(s, m)[Len(s) + 1] = m
    BY AppendKeeps
  <2> QED BY <2>1, Zenon
<1>2. n \in 0..Len(t)
  BY <1>1
<1>3. PICK a \in Seq(Byte) : a = Marshal(m)
  BY MarshalIs DEF Messages
<1>4. PICK f \in Seq(Seq(Byte)), g \in Seq(Seq(Byte)) :
        f = Forms(s, n) /\ g = Forms(t, n)
  <2>1. Forms(s, n) \in Seq(Seq(Byte))
    BY FormsType, Zenon
  <2>2. Forms(t, n) \in Seq(Seq(Byte))
    BY <1>1, <1>2, FormsType, Zenon
  <2> QED BY <2>1, <2>2, Zenon
<1>5. PICK l \in Nat : l = Len(s) - n
  <2>1. Len(s) - n \in Nat
    OBVIOUS
  <2> QED BY <2>1, Zenon
<1>6. /\ f = [k \in 1..l |-> Marshal(s[n + k])]
      /\ g = [k \in 1..(l + 1) |-> Marshal(t[n + k])]
  <2>1. Len(t) - n = l + 1
    BY <1>1, <1>5
  <2> QED BY <1>4, <1>5, <2>1, Zenon DEF Forms
<1>7. g = f \o <<a>>
  <2>1. Len(f) = l /\ Len(g) = l + 1
    BY <1>6
  <2>2. <<a>> \in Seq(Seq(Byte)) /\ f \o <<a>> \in Seq(Seq(Byte))
    OBVIOUS
  <2>3. Len(f \o <<a>>) = l + 1
    BY <2>1
  <2>4. ASSUME NEW k \in 1..(l + 1)
        PROVE  g[k] = (f \o <<a>>)[k]
    <3>1. CASE k = l + 1
      <4>1. n + k = Len(s) + 1
        BY <3>1, <1>5
      <4>2. (f \o <<a>>)[k] = a
        <5>1. (f \o <<a>>)[Len(f) + 1] = a
          OBVIOUS
        <5> QED BY <5>1, <3>1, <2>1
      <4> QED BY <4>1, <4>2, <1>1, <1>3, <1>6
    <3>2. CASE k # l + 1
      <4>1. k \in 1..l /\ n + k \in 1..Len(s)
        BY <3>2, <1>5
      <4>2. (f \o <<a>>)[k] = f[k]
        BY <4>1, <2>1
      <4>3. f[k] = Marshal(s[n + k]) /\ g[k] = Marshal(t[n + k])
        BY <4>1, <1>6
      <4>4. t[n + k] = s[n + k]
        BY <4>1, <1>1
      <4> QED BY <4>2, <4>3, <4>4
    <3> QED BY <3>1, <3>2
  <2> QED BY <2>1, <2>2, <2>3, <2>4, SeqEqual
<1>8. <<a>> \in Seq(Seq(Byte))
  OBVIOUS
<1>9. FlattenSeq(g) = FlattenSeq(f) \o FlattenSeq(<<a>>)
  BY <1>7, <1>8, FlattenConcat
<1>10. FlattenSeq(<<a>>) = a
  BY FlattenOne
<1>11. Behind(s, n) = FlattenSeq(f) /\ Behind(t, n) = FlattenSeq(g)
  BY <1>2, <1>4, FormsType
<1> QED BY <1>1, <1>3, <1>9, <1>10, <1>11 DEF Cat

-----------------------------------------------------------------------------
(* The messages that are made. *)

LEMMA Constants ==
  /\ MaxLen \in Nat /\ MaxLen > 0 /\ MaxLen <= MaxInt
  /\ Typist \in Nat /\ Typist <= MaxShort /\ 0 \in Byte
  /\ DiscardLen \in Nat /\ DiscardLen > 0
<1>1. 0 \in Byte
  BY SMT DEF Byte
<1> QED BY <1>1, FramingAssumption, MaxShortInNat, MaxIntInNat

LEMMA HeaderMade ==
  ASSUME NEW id \in Nat, id <= MaxShort, NEW kind \in {DATA, CONN, DCON}
  PROVE  /\ WellMade(Header(0, id, kind))
         /\ Header(0, id, kind).length = 0 /\ Header(0, id, kind).kind = kind
         /\ Header(0, id, kind).id = id
<1>1. <<>> \in Seq(Byte) /\ Len(<<>>) = 0
  OBVIOUS
<1>2. kind \in Nat
  BY DEF DATA, CONN, DCON
<1>3. Header(0, id, kind) \in MessageType
  BY <1>1, <1>2 DEF Header, MessageType
<1> QED BY <1>1, <1>3, MaxIntInNat DEF Header, WellMade

\* create_message() with bytes enough.
LEMMA MessageMade ==
  ASSUME NEW n \in Nat, n > 0, NEW id \in Nat, id <= MaxShort,
         NEW kind \in {DATA, CONN, DCON}, NEW b \in Seq(Byte), Least(n, MaxLen) <= Len(b)
  PROVE  /\ WellMade(Message(n, id, kind, b))
         /\ Message(n, id, kind, b).length = Least(n, MaxLen)
         /\ Message(n, id, kind, b).id = id /\ Message(n, id, kind, b).kind = kind
         /\ TextOf(Message(n, id, kind, b)) = SubSeq(b, 1, Least(n, MaxLen) - 1)
<1>1. PICK l \in Nat : l = Least(n, MaxLen) /\ l > 0 /\ l <= MaxInt /\ l <= Len(b)
  <2>1. /\ Least(n, MaxLen) \in Nat /\ Least(n, MaxLen) > 0 /\ Least(n, MaxLen) <= MaxLen
        /\ MaxLen \in Nat /\ MaxLen <= MaxInt /\ MaxInt \in Nat
    BY LeastIs, Constants, MaxIntInNat
  <2>2. PICK l \in Nat : l = Least(n, MaxLen)
    BY <2>1
  <2> QED BY <2>1, <2>2
<1>2. PICK p \in Seq(Byte) : /\ p = [SubSeq(b, 1, l) EXCEPT ![l] = 0] /\ Len(p) = l
                             /\ p[l] = 0 /\ \A i \in 1..(l - 1) : p[i] = b[i]
  <2>1. SubSeq(b, 1, l) \in Seq(Byte) /\ Len(SubSeq(b, 1, l)) = l
    BY <1>1, CatSplits
  <2>2. \A i \in 1..l : SubSeq(b, 1, l)[i] = b[i]
    BY <1>1, <2>1
  <2>3. PICK q \in Seq(Byte) : q = SubSeq(b, 1, l) /\ Len(q) = l /\ \A i \in 1..l : q[i] = b[i]
    BY <2>1, <2>2, Zenon
  <2>4. l \in 1..l /\ 0 \in Byte
    BY <1>1, Constants
  <2>5. /\ [q EXCEPT ![l] = 0] \in Seq(Byte) /\ Len([q EXCEPT ![l] = 0]) = l
        /\ [q EXCEPT ![l] = 0][l] = 0
        /\ \A i \in 1..(l - 1) : [q EXCEPT ![l] = 0][i] = b[i]
    <3>1. /\ [q EXCEPT ![l] = 0] \in Seq(Byte) /\ Len([q EXCEPT ![l] = 0]) = Len(q)
          /\ \A j \in 1..Len(q) : [q EXCEPT ![l] = 0][j] = IF j = l THEN 0 ELSE q[j]
      <4>1. l \in 1..Len(q)
        BY <2>3, <2>4
      <4> QED BY <4>1, <2>4, ExceptSeq
    <3>2. \A i \in 1..(l - 1) : i \in 1..l /\ i # l
      BY <1>1
    <3> QED BY <2>3, <2>4, <3>1, <3>2, Zenon
  <2> QED BY <2>3, <2>5, Zenon
<1>3. Message(n, id, kind, b) = [id |-> id, kind |-> kind, length |-> l, payload |-> p]
  BY <1>1, <1>2 DEF Message, Header
<1>4. PICK m : m = Message(n, id, kind, b)
  OBVIOUS
<1>5. m.id = id /\ m.kind = kind /\ m.length = l /\ m.payload = p
  BY <1>3, <1>4
<1>6. kind \in Nat
  BY DEF DATA, CONN, DCON
<1>7. m \in MessageType
  BY <1>3, <1>4, <1>6 DEF MessageType
<1>8. WellMade(m)
  BY <1>1, <1>2, <1>5, <1>7 DEF WellMade
<1>9. TextOf(m) = SubSeq(b, 1, l - 1)
  <2>1. l - 1 \in 0..Len(p) /\ l - 1 \in 0..Len(b) /\ l - 1 \in Nat
    BY <1>1, <1>2
  <2>2. PICK k \in Nat : k = l - 1
    BY <2>1
  <2>3. /\ SubSeq(p, 1, k) \in Seq(Byte) /\ Len(SubSeq(p, 1, k)) = k
        /\ \A i \in 1..k : SubSeq(p, 1, k)[i] = p[i]
    BY <2>1, <2>2, SubSeqProperties
  <2>4. /\ SubSeq(b, 1, k) \in Seq(Byte) /\ Len(SubSeq(b, 1, k)) = k
        /\ \A i \in 1..k : SubSeq(b, 1, k)[i] = b[i]
    BY <2>1, <2>2, SubSeqProperties
  <2>5. \A i \in 1..k : SubSeq(p, 1, k)[i] = SubSeq(b, 1, k)[i]
    BY <1>2, <2>2, <2>3, <2>4, Zenon
  <2>6. SubSeq(p, 1, k) = SubSeq(b, 1, k)
    BY <2>3, <2>4, <2>5, SeqEqual
  <2> QED BY <1>5, <2>2, <2>6 DEF TextOf
<1> QED BY <1>1, <1>2, <1>4, <1>5, <1>8, <1>9

\* A message that is short enough is not cut,
LEMMA CutShort ==
  ASSUME NEW m, WellMade(m), m.length <= MaxLen
  PROVE  Cut(m) = m
<1>1. CASE m.length = 0
  BY <1>1 DEF Cut
<1>2. CASE m.length # 0
  <2>1. PICK l \in Nat : l = m.length /\ l > 0 /\ Least(l, MaxLen) = l
    <3>1. PICK l \in Nat : l = m.length /\ l > 0 /\ l <= MaxLen /\ MaxLen \in Nat
      BY <1>2, WellMadeType, Constants
    <3> QED BY <3>1, LeastIs
  <2>2. PICK p \in Seq(Byte) : p = m.payload /\ Len(p) = l /\ p[l] = 0
    BY <2>1, WellMadeType DEF WellMade
  <2>3. SubSeq(p, 1, l) = p
    BY <2>2, SubSeqFull
  <2>4. [p EXCEPT ![l] = 0] = p
    <3>1. l \in 1..Len(p) /\ 0 \in Byte
      BY <2>1, <2>2, Constants
    <3>2. /\ [p EXCEPT ![l] = 0] \in Seq(Byte) /\ Len([p EXCEPT ![l] = 0]) = Len(p)
          /\ \A j \in 1..Len(p) : [p EXCEPT ![l] = 0][j] = IF j = l THEN 0 ELSE p[j]
      BY <3>1, ExceptSeq
    <3>3. \A j \in 1..Len(p) : [p EXCEPT ![l] = 0][j] = p[j]
      BY <2>2, <3>2, Zenon
    <3> QED BY <3>2, <3>3, SeqEqual
  <2>5. Cut(m) = [id |-> m.id, kind |-> m.kind, length |-> l, payload |-> p]
    <3>1. Message(l, m.id, m.kind, p)
            = [id |-> m.id, kind |-> m.kind, length |-> l,
               payload |-> [SubSeq(p, 1, l) EXCEPT ![l] = 0]]
      BY <2>1, Zenon DEF Message
    <3>2. Cut(m) = Message(l, m.id, m.kind, p)
      BY <1>2, <2>1, <2>2 DEF Cut
    <3> QED BY <3>1, <3>2, <2>3, <2>4, Zenon
  <2>6. m = [id |-> m.id, kind |-> m.kind, length |-> m.length, payload |-> m.payload]
    BY WellMadeType DEF MessageType
  <2> QED BY <2>1, <2>2, <2>5, <2>6
<1> QED BY <1>1, <1>2

\* and one that was cut not again.
LEMMA CutIs ==
  ASSUME NEW m, WellMade(m)
  PROVE  /\ WellMade(Cut(m)) /\ Cut(Cut(m)) = Cut(m)
         /\ Cut(m).kind = m.kind /\ Cut(m).id = m.id
         /\ Cut(m).length > 0 <=> m.length > 0
         /\ m.length > 0 =>
              TextOf(Cut(m)) = SubSeq(m.payload, 1, Least(m.length, MaxLen) - 1)
<1>1. CASE m.length = 0
  BY <1>1 DEF Cut
<1>2. CASE m.length # 0
  <2>1. PICK n \in Nat : n = m.length /\ n > 0
    BY <1>2, WellMadeType
  <2>2. /\ Least(n, MaxLen) \in Nat /\ Least(n, MaxLen) <= n /\ Least(n, MaxLen) <= MaxLen
        /\ Least(n, MaxLen) > 0
    BY <2>1, LeastIs, Constants
  <2>3. PICK p \in Seq(Byte) : p = m.payload /\ Least(n, MaxLen) <= Len(p)
    BY <2>1, <2>2, WellMadeType
  <2>4. m.id \in Nat /\ m.id <= MaxShort /\ m.kind \in {DATA, CONN, DCON}
    BY WellMadeType DEF WellMade
  <2>5. PICK c : c = Cut(m) /\ c = Message(n, m.id, m.kind, p)
    BY <1>2, <2>1, <2>3 DEF Cut
  <2>6. /\ WellMade(c) /\ c.length = Least(n, MaxLen) /\ c.id = m.id /\ c.kind = m.kind
        /\ TextOf(c) = SubSeq(p, 1, Least(n, MaxLen) - 1)
    <3>1. PICK id \in Nat, kind \in {DATA, CONN, DCON} :
            id = m.id /\ kind = m.kind /\ id <= MaxShort
      BY <2>4
    <3>2. /\ WellMade(Message(n, id, kind, p))
          /\ Message(n, id, kind, p).length = Least(n, MaxLen)
          /\ Message(n, id, kind, p).id = id /\ Message(n, id, kind, p).kind = kind
          /\ TextOf(Message(n, id, kind, p)) = SubSeq(p, 1, Least(n, MaxLen) - 1)
      BY <2>1, <2>3, <3>1, MessageMade
    <3> QED BY <2>5, <3>1, <3>2, Zenon
  <2>7. Cut(c) = c
    BY <2>2, <2>6, CutShort
  <2> QED BY <2>1, <2>2, <2>3, <2>5, <2>6, <2>7
<1> QED BY <1>1, <1>2, WellMadeType

\* The characters of a line, and what is left of one that is cut.
LEMMA TextIs ==
  ASSUME NEW n \in Nat
  PROVE  /\ Text(n) \in Seq(Byte) /\ Len(Text(n)) = n
         /\ Text(n) \o <<0>> \in Seq(Byte) /\ Len(Text(n) \o <<0>>) = n + 1
         /\ (Text(n) \o <<0>>)[n + 1] = 0
         /\ \A k \in 0..n : SubSeq(Text(n) \o <<0>>, 1, k) = Text(k)
<1>1. \A k \in Nat : Text(k) \in Seq(Byte) /\ Len(Text(k)) = k
                     /\ \A i \in 1..k : Text(k)[i] = 1 + ((i - 1) % 255)
  <2>1. ASSUME NEW j \in Nat PROVE 1 + (j % 255) \in Byte
    <3>1. PICK r \in Int : r = j % 255 /\ 0 <= r /\ r < 255
      BY SMT
    <3>2. 1 + r \in Byte
      BY <3>1, SMT DEF Byte
    <3> QED BY <3>1, <3>2
  <2> SUFFICES ASSUME NEW k \in Nat
               PROVE  /\ Text(k) \in Seq(Byte) /\ Len(Text(k)) = k
                      /\ \A i \in 1..k : Text(k)[i] = 1 + ((i - 1) % 255)
    OBVIOUS
  <2>2. \A i \in 1..k : 1 + ((i - 1) % 255) \in Byte
    <3>1. \A i \in 1..k : i - 1 \in Nat
      OBVIOUS
    <3> QED BY <2>1, <3>1, Zenon
  <2>3. PICK f : f = [i \in 1..k |-> 1 + ((i - 1) % 255)]
    OBVIOUS
  <2>4. f \in [1..k -> Byte]
    BY <2>2, <2>3
  <2>5. f \in Seq(Byte) /\ Len(f) = k
    BY <2>4
  <2> QED BY <2>3, <2>5 DEF Text
<1>2. <<0>> \in Seq(Byte)
  BY Constants
<1>3. PICK t \in Seq(Byte) : t = Text(n) /\ Len(t) = n /\ \A i \in 1..n : t[i] = 1 + ((i - 1) % 255)
  BY <1>1
<1>4. PICK s \in Seq(Byte) : /\ s = t \o <<0>> /\ Len(s) = Len(t) + 1 /\ s[Len(t) + 1] = 0
                             /\ \A i \in 1..Len(t) : s[i] = t[i]
  <2>1. /\ t \o <<0>> \in Seq(Byte) /\ Len(t \o <<0>>) = Len(t) + 1
        /\ (t \o <<0>>)[Len(t) + 1] = 0
        /\ \A i \in 1..Len(t) : (t \o <<0>>)[i] = t[i]
    BY <1>2
  <2> QED BY <2>1, Zenon
<1>5. ASSUME NEW k \in 0..n
      PROVE  SubSeq(s, 1, k) = Text(k)
  <2>1. k \in Nat /\ k \in 0..Len(s)
    BY <1>3, <1>4
  <2>2. SubSeq(s, 1, k) \in Seq(Byte) /\ Len(SubSeq(s, 1, k)) = k
    BY <2>1, CatSplits
  <2>3. \A i \in 1..k : SubSeq(s, 1, k)[i] = s[i] /\ i \in 1..Len(t) /\ i \in 1..n
    BY <1>3, <2>1, <2>2
  <2>4. Text(k) \in Seq(Byte) /\ Len(Text(k)) = k /\ \A i \in 1..k : Text(k)[i] = 1 + ((i - 1) % 255)
    BY <2>1, <1>1
  <2>5. \A i \in 1..k : SubSeq(s, 1, k)[i] = Text(k)[i]
    <3> SUFFICES ASSUME NEW i \in 1..k PROVE SubSeq(s, 1, k)[i] = Text(k)[i]
      OBVIOUS
    <3>1. SubSeq(s, 1, k)[i] = s[i] /\ s[i] = t[i] /\ i \in 1..n
      BY <1>4, <2>3, Zenon
    <3>2. t[i] = 1 + ((i - 1) % 255)
      BY <1>3, <3>1, Zenon
    <3>3. Text(k)[i] = 1 + ((i - 1) % 255)
      BY <2>4, Zenon
    <3> QED BY <3>1, <3>2, <3>3, Zenon
  <2>6. PICK u \in Seq(Byte), v \in Seq(Byte) :
          /\ u = SubSeq(s, 1, k) /\ v = Text(k) /\ Len(u) = k /\ Len(v) = k
          /\ \A i \in 1..k : u[i] = v[i]
    <3> DEFINE Same(u, v) == /\ u = SubSeq(s, 1, k) /\ v = Text(k) /\ Len(u) = k /\ Len(v) = k
                             /\ \A i \in 1..k : u[i] = v[i]
    <3>1. Same(SubSeq(s, 1, k), Text(k))
      BY <2>2, <2>4, <2>5, Zenon
    <3> HIDE DEF Same
    <3>2. \E u \in Seq(Byte), v \in Seq(Byte) : Same(u, v)
      BY <2>2, <2>4, <3>1, Zenon
    <3> QED BY <3>2, Zenon DEF Same
  <2>7. u = v
    BY <2>6, SeqEqual
  <2> QED BY <2>6, <2>7
<1> QED BY <1>3, <1>4, <1>5

-----------------------------------------------------------------------------
(* What is shown of several messages. *)

ShownBy(m) == IF m.kind = DATA THEN <<TextOf(m)>> ELSE <<>>
Pages(ms) == [k \in 1..Len(ms) |-> ShownBy(ms[k])]

LEMMA ShownByType ==
  ASSUME NEW m \in Messages
  PROVE  ShownBy(m) \in Seq(Seq(Byte))
<1>1. PICK l \in Nat, p \in Seq(Byte) : l = m.length /\ p = m.payload /\ Len(p) = l
  BY WellMadeType DEF Messages
<1>2. \A i \in 1..(l - 1) : p[i] \in Byte
  BY <1>1
<1>3. SubSeq(p, 1, l - 1) \in Seq(Byte)
  BY <1>2, SubSeqProperties
<1>4. TextOf(m) \in Seq(Byte)
  BY <1>1, <1>3 DEF TextOf
<1> QED BY <1>4 DEF ShownBy

LEMMA PagesType ==
  ASSUME NEW s \in Seq(Messages)
  PROVE  /\ Pages(s) \in Seq(Seq(Seq(Byte))) /\ Len(Pages(s)) = Len(s)
         /\ \A k \in 1..Len(s) : Pages(s)[k] = ShownBy(s[k])
         /\ ShownOf(s) = FlattenSeq(Pages(s)) /\ ShownOf(s) \in Seq(Seq(Byte))
<1>1. PICK l \in Nat : l = Len(s) /\ \A k \in 1..l : s[k] \in Messages
  OBVIOUS
<1>2. PICK f : f = [k \in 1..l |-> ShownBy(s[k])]
  OBVIOUS
<1>3. f \in [1..l -> Seq(Seq(Byte))]
  <2>1. \A k \in 1..l : ShownBy(s[k]) \in Seq(Seq(Byte))
    BY <1>1, ShownByType
  <2> QED BY <1>2, <2>1
<1>4. f \in Seq(Seq(Seq(Byte))) /\ Len(f) = l
  BY <1>3
<1>5. f = Pages(s) /\ ShownOf(s) = FlattenSeq(f)
  BY <1>1, <1>2 DEF Pages, ShownOf, ShownBy
<1>6. FlattenSeq(f) \in Seq(Seq(Byte))
  BY <1>4, FlattenType
<1> QED BY <1>1, <1>2, <1>4, <1>5, <1>6

\* Messages one after the other are shown one after the other.
LEMMA ShownConcat ==
  ASSUME NEW s \in Seq(Messages), NEW t \in Seq(Messages)
  PROVE  ShownOf(Cat(s, t)) = Cat(ShownOf(s), ShownOf(t))
<1>1. PICK u \in Seq(Messages) : IsCat(u, s, t)
  BY CatMade
<1>2. /\ Pages(s) \in Seq(Seq(Seq(Byte))) /\ Len(Pages(s)) = Len(s)
      /\ Pages(t) \in Seq(Seq(Seq(Byte))) /\ Len(Pages(t)) = Len(t)
      /\ Pages(u) \in Seq(Seq(Seq(Byte))) /\ Len(Pages(u)) = Len(u)
      /\ \A k \in 1..Len(s) : Pages(s)[k] = ShownBy(s[k])
      /\ \A k \in 1..Len(t) : Pages(t)[k] = ShownBy(t[k])
      /\ \A k \in 1..Len(u) : Pages(u)[k] = ShownBy(u[k])
  BY PagesType
<1>3. PICK f \in Seq(Seq(Seq(Byte))), g \in Seq(Seq(Seq(Byte))), h \in Seq(Seq(Seq(Byte))) :
        f = Pages(s) /\ g = Pages(t) /\ h = Pages(u)
  BY <1>2, Zenon
<1>4. h = Cat(f, g)
  <2>1. PICK c \in Seq(Seq(Seq(Byte))) : IsCat(c, f, g)
    BY CatMade
  <2>2. PICK m \in Nat, n \in Nat : m = Len(s) /\ n = Len(t)
    OBVIOUS
  <2>3. /\ Len(h) = m + n /\ Len(c) = m + n /\ m = Len(f) /\ n = Len(g) /\ m + n = Len(u)
    BY <1>1, <1>2, <1>3, <2>1, <2>2 DEF IsCat
  <2>4. ASSUME NEW i \in 1..(m + n)
        PROVE  h[i] = c[i]
    <3>1. h[i] = ShownBy(u[i])
      BY <1>2, <1>3, <2>3, Zenon
    <3>2. CASE i \in 1..m
      <4>1. f[i] = ShownBy(s[i]) /\ c[i] = f[i] /\ u[i] = s[i]
        BY <1>1, <1>2, <1>3, <2>1, <2>2, <2>3, <3>2, Zenon DEF IsCat
      <4> QED BY <3>1, <4>1
    <3>3. CASE i \notin 1..m
      <4>1. PICK j \in 1..n : i = m + j
        <5>1. i - m \in 1..n /\ i = m + (i - m)
          BY <3>3
        <5> QED BY <5>1, Zenon
      <4>2. g[j] = ShownBy(t[j]) /\ c[m + j] = g[j] /\ u[m + j] = t[j]
        BY <1>1, <1>2, <1>3, <2>1, <2>2, <2>3, Zenon DEF IsCat
      <4> QED BY <3>1, <4>1, <4>2, Zenon
    <3> QED BY <3>2, <3>3
  <2>5. \A i \in 1..Len(h) : h[i] = c[i]
    BY <2>3, <2>4, Zenon
  <2>6. Len(h) = Len(c)
    BY <2>3
  <2> QED BY <2>1, <2>5, <2>6, SeqEqual DEF IsCat
<1>5. FlattenSeq(Cat(f, g)) = Cat(FlattenSeq(f), FlattenSeq(g))
  BY FlattenConcat DEF Cat
<1> QED BY <1>1, <1>3, <1>4, <1>5, PagesType DEF IsCat

LEMMA ShownOne ==
  ASSUME NEW m \in Messages
  PROVE  ShownOf(<<m>>) = ShownBy(m)
<1>1. <<m>> \in Seq(Messages) /\ ShownBy(m) \in Seq(Seq(Byte))
  BY ShownByType
<1>2. Pages(<<m>>) = <<ShownBy(m)>>
  BY DEF Pages
<1>3. FlattenSeq(<<ShownBy(m)>>) = ShownBy(m)
  BY <1>1, FlattenOne
<1> QED BY <1>1, <1>2, <1>3, PagesType

LEMMA ShownNone == ShownOf(<<>>) = <<>>
<1>1. <<>> \in Seq(Messages) /\ Pages(<<>>) = <<>>
  BY DEF Pages
<1> QED BY <1>1, PagesType, FlattenNone

\* The start of a sequence is what something comes behind.
LEMMA StartSplits ==
  ASSUME NEW S, NEW s \in Seq(S), NEW t \in Seq(S), IsStartOf(s, t)
  PROVE  \E u \in Seq(S) : t = Cat(s, u)
<1>1. Len(s) \in 0..Len(t)
  BY DEF IsStartOf
<1>2. /\ SubSeq(t, 1, Len(s)) \in Seq(S) /\ Len(SubSeq(t, 1, Len(s))) = Len(s)
      /\ Skip(t, Len(s)) \in Seq(S)
      /\ t = Cat(SubSeq(t, 1, Len(s)), Skip(t, Len(s)))
  BY <1>1, CatSplits
<1>3. \A k \in 1..Len(s) : SubSeq(t, 1, Len(s))[k] = t[k]
  BY <1>1
<1>4. SubSeq(t, 1, Len(s)) = s
  <2>1. \A k \in 1..Len(s) : SubSeq(t, 1, Len(s))[k] = s[k]
    BY <1>3 DEF IsStartOf
  <2> QED BY <1>2, <2>1, SeqEqual
<1> QED BY <1>2, <1>4, Zenon

LEMMA CatStarts ==
  ASSUME NEW S, NEW s \in Seq(S), NEW u \in Seq(S)
  PROVE  IsStartOf(s, Cat(s, u))
<1>1. PICK c \in Seq(S) : IsCat(c, s, u)
  BY CatMade
<1>2. Len(s) <= Len(c)
  BY <1>1 DEF IsCat
<1> QED BY <1>1, <1>2 DEF IsCat, IsStartOf

LEMMA ShownStart ==
  ASSUME NEW s \in Seq(Messages), NEW t \in Seq(Messages), IsStartOf(s, t)
  PROVE  IsStartOf(ShownOf(s), ShownOf(t))
<1>1. PICK u \in Seq(Messages) : t = Cat(s, u)
  BY StartSplits
<1>2. ShownOf(s) \in Seq(Seq(Byte)) /\ ShownOf(u) \in Seq(Seq(Byte))
  BY PagesType
<1>3. IsStartOf(ShownOf(s), Cat(ShownOf(s), ShownOf(u)))
  BY <1>2, CatStarts
<1> QED BY <1>1, <1>3, ShownConcat

\* What is a start is one of what comes to be longer.
LEMMA StartOfMore ==
  ASSUME NEW S, NEW s \in Seq(S), NEW t \in Seq(S), NEW u \in Seq(S),
         IsStartOf(s, t), IsStartOf(t, u)
  PROVE  IsStartOf(s, u)
<1>1. PICK l \in Nat, m \in Nat, n \in Nat : l = Len(s) /\ m = Len(t) /\ n = Len(u)
  OBVIOUS
<1>2. l <= m /\ m <= n
  BY <1>1 DEF IsStartOf
<1>3. l <= n /\ \A k \in 1..l : k \in 1..m
  BY <1>2
<1>4. /\ \A k \in 1..l : s[k] = t[k]
      /\ \A k \in 1..m : t[k] = u[k]
  BY <1>1 DEF IsStartOf
<1>5. \A k \in 1..l : s[k] = u[k]
  BY <1>3, <1>4, Zenon
<1> QED BY <1>1, <1>3, <1>5 DEF IsStartOf

LEMMA AllCutIs ==
  ASSUME NEW s \in Seq(Messages)
  PROVE  /\ AllCut(s) \in Seq(Messages) /\ Len(AllCut(s)) = Len(s)
         /\ \A k \in 1..Len(s) : AllCut(s)[k] = Cut(s[k])
<1>1. PICK l \in Nat : l = Len(s) /\ \A k \in 1..l : s[k] \in Messages
  OBVIOUS
<1>2. PICK f : f = [k \in 1..l |-> Cut(s[k])]
  OBVIOUS
<1>3. \A m \in Messages : Cut(m) \in Messages
  BY CutIs DEF Messages, WellMade
<1>4. f \in [1..l -> Messages]
  BY <1>1, <1>2, <1>3
<1>5. f \in Seq(Messages) /\ Len(f) = l
  BY <1>4
<1>6. f = AllCut(s)
  BY <1>1, <1>2 DEF AllCut
<1> QED BY <1>1, <1>2, <1>5, <1>6

LEMMA AllCutStart ==
  ASSUME NEW s \in Seq(Messages), NEW t \in Seq(Messages), IsStartOf(s, t)
  PROVE  IsStartOf(AllCut(s), AllCut(t))
<1>1. PICK l \in Nat, n \in Nat : l = Len(s) /\ n = Len(t)
  OBVIOUS
<1>2. /\ Len(AllCut(s)) = l /\ Len(AllCut(t)) = n
      /\ \A k \in 1..l : AllCut(s)[k] = Cut(s[k])
      /\ \A k \in 1..n : AllCut(t)[k] = Cut(t[k])
  BY <1>1, AllCutIs, Zenon
<1>3. l <= n /\ \A k \in 1..l : s[k] = t[k]
  BY <1>1 DEF IsStartOf
<1>4. \A k \in 1..l : k \in 1..n
  BY <1>3
<1>5. \A k \in 1..l : AllCut(s)[k] = AllCut(t)[k]
  BY <1>2, <1>3, <1>4, Zenon
<1> QED BY <1>2, <1>3, <1>5 DEF IsStartOf

LEMMA AllCutConcat ==
  ASSUME NEW s \in Seq(Messages), NEW t \in Seq(Messages)
  PROVE  AllCut(Cat(s, t)) = Cat(AllCut(s), AllCut(t))
<1>1. PICK u \in Seq(Messages) : IsCat(u, s, t)
  BY CatMade
<1>2. PICK f \in Seq(Messages), g \in Seq(Messages), h \in Seq(Messages) :
        /\ f = AllCut(s) /\ g = AllCut(t) /\ h = AllCut(u)
        /\ Len(f) = Len(s) /\ Len(g) = Len(t) /\ Len(h) = Len(u)
        /\ \A k \in 1..Len(s) : f[k] = Cut(s[k])
        /\ \A k \in 1..Len(t) : g[k] = Cut(t[k])
        /\ \A k \in 1..Len(u) : h[k] = Cut(u[k])
  <2>1. /\ Len(AllCut(s)) = Len(s) /\ Len(AllCut(t)) = Len(t) /\ Len(AllCut(u)) = Len(u)
        /\ \A k \in 1..Len(s) : AllCut(s)[k] = Cut(s[k])
        /\ \A k \in 1..Len(t) : AllCut(t)[k] = Cut(t[k])
        /\ \A k \in 1..Len(u) : AllCut(u)[k] = Cut(u[k])
    BY AllCutIs, Zenon
  <2> AllCut(s) \in Seq(Messages) /\ AllCut(t) \in Seq(Messages) /\ AllCut(u) \in Seq(Messages)
    BY AllCutIs, Zenon
  <2> WITNESS AllCut(s) \in Seq(Messages), AllCut(t) \in Seq(Messages), AllCut(u) \in Seq(Messages)
  <2> QED BY <2>1, Zenon
<1>3. PICK c \in Seq(Messages) : IsCat(c, f, g)
  BY CatMade
<1>4. PICK m \in Nat, n \in Nat : m = Len(s) /\ n = Len(t)
  OBVIOUS
<1>5. Len(h) = m + n /\ Len(c) = m + n /\ m = Len(f) /\ n = Len(g) /\ m + n = Len(u)
  BY <1>1, <1>2, <1>3, <1>4 DEF IsCat
<1>6. ASSUME NEW i \in 1..(m + n)
      PROVE  h[i] = c[i]
  <2>1. h[i] = Cut(u[i])
    BY <1>2, <1>5, Zenon
  <2>2. CASE i \in 1..m
    <3>1. f[i] = Cut(s[i]) /\ c[i] = f[i] /\ u[i] = s[i]
      BY <1>1, <1>2, <1>3, <1>4, <1>5, <2>2, Zenon DEF IsCat
    <3> QED BY <2>1, <3>1, Zenon
  <2>3. CASE i \notin 1..m
    <3>1. PICK j \in 1..n : i = m + j
      <4>1. i - m \in 1..n /\ i = m + (i - m)
        BY <2>3
      <4> QED BY <4>1, Zenon
    <3>2. g[j] = Cut(t[j]) /\ c[m + j] = g[j] /\ u[m + j] = t[j]
      BY <1>1, <1>2, <1>3, <1>4, <1>5, Zenon DEF IsCat
    <3> QED BY <2>1, <3>1, <3>2, Zenon
  <2> QED BY <2>2, <2>3
<1>7. \A i \in 1..Len(h) : h[i] = c[i]
  BY <1>5, <1>6, Zenon
<1>8. Len(h) = Len(c)
  BY <1>5
<1>9. h = c
  BY <1>7, <1>8, SeqEqual
<1> QED BY <1>1, <1>2, <1>3, <1>9, Zenon DEF IsCat

LEMMA AllCutOne ==
  ASSUME NEW m \in Messages
  PROVE  ShownOf(AllCut(<<m>>)) = ShownBy(Cut(m))
<1>1. Cut(m) \in Messages
  BY CutIs DEF Messages, WellMade
<1>2. AllCut(<<m>>) = <<Cut(m)>>
  BY DEF AllCut
<1> QED BY <1>1, <1>2, ShownOne

\* What is shown of messages is what is shown of the first of them and of the
\* others.
LEMMA AllCutShown ==
  ASSUME NEW s \in Seq(Messages), NEW t \in Seq(Messages)
  PROVE  ShownOf(AllCut(Cat(s, t))) = Cat(ShownOf(AllCut(s)), ShownOf(AllCut(t)))
<1>1. PICK f \in Seq(Messages), g \in Seq(Messages) : f = AllCut(s) /\ g = AllCut(t)
  BY AllCutIs
<1>2. ShownOf(Cat(f, g)) = Cat(ShownOf(f), ShownOf(g))
  BY ShownConcat
<1> QED BY <1>1, <1>2, AllCutConcat, Zenon

\* One more message is one more text, or none.
LEMMA AllCutNext ==
  ASSUME NEW s \in Seq(Messages), NEW m \in Messages
  PROVE  ShownOf(AllCut(Cat(s, <<m>>))) = Cat(ShownOf(AllCut(s)), ShownBy(Cut(m)))
<1>1. <<m>> \in Seq(Messages)
  OBVIOUS
<1> QED BY <1>1, AllCutShown, AllCutOne, Zenon

-----------------------------------------------------------------------------
(* How bytes are divided, and what changes it. *)

\* send_message() starts with the next message.
LEMMA DividedBegin ==
  ASSUME NEW bytes \in Seq(Byte), NEW p, NEW b \in Seq(Byte), NEW r, NEW w \in Seq(Byte),
         NEW l, NEW kept, NEW x \in Seq(Byte),
         Divided(bytes, p, b, r, w, <<>>, l, kept)
  PROVE  Divided(Cat(bytes, x), p, b, r, w, x, l, kept)
<1>1. PICK first \in Seq(Byte), over \in Seq(Byte), ahead \in Seq(Byte) :
        DividedBy(first, over, ahead, bytes, p, b, r, w, <<>>, l, kept)
  BY DEF Divided
<1>2. \A c, d \in Seq(Byte) : Cat(c, d) \in Seq(Byte)
  BY CatType
<1>3. \A c, d, e \in Seq(Byte) : Cat(Cat(c, d), e) = Cat(c, Cat(d, e))
  BY CatAssociates
<1>4. PICK s \in Seq(Byte) : s = Cat(w, ahead) /\ Cat(s, x) = Cat(w, Cat(ahead, x))
  BY <1>2, <1>3
<1>5. PICK t \in Seq(Byte) : t = Cat(over, s) /\ Cat(t, x) = Cat(over, Cat(s, x))
  BY <1>2, <1>3
<1>6. PICK u \in Seq(Byte) : u = Cat(b, t) /\ Cat(u, x) = Cat(b, Cat(t, x))
  BY <1>2, <1>3
<1>7. bytes = Cat(first, u)
  BY <1>1, <1>4, <1>5, <1>6 DEF DividedBy
<1>8. Cat(bytes, x) = Cat(first, Cat(u, x))
  BY <1>3, <1>7
<1>9. Cat(ahead, x) \in Seq(Byte) /\ (l = "up" => Cat(ahead, x) = x)
  BY <1>1, <1>2, CatEmpty DEF DividedBy
<1>10. DividedBy(first, over, Cat(ahead, x), Cat(bytes, x), p, b, r, w, x, l, kept)
  BY <1>1, <1>4, <1>5, <1>6, <1>8, <1>9 DEF DividedBy
<1> QED BY <1>9, <1>10 DEF Divided

\* send() takes some of the bytes.
LEMMA DividedSend ==
  ASSUME NEW bytes, NEW p, NEW b \in Seq(Byte), NEW r, NEW w \in Seq(Byte),
         NEW o \in Seq(Byte), NEW kept, NEW n \in 0..Len(o),
         Divided(bytes, p, b, r, w, o, "up", kept)
  PROVE  Divided(bytes, p, b, r, Cat(w, SubSeq(o, 1, n)), Skip(o, n), "up", kept)
<1>1. PICK first \in Seq(Byte), over \in Seq(Byte), ahead \in Seq(Byte) :
        DividedBy(first, over, ahead, bytes, p, b, r, w, o, "up", kept)
  BY DEF Divided
<1>2. PICK s \in Seq(Byte), t \in Seq(Byte) :
        s = SubSeq(o, 1, n) /\ t = Skip(o, n) /\ o = Cat(s, t)
  <2>1. /\ SubSeq(o, 1, n) \in Seq(Byte) /\ Skip(o, n) \in Seq(Byte)
        /\ o = Cat(SubSeq(o, 1, n), Skip(o, n))
    BY CatSplits
  <2> QED BY <2>1, Zenon
<1>3. Cat(w, o) = Cat(Cat(w, s), t)
  <2>1. Cat(Cat(w, s), t) = Cat(w, Cat(s, t))
    BY CatAssociates
  <2> QED BY <1>2, <2>1, Zenon
<1>4. ahead = o
  BY <1>1 DEF DividedBy
<1>5. DividedBy(first, over, t, bytes, p, b, r, Cat(w, s), t, "up", kept)
  BY <1>1, <1>3, <1>4 DEF DividedBy
<1> QED BY <1>2, <1>5 DEF Divided

\* The rest is given up.
LEMMA DividedGivenUp ==
  ASSUME NEW bytes, NEW p, NEW b \in Seq(Byte), NEW r, NEW w \in Seq(Byte), NEW o, NEW l,
         NEW kept, NEW o1, NEW l1, l1 # "up",
         Divided(bytes, p, b, r, w, o, l, kept)
  PROVE  /\ Divided(bytes, p, b, r, w, o1, l1, kept)
         /\ Divided(bytes, p, b, r, <<>>, o1, l1, kept)
<1>1. PICK first \in Seq(Byte), over \in Seq(Byte), ahead \in Seq(Byte) :
        DividedBy(first, over, ahead, bytes, p, b, r, w, o, l, kept)
  BY DEF Divided
<1>2. PICK s \in Seq(Byte) : s = Cat(w, ahead) /\ Cat(<<>>, s) = s
  BY CatType, CatEmpty
<1>3. DividedBy(first, over, ahead, bytes, p, b, r, w, o1, l1, kept)
  BY <1>1 DEF DividedBy
<1>4. DividedBy(first, over, s, bytes, p, b, r, <<>>, o1, l1, kept)
  BY <1>1, <1>2 DEF DividedBy
<1> QED BY <1>3, <1>4 DEF Divided

\* recv() puts bytes into a buffer that nothing was thrown away behind,
LEMMA DividedRecv ==
  ASSUME NEW bytes, NEW p, NEW b \in Seq(Byte), NEW r \in Nat, NEW w \in Seq(Byte), NEW o, NEW l,
         NEW kept \in Nat, NEW n \in 0..Len(w), p # "payload" \/ r < kept,
         Divided(bytes, p, b, r, w, o, l, kept)
  PROVE  /\ Divided(bytes, p, Cat(b, SubSeq(w, 1, n)), r + n, Skip(w, n), o, l, kept)
         /\ Cat(b, SubSeq(w, 1, n)) \in Seq(Byte)
         /\ Len(Cat(b, SubSeq(w, 1, n))) = r + n
<1>1. PICK first \in Seq(Byte), over \in Seq(Byte), ahead \in Seq(Byte) :
        DividedBy(first, over, ahead, bytes, p, b, r, w, o, l, kept)
  BY DEF Divided
<1>2. PICK s \in Seq(Byte), t \in Seq(Byte) :
        s = SubSeq(w, 1, n) /\ t = Skip(w, n) /\ w = Cat(s, t) /\ Len(s) = n
  BY CatSplits
<1>3. over = <<>>
  <2>1. PICK i \in Nat, j \in Nat : i = Len(b) /\ j = Len(over) /\ i + j = r
    BY <1>1 DEF DividedBy
  <2>2. i <= r
    BY <2>1
  <2> QED BY <1>1, <2>1, <2>2 DEF DividedBy
<1>4. Len(b) = r
  BY <1>1, <1>3 DEF DividedBy
<1>5. Cat(b, s) \in Seq(Byte) /\ Len(Cat(b, s)) = r + n
  <2>1. Cat(b, s) \in Seq(Byte) /\ Len(Cat(b, s)) = Len(b) + Len(s)
    BY CatType
  <2> QED BY <1>2, <1>4, <2>1, Zenon
<1>6. Cat(b, Cat(over, Cat(w, ahead))) = Cat(Cat(b, s), Cat(over, Cat(t, ahead)))
  <2>1. PICK u \in Seq(Byte) : u = Cat(t, ahead) /\ Cat(<<>>, u) = u
    BY CatType, CatEmpty
  <2>2. PICK v \in Seq(Byte) : v = Cat(w, ahead) /\ Cat(<<>>, v) = v
    BY CatType, CatEmpty
  <2>3. v = Cat(s, u)
    <3>1. Cat(Cat(s, t), ahead) = Cat(s, Cat(t, ahead))
      BY CatAssociates
    <3> QED BY <1>2, <2>1, <2>2, <3>1, Zenon
  <2>4. Cat(b, Cat(s, u)) = Cat(Cat(b, s), u)
    BY CatAssociates
  <2> QED BY <1>3, <2>1, <2>2, <2>3, <2>4, Zenon
<1>7. Len(Cat(b, s)) + Len(over) = r + n
  BY <1>3, <1>5
<1>8. DividedBy(first, over, ahead, bytes, p, Cat(b, s), r + n, t, o, l, kept)
  BY <1>1, <1>3, <1>6, <1>7, Zenon DEF DividedBy
<1> QED BY <1>2, <1>5, <1>8 DEF Divided

\* or throws them away once that is full.
LEMMA DividedDiscard ==
  ASSUME NEW bytes, NEW b \in Seq(Byte), NEW r \in Nat, NEW w \in Seq(Byte), NEW o, NEW l,
         NEW kept \in Nat, NEW n \in 0..Len(w), r >= kept, Len(b) <= kept,
         Divided(bytes, "payload", b, r, w, o, l, kept)
  PROVE  Divided(bytes, "payload", b, r + n, Skip(w, n), o, l, kept)
<1>1. PICK first \in Seq(Byte), over \in Seq(Byte), ahead \in Seq(Byte) :
        DividedBy(first, over, ahead, bytes, "payload", b, r, w, o, l, kept)
  BY DEF Divided
<1>2. PICK s \in Seq(Byte), t \in Seq(Byte) :
        s = SubSeq(w, 1, n) /\ t = Skip(w, n) /\ w = Cat(s, t) /\ Len(s) = n
  BY CatSplits
<1>3. PICK c \in Seq(Byte) : c = Cat(over, s) /\ Len(c) = Len(over) + Len(s)
  BY CatType
<1>4. Cat(over, Cat(w, ahead)) = Cat(c, Cat(t, ahead))
  <2>1. PICK u \in Seq(Byte) : u = Cat(t, ahead)
    BY CatType
  <2>2. Cat(w, ahead) = Cat(s, u)
    <3>1. Cat(Cat(s, t), ahead) = Cat(s, Cat(t, ahead))
      BY CatAssociates
    <3> QED BY <1>2, <2>1, <3>1, Zenon
  <2>3. Cat(over, Cat(s, u)) = Cat(Cat(over, s), u)
    BY CatAssociates
  <2> QED BY <1>3, <2>1, <2>2, <2>3, Zenon
<1>5. PICK i \in Nat, j \in Nat : i = Len(b) /\ j = Len(over) /\ i + j = r
  BY <1>1 DEF DividedBy
<1>6. i = kept
  <2>1. CASE over = <<>>
    <3>1. j = 0
      BY <1>5, <2>1
    <3> QED BY <1>5, <3>1
  <2>2. CASE over # <<>>
    BY <1>1, <1>5, <2>2 DEF DividedBy
  <2> QED BY <2>1, <2>2
<1>7. Len(b) + Len(c) = r + n
  <2>1. Len(c) = j + n
    BY <1>2, <1>3, <1>5, Zenon
  <2>2. i + j = r /\ n \in Nat
    BY <1>5
  <2>3. i + (j + n) = r + n
    BY <2>2
  <2> QED BY <1>5, <2>1, <2>3, Zenon
<1>8. DividedBy(first, c, ahead, bytes, "payload", b, r + n, t, o, l, kept)
  BY <1>1, <1>4, <1>5, <1>6, <1>7, Zenon DEF DividedBy
<1> QED BY <1>2, <1>8 DEF Divided

\* At the end of a header the buffer is what its sender marshalled, and what
\* is left belongs to the payload or, if there is none, to the next message.
LEMMA DividedHeader ==
  ASSUME NEW x \in Seq(Byte), NEW rest \in Seq(Byte), Len(x) = HeaderLen,
         NEW p, p # "payload", NEW b \in Seq(Byte), NEW w \in Seq(Byte), NEW o, NEW l, NEW kept,
         Divided(Cat(x, rest), p, b, HeaderLen, w, o, l, kept)
  PROVE  /\ b = x
         /\ \A k : Divided(Cat(x, rest), "payload", <<>>, 0, w, o, l, k)
         /\ \A q, k : q # "payload" => Divided(rest, q, <<>>, 0, w, o, l, k)
<1>1. PICK first \in Seq(Byte), over \in Seq(Byte), ahead \in Seq(Byte) :
        DividedBy(first, over, ahead, Cat(x, rest), p, b, HeaderLen, w, o, l, kept)
  BY DEF Divided
<1>2. over = <<>> /\ Len(first) = 0 /\ (l = "up" => ahead = o)
  BY <1>1 DEF DividedBy
<1>3. first = <<>>
  BY <1>2
<1>4. Len(b) = HeaderLen
  <2>1. Len(b) + Len(over) = HeaderLen
    BY <1>1 DEF DividedBy
  <2> QED BY <1>2, <2>1
<1>5. PICK u \in Seq(Byte) : /\ u = Cat(w, ahead) /\ Cat(<<>>, u) = u
  BY CatType, CatEmpty
<1>6. PICK v \in Seq(Byte) : v = Cat(b, u) /\ Cat(<<>>, v) = v
  BY CatType, CatEmpty
<1>7. Cat(x, rest) = Cat(b, u)
  BY <1>1, <1>2, <1>3, <1>5, <1>6, Zenon DEF DividedBy
<1>8. b = x /\ rest = u
  BY <1>4, <1>7, CatCancels
<1>9. <<>> \in Seq(Byte) /\ Len(<<>>) = 0
  OBVIOUS
<1>10. ASSUME NEW k PROVE Divided(Cat(x, rest), "payload", <<>>, 0, w, o, l, k)
  <2>1. Len(x) = HeaderLen /\ Len(<<>>) + Len(<<>>) = 0
    BY <1>9
  <2>2. Cat(x, rest) = Cat(x, Cat(<<>>, Cat(<<>>, Cat(w, ahead))))
    BY <1>5, <1>8, Zenon
  <2>3. DividedBy(x, <<>>, ahead, Cat(x, rest), "payload", <<>>, 0, w, o, l, k)
    BY <1>2, <2>1, <2>2, Zenon DEF DividedBy
  <2> QED BY <1>9, <2>3 DEF Divided
<1>11. ASSUME NEW q, NEW k, q # "payload" PROVE Divided(rest, q, <<>>, 0, w, o, l, k)
  <2>1. Len(<<>>) + Len(<<>>) = 0
    BY <1>9
  <2>2. rest = Cat(<<>>, Cat(<<>>, Cat(<<>>, Cat(w, ahead))))
    BY <1>5, <1>8, Zenon
  <2>3. DividedBy(<<>>, <<>>, ahead, rest, q, <<>>, 0, w, o, l, k)
    BY <1>2, <1>9, <1>11, <2>1, <2>2, Zenon DEF DividedBy
  <2> QED BY <1>9, <2>3 DEF Divided
<1> QED BY <1>8, <1>10, <1>11

\* At the end of a payload the buffer is what its sender marshalled, as far as
\* it was kept, and what is left belongs to the next message.
LEMMA DividedPayload ==
  ASSUME NEW x \in Seq(Byte), NEW y \in Seq(Byte), NEW rest \in Seq(Byte), Len(x) = HeaderLen,
         NEW b \in Seq(Byte), NEW r \in Nat, Len(y) = r, NEW w \in Seq(Byte), NEW o, NEW l,
         NEW kept \in Nat, kept <= r, Len(b) <= kept,
         Divided(Cat(x, Cat(y, rest)), "payload", b, r, w, o, l, kept)
  PROVE  /\ Len(b) = kept /\ SubSeq(y, 1, kept) = b
         /\ \A q, k : q # "payload" => Divided(rest, q, <<>>, 0, w, o, l, k)
<1>1. PICK first \in Seq(Byte), over \in Seq(Byte), ahead \in Seq(Byte) :
        DividedBy(first, over, ahead, Cat(x, Cat(y, rest)), "payload", b, r, w, o, l, kept)
  BY DEF Divided
<1>2. Len(first) = HeaderLen /\ (l = "up" => ahead = o)
  BY <1>1 DEF DividedBy
<1>3. PICK i \in Nat, j \in Nat : i = Len(b) /\ j = Len(over) /\ i + j = r
  BY <1>1 DEF DividedBy
<1>4. i = kept
  <2>1. CASE over = <<>>
    <3>1. j = 0
      BY <1>3, <2>1
    <3>2. i = r /\ i <= kept
      BY <1>3, <3>1
    <3> QED BY <3>2
  <2>2. CASE over # <<>>
    BY <1>1, <1>3, <2>2 DEF DividedBy
  <2> QED BY <2>1, <2>2
<1>5. PICK u \in Seq(Byte) : u = Cat(w, ahead) /\ Cat(<<>>, u) = u
  BY CatType, CatEmpty
<1>6. PICK v \in Seq(Byte) : v = Cat(b, over) /\ Len(v) = r
  <2>1. Cat(b, over) \in Seq(Byte) /\ Len(Cat(b, over)) = Len(b) + Len(over)
    BY CatType
  <2> QED BY <1>3, <2>1, Zenon
<1>7. PICK s \in Seq(Byte) : s = Cat(y, rest)
  BY CatType
<1>8. PICK t \in Seq(Byte) : t = Cat(v, u) /\ t = Cat(b, Cat(over, u))
  <2>1. Cat(v, u) \in Seq(Byte)
    BY CatType
  <2>2. Cat(Cat(b, over), u) = Cat(b, Cat(over, u))
    BY CatAssociates
  <2> QED BY <1>6, <2>1, <2>2, Zenon
<1>9. Cat(x, s) = Cat(first, t)
  BY <1>1, <1>5, <1>7, <1>8, Zenon DEF DividedBy
<1>10. s = t
  BY <1>2, <1>9, CatCancels
<1>11. y = v /\ rest = u
  <2>1. Cat(y, rest) = Cat(v, u)
    BY <1>7, <1>8, <1>10, Zenon
  <2> QED BY <1>6, <2>1, CatCancels
<1>12. SubSeq(y, 1, kept) = b
  <2>1. SubSeq(Cat(b, over), 1, Len(b)) = b
    BY SkipOfCat
  <2> QED BY <1>3, <1>4, <1>6, <1>11, <2>1, Zenon
<1>13. <<>> \in Seq(Byte) /\ Len(<<>>) = 0
  OBVIOUS
<1>14. ASSUME NEW q, NEW k, q # "payload" PROVE Divided(rest, q, <<>>, 0, w, o, l, k)
  <2>1. Len(<<>>) + Len(<<>>) = 0
    BY <1>13
  <2>2. rest = Cat(<<>>, Cat(<<>>, Cat(<<>>, Cat(w, ahead))))
    BY <1>5, <1>11, Zenon
  <2>3. DividedBy(<<>>, <<>>, ahead, rest, q, <<>>, 0, w, o, l, k)
    BY <1>2, <1>13, <1>14, <2>1, <2>2, Zenon DEF DividedBy
  <2> QED BY <1>13, <2>3 DEF Divided
<1> QED BY <1>3, <1>4, <1>12, <1>14

\* What has been received is part of the bytes, and the rest of them is in the
\* connection and in mesg_bytes.
LEMMA DividedRest ==
  ASSUME NEW bytes \in Seq(Byte), NEW p, NEW b \in Seq(Byte), NEW r \in Nat, NEW w \in Seq(Byte),
         NEW o \in Seq(Byte), NEW l, NEW kept, Divided(bytes, p, b, r, w, o, l, kept)
  PROVE  /\ r <= Len(bytes)
         /\ l = "up" => Skip(bytes, r + IF p = "payload" THEN HeaderLen ELSE 0) = Cat(w, o)
<1>1. PICK first \in Seq(Byte), over \in Seq(Byte), ahead \in Seq(Byte) :
        DividedBy(first, over, ahead, bytes, p, b, r, w, o, l, kept)
  BY DEF Divided
<1>2. PICK f \in Nat, i \in Nat, j \in Nat : f = Len(first) /\ i = Len(b) /\ j = Len(over)
  OBVIOUS
<1>3. i + j = r /\ f = IF p = "payload" THEN HeaderLen ELSE 0
  BY <1>1, <1>2 DEF DividedBy
<1>4. PICK u \in Seq(Byte) : u = Cat(w, ahead)
  BY CatType
<1>5. PICK c \in Seq(Byte) : c = Cat(b, over) /\ Len(c) = Len(b) + Len(over)
  BY CatType
<1>6. PICK d \in Seq(Byte) : d = Cat(first, c) /\ Len(d) = Len(first) + Len(c)
  BY CatType
<1>7. bytes = Cat(d, u)
  <2>1. Cat(c, u) = Cat(b, Cat(over, u))
    BY <1>5, CatAssociates
  <2>2. Cat(Cat(first, c), u) = Cat(first, Cat(c, u))
    BY CatAssociates
  <2> QED BY <1>1, <1>4, <1>6, <2>1, <2>2, Zenon DEF DividedBy
<1>8. Len(c) = r
  BY <1>2, <1>3, <1>5, Zenon
<1>9. Len(d) = f + r
  BY <1>2, <1>6, <1>8, Zenon
<1>10. r <= Len(bytes)
  <2>1. Cat(d, u) \in Seq(Byte) /\ Len(Cat(d, u)) = Len(d) + Len(u) /\ Len(u) \in Nat
    BY CatType
  <2>2. PICK n \in Nat : n = Len(u) /\ Len(bytes) = (f + r) + n
    BY <1>7, <1>9, <2>1, Zenon
  <2> QED BY <2>2
<1>11. Skip(Cat(d, u), Len(d)) = u
  BY SkipOfCat
<1>12. f + r = r + f
  OBVIOUS
<1>13. Skip(bytes, r + f) = u
  BY <1>7, <1>9, <1>11, <1>12, Zenon
<1>14. l = "up" => ahead = o
  BY <1>1 DEF DividedBy
<1> QED BY <1>3, <1>4, <1>10, <1>13, <1>14, Zenon

-----------------------------------------------------------------------------
(* The messages of a hop. *)

LEMMA AppendIsCat ==
  ASSUME NEW S, NEW s \in Seq(S), NEW e \in S
  PROVE  /\ <<e>> \in Seq(S) /\ Append(s, e) = Cat(s, <<e>>)
         /\ Append(s, e) \in Seq(S) /\ IsCat(Append(s, e), s, <<e>>)
<1>1. <<e>> \in Seq(S)
  OBVIOUS
<1>2. Append(s, e) = Cat(s, <<e>>)
  BY AppendIsConcat DEF Cat
<1>3. Cat(s, <<e>>) \in Seq(S) /\ IsCat(Cat(s, <<e>>), s, <<e>>)
  BY <1>1, CatMade
<1> QED BY <1>1, <1>2, <1>3

\* send_message() takes the next one.
LEMMA SameStream ==
  ASSUME NEW S, NEW s \in Seq(S), NEW t \in Seq(S), t # <<>>
  PROVE  /\ Head(t) \in S /\ Tail(t) \in Seq(S)
         /\ Cat(Append(s, Head(t)), Tail(t)) = Cat(s, t)
<1>1. Head(t) \in S /\ Tail(t) \in Seq(S)
  BY TailKeeps
<1>2. <<Head(t)>> \in Seq(S) /\ Append(s, Head(t)) = Cat(s, <<Head(t)>>)
  BY <1>1, AppendIsCat
<1>3. Cat(Cat(s, <<Head(t)>>), Tail(t)) = Cat(s, Cat(<<Head(t)>>, Tail(t)))
  <2>1. PICK a \in Seq(S), b \in Seq(S) : a = <<Head(t)>> /\ b = Tail(t)
    BY <1>1, <1>2, Zenon
  <2>2. Cat(Cat(s, a), b) = Cat(s, Cat(a, b))
    BY CatAssociates
  <2> QED BY <2>1, <2>2, Zenon
<1>4. Cat(<<Head(t)>>, Tail(t)) = t
  <2>1. <<Head(t)>> \o Tail(t) = t
    BY HeadAndTail
  <2> QED BY <2>1, Zenon DEF Cat
<1> QED BY <1>1, <1>2, <1>3, <1>4, Zenon

LEMMA FitsType ==
  ASSUME NEW h, NEW s \in Seq(MessageType), Fits(h, s)
  PROVE  s \in Seq(Messages)
<1>1. \A k \in 1..Len(s) : s[k] \in Messages
  BY DEF Fits, Suits, Messages, WellMade
<1> QED BY <1>1

LEMMA FitsStart ==
  ASSUME NEW h, NEW S, NEW s \in Seq(S), NEW t \in Seq(S), IsStartOf(s, t), Fits(h, t)
  PROVE  Fits(h, s)
<1>1. \A k \in 1..Len(s) : k \in 1..Len(t)
  BY DEF IsStartOf
<1> QED BY <1>1, Zenon DEF IsStartOf, Fits

LEMMA FitsNext ==
  ASSUME NEW h, NEW s \in Seq(Messages), NEW m \in Messages, Fits(h, s), Suits(h, Len(s) + 1, m)
  PROVE  Fits(h, Cat(s, <<m>>))
<1>1. <<m>> \in Seq(Messages) /\ 1 \in 1..Len(<<m>>) /\ <<m>>[1] = m /\ Len(<<m>>) = 1
  OBVIOUS
<1>2. PICK t \in Seq(Messages) : IsCat(t, s, <<m>>)
  BY <1>1, CatMade
<1>3. PICK n \in Nat : n = Len(s) /\ Len(t) = n + 1
  BY <1>1, <1>2 DEF IsCat
<1>4. t[n + 1] = m /\ \A k \in 1..n : t[k] = s[k]
  BY <1>1, <1>2, <1>3, Zenon DEF IsCat
<1>5. \A k \in 1..(n + 1) : k = n + 1 \/ k \in 1..n
  OBVIOUS
<1>6. \A k \in 1..(n + 1) : Suits(h, k, t[k])
  BY <1>3, <1>4, <1>5, Zenon DEF Fits
<1> QED BY <1>2, <1>3, <1>6 DEF Fits, IsCat

\* The stream of a hop, and its two parts.
LEMMA Streams ==
  ASSUME TypeOK, NEW h \in Hops, TodoInv(h)
  PROVE  /\ sent[h] \in Seq(Messages) /\ todo[h] \in Seq(Messages)
         /\ Stream(h) \in Seq(Messages) /\ IsCat(Stream(h), sent[h], todo[h])
         /\ IsStartOf(sent[h], Stream(h)) /\ Fits(h, sent[h])
         /\ \A k \in 1..Len(todo[h]) : Suits(h, Len(sent[h]) + k, todo[h][k])
<1>1. PICK s \in Seq(MessageType), t \in Seq(MessageType) : s = sent[h] /\ t = todo[h]
  BY DEF TypeOK
<1>2. PICK c \in Seq(MessageType) : c = Cat(s, t) /\ IsCat(c, s, t)
  BY CatMade
<1>3. Stream(h) = c /\ Fits(h, c)
  BY <1>1, <1>2 DEF Stream, TodoInv
<1>4. c \in Seq(Messages)
  BY <1>3, FitsType
<1>5. IsStartOf(s, c)
  BY <1>2, CatStarts
<1>6. Fits(h, s)
  BY <1>3, <1>5, FitsStart
<1>7. s \in Seq(Messages)
  BY <1>6, FitsType
<1>8. \A k \in 1..Len(t) : Suits(h, Len(s) + k, t[k])
  <2>1. \A k \in 1..Len(t) : Len(s) + k \in 1..Len(c)
    BY <1>2 DEF IsCat
  <2> QED BY <1>2, <1>3, <2>1, Zenon DEF IsCat, Fits
<1>9. t \in Seq(Messages)
  <2>1. \A k \in 1..Len(t) : t[k] \in Messages
    BY <1>8 DEF Suits, Messages, WellMade
  <2> QED BY <2>1
<1> QED BY <1>1, <1>2, <1>3, <1>4, <1>5, <1>6, <1>7, <1>8, <1>9

\* What was handed is made of what was sent.
LEMMA HandedType ==
  ASSUME NEW s \in Seq(Messages), NEW ms \in Seq(MessageType), Handed(s, ms)
  PROVE  /\ ms \in Seq(Messages) /\ Len(ms) \in 0..Len(s)
         /\ IsStartOf(ms, AllCut(s))
<1>1. PICK l \in Nat, n \in Nat : l = Len(ms) /\ n = Len(s) /\ l <= n
  BY DEF Handed
<1>2. \A k \in 1..l : k \in 1..n
  BY <1>1
<1>3. \A k \in 1..l : ms[k] = Cut(s[k])
  BY <1>1 DEF Handed
<1>4. AllCut(s) \in Seq(Messages) /\ Len(AllCut(s)) = n /\ \A k \in 1..n : AllCut(s)[k] = Cut(s[k])
  BY <1>1, AllCutIs
<1>5. \A k \in 1..n : AllCut(s)[k] \in Messages
  BY <1>4
<1>6. \A k \in 1..l : ms[k] = AllCut(s)[k] /\ ms[k] \in Messages
  BY <1>2, <1>3, <1>4, <1>5, Zenon
<1>7. ms \in Seq(Messages)
  BY <1>1, <1>6
<1> QED BY <1>1, <1>4, <1>6, <1>7 DEF IsStartOf

-----------------------------------------------------------------------------
(* What the steps of send_message() leave true of a hop. *)

LEMMA HopBegin ==
  ASSUME NEW s \in Seq(Messages), NEW ms \in Seq(MessageType), NEW p, NEW b \in Seq(Byte), NEW r,
         NEW w \in Seq(Byte), NEW l, l \notin {"closed", "lost"}, NEW m, NEW x \in Messages,
         HopOf(s, ms, p, b, r, w, <<>>, l, m)
  PROVE  HopOf(Append(s, x), ms, p, b, r, w, Marshal(x), l, m)
<1>1. PICK t \in Seq(Messages) :
        /\ t = Append(s, x) /\ Len(t) = Len(s) + 1
        /\ \A k \in 1..Len(s) : t[k] = s[k]
  <2>1. /\ Append(s, x) \in Seq(Messages) /\ Len(Append(s, x)) = Len(s) + 1
        /\ \A k \in 1..Len(s) : Append(s, x)[k] = s[k]
    BY AppendKeeps
  <2> QED BY <2>1, Zenon
<1>2. PICK i \in Nat, n \in Nat : i = Len(ms) /\ n = Len(s) /\ i <= n
  BY DEF HopOf, Handed
<1>3. Handed(t, ms)
  <2>1. Len(t) = n + 1
    BY <1>1, <1>2
  <2>2. i <= n + 1 /\ \A k \in 1..i : k \in 1..n
    BY <1>2
  <2>3. \A k \in 1..i : ms[k] = Cut(t[k])
    BY <1>1, <1>2, <2>2, Zenon DEF HopOf, Handed
  <2> QED BY <1>2, <2>1, <2>2, <2>3, Zenon DEF Handed
<1>4. Flow(t, ms, p, b, r, w, Marshal(x), l, m)
  <2> SUFFICES ASSUME p \in {"header", "payload", "done"}
               PROVE  Divided(Behind(t, Len(ms)), p, b, r, w, Marshal(x), l, Least(m.length, MaxLen))
    BY DEF Flow
  <2>1. i \in 0..Len(s)
    BY <1>2
  <2>2. PICK bytes \in Seq(Byte) : bytes = Behind(s, i)
    BY <2>1, FormsType
  <2>3. Behind(t, i) = Cat(bytes, Marshal(x))
    BY <1>1, <2>1, <2>2, BehindAppend
  <2>4. Marshal(x) \in Seq(Byte)
    BY MarshalIs DEF Messages
  <2>5. Divided(bytes, p, b, r, w, <<>>, l, Least(m.length, MaxLen))
    BY <1>2, <2>2, Zenon DEF HopOf, Flow
  <2>6. Divided(Cat(bytes, Marshal(x)), p, b, r, w, Marshal(x), l, Least(m.length, MaxLen))
    BY <2>4, <2>5, DividedBegin
  <2> QED BY <1>2, <2>3, <2>6, Zenon
<1>5. Broken(p, w, Marshal(x), l)
  BY DEF HopOf, Broken
<1>6. InMessage(t, ms, p, b, r, m)
  <2>1. CASE p = "payload"
    <3>1. i < n
      BY <1>2, <2>1 DEF HopOf, InMessage
    <3>2. i + 1 \in 1..n /\ i < n + 1 /\ Len(t) = n + 1
      BY <1>1, <1>2, <3>1
    <3>3. Current(t, ms) = Current(s, ms)
      BY <1>1, <1>2, <3>2, Zenon DEF Current
    <3> QED BY <1>1, <1>2, <2>1, <3>2, <3>3, Zenon DEF HopOf, InMessage
  <2>2. CASE p # "payload"
    BY <2>2 DEF HopOf, InMessage
  <2> QED BY <2>1, <2>2
<1> QED BY <1>1, <1>3, <1>4, <1>5, <1>6 DEF HopOf

LEMMA HopSend ==
  ASSUME NEW s \in Seq(Messages), NEW ms \in Seq(MessageType), NEW p, NEW b \in Seq(Byte), NEW r,
         NEW w \in Seq(Byte), NEW o \in Seq(Byte), NEW m, NEW n \in 0..Len(o),
         HopOf(s, ms, p, b, r, w, o, "up", m)
  PROVE  HopOf(s, ms, p, b, r, w \o SubSeq(o, 1, n), Skip(o, n), "up", m)
<1>1. PICK x : x = Cat(w, SubSeq(o, 1, n)) /\ x = w \o SubSeq(o, 1, n)
  BY DEF Cat
<1>2. Flow(s, ms, p, b, r, x, Skip(o, n), "up", m)
  <2> SUFFICES ASSUME p \in {"header", "payload", "done"}
               PROVE  Divided(Behind(s, Len(ms)), p, b, r, x, Skip(o, n), "up", Least(m.length, MaxLen))
    BY DEF Flow
  <2>1. Divided(Behind(s, Len(ms)), p, b, r, w, o, "up", Least(m.length, MaxLen))
    BY Zenon DEF HopOf, Flow
  <2> QED BY <1>1, <2>1, DividedSend
<1>3. Broken(p, x, Skip(o, n), "up")
  BY DEF HopOf, Broken
<1> QED BY <1>1, <1>2, <1>3, Zenon DEF HopOf

\* The rest of a message is given up: send() failed, or the program ended.
GivesUp(l, l1) == (l = "reset" /\ l1 = "reset") \/ (l = "up" /\ l1 = "closed")

LEMMA HopGiveUp ==
  ASSUME NEW s, NEW ms, NEW p, NEW b \in Seq(Byte), NEW r, NEW w \in Seq(Byte), NEW o, NEW m,
         NEW l, NEW l1, GivesUp(l, l1), HopOf(s, ms, p, b, r, w, o, l, m)
  PROVE  HopOf(s, ms, p, b, r, w, <<>>, l1, m)
<1>1. l1 # "up"
  BY DEF GivesUp
<1>2. Flow(s, ms, p, b, r, w, <<>>, l1, m)
  <2> SUFFICES ASSUME p \in {"header", "payload", "done"}
               PROVE  Divided(Behind(s, Len(ms)), p, b, r, w, <<>>, l1, Least(m.length, MaxLen))
    BY DEF Flow
  <2>1. Divided(Behind(s, Len(ms)), p, b, r, w, o, l, Least(m.length, MaxLen))
    BY Zenon DEF HopOf, Flow
  <2> QED BY <1>1, <2>1, DividedGivenUp
<1>3. Broken(p, w, <<>>, l1)
  BY DEF HopOf, Broken, GivesUp
<1> QED BY <1>2, <1>3, Zenon DEF HopOf

\* A connection is reset.
IsReset(l, l1) == (l = "up" /\ l1 = "reset") \/ (l = "closed" /\ l1 = "lost")

LEMMA HopReset ==
  ASSUME NEW s, NEW ms, NEW p, NEW b \in Seq(Byte), NEW r, NEW w \in Seq(Byte), NEW o, NEW m,
         NEW l, NEW l1, IsReset(l, l1), HopOf(s, ms, p, b, r, w, o, l, m)
  PROVE  HopOf(s, ms, p, b, r, <<>>, o, l1, m)
<1>1. l1 # "up"
  BY DEF IsReset
<1>2. Flow(s, ms, p, b, r, <<>>, o, l1, m)
  <2> SUFFICES ASSUME p \in {"header", "payload", "done"}
               PROVE  Divided(Behind(s, Len(ms)), p, b, r, <<>>, o, l1, Least(m.length, MaxLen))
    BY DEF Flow
  <2>1. Divided(Behind(s, Len(ms)), p, b, r, w, o, l, Least(m.length, MaxLen))
    BY Zenon DEF HopOf, Flow
  <2> QED BY <1>1, <2>1, DividedGivenUp
<1>3. Broken(p, <<>>, o, l1)
  BY DEF HopOf, Broken, IsReset
<1> QED BY <1>2, <1>3, Zenon DEF HopOf

\* recv() fails.
LEMMA HopRecvFails ==
  ASSUME NEW s, NEW ms, NEW p, NEW b, NEW r, NEW w, NEW o, NEW m, NEW l, l # "up",
         NEW q \in {"null", "failed"}, HopOf(s, ms, p, b, r, w, o, l, m)
  PROVE  HopOf(s, ms, q, b, r, w, o, l, m)
<1>1. Flow(s, ms, q, b, r, w, o, l, m) /\ Broken(q, w, o, l) /\ InMessage(s, ms, q, b, r, m)
  BY DEF HopOf, Flow, Broken, InMessage
<1> QED BY <1>1 DEF HopOf

-----------------------------------------------------------------------------
(* What the steps of recv_header() and recv_payload() leave true of a hop. *)

LEMMA KeptIs ==
  ASSUME NEW m \in MessageType
  PROVE  /\ m.length \in Nat /\ Least(m.length, MaxLen) \in Nat
         /\ Least(m.length, MaxLen) <= m.length /\ Least(m.length, MaxLen) <= MaxLen
         /\ m.length > 0 => Least(m.length, MaxLen) > 0
<1>1. m.length \in Nat
  BY DEF MessageType
<1> QED BY <1>1, LeastIs, Constants

\* Bytes of a connection that has any: it is not reset.
LEMMA BrokenTake ==
  ASSUME NEW p, NEW o, NEW l, NEW w \in Seq(Byte), NEW n \in 1..Len(w), Broken(p, w, o, l), NEW x
  PROVE  Broken(p, x, o, l)
<1>1. w # <<>>
  OBVIOUS
<1> QED BY <1>1 DEF Broken

LEMMA HopRecvHeader ==
  ASSUME NEW s, NEW ms, NEW b \in Seq(Byte), NEW r \in Nat, NEW w \in Seq(Byte), NEW o, NEW l,
         NEW m \in MessageType, NEW n \in 1..Len(w), n <= HeaderLen - r,
         HopOf(s, ms, "header", b, r, w, o, l, m)
  PROVE  /\ HopOf(s, ms, "header", b \o SubSeq(w, 1, n), r + n, Skip(w, n), o, l, m)
         /\ b \o SubSeq(w, 1, n) \in Seq(Byte)
<1>1. PICK x : x = Cat(b, SubSeq(w, 1, n)) /\ x = b \o SubSeq(w, 1, n)
  BY DEF Cat
<1>2. PICK kept \in Nat : kept = Least(m.length, MaxLen)
  BY KeptIs
<1>3. Divided(Behind(s, Len(ms)), "header", b, r, w, o, l, kept)
  BY <1>2, Zenon DEF HopOf, Flow
<1>4. n \in 0..Len(w) /\ "header" # "payload"
  OBVIOUS
<1>5. Divided(Behind(s, Len(ms)), "header", x, r + n, Skip(w, n), o, l, kept) /\ x \in Seq(Byte)
  <2>1. /\ Divided(Behind(s, Len(ms)), "header", Cat(b, SubSeq(w, 1, n)), r + n, Skip(w, n), o, l, kept)
        /\ Cat(b, SubSeq(w, 1, n)) \in Seq(Byte)
    BY <1>3, <1>4, DividedRecv
  <2> QED BY <1>1, <2>1, Zenon
<1>6. Flow(s, ms, "header", x, r + n, Skip(w, n), o, l, m)
  BY <1>2, <1>5, Zenon DEF Flow
<1>7. Broken("header", Skip(w, n), o, l)
  BY BrokenTake DEF HopOf
<1>8. InMessage(s, ms, "header", x, r + n, m)
  <2>1. r + n <= HeaderLen
    BY DEF HeaderLen
  <2> QED BY <2>1 DEF InMessage
<1> QED BY <1>1, <1>5, <1>6, <1>7, <1>8, Zenon DEF HopOf

LEMMA HopRecvPayload ==
  ASSUME NEW s, NEW ms, NEW b \in Seq(Byte), NEW r \in Nat, NEW w \in Seq(Byte), NEW o, NEW l,
         NEW m \in MessageType, NEW n \in 1..Len(w),
         r < Least(m.length, MaxLen), n <= Least(m.length, MaxLen) - r,
         HopOf(s, ms, "payload", b, r, w, o, l, m)
  PROVE  /\ HopOf(s, ms, "payload", b \o SubSeq(w, 1, n), r + n, Skip(w, n), o, l, m)
         /\ b \o SubSeq(w, 1, n) \in Seq(Byte)
<1>1. PICK x : x = Cat(b, SubSeq(w, 1, n)) /\ x = b \o SubSeq(w, 1, n)
  BY DEF Cat
<1>2. PICK kept \in Nat : kept = Least(m.length, MaxLen) /\ kept <= m.length /\ m.length \in Nat
  BY KeptIs
<1>3. Divided(Behind(s, Len(ms)), "payload", b, r, w, o, l, kept)
  BY <1>2, Zenon DEF HopOf, Flow
<1>4. n \in 0..Len(w) /\ r < kept /\ r + n <= kept /\ n \in Nat
  BY <1>2
<1>5. /\ Divided(Behind(s, Len(ms)), "payload", x, r + n, Skip(w, n), o, l, kept)
      /\ x \in Seq(Byte) /\ Len(x) = r + n
  BY <1>1, <1>3, <1>4, DividedRecv
<1>6. Flow(s, ms, "payload", x, r + n, Skip(w, n), o, l, m)
  BY <1>2, <1>5, Zenon DEF Flow
<1>7. Broken("payload", Skip(w, n), o, l)
  BY BrokenTake DEF HopOf
<1>8. InMessage(s, ms, "payload", x, r + n, m)
  <2>1. r + n <= kept /\ r + n <= m.length
    BY <1>2, <1>4
  <2>2. "payload" # "header"
    OBVIOUS
  <2> QED BY <1>2, <1>5, <2>1, <2>2, Zenon DEF HopOf, InMessage
<1> QED BY <1>1, <1>5, <1>6, <1>7, <1>8, Zenon DEF HopOf

LEMMA HopDiscard ==
  ASSUME NEW s, NEW ms, NEW b \in Seq(Byte), NEW r \in Nat, NEW w \in Seq(Byte), NEW o, NEW l,
         NEW m \in MessageType, NEW n \in 1..Len(w),
         r >= Least(m.length, MaxLen), n <= m.length - r,
         HopOf(s, ms, "payload", b, r, w, o, l, m)
  PROVE  HopOf(s, ms, "payload", b, r + n, Skip(w, n), o, l, m)
<1>1. PICK kept \in Nat : kept = Least(m.length, MaxLen) /\ kept <= m.length /\ m.length \in Nat
  BY KeptIs
<1>2. Divided(Behind(s, Len(ms)), "payload", b, r, w, o, l, kept)
  BY <1>1, Zenon DEF HopOf, Flow
<1>3. n \in 0..Len(w) /\ r >= kept /\ Len(b) <= kept
  BY <1>1 DEF HopOf, InMessage
<1>4. Divided(Behind(s, Len(ms)), "payload", b, r + n, Skip(w, n), o, l, kept)
  BY <1>2, <1>3, DividedDiscard
<1>5. Flow(s, ms, "payload", b, r + n, Skip(w, n), o, l, m)
  BY <1>1, <1>4, Zenon DEF Flow
<1>6. Broken("payload", Skip(w, n), o, l)
  BY BrokenTake DEF HopOf
<1>7. InMessage(s, ms, "payload", b, r + n, m)
  <2>1. r + n <= m.length
    BY <1>1
  <2>2. "payload" # "header"
    OBVIOUS
  <2> QED BY <2>1, <2>2, Zenon DEF HopOf, InMessage
<1> QED BY <1>5, <1>6, <1>7, Zenon DEF HopOf

\* The bytes from a message on.
LEMMA CurrentIs ==
  ASSUME NEW s \in Seq(Messages), NEW ms \in Seq(MessageType), Len(ms) < Len(s)
  PROVE  /\ Current(s, ms) \in Messages
         /\ Behind(s, Len(ms) + 1) \in Seq(Byte)
         /\ Current(s, ms).payload \in Seq(Byte)
         /\ Cat(Current(s, ms).payload, Behind(s, Len(ms) + 1)) \in Seq(Byte)
         /\ HeaderBytes(Current(s, ms)) \in Seq(Byte)
         /\ Len(HeaderBytes(Current(s, ms))) = HeaderLen
         /\ Behind(s, Len(ms))
              = Cat(HeaderBytes(Current(s, ms)), Cat(Current(s, ms).payload, Behind(s, Len(ms) + 1)))
<1>1. PICK i \in Nat : i = Len(ms) /\ i \in 0..(Len(s) - 1) /\ i + 1 \in 1..Len(s) /\ i + 1 \in 0..Len(s)
  <2>1. PICK i \in Nat, n \in Nat : i = Len(ms) /\ n = Len(s) /\ i < n
    OBVIOUS
  <2>2. i \in 0..(n - 1) /\ i + 1 \in 1..n /\ i + 1 \in 0..n
    BY <2>1
  <2> QED BY <2>1, <2>2
<1>2. PICK c \in Messages : c = Current(s, ms) /\ c = s[i + 1]
  BY <1>1 DEF Current
<1>3. PICK rest \in Seq(Byte) : rest = Behind(s, i + 1)
  BY <1>1, FormsType
<1>4. PICK y \in Seq(Byte) : y = c.payload
  BY WellMadeType DEF Messages
<1>5. PICK x \in Seq(Byte) : x = HeaderBytes(c) /\ Len(x) = HeaderLen /\ Marshal(c) = Cat(x, y)
  BY <1>4, HeaderIs, MarshalIs DEF Messages
<1>6. Behind(s, i) = Cat(Marshal(c), rest)
  BY <1>1, <1>2, <1>3, BehindNext
<1>7. Cat(Cat(x, y), rest) = Cat(x, Cat(y, rest)) /\ Cat(y, rest) \in Seq(Byte)
  BY CatAssociates, CatType
<1> QED BY <1>1, <1>2, <1>3, <1>4, <1>5, <1>6, <1>7, Zenon

\* The current message is handed, and the next one is the current one.
LEMMA HopHand ==
  ASSUME NEW s \in Seq(Messages), NEW ms \in Seq(MessageType), Len(ms) < Len(s),
         NEW p \in {"header", "payload"}, NEW b, NEW r, NEW w, NEW o, NEW l, NEW m,
         NEW q \in {"header", "done"},
         HopOf(s, ms, p, b, r, w, o, l, m),
         Divided(Behind(s, Len(ms) + 1), q, <<>>, 0, w, o, l, Least(m.length, MaxLen))
  PROVE  HopOf(s, Append(ms, Cut(Current(s, ms))), q, <<>>, 0, w, o, l, m)
<1>1. Current(s, ms) \in Messages
  BY CurrentIs
<1>2. Cut(Current(s, ms)) \in MessageType
  BY <1>1, CutIs DEF Messages, WellMade
<1>3. PICK t \in Seq(MessageType) :
        /\ t = Append(ms, Cut(Current(s, ms))) /\ Len(t) = Len(ms) + 1
        /\ \A k \in 1..Len(ms) : t[k] = ms[k]
        /\ t[Len(ms) + 1] = Cut(Current(s, ms))
  <2>1. PICK e \in MessageType : e = Cut(Current(s, ms))
    BY <1>2
  <2>2. /\ Append(ms, e) \in Seq(MessageType) /\ Len(Append(ms, e)) = Len(ms) + 1
        /\ \A k \in 1..Len(ms) : Append(ms, e)[k] = ms[k]
        /\ Append(ms, e)[Len(ms) + 1] = e
    BY AppendKeeps
  <2> QED BY <2>1, <2>2, Zenon
<1>4. PICK i \in Nat, n \in Nat : i = Len(ms) /\ n = Len(s) /\ i < n
  OBVIOUS
<1>5. Handed(s, t)
  <2>1. i + 1 <= n /\ \A k \in 1..(i + 1) : k \in 1..i \/ k = i + 1
    BY <1>4
  <2>2. \A k \in 1..i : ms[k] = Cut(s[k])
    BY <1>4, Zenon DEF HopOf, Handed
  <2>3. Len(t) = i + 1 /\ t[i + 1] = Cut(s[i + 1]) /\ \A k \in 1..i : t[k] = ms[k]
    BY <1>3, <1>4, Zenon DEF Current
  <2>4. \A k \in 1..(i + 1) : t[k] = Cut(s[k])
    BY <2>1, <2>2, <2>3, Zenon
  <2> QED BY <1>4, <2>1, <2>3, <2>4, Zenon DEF Handed
<1>6. Flow(s, t, q, <<>>, 0, w, o, l, m)
  BY <1>3, Zenon DEF Flow
<1>7. Broken(q, w, o, l)
  BY DEF HopOf, Broken
<1>8. InMessage(s, t, q, <<>>, 0, m)
  BY DEF InMessage, HeaderLen
<1> QED BY <1>3, <1>5, <1>6, <1>7, <1>8, Zenon DEF HopOf

\* recv_header() returns the header of the current message.
LEMMA HeaderRead ==
  ASSUME NEW s \in Seq(Messages), NEW ms \in Seq(MessageType), NEW b \in Seq(Byte),
         NEW w \in Seq(Byte), NEW o \in Seq(Byte), NEW l, NEW m \in MessageType,
         HopOf(s, ms, "header", b, HeaderLen, w, o, l, m)
  PROVE  /\ Len(ms) < Len(s)
         /\ Unmarshal(b) = Header(Current(s, ms).length, Current(s, ms).id, Current(s, ms).kind)
         /\ Current(s, ms).length > 0 =>
              HopOf(s, ms, "payload", <<>>, 0, w, o, l, Unmarshal(b))
         /\ Current(s, ms).length = 0 =>
              /\ Unmarshal(b) = Cut(Current(s, ms))
              /\ \A q \in {"header", "done"} :
                   HopOf(s, Append(ms, Cut(Current(s, ms))), q, <<>>, 0, w, o, l, m)
<1>1. Len(ms) \in 0..Len(s)
  BY DEF HopOf, Handed
<1>2. PICK kept : kept = Least(m.length, MaxLen)
  OBVIOUS
<1>3. Divided(Behind(s, Len(ms)), "header", b, HeaderLen, w, o, l, kept)
  BY <1>2, Zenon DEF HopOf, Flow
<1>4. Len(ms) < Len(s)
  <2>1. Behind(s, Len(ms)) \in Seq(Byte)
    BY <1>1, FormsType
  <2>2. HeaderLen \in Nat /\ HeaderLen > 0
    BY DEF HeaderLen
  <2>3. HeaderLen <= Len(Behind(s, Len(ms)))
    BY <1>3, <2>1, <2>2, DividedRest
  <2>4. Behind(s, Len(s)) = <<>>
    BY BehindNone
  <2>5. Len(ms) # Len(s)
    <3> SUFFICES ASSUME Len(ms) = Len(s)
                 PROVE  FALSE
      OBVIOUS
    <3>1. Behind(s, Len(ms)) = <<>>
      BY <2>4, Zenon
    <3>2. Len(Behind(s, Len(ms))) = 0
      BY <3>1
    <3> QED BY <2>2, <2>3, <3>2
  <2> QED BY <1>1, <2>5
<1>5. PICK c \in Messages : c = Current(s, ms)
  BY <1>4, CurrentIs
<1>6. PICK x \in Seq(Byte), y \in Seq(Byte), rest \in Seq(Byte), more \in Seq(Byte) :
        /\ x = HeaderBytes(c) /\ y = c.payload /\ rest = Behind(s, Len(ms) + 1)
        /\ more = Cat(y, rest) /\ Len(x) = HeaderLen
        /\ Behind(s, Len(ms)) = Cat(x, more)
  <2>1. /\ HeaderBytes(c) \in Seq(Byte) /\ Len(HeaderBytes(c)) = HeaderLen
        /\ c.payload \in Seq(Byte) /\ Behind(s, Len(ms) + 1) \in Seq(Byte)
        /\ Cat(c.payload, Behind(s, Len(ms) + 1)) \in Seq(Byte)
        /\ Behind(s, Len(ms)) = Cat(HeaderBytes(c), Cat(c.payload, Behind(s, Len(ms) + 1)))
    BY <1>4, <1>5, CurrentIs
  <2> QED BY <2>1, Zenon
<1>7. "header" # "payload"
  OBVIOUS
<1>8. /\ b = x
      /\ \A k : Divided(Cat(x, more), "payload", <<>>, 0, w, o, l, k)
      /\ \A q, k : q # "payload" => Divided(more, q, <<>>, 0, w, o, l, k)
  <2>1. Divided(Cat(x, more), "header", b, HeaderLen, w, o, l, kept)
    BY <1>3, <1>6, Zenon
  <2>2. Len(x) = HeaderLen
    BY <1>6, Zenon
  <2> QED BY <1>7, <2>1, <2>2, DividedHeader
<1>9. PICK u : u = Unmarshal(b) /\ u = Header(c.length, c.id, c.kind)
  BY <1>6, <1>8, HeaderIs DEF Messages
<1>10. ASSUME c.length > 0
       PROVE  HopOf(s, ms, "payload", <<>>, 0, w, o, l, u)
  <2>1. Handed(s, ms)
    BY DEF HopOf
  <2>2. Flow(s, ms, "payload", <<>>, 0, w, o, l, u)
    BY <1>6, <1>8, Zenon DEF Flow
  <2>3. Broken("payload", w, o, l)
    BY DEF HopOf, Broken
  <2>4. InMessage(s, ms, "payload", <<>>, 0, u)
    <3>1. u.length = c.length /\ c.length \in Nat
      BY <1>9, WellMadeType DEF Header, Messages
    <3>2. 0 <= u.length /\ 0 <= Least(u.length, MaxLen) /\ Len(<<>>) = 0
      <4>1. PICK n \in Nat : n = u.length
        BY <3>1
      <4>2. Least(n, MaxLen) \in Nat
        BY LeastIs, Constants
      <4> QED BY <4>1, <4>2
    <3>3. Len(<<>>) <= Least(u.length, MaxLen)
      BY <3>2
    <3> QED BY <1>4, <1>5, <1>7, <1>9, <1>10, <3>2, <3>3, Zenon DEF InMessage
  <2> QED BY <2>1, <2>2, <2>3, <2>4 DEF HopOf
<1>11. ASSUME c.length = 0
       PROVE  /\ u = Cut(c)
              /\ \A q \in {"header", "done"} :
                   HopOf(s, Append(ms, Cut(c)), q, <<>>, 0, w, o, l, m)
  <2>1. y = <<>>
    BY <1>6, <1>11, WellMadeType DEF Messages
  <2>2. c = [id |-> c.id, kind |-> c.kind, length |-> c.length, payload |-> c.payload]
    BY DEF Messages, MessageType
  <2>3. u = c
    BY <1>6, <1>9, <1>11, <2>1, <2>2, Zenon DEF Header
  <2>4. Cut(c) = c
    BY <1>11 DEF Cut
  <2>5. more = rest
    BY <1>6, <2>1, CatEmpty
  <2>6. ASSUME NEW q \in {"header", "done"}
        PROVE  HopOf(s, Append(ms, Cut(c)), q, <<>>, 0, w, o, l, m)
    <3>1. q # "payload"
      OBVIOUS
    <3>2. Divided(Behind(s, Len(ms) + 1), q, <<>>, 0, w, o, l, Least(m.length, MaxLen))
      BY <1>6, <1>8, <2>5, <3>1, Zenon
    <3> QED BY <1>4, <1>5, <3>2, HopHand
  <2> QED BY <2>3, <2>4, <2>6
<1> QED BY <1>4, <1>5, <1>9, <1>10, <1>11

\* create_message() makes of what was kept what it makes of the payload.
LEMMA PayloadRead ==
  ASSUME NEW s \in Seq(Messages), NEW ms \in Seq(MessageType), NEW b \in Seq(Byte), NEW r \in Nat,
         NEW w \in Seq(Byte), NEW o \in Seq(Byte), NEW l, NEW m \in MessageType, r >= m.length,
         HopOf(s, ms, "payload", b, r, w, o, l, m)
  PROVE  /\ Len(ms) < Len(s)
         /\ Message(Least(m.length, MaxLen), m.id, m.kind, b) = Cut(Current(s, ms))
         /\ \A q \in {"header", "done"} :
              HopOf(s, Append(ms, Cut(Current(s, ms))), q, <<>>, 0, w, o, l, m)
<1>1. /\ Len(ms) < Len(s) /\ Current(s, ms).length > 0
      /\ m = Header(Current(s, ms).length, Current(s, ms).id, Current(s, ms).kind)
      /\ r <= m.length /\ Len(b) <= Least(m.length, MaxLen)
  BY Zenon DEF HopOf, InMessage
<1>2. PICK c \in Messages : c = Current(s, ms)
  BY <1>1, CurrentIs
<1>3. PICK x \in Seq(Byte), y \in Seq(Byte), rest \in Seq(Byte) :
        /\ x = HeaderBytes(c) /\ y = c.payload /\ rest = Behind(s, Len(ms) + 1)
        /\ Len(x) = HeaderLen /\ Behind(s, Len(ms)) = Cat(x, Cat(y, rest))
  <2>1. /\ HeaderBytes(c) \in Seq(Byte) /\ c.payload \in Seq(Byte)
        /\ Behind(s, Len(ms) + 1) \in Seq(Byte) /\ Len(HeaderBytes(c)) = HeaderLen
        /\ Behind(s, Len(ms)) = Cat(HeaderBytes(c), Cat(c.payload, Behind(s, Len(ms) + 1)))
    BY <1>1, <1>2, CurrentIs
  <2> QED BY <2>1, Zenon
<1>4. PICK kept \in Nat : kept = Least(m.length, MaxLen) /\ kept <= m.length /\ m.length \in Nat
                          /\ kept <= MaxLen
  BY KeptIs
<1>5. /\ m.length = c.length /\ m.id = c.id /\ m.kind = c.kind /\ Len(y) = c.length
  BY <1>1, <1>2, <1>3, WellMadeType DEF Header, Messages
<1>6. r = m.length /\ Len(y) = r /\ kept <= r /\ Len(b) <= kept
  BY <1>1, <1>4, <1>5
<1>7. Divided(Cat(x, Cat(y, rest)), "payload", b, r, w, o, l, kept)
  BY <1>3, <1>4, Zenon DEF HopOf, Flow
<1>8. /\ Len(b) = kept /\ SubSeq(y, 1, kept) = b
      /\ \A q, k : q # "payload" => Divided(rest, q, <<>>, 0, w, o, l, k)
  <2>1. Len(x) = HeaderLen /\ Len(y) = r /\ kept <= r /\ Len(b) <= kept
    BY <1>3, <1>6, Zenon
  <2> QED BY <2>1, <1>7, DividedPayload
<1>9. Message(kept, m.id, m.kind, b) = Cut(c)
  <2>1. SubSeq(b, 1, kept) = SubSeq(y, 1, kept)
    <3>1. SubSeq(b, 1, Len(b)) = b
      BY SubSeqFull
    <3> QED BY <1>8, <3>1, Zenon
  <2>2. Least(kept, MaxLen) = kept
    BY <1>4, LeastIs, Constants
  <2>3. Message(kept, m.id, m.kind, b)
          = [id |-> m.id, kind |-> m.kind, length |-> kept,
             payload |-> [SubSeq(b, 1, kept) EXCEPT ![kept] = 0]]
    BY <2>2, Zenon DEF Message
  <2>4. Message(c.length, c.id, c.kind, c.payload)
          = [id |-> m.id, kind |-> m.kind, length |-> kept,
             payload |-> [SubSeq(y, 1, kept) EXCEPT ![kept] = 0]]
    BY <1>3, <1>4, <1>5, Zenon DEF Message
  <2>5. Cut(c) = Message(c.length, c.id, c.kind, c.payload)
    BY <1>1, <1>2 DEF Cut
  <2> QED BY <2>1, <2>3, <2>4, <2>5, Zenon
<1>10. ASSUME NEW q \in {"header", "done"}
       PROVE  HopOf(s, Append(ms, Cut(c)), q, <<>>, 0, w, o, l, m)
  <2>1. q # "payload"
    OBVIOUS
  <2>2. Divided(Behind(s, Len(ms) + 1), q, <<>>, 0, w, o, l, Least(m.length, MaxLen))
    BY <1>3, <1>8, <2>1, Zenon
  <2> QED BY <1>1, <1>2, <2>2, HopHand
<1> QED BY <1>1, <1>2, <1>4, <1>9, <1>10

-----------------------------------------------------------------------------
(* From the values of one hop to the state. *)

\* The values of a hop stay as they are, those of its sender's list aside.
Same(g) ==
  /\ sent'[g] = sent[g] /\ received'[g] = received[g] /\ pc'[g] = pc[g] /\ buf'[g] = buf[g]
  /\ recvd'[g] = recvd[g] /\ wire'[g] = wire[g] /\ out'[g] = out[g] /\ link'[g] = link[g]
  /\ msg'[g] = msg[g]

LEMMA Updates ==
  ASSUME NEW D, NEW S, NEW f \in [D -> S], NEW h \in D, NEW x \in S
  PROVE  /\ [f EXCEPT ![h] = x] \in [D -> S]
         /\ [f EXCEPT ![h] = x][h] = x
         /\ \A g \in D : g # h => [f EXCEPT ![h] = x][g] = f[g]
OBVIOUS

LEMMA Values ==
  ASSUME TypeOK, NEW h \in Hops
  PROVE  /\ todo[h] \in Seq(MessageType) /\ out[h] \in Seq(Byte) /\ wire[h] \in Seq(Byte)
         /\ link[h] \in {"up", "closed", "reset", "lost"}
         /\ pc[h] \in {"header", "payload", "done", "null", "failed"}
         /\ buf[h] \in Seq(Byte) /\ recvd[h] \in Nat /\ msg[h] \in MessageType
         /\ sent[h] \in Seq(MessageType) /\ received[h] \in Seq(MessageType)
BY DEF TypeOK

\* What a step of one hop leaves true of both.
LEMMA BothHops ==
  ASSUME NEW h \in Hops, \A g \in Hops : HopInv(g), HopInv(h)',
         \A g \in Hops : g # h => Same(g)
  PROVE  \A g \in Hops : HopInv(g)'
<1>1. ASSUME NEW g \in Hops, g # h PROVE HopInv(g)'
  <2>1. HopInv(g) /\ Same(g)
    BY <1>1
  <2> QED BY <2>1 DEF HopInv, Same
<1> QED BY <1>1

\* Nothing but bytes is moved.
LEMMA MessagesStay ==
  ASSUME Inductive, \A g \in Hops : Stream(g)' = Stream(g),
         \A g \in Hops : link[g] \in {"closed", "lost"} => todo'[g] = <<>>,
         UNCHANGED <<link, typed, received>>
  PROVE  Relayed' /\ TextsAreTyped' /\ \A g \in Hops : TodoInv(g)'
<1>1. "up" \in Hops /\ "down" \in Hops
  BY DEF Hops
<1>2. Relayed'
  <2>1. Stream("down")' = Stream("down") /\ link' = link /\ received' = received
    BY <1>1
  <2>2. Relays(Stream("down"), link["down"], received["up"])
    BY DEF Inductive, Relayed
  <2> QED BY <2>1, <2>2, Zenon DEF Relayed
<1>3. TextsAreTyped'
  <2>1. Stream("up")' = Stream("up") /\ link' = link /\ typed' = typed
    BY <1>1
  <2>2. Tells(Stream("up"), link["up"], typed) /\ typed \in Seq(Texts)
    BY DEF Inductive, TextsAreTyped
  <2> QED BY <2>1, <2>2, Zenon DEF TextsAreTyped
<1>4. ASSUME NEW g \in Hops PROVE TodoInv(g)'
  <2>1. Fits(g, Stream(g)) /\ Stream(g)' = Stream(g) /\ link' = link
    BY DEF Inductive, TodoInv
  <2>2. Fits(g, Stream(g)')
    BY <2>1, Zenon
  <2>3. link'[g] \in {"closed", "lost"} => todo'[g] = <<>>
    BY <2>1
  <2> QED BY <2>2, <2>3, Zenon DEF TodoInv
<1> QED BY <1>2, <1>3, <1>4

LEMMA BytesMove ==
  ASSUME Inductive, UNCHANGED <<todo, sent, link, typed, received>>
  PROVE  Relayed' /\ TextsAreTyped' /\ \A g \in Hops : TodoInv(g)'
<1>1. \A g \in Hops : Stream(g)' = Stream(g)
  BY DEF Stream
<1>2. \A g \in Hops : link[g] \in {"closed", "lost"} => todo'[g] = <<>>
  BY DEF Inductive, TodoInv
<1> QED BY <1>1, <1>2, MessagesStay

-----------------------------------------------------------------------------
(* Sending. *)

LEMMA SendBeginKeeps ==
  ASSUME Inductive, NEW h \in Hops, SendBegin(h)
  PROVE  Inductive'
<1>1. TypeOK /\ HopInv(h) /\ TodoInv(h)
  BY DEF Inductive
<1>2. /\ sent[h] \in Seq(Messages) /\ todo[h] \in Seq(Messages) /\ todo[h] # <<>> /\ out[h] = <<>>
  BY <1>1, Streams DEF SendBegin
<1>3. PICK x \in Messages : x = Head(todo[h]) /\ x \in MessageType /\ Marshal(x) \in Seq(Byte)
  BY <1>2, SameStream, MarshalIs DEF Messages
<1>4. /\ Tail(todo[h]) \in Seq(Messages) /\ Append(sent[h], x) \in Seq(Messages)
      /\ Cat(Append(sent[h], x), Tail(todo[h])) = Cat(sent[h], todo[h])
  BY <1>2, <1>3, SameStream, AppendKeeps
<1>5. Tail(todo[h]) \in Seq(MessageType) /\ Append(sent[h], x) \in Seq(MessageType)
  BY <1>1, <1>2, <1>3, Values, TailKeeps, AppendKeeps
<1>6. /\ out' = [out EXCEPT ![h] = Marshal(x)]
      /\ sent' = [sent EXCEPT ![h] = Append(sent[h], x)]
      /\ todo' = [todo EXCEPT ![h] = Tail(todo[h])]
      /\ UNCHANGED <<input, wire, link, pc, buf, recvd, msg, typed, received>>
  BY <1>3, Zenon DEF SendBegin, receivers
<1>7. /\ out' \in [Hops -> Seq(Byte)] /\ out'[h] = Marshal(x)
      /\ \A g \in Hops : g # h => out'[g] = out[g]
  BY <1>1, <1>3, <1>6, Updates DEF TypeOK
<1>8. /\ sent' \in [Hops -> Seq(MessageType)] /\ sent'[h] = Append(sent[h], x)
      /\ \A g \in Hops : g # h => sent'[g] = sent[g]
  BY <1>1, <1>5, <1>6, Updates DEF TypeOK
<1>9. /\ todo' \in [Hops -> Seq(MessageType)] /\ todo'[h] = Tail(todo[h])
      /\ \A g \in Hops : g # h => todo'[g] = todo[g]
  BY <1>1, <1>5, <1>6, Updates DEF TypeOK
<1>10. TypeOK'
  BY <1>1, <1>6, <1>7, <1>8, <1>9 DEF TypeOK
<1>11. link[h] \notin {"closed", "lost"}
  BY <1>1, <1>2 DEF TodoInv
<1>12. HopInv(h)'
  <2>1. HopOf(sent[h], received[h], pc[h], buf[h], recvd[h], wire[h], <<>>, link[h], msg[h])
    BY <1>1, <1>2, Zenon DEF HopInv
  <2>2. HopOf(Append(sent[h], x), received[h], pc[h], buf[h], recvd[h], wire[h], Marshal(x), link[h], msg[h])
    BY <1>1, <1>2, <1>11, <2>1, Values, HopBegin
  <2> QED BY <1>6, <1>7, <1>8, <2>2, Zenon DEF HopInv
<1>13. \A g \in Hops : HopInv(g)'
  <2>1. \A g \in Hops : g # h => Same(g)
    BY <1>6, <1>7, <1>8 DEF Same
  <2> QED BY <1>12, <2>1, BothHops DEF Inductive
<1>14. Relayed' /\ TextsAreTyped' /\ \A g \in Hops : TodoInv(g)'
  <2>1. \A g \in Hops : Stream(g)' = Stream(g)
    BY <1>4, <1>8, <1>9, Zenon DEF Stream
  <2>2. \A g \in Hops : link[g] \in {"closed", "lost"} => todo'[g] = <<>>
    BY <1>9, <1>11 DEF Inductive, TodoInv
  <2> QED BY <1>6, <2>1, <2>2, MessagesStay
<1> QED BY <1>10, <1>13, <1>14 DEF Inductive

LEMMA SendBytesKeeps ==
  ASSUME Inductive, NEW h \in Hops, SendBytes(h)
  PROVE  Inductive'
<1>1. TypeOK /\ HopInv(h) /\ TodoInv(h)
  BY DEF Inductive
<1>2. link[h] = "up"
  BY DEF SendBytes
<1>3. PICK n \in Taken(Len(out[h])) :
        /\ wire' = [wire EXCEPT ![h] = wire[h] \o SubSeq(out[h], 1, n)]
        /\ out' = [out EXCEPT ![h] = Skip(out[h], n)]
  BY Zenon DEF SendBytes
<1>4. UNCHANGED <<input, todo, link, pc, buf, recvd, msg, typed, sent, received>>
  BY Zenon DEF SendBytes, receivers
<1>5. n \in 0..Len(out[h])
  BY <1>1, Values DEF Taken
<1>6. PICK o \in Seq(Byte), w \in Seq(Byte) :
        o = Skip(out[h], n) /\ w = wire[h] \o SubSeq(out[h], 1, n)
  <2>1. SubSeq(out[h], 1, n) \in Seq(Byte) /\ Skip(out[h], n) \in Seq(Byte)
    BY <1>1, <1>5, Values, CatSplits
  <2>2. wire[h] \o SubSeq(out[h], 1, n) \in Seq(Byte)
    BY <1>1, <2>1, Values, ConcatProperties
  <2> QED BY <2>1, <2>2, Zenon
<1>7. /\ out' \in [Hops -> Seq(Byte)] /\ out'[h] = o
      /\ \A g \in Hops : g # h => out'[g] = out[g]
  BY <1>1, <1>3, <1>6, Updates DEF TypeOK
<1>8. /\ wire' \in [Hops -> Seq(Byte)] /\ wire'[h] = w
      /\ \A g \in Hops : g # h => wire'[g] = wire[g]
  BY <1>1, <1>3, <1>6, Updates DEF TypeOK
<1>9. TypeOK'
  BY <1>1, <1>4, <1>7, <1>8 DEF TypeOK
<1>10. HopInv(h)'
  <2>1. HopOf(sent[h], received[h], pc[h], buf[h], recvd[h], wire[h], out[h], "up", msg[h])
    BY <1>1, <1>2, Zenon DEF HopInv
  <2>2. sent[h] \in Seq(Messages)
    BY <1>1, Streams
  <2>3. HopOf(sent[h], received[h], pc[h], buf[h], recvd[h],
              wire[h] \o SubSeq(out[h], 1, n), Skip(out[h], n), "up", msg[h])
    BY <1>1, <1>5, <2>1, <2>2, Values, HopSend
  <2> QED BY <1>2, <1>4, <1>6, <1>7, <1>8, <2>3, Zenon DEF HopInv
<1>11. \A g \in Hops : HopInv(g)'
  <2>1. \A g \in Hops : g # h => Same(g)
    BY <1>4, <1>7, <1>8 DEF Same
  <2> QED BY <1>10, <2>1, BothHops DEF Inductive
<1> QED BY <1>4, <1>9, <1>11, BytesMove DEF Inductive

LEMMA SendFailsKeeps ==
  ASSUME Inductive, NEW h \in Hops, SendFails(h)
  PROVE  Inductive'
<1>1. TypeOK /\ HopInv(h) /\ TodoInv(h)
  BY DEF Inductive
<1>2. /\ link[h] = "reset" /\ out' = [out EXCEPT ![h] = <<>>]
      /\ UNCHANGED <<input, todo, wire, link, pc, buf, recvd, msg, typed, sent, received>>
  BY DEF SendFails, receivers
<1>3. /\ out' \in [Hops -> Seq(Byte)] /\ out'[h] = <<>>
      /\ \A g \in Hops : g # h => out'[g] = out[g]
  <2>1. <<>> \in Seq(Byte)
    OBVIOUS
  <2> QED BY <1>1, <1>2, <2>1, Updates DEF TypeOK
<1>4. TypeOK'
  BY <1>1, <1>2, <1>3 DEF TypeOK
<1>5. HopInv(h)'
  <2>1. HopOf(sent[h], received[h], pc[h], buf[h], recvd[h], wire[h], out[h], link[h], msg[h])
    BY <1>1, Zenon DEF HopInv
  <2>2. HopOf(sent[h], received[h], pc[h], buf[h], recvd[h], wire[h], <<>>, link[h], msg[h])
    <3>1. GivesUp(link[h], link[h])
      BY <1>2 DEF GivesUp
    <3> QED BY <1>1, <2>1, <3>1, Values, HopGiveUp
  <2> QED BY <1>2, <1>3, <2>2, Zenon DEF HopInv
<1>6. \A g \in Hops : HopInv(g)'
  <2>1. \A g \in Hops : g # h => Same(g)
    BY <1>2, <1>3 DEF Same
  <2> QED BY <1>5, <2>1, BothHops DEF Inductive
<1> QED BY <1>2, <1>4, <1>6, BytesMove DEF Inductive

-----------------------------------------------------------------------------
(* Receiving. *)

LEMMA ArrivalsAre ==
  ASSUME TypeOK, NEW h \in Hops, NEW limit \in Nat, NEW n \in Arrivals(h, limit)
  PROVE  n \in Nat /\ n \in 1..Len(wire[h]) /\ n <= limit
<1>1. PICK k \in Nat : k = Len(wire[h])
  BY Values
<1>2. /\ Least(limit, k) \in Nat /\ Least(limit, k) <= limit /\ Least(limit, k) <= k
  BY <1>1, LeastIs
<1>3. n \in 1..Least(limit, k)
  BY <1>1 DEF Arrivals, Taken
<1> QED BY <1>1, <1>2, <1>3

\* What recv() takes from the connection.
LEMMA Takes ==
  ASSUME TypeOK, NEW h \in Hops, NEW n \in 1..Len(wire[h]), n \in Nat, Take(h, n)
  PROVE  /\ wire' \in [Hops -> Seq(Byte)] /\ wire'[h] = Skip(wire[h], n)
         /\ \A g \in Hops : g # h => wire'[g] = wire[g]
         /\ recvd' \in [Hops -> Nat] /\ recvd'[h] = recvd[h] + n
         /\ \A g \in Hops : g # h => recvd'[g] = recvd[g]
<1>1. n \in 0..Len(wire[h])
  BY Values
<1>2. Skip(wire[h], n) \in Seq(Byte)
  BY <1>1, Values, CatSplits
<1>3. recvd[h] + n \in Nat
  BY Values
<1>4. wire' = [wire EXCEPT ![h] = Skip(wire[h], n)] /\ recvd' = [recvd EXCEPT ![h] = recvd[h] + n]
  BY Zenon DEF Take
<1>5. /\ wire' \in [Hops -> Seq(Byte)] /\ wire'[h] = Skip(wire[h], n)
      /\ \A g \in Hops : g # h => wire'[g] = wire[g]
  BY <1>2, <1>4, Updates DEF TypeOK
<1>6. /\ recvd' \in [Hops -> Nat] /\ recvd'[h] = recvd[h] + n
      /\ \A g \in Hops : g # h => recvd'[g] = recvd[g]
  BY <1>3, <1>4, Updates DEF TypeOK
<1> QED BY <1>5, <1>6

LEMMA RecvHeaderKeeps ==
  ASSUME Inductive, NEW h \in Hops, RecvHeader(h)
  PROVE  Inductive'
<1>1. TypeOK /\ HopInv(h) /\ TodoInv(h) /\ pc[h] = "header"
  BY DEF Inductive, RecvHeader
<1>2. PICK n \in Arrivals(h, HeaderLen - recvd[h]) :
        /\ buf' = [buf EXCEPT ![h] = buf[h] \o SubSeq(wire[h], 1, n)]
        /\ Take(h, n)
  BY Zenon DEF RecvHeader
<1>3. UNCHANGED <<input, todo, out, link, pc, msg, typed, sent, received>>
  BY Zenon DEF RecvHeader, senders
<1>4. HeaderLen - recvd[h] \in Nat
  <2>1. recvd[h] <= HeaderLen
    BY <1>1 DEF HopInv, HopOf, InMessage
  <2> QED BY <1>1, <2>1, Values DEF HeaderLen
<1>5. n \in Nat /\ n \in 1..Len(wire[h]) /\ n <= HeaderLen - recvd[h]
  BY <1>1, <1>2, <1>4, ArrivalsAre
<1>6. /\ wire' \in [Hops -> Seq(Byte)] /\ wire'[h] = Skip(wire[h], n)
      /\ \A g \in Hops : g # h => wire'[g] = wire[g]
      /\ recvd' \in [Hops -> Nat] /\ recvd'[h] = recvd[h] + n
      /\ \A g \in Hops : g # h => recvd'[g] = recvd[g]
  BY <1>1, <1>2, <1>5, Takes
<1>7. HopOf(sent[h], received[h], "header", buf[h], recvd[h], wire[h], out[h], link[h], msg[h])
  BY <1>1, Zenon DEF HopInv
<1>8. PICK b \in Seq(Byte) :
        /\ b = buf[h] \o SubSeq(wire[h], 1, n)
        /\ HopOf(sent[h], received[h], "header", b, recvd[h] + n, Skip(wire[h], n), out[h], link[h], msg[h])
  BY <1>1, <1>5, <1>7, Values, HopRecvHeader
<1>9. /\ buf' \in [Hops -> Seq(Byte)] /\ buf'[h] = b
      /\ \A g \in Hops : g # h => buf'[g] = buf[g]
  BY <1>1, <1>2, <1>8, Updates DEF TypeOK
<1>10. TypeOK'
  BY <1>1, <1>3, <1>6, <1>9 DEF TypeOK
<1>11. HopInv(h)'
  BY <1>1, <1>3, <1>6, <1>8, <1>9, Zenon DEF HopInv
<1>12. \A g \in Hops : HopInv(g)'
  <2>1. \A g \in Hops : g # h => Same(g)
    BY <1>3, <1>6, <1>9 DEF Same
  <2> QED BY <1>11, <2>1, BothHops DEF Inductive
<1> QED BY <1>3, <1>10, <1>12, BytesMove DEF Inductive

LEMMA RecvPayloadKeeps ==
  ASSUME Inductive, NEW h \in Hops, RecvPayload(h)
  PROVE  Inductive'
<1>1. TypeOK /\ HopInv(h) /\ TodoInv(h) /\ pc[h] = "payload" /\ recvd[h] < Kept(h)
  BY DEF Inductive, RecvPayload
<1>2. PICK n \in Arrivals(h, Kept(h) - recvd[h]) :
        /\ buf' = [buf EXCEPT ![h] = buf[h] \o SubSeq(wire[h], 1, n)]
        /\ Take(h, n)
  BY Zenon DEF RecvPayload
<1>3. UNCHANGED <<input, todo, out, link, pc, msg, typed, sent, received>>
  BY Zenon DEF RecvPayload, senders
<1>4. Kept(h) \in Nat /\ Kept(h) - recvd[h] \in Nat /\ Kept(h) = Least(msg[h].length, MaxLen)
  <2>1. Kept(h) \in Nat /\ Kept(h) = Least(msg[h].length, MaxLen)
    BY <1>1, Values, KeptIs DEF Kept
  <2> QED BY <1>1, <2>1, Values
<1>5. n \in Nat /\ n \in 1..Len(wire[h]) /\ n <= Kept(h) - recvd[h]
  BY <1>1, <1>2, <1>4, ArrivalsAre
<1>6. /\ wire' \in [Hops -> Seq(Byte)] /\ wire'[h] = Skip(wire[h], n)
      /\ \A g \in Hops : g # h => wire'[g] = wire[g]
      /\ recvd' \in [Hops -> Nat] /\ recvd'[h] = recvd[h] + n
      /\ \A g \in Hops : g # h => recvd'[g] = recvd[g]
  BY <1>1, <1>2, <1>5, Takes
<1>7. HopOf(sent[h], received[h], "payload", buf[h], recvd[h], wire[h], out[h], link[h], msg[h])
  BY <1>1, Zenon DEF HopInv
<1>8. PICK b \in Seq(Byte) :
        /\ b = buf[h] \o SubSeq(wire[h], 1, n)
        /\ HopOf(sent[h], received[h], "payload", b, recvd[h] + n, Skip(wire[h], n), out[h], link[h], msg[h])
  <2>1. /\ buf[h] \in Seq(Byte) /\ recvd[h] \in Nat /\ wire[h] \in Seq(Byte) /\ msg[h] \in MessageType
        /\ n \in 1..Len(wire[h])
    BY <1>1, <1>5, Values
  <2>2. recvd[h] < Least(msg[h].length, MaxLen) /\ n <= Least(msg[h].length, MaxLen) - recvd[h]
    BY <1>4, <1>5, <2>1
  <2>3. /\ HopOf(sent[h], received[h], "payload", buf[h] \o SubSeq(wire[h], 1, n), recvd[h] + n,
                Skip(wire[h], n), out[h], link[h], msg[h])
        /\ buf[h] \o SubSeq(wire[h], 1, n) \in Seq(Byte)
    BY <2>1, <2>2, <1>7, HopRecvPayload
  <2> QED BY <2>3, Zenon
<1>9. /\ buf' \in [Hops -> Seq(Byte)] /\ buf'[h] = b
      /\ \A g \in Hops : g # h => buf'[g] = buf[g]
  BY <1>1, <1>2, <1>8, Updates DEF TypeOK
<1>10. TypeOK'
  BY <1>1, <1>3, <1>6, <1>9 DEF TypeOK
<1>11. HopInv(h)'
  BY <1>1, <1>3, <1>6, <1>8, <1>9, Zenon DEF HopInv
<1>12. \A g \in Hops : HopInv(g)'
  <2>1. \A g \in Hops : g # h => Same(g)
    BY <1>3, <1>6, <1>9 DEF Same
  <2> QED BY <1>11, <2>1, BothHops DEF Inductive
<1> QED BY <1>3, <1>10, <1>12, BytesMove DEF Inductive

LEMMA DiscardKeeps ==
  ASSUME Inductive, NEW h \in Hops, Discard(h)
  PROVE  Inductive'
<1>1. /\ TypeOK /\ HopInv(h) /\ TodoInv(h) /\ pc[h] = "payload"
      /\ recvd[h] >= Kept(h) /\ recvd[h] < msg[h].length
  BY DEF Inductive, Discard
<1>2. PICK n \in Arrivals(h, Least(msg[h].length - recvd[h], DiscardLen)) : Take(h, n)
  BY Zenon DEF Discard
<1>3. UNCHANGED <<input, todo, out, link, pc, buf, msg, typed, sent, received>>
  BY Zenon DEF Discard, senders
<1>4. PICK d \in Nat : d = msg[h].length - recvd[h]
  BY <1>1, Values, KeptIs
<1>5. /\ Least(d, DiscardLen) \in Nat /\ Least(d, DiscardLen) <= d
  BY LeastIs, Constants
<1>6. n \in Nat /\ n \in 1..Len(wire[h]) /\ n <= Least(d, DiscardLen)
  BY <1>1, <1>2, <1>4, <1>5, ArrivalsAre
<1>7. n <= msg[h].length - recvd[h] /\ recvd[h] >= Least(msg[h].length, MaxLen)
  BY <1>1, <1>4, <1>5, <1>6 DEF Kept
<1>8. /\ wire' \in [Hops -> Seq(Byte)] /\ wire'[h] = Skip(wire[h], n)
      /\ \A g \in Hops : g # h => wire'[g] = wire[g]
      /\ recvd' \in [Hops -> Nat] /\ recvd'[h] = recvd[h] + n
      /\ \A g \in Hops : g # h => recvd'[g] = recvd[g]
  BY <1>1, <1>2, <1>6, Takes
<1>9. HopOf(sent[h], received[h], "payload", buf[h], recvd[h], wire[h], out[h], link[h], msg[h])
  BY <1>1, Zenon DEF HopInv
<1>10. HopOf(sent[h], received[h], "payload", buf[h], recvd[h] + n, Skip(wire[h], n), out[h], link[h], msg[h])
  BY <1>1, <1>6, <1>7, <1>9, Values, HopDiscard
<1>11. TypeOK'
  BY <1>1, <1>3, <1>8 DEF TypeOK
<1>12. HopInv(h)'
  BY <1>1, <1>3, <1>8, <1>10, Zenon DEF HopInv
<1>13. \A g \in Hops : HopInv(g)'
  <2>1. \A g \in Hops : g # h => Same(g)
    BY <1>3, <1>8 DEF Same
  <2> QED BY <1>12, <2>1, BothHops DEF Inductive
<1> QED BY <1>3, <1>11, <1>13, BytesMove DEF Inductive

LEMMA RecvFailsKeeps ==
  ASSUME Inductive, NEW h \in Hops, RecvFails(h)
  PROVE  Inductive'
<1>1. TypeOK /\ HopInv(h) /\ TodoInv(h) /\ link[h] # "up"
  BY DEF Inductive, RecvFails
<1>2. UNCHANGED <<input, todo, out, wire, link, buf, recvd, msg, typed, sent, received>>
  BY DEF RecvFails, senders
<1>3. PICK q \in {"null", "failed"} : pc' = [pc EXCEPT ![h] = q]
  BY DEF RecvFails
<1>4. /\ pc' \in [Hops -> {"header", "payload", "done", "null", "failed"}] /\ pc'[h] = q
      /\ \A g \in Hops : g # h => pc'[g] = pc[g]
  BY <1>1, <1>3, Updates DEF TypeOK
<1>5. TypeOK'
  BY <1>1, <1>2, <1>4 DEF TypeOK
<1>6. HopInv(h)'
  <2>1. HopOf(sent[h], received[h], pc[h], buf[h], recvd[h], wire[h], out[h], link[h], msg[h])
    BY <1>1, Zenon DEF HopInv
  <2>2. HopOf(sent[h], received[h], q, buf[h], recvd[h], wire[h], out[h], link[h], msg[h])
    BY <1>1, <2>1, HopRecvFails
  <2> QED BY <1>2, <1>4, <2>2, Zenon DEF HopInv
<1>7. \A g \in Hops : HopInv(g)'
  <2>1. \A g \in Hops : g # h => Same(g)
    BY <1>2, <1>4 DEF Same
  <2> QED BY <1>6, <2>1, BothHops DEF Inductive
<1> QED BY <1>2, <1>5, <1>7, BytesMove DEF Inductive

-----------------------------------------------------------------------------
(* The connections. *)

\* A program that ends sends no more of its messages.
LEMMA RelaysClose ==
  ASSUME NEW s \in Seq(Messages), NEW t \in Seq(Messages), IsStartOf(t, s),
         NEW l, NEW ms \in Seq(MessageType), Relays(s, l, ms)
  PROVE  Relays(t, "closed", ms)
<1>1. PICK i \in Nat, n \in Nat, k \in Nat : i = Len(t) /\ n = Len(s) /\ k = Len(ms) /\ i <= n
  BY DEF IsStartOf
<1>2. \A j \in 1..i : t[j] = s[j]
  BY <1>1 DEF IsStartOf
<1>3. CASE t = <<>>
  BY <1>3 DEF Relays
<1>4. CASE t # <<>> /\ s = <<Refusal>>
  <2>1. n = 1 /\ s[1] = Refusal
    BY <1>1, <1>4
  <2>2. i # 0
    BY <1>1, <1>4
  <2>3. i = 1
    BY <1>1, <2>1, <2>2
  <2>4. Len(t) = 1 /\ t[1] = Refusal
    BY <1>1, <1>2, <2>1, <2>3
  <2>5. t = <<t[1]>>
    BY <2>4
  <2> QED BY <2>4, <2>5 DEF Relays
<1>5. CASE t # <<>> /\ s # <<Refusal>>
  <2>1. i >= 1 /\ n >= 1
    BY <1>1, <1>5
  <2>2. s # <<>>
    BY <1>1, <2>1
  <2>3. s[1] = Header(0, 0, CONN) /\ n <= k + 1 /\ \A j \in 1..(n - 1) : s[j + 1] = ms[j]
    BY <1>1, <1>5, <2>2 DEF Relays
  <2>4. i <= k + 1 /\ 1 \in 1..i
    BY <1>1, <2>1, <2>3
  <2>5. t[1] = Header(0, 0, CONN)
    BY <1>2, <2>3, <2>4
  <2>6. \A j \in 1..(i - 1) : j + 1 \in 1..i /\ j \in 1..(n - 1)
    BY <1>1
  <2>7. \A j \in 1..(i - 1) : t[j + 1] = ms[j]
    BY <1>2, <2>3, <2>6, Zenon
  <2> QED BY <1>1, <2>1, <2>4, <2>5, <2>7 DEF Relays
<1> QED BY <1>3, <1>4, <1>5

LEMMA RelaysReset ==
  ASSUME NEW s, NEW l, NEW l1, IsReset(l, l1), NEW ms, Relays(s, l, ms)
  PROVE  Relays(s, l1, ms)
BY DEF Relays, IsReset

LEMMA TellsClose ==
  ASSUME NEW s \in Seq(Messages), NEW t \in Seq(Messages), IsStartOf(t, s),
         NEW l, NEW ts \in Seq(Seq(Byte)), Tells(s, l, ts)
  PROVE  Tells(t, "closed", ts)
<1>1. /\ AllCut(t) \in Seq(Messages) /\ AllCut(s) \in Seq(Messages)
      /\ IsStartOf(AllCut(t), AllCut(s))
  BY AllCutIs, AllCutStart
<1>2. PICK a \in Seq(Seq(Byte)), b \in Seq(Seq(Byte)) :
        a = ShownOf(AllCut(t)) /\ b = ShownOf(AllCut(s))
  BY <1>1, PagesType
<1>3. IsStartOf(a, b)
  BY <1>1, <1>2, ShownStart
<1>4. IsStartOf(b, ts)
  BY <1>2 DEF Tells
<1>5. IsStartOf(a, ts)
  BY <1>3, <1>4, StartOfMore
<1> QED BY <1>2, <1>5 DEF Tells

LEMMA CloseKeeps ==
  ASSUME Inductive, NEW h \in Hops, Close(h)
  PROVE  Inductive'
<1>1. TypeOK /\ HopInv(h) /\ TodoInv(h) /\ \A g \in Hops : TodoInv(g)
  BY DEF Inductive
<1>2. /\ link[h] = "up"
      /\ link' = [link EXCEPT ![h] = "closed"] /\ out' = [out EXCEPT ![h] = <<>>]
      /\ todo' = [todo EXCEPT ![h] = <<>>]
      /\ UNCHANGED <<input, wire, pc, buf, recvd, msg, typed, sent, received>>
  BY DEF Close, receivers
<1>3. <<>> \in Seq(Byte) /\ <<>> \in Seq(MessageType) /\ <<>> \in Seq(Messages)
  OBVIOUS
<1>4. /\ out' \in [Hops -> Seq(Byte)] /\ out'[h] = <<>>
      /\ \A g \in Hops : g # h => out'[g] = out[g]
  BY <1>1, <1>2, <1>3, Updates DEF TypeOK
<1>5. /\ todo' \in [Hops -> Seq(MessageType)] /\ todo'[h] = <<>>
      /\ \A g \in Hops : g # h => todo'[g] = todo[g]
  BY <1>1, <1>2, <1>3, Updates DEF TypeOK
<1>6. /\ link' \in [Hops -> {"up", "closed", "reset", "lost"}] /\ link'[h] = "closed"
      /\ \A g \in Hops : g # h => link'[g] = link[g]
  BY <1>1, <1>2, Updates DEF TypeOK
<1>7. TypeOK'
  BY <1>1, <1>2, <1>4, <1>5, <1>6 DEF TypeOK
<1>8. HopInv(h)'
  <2>1. HopOf(sent[h], received[h], pc[h], buf[h], recvd[h], wire[h], out[h], link[h], msg[h])
    BY <1>1, Zenon DEF HopInv
  <2>2. GivesUp(link[h], "closed")
    BY <1>2 DEF GivesUp
  <2>3. HopOf(sent[h], received[h], pc[h], buf[h], recvd[h], wire[h], <<>>, "closed", msg[h])
    BY <1>1, <2>1, <2>2, Values, HopGiveUp
  <2> QED BY <1>2, <1>4, <1>6, <2>3, Zenon DEF HopInv
<1>9. \A g \in Hops : HopInv(g)'
  <2>1. \A g \in Hops : g # h => Same(g)
    BY <1>2, <1>4, <1>6 DEF Same
  <2> QED BY <1>8, <2>1, BothHops DEF Inductive
<1>10. Stream(h)' = sent[h] /\ \A g \in Hops : g # h => Stream(g)' = Stream(g)
  <2>1. Cat(sent[h], <<>>) = sent[h]
    BY <1>1, Values, CatEmpty
  <2> QED BY <1>2, <1>5, <2>1, Zenon DEF Stream
<1>11. ASSUME NEW g \in Hops PROVE TodoInv(g)'
  <2>1. CASE g = h
    <3>1. Fits(h, sent[h])
      BY <1>1, Streams
    <3> QED BY <1>5, <1>10, <2>1, <3>1, Zenon DEF TodoInv
  <2>2. CASE g # h
    BY <1>1, <1>5, <1>6, <1>10, <2>2, Zenon DEF TodoInv
  <2> QED BY <2>1, <2>2
<1>12. /\ sent[h] \in Seq(Messages) /\ Stream(h) \in Seq(Messages) /\ IsStartOf(sent[h], Stream(h))
  BY <1>1, Streams
<1>13. "up" \in Hops /\ "down" \in Hops
  BY DEF Hops
<1>14. Relayed'
  <2>1. Relays(Stream("down"), link["down"], received["up"])
    BY DEF Inductive, Relayed
  <2>2. CASE h = "down"
    <3>1. received["up"] \in Seq(MessageType)
      BY <1>1, <1>13, Values
    <3>2. Relays(sent[h], "closed", received["up"])
      BY <1>12, <2>1, <2>2, <3>1, RelaysClose
    <3> QED BY <1>2, <1>6, <1>10, <2>2, <3>2, Zenon DEF Relayed
  <2>3. CASE h # "down"
    BY <1>2, <1>6, <1>10, <1>13, <2>1, <2>3, Zenon DEF Relayed
  <2> QED BY <2>2, <2>3
<1>15. TextsAreTyped'
  <2>1. Tells(Stream("up"), link["up"], typed) /\ typed \in Seq(Texts) /\ typed' = typed
    BY <1>2 DEF Inductive, TextsAreTyped
  <2>2. CASE h = "up"
    <3>1. typed \in Seq(Seq(Byte))
      BY <1>1 DEF TypeOK
    <3>2. Tells(sent[h], "closed", typed)
      BY <1>12, <2>1, <2>2, <3>1, TellsClose
    <3> QED BY <1>6, <1>10, <2>1, <2>2, <3>2, Zenon DEF TextsAreTyped
  <2>3. CASE h # "up"
    BY <1>6, <1>10, <1>13, <2>1, <2>3, Zenon DEF TextsAreTyped
  <2> QED BY <2>2, <2>3
<1> QED BY <1>7, <1>9, <1>11, <1>14, <1>15 DEF Inductive

LEMMA ResetKeeps ==
  ASSUME Inductive, NEW h \in Hops, Reset(h)
  PROVE  Inductive'
<1>1. TypeOK /\ HopInv(h) /\ TodoInv(h) /\ \A g \in Hops : TodoInv(g)
  BY DEF Inductive
<1>2. /\ wire' = [wire EXCEPT ![h] = <<>>]
      /\ UNCHANGED <<input, todo, out, pc, buf, recvd, msg, typed, sent, received>>
  BY DEF Reset, senders, receivers
<1>3. PICK l \in {"reset", "lost"} : link' = [link EXCEPT ![h] = l] /\ IsReset(link[h], l)
  BY DEF Reset, IsReset
<1>4. /\ wire' \in [Hops -> Seq(Byte)] /\ wire'[h] = <<>>
      /\ \A g \in Hops : g # h => wire'[g] = wire[g]
  <2>1. <<>> \in Seq(Byte)
    OBVIOUS
  <2> QED BY <1>1, <1>2, <2>1, Updates DEF TypeOK
<1>5. /\ link' \in [Hops -> {"up", "closed", "reset", "lost"}] /\ link'[h] = l
      /\ \A g \in Hops : g # h => link'[g] = link[g]
  BY <1>1, <1>3, Updates DEF TypeOK
<1>6. TypeOK'
  BY <1>1, <1>2, <1>4, <1>5 DEF TypeOK
<1>7. HopInv(h)'
  <2>1. HopOf(sent[h], received[h], pc[h], buf[h], recvd[h], wire[h], out[h], link[h], msg[h])
    BY <1>1, Zenon DEF HopInv
  <2>2. HopOf(sent[h], received[h], pc[h], buf[h], recvd[h], <<>>, out[h], l, msg[h])
    BY <1>1, <1>3, <2>1, Values, HopReset
  <2> QED BY <1>2, <1>4, <1>5, <2>2, Zenon DEF HopInv
<1>8. \A g \in Hops : HopInv(g)'
  <2>1. \A g \in Hops : g # h => Same(g)
    BY <1>2, <1>4, <1>5 DEF Same
  <2> QED BY <1>7, <2>1, BothHops DEF Inductive
<1>9. \A g \in Hops : Stream(g)' = Stream(g)
  BY <1>2 DEF Stream
<1>10. ASSUME NEW g \in Hops PROVE TodoInv(g)'
  <2>1. link'[g] \in {"closed", "lost"} => todo[g] = <<>>
    <3>1. CASE g = h
      BY <1>1, <1>3, <1>5, <3>1 DEF TodoInv, IsReset
    <3>2. CASE g # h
      BY <1>1, <1>5, <3>2 DEF TodoInv
    <3> QED BY <3>1, <3>2
  <2> QED BY <1>1, <1>2, <1>9, <2>1, Zenon DEF TodoInv
<1>11. "up" \in Hops /\ "down" \in Hops
  BY DEF Hops
<1>12. Relayed'
  <2>1. Relays(Stream("down"), link["down"], received["up"])
    BY DEF Inductive, Relayed
  <2>2. CASE h = "down"
    <3>1. Relays(Stream("down"), l, received["up"])
      BY <1>3, <2>1, <2>2, RelaysReset
    <3> QED BY <1>2, <1>5, <1>9, <1>11, <2>2, <3>1, Zenon DEF Relayed
  <2>3. CASE h # "down"
    BY <1>2, <1>5, <1>9, <1>11, <2>1, <2>3, Zenon DEF Relayed
  <2> QED BY <2>2, <2>3
<1>13. TextsAreTyped'
  <2>1. Tells(Stream("up"), link["up"], typed) /\ typed \in Seq(Texts) /\ typed' = typed
    BY <1>2 DEF Inductive, TextsAreTyped
  <2>2. CASE h = "up"
    <3>1. Tells(Stream("up"), l, typed)
      BY <1>3, <2>1 DEF Tells
    <3> QED BY <1>5, <1>9, <1>11, <2>1, <2>2, <3>1, Zenon DEF TextsAreTyped
  <2>3. CASE h # "up"
    BY <1>5, <1>9, <1>11, <2>1, <2>3, Zenon DEF TextsAreTyped
  <2> QED BY <2>2, <2>3
<1> QED BY <1>6, <1>8, <1>10, <1>12, <1>13 DEF Inductive

-----------------------------------------------------------------------------
(* Typing. *)

\* The typist's next message has the text that is typed, or there is none.
LEMMA TypingKeeps ==
  ASSUME Inductive, AtInput, NEW m \in Messages, Suits("up", 1, m),
         todo' = [todo EXCEPT !["up"] = <<m>>],
         typed' = Cat(typed, ShownBy(Cut(m))), typed' \in Seq(Texts), typed' \in Seq(Seq(Byte)),
         input' \in {"open", "ended"},
         UNCHANGED <<out, wire, link, pc, buf, recvd, msg, sent, received>>
  PROVE  Inductive'
<1>1. /\ TypeOK /\ Relayed /\ TextsAreTyped /\ \A h \in Hops : HopInv(h) /\ TodoInv(h)
  BY DEF Inductive
<1>2. "up" \in Hops /\ "down" \in Hops /\ "up" # "down"
  BY DEF Hops
<1>3. link["up"] = "up" /\ todo["up"] = <<>>
  BY DEF AtInput
<1>4. <<m>> \in Seq(Messages) /\ <<m>> \in Seq(MessageType)
  BY DEF Messages
<1>5. /\ todo' \in [Hops -> Seq(MessageType)] /\ todo'["up"] = <<m>>
      /\ \A g \in Hops : g # "up" => todo'[g] = todo[g]
  BY <1>1, <1>2, <1>4, Updates DEF TypeOK
<1>6. TypeOK'
  BY <1>1, <1>5 DEF TypeOK
<1>7. \A h \in Hops : HopInv(h)'
  BY <1>1, Zenon DEF HopInv
<1>8. PICK s \in Seq(Messages) : s = sent["up"] /\ s = Stream("up")
  <2>1. sent["up"] \in Seq(Messages)
    BY <1>1, <1>2, Streams
  <2>2. Cat(sent["up"], <<>>) = sent["up"]
    BY <2>1, CatEmpty
  <2>3. Stream("up") = sent["up"]
    BY <1>3, <2>2, Zenon DEF Stream
  <2> QED BY <2>1, <2>3, Zenon
<1>9. Stream("up")' = Cat(s, <<m>>) /\ \A g \in Hops : g # "up" => Stream(g)' = Stream(g)
  BY <1>5, <1>8, Zenon DEF Stream
<1>10. ASSUME NEW g \in Hops PROVE TodoInv(g)'
  <2>1. CASE g = "up"
    <3>1. Fits("up", s)
      BY <1>1, <1>2, <1>8, Zenon DEF TodoInv
    <3>2. Suits("up", Len(s) + 1, m)
      BY <1>2 DEF Suits
    <3>3. Fits("up", Cat(s, <<m>>))
      BY <3>1, <3>2, FitsNext
    <3>4. ~(link["up"] \in {"closed", "lost"})
      BY <1>3
    <3> QED BY <1>9, <2>1, <3>3, <3>4, Zenon DEF TodoInv
  <2>2. CASE g # "up"
    BY <1>1, <1>5, <1>9, <2>2, Zenon DEF TodoInv
  <2> QED BY <2>1, <2>2
<1>11. Relayed'
  BY <1>1, <1>2, <1>9, Zenon DEF Relayed
<1>12. TextsAreTyped'
  <2>1. ShownOf(AllCut(s)) = typed
    BY <1>1, <1>3, <1>8 DEF TextsAreTyped, Tells
  <2>2. ShownOf(AllCut(Cat(s, <<m>>))) = Cat(ShownOf(AllCut(s)), ShownBy(Cut(m)))
    BY AllCutNext
  <2>3. ShownOf(AllCut(Cat(s, <<m>>))) = typed'
    BY <2>1, <2>2, Zenon
  <2>4. IsStartOf(typed', typed')
    BY DEF IsStartOf
  <2>5. Tells(Cat(s, <<m>>), link'["up"], typed')
    BY <2>3, <2>4, Zenon DEF Tells
  <2> QED BY <1>9, <2>5, Zenon DEF TextsAreTyped
<1> QED BY <1>6, <1>7, <1>10, <1>11, <1>12 DEF Inductive

LEMMA TextsAre ==
  ASSUME NEW l \in Nat, l > 0
  PROVE  /\ Least(l, MaxLen) \in Nat /\ Least(l, MaxLen) - 1 \in 0..(l - 1)
         /\ Text(Least(l, MaxLen) - 1) \in Texts
         /\ Text(Least(l, MaxLen) - 1) \in Seq(Byte)
<1>1. PICK k \in Nat : k = Least(l, MaxLen) /\ k <= l /\ k <= MaxLen /\ k > 0 /\ MaxLen \in Nat
  BY LeastIs, Constants
<1>2. k - 1 \in 0..(l - 1) /\ k - 1 \in 0..(MaxLen - 1) /\ k - 1 \in Nat
  BY <1>1
<1>3. Text(k - 1) \in Texts
  BY <1>2, Zenon DEF Texts
<1>4. Text(k - 1) \in Seq(Byte)
  BY <1>2, TextIs
<1> QED BY <1>1, <1>2, <1>3, <1>4

\* A text more.
LEMMA TypedMore ==
  ASSUME TypeOK, TextsAreTyped, NEW t \in Texts, t \in Seq(Byte)
  PROVE  /\ Append(typed, t) = Cat(typed, <<t>>)
         /\ Append(typed, t) \in Seq(Texts) /\ Append(typed, t) \in Seq(Seq(Byte))
<1>1. typed \in Seq(Texts) /\ typed \in Seq(Seq(Byte))
  BY DEF TypeOK, TextsAreTyped
<1> QED BY <1>1, AppendIsCat

LEMMA TypeKeeps ==
  ASSUME Inductive, NEW n \in LineLens, NEW newline \in 0..1, Type(n, newline)
  PROVE  Inductive'
<1>1. n \in Nat /\ newline \in Nat /\ n + newline \in Nat /\ n + newline > 0 /\ n + newline <= n + 1
  BY FramingAssumption DEF Type
<1>2. PICK l \in Nat : l = n + newline /\ l > 0 /\ l <= n + 1
  BY <1>1
<1>3. PICK b \in Seq(Byte) :
        /\ b = Text(n) \o <<0>> /\ Len(b) = n + 1
        /\ \A k \in 0..n : SubSeq(b, 1, k) = Text(k)
  BY <1>1, TextIs
<1>4. /\ Least(l, MaxLen) \in Nat /\ Least(l, MaxLen) <= l /\ Least(l, MaxLen) <= MaxLen
      /\ Least(l, MaxLen) > 0
  BY <1>2, LeastIs, Constants
<1>5. Least(l, MaxLen) <= Len(b) /\ Least(l, MaxLen) - 1 \in 0..n
  <2>1. PICK k \in Nat : k = Least(l, MaxLen) /\ k <= l /\ k > 0
    BY <1>4
  <2>2. k <= n + 1 /\ k - 1 \in 0..n
    BY <1>1, <1>2, <2>1
  <2> QED BY <1>3, <2>1, <2>2, Zenon
<1>6. PICK m : m = Message(l, Typist, DATA, b)
  OBVIOUS
<1>7. /\ WellMade(m) /\ m.length = Least(l, MaxLen) /\ m.kind = DATA
      /\ TextOf(m) = SubSeq(b, 1, Least(l, MaxLen) - 1)
  <2>1. DATA \in {DATA, CONN, DCON}
    OBVIOUS
  <2> QED BY <1>2, <1>5, <1>6, <2>1, Constants, MessageMade
<1>8. PICK t \in Texts : t = Text(Least(l, MaxLen) - 1) /\ t \in Seq(Byte)
  BY <1>2, TextsAre
<1>9. m \in Messages /\ Suits("up", 1, m) /\ ShownBy(Cut(m)) = <<t>>
  <2>1. m \in Messages /\ Suits("up", 1, m)
    BY <1>4, <1>7 DEF Messages, WellMade, Suits
  <2>2. Cut(m) = m
    BY <1>4, <1>7, CutShort
  <2>3. TextOf(m) = t
    BY <1>3, <1>5, <1>7, <1>8, Zenon
  <2> QED BY <1>7, <2>1, <2>2, <2>3 DEF ShownBy
<1>10. /\ AtInput /\ todo' = [todo EXCEPT !["up"] = <<m>>]
       /\ typed' = Append(typed, t) /\ input' \in {"open", "ended"}
       /\ UNCHANGED <<out, wire, link, pc, buf, recvd, msg, sent, received>>
  BY <1>2, <1>3, <1>6, <1>8 DEF Type, Shown, receivers
<1>11. /\ typed' = Cat(typed, ShownBy(Cut(m)))
       /\ typed' \in Seq(Texts) /\ typed' \in Seq(Seq(Byte))
  BY <1>8, <1>9, <1>10, TypedMore DEF Inductive
<1> QED BY <1>9, <1>10, <1>11, TypingKeeps

LEMMA TypeUncutKeeps ==
  ASSUME Inductive, NEW n \in Oversize, TypeUncut(n)
  PROVE  Inductive'
<1>1. n \in Nat /\ n > 0 /\ n <= MaxInt
  BY FramingAssumption, MaxIntInNat
<1>2. PICK j \in Nat : j = n - 1 /\ j + 1 = n
  BY <1>1
<1>3. PICK b \in Seq(Byte) :
        /\ b = Text(j) \o <<0>> /\ Len(b) = n /\ b[n] = 0
        /\ \A k \in 0..j : SubSeq(b, 1, k) = Text(k)
  BY <1>2, TextIs
<1>4. PICK m : m = [id |-> Typist, kind |-> DATA, length |-> n, payload |-> b]
  OBVIOUS
<1>5. m.id = Typist /\ m.kind = DATA /\ m.length = n /\ m.payload = b
  BY <1>4
<1>6. WellMade(m)
  <2>1. m \in MessageType
    BY <1>1, <1>4, Constants DEF MessageType, DATA
  <2> QED BY <1>1, <1>3, <1>5, <2>1, Constants DEF WellMade
<1>7. PICK t \in Texts : t = Text(Least(n, MaxLen) - 1) /\ t \in Seq(Byte)
  BY <1>1, TextsAre
<1>8. m \in Messages /\ Suits("up", 1, m) /\ ShownBy(Cut(m)) = <<t>>
  <2>1. m \in Messages /\ Suits("up", 1, m)
    BY <1>1, <1>5, <1>6 DEF Messages, WellMade, Suits
  <2>2. Cut(m).kind = DATA /\ TextOf(Cut(m)) = SubSeq(b, 1, Least(n, MaxLen) - 1)
    BY <1>1, <1>5, <1>6, CutIs
  <2>3. Least(n, MaxLen) - 1 \in 0..j
    BY <1>1, <1>2, TextsAre
  <2>4. TextOf(Cut(m)) = t
    BY <1>3, <1>7, <2>2, <2>3, Zenon
  <2> QED BY <2>1, <2>2, <2>4 DEF ShownBy
<1>9. /\ AtInput /\ todo' = [todo EXCEPT !["up"] = <<m>>]
      /\ typed' = Append(typed, t) /\ input' = input
      /\ UNCHANGED <<out, wire, link, pc, buf, recvd, msg, sent, received>>
  BY <1>2, <1>3, <1>4, <1>7 DEF TypeUncut, receivers
<1>10. /\ typed' = Cat(typed, ShownBy(Cut(m)))
       /\ typed' \in Seq(Texts) /\ typed' \in Seq(Seq(Byte))
  BY <1>7, <1>8, <1>9, TypedMore DEF Inductive
<1>11. input' \in {"open", "ended"}
  BY <1>9 DEF Inductive, TypeOK
<1> QED BY <1>8, <1>9, <1>10, <1>11, TypingKeeps

LEMMA QuitKeeps ==
  ASSUME Inductive, Quit
  PROVE  Inductive'
<1>1. PICK m : m = Header(0, Typist, DCON)
  OBVIOUS
<1>2. DCON \in {DATA, CONN, DCON} /\ DCON # DATA
  BY DEF DATA, DCON
<1>3. WellMade(m) /\ m.length = 0 /\ m.kind = DCON
  BY <1>1, <1>2, HeaderMade, Constants
<1>4. m \in Messages /\ Suits("up", 1, m) /\ ShownBy(Cut(m)) = <<>>
  <2>1. m \in Messages /\ Suits("up", 1, m)
    BY <1>2, <1>3 DEF Messages, WellMade, Suits
  <2>2. Cut(m) = m
    BY <1>3 DEF Cut
  <2> QED BY <1>2, <1>3, <2>1, <2>2 DEF ShownBy
<1>5. /\ AtInput /\ todo' = [todo EXCEPT !["up"] = <<m>>]
      /\ typed' = typed /\ input' \in {"open", "ended"}
      /\ UNCHANGED <<out, wire, link, pc, buf, recvd, msg, sent, received>>
  BY <1>1 DEF Quit, receivers
<1>6. typed \in Seq(Texts) /\ typed \in Seq(Seq(Byte))
  BY DEF Inductive, TypeOK, TextsAreTyped
<1>7. typed' = Cat(typed, ShownBy(Cut(m)))
  BY <1>4, <1>5, <1>6, CatEmpty
<1> QED BY <1>4, <1>5, <1>6, <1>7, TypingKeeps

-----------------------------------------------------------------------------
(* Handing a message on. *)

LEMMA RefusalIs ==
  /\ Refusal \in Messages /\ Refusal.length > 0 /\ Refusal.kind = DCON
  /\ Refusal # Header(0, 0, CONN)
<1>1. <<7, 0>> \in Seq(Byte) /\ Len(<<7, 0>>) = 2
  <2>1. 7 \in Byte /\ 0 \in Byte
    BY SMT DEF Byte
  <2> QED BY <2>1
<1>2. PICK b \in Seq(Byte) : b = <<7, 0>> /\ Len(b) = 2
  BY <1>1
<1>3. /\ Least(2, MaxLen) \in Nat /\ Least(2, MaxLen) > 0 /\ Least(2, MaxLen) <= 2
  BY Constants DEF Least
<1>4. DCON \in {DATA, CONN, DCON} /\ 0 <= MaxShort /\ Least(2, MaxLen) <= Len(b)
  BY <1>2, <1>3, MaxShortInNat
<1>5. /\ WellMade(Message(2, 0, DCON, b)) /\ Message(2, 0, DCON, b).length = Least(2, MaxLen)
      /\ Message(2, 0, DCON, b).kind = DCON
  BY <1>4, MessageMade
<1>6. WellMade(Refusal) /\ Refusal.length = Least(2, MaxLen) /\ Refusal.kind = DCON
  BY <1>2, <1>5, Zenon DEF Refusal
<1>7. Header(0, 0, CONN).kind = CONN /\ CONN # DCON
  BY DEF Header, CONN, DCON
<1> QED BY <1>3, <1>6, <1>7 DEF Messages, WellMade

\* The server's test whether a client is in its table tells just the refused
\* connections apart.
LEMMA AcceptedIs ==
  ASSUME Inductive
  PROVE  Accepted <=> Stream("down") # <<Refusal>>
<1>1. PICK s \in Seq(Messages), t \in Seq(Messages), c \in Seq(Messages) :
        /\ s = sent["down"] /\ t = todo["down"] /\ c = Stream("down") /\ IsCat(c, s, t)
        /\ \A k \in 1..Len(t) : Suits("down", Len(s) + k, t[k])
  <2>1. "down" \in Hops /\ TypeOK /\ TodoInv("down")
    BY DEF Inductive, Hops
  <2> QED BY <2>1, Streams
<1>2. c = Cat(s, t) /\ Cat(s, <<>>) = s /\ Cat(<<>>, t) = t
  BY <1>1, CatEmpty DEF IsCat
<1>3. Relays(c, link["down"], received["up"])
  BY <1>1 DEF Inductive, Relayed
<1>4. ASSUME c = <<Refusal>> PROVE s = <<Refusal>> \/ t = <<Refusal>>
  <2>1. PICK i \in Nat, j \in Nat : i = Len(s) /\ j = Len(t)
    OBVIOUS
  <2>2. Len(c) = i + j
    BY <1>1, <2>1 DEF IsCat
  <2>3. i + j = 1
    BY <1>4, <2>2
  <2>4. CASE i = 0
    <3>1. Len(s) = 0
      BY <2>1, <2>4, Zenon
    <3>2. s = <<>>
      BY <3>1
    <3> QED BY <1>2, <1>4, <3>2, Zenon
  <2>5. CASE j = 0
    <3>1. Len(t) = 0
      BY <2>1, <2>5, Zenon
    <3>2. t = <<>>
      BY <3>1
    <3> QED BY <1>2, <1>4, <3>2, Zenon
  <2> QED BY <2>3, <2>4, <2>5
<1>5. ASSUME t = <<Refusal>> PROVE c = <<Refusal>>
  <2>1. 1 \in 1..Len(t) /\ t[1] = Refusal
    BY <1>5
  <2>2. Suits("down", Len(s) + 1, Refusal)
    BY <1>1, <2>1, Zenon
  <2>3. Refusal.kind # DATA
    BY RefusalIs DEF DATA, DCON
  <2>4. Len(s) + 1 = 1
    BY <2>2, <2>3, RefusalIs DEF Suits
  <2>5. s = <<>>
    BY <2>4
  <2> QED BY <1>2, <1>5, <2>5, Zenon
<1>6. ASSUME s = <<Refusal>> PROVE c = <<Refusal>>
  <2>1. 1 \in 1..Len(s) /\ s[1] = Refusal
    BY <1>6
  <2>2. c[1] = Refusal
    BY <1>1, <2>1, Zenon DEF IsCat
  <2>3. c # <<>>
    <3>1. PICK i \in Nat, j \in Nat : i = Len(s) /\ j = Len(t) /\ i >= 1
      BY <2>1
    <3>2. Len(c) = i + j
      BY <1>1, <3>1 DEF IsCat
    <3>3. Len(c) # 0
      BY <3>1, <3>2
    <3> QED BY <3>3
  <2> QED BY <1>3, <2>2, <2>3, RefusalIs DEF Relays
<1> QED BY <1>1, <1>4, <1>5, <1>6 DEF Accepted

\* What is received is forwarded to a client that is there,
LEMMA RelaysNext ==
  ASSUME NEW s \in Seq(Messages), NEW ms \in Seq(MessageType), NEW m \in Messages,
         NEW l \in {"up", "reset"}, s # <<Refusal>>, Relays(s, l, ms)
  PROVE  /\ Len(s) >= 1
         /\ Relays(Cat(s, <<m>>), l, Append(ms, m))
<1>1. /\ Len(s) >= 1 /\ s[1] = Header(0, 0, CONN) /\ Len(s) = Len(ms) + 1
      /\ \A k \in 1..(Len(s) - 1) : s[k + 1] = ms[k]
  BY DEF Relays
<1>2. m \in MessageType /\ <<m>> \in Seq(Messages) /\ 1 \in 1..Len(<<m>>) /\ <<m>>[1] = m /\ Len(<<m>>) = 1
  BY DEF Messages
<1>3. PICK t \in Seq(Messages) : IsCat(t, s, <<m>>)
  BY <1>2, CatMade
<1>4. PICK ns \in Seq(MessageType) :
        /\ ns = Append(ms, m) /\ Len(ns) = Len(ms) + 1 /\ ns[Len(ms) + 1] = m
        /\ \A k \in 1..Len(ms) : ns[k] = ms[k]
  <2>1. /\ Append(ms, m) \in Seq(MessageType) /\ Len(Append(ms, m)) = Len(ms) + 1
        /\ Append(ms, m)[Len(ms) + 1] = m
        /\ \A k \in 1..Len(ms) : Append(ms, m)[k] = ms[k]
    BY <1>2, AppendKeeps
  <2> QED BY <2>1, Zenon
<1>5. PICK i \in Nat : i = Len(ms) /\ Len(s) = i + 1 /\ Len(ns) = i + 1
  BY <1>1, <1>4
<1>6. Len(t) = (i + 1) + 1
  BY <1>2, <1>3, <1>5, Zenon DEF IsCat
<1>7. t[(i + 1) + 1] = m /\ \A k \in 1..(i + 1) : t[k] = s[k]
  BY <1>2, <1>3, <1>5, Zenon DEF IsCat
<1>8. 1 \in 1..(i + 1)
  OBVIOUS
<1>9. t[1] = Header(0, 0, CONN)
  BY <1>1, <1>7, <1>8, Zenon
<1>10. (i + 1) - 1 = i /\ ((i + 1) + 1) - 1 = i + 1
  OBVIOUS
<1>11. \A k \in 1..i : s[k + 1] = ms[k]
  BY <1>1, <1>5, <1>10, Zenon
<1>12. \A k \in 1..(i + 1) : t[k + 1] = ns[k]
  <2>1. \A k \in 1..(i + 1) : k = i + 1 \/ (k \in 1..i /\ k + 1 \in 1..(i + 1))
    OBVIOUS
  <2>2. ns[i + 1] = m /\ \A k \in 1..i : ns[k] = ms[k]
    BY <1>4, <1>5, Zenon
  <2> QED BY <1>7, <1>11, <2>1, <2>2, Zenon
<1>13. /\ Len(t) >= 1 /\ Len(t) <= Len(ns) + 1 /\ Len(t) = Len(ns) + 1
  BY <1>5, <1>6
<1>14. \A k \in 1..(Len(t) - 1) : t[k + 1] = ns[k]
  BY <1>6, <1>10, <1>12, Zenon
<1>15. Relays(t, l, ns)
  BY <1>9, <1>13, <1>14, Zenon DEF Relays
<1> QED BY <1>1, <1>3, <1>4, <1>15 DEF IsCat

\* and to no other.
LEMMA RelaysLess ==
  ASSUME NEW s \in Seq(Messages), NEW ms \in Seq(MessageType), NEW m \in MessageType, NEW l,
         s = <<Refusal>> \/ l \in {"closed", "lost"}, Relays(s, l, ms)
  PROVE  Relays(s, l, Append(ms, m))
<1>1. CASE s = <<Refusal>>
  BY <1>1 DEF Relays
<1>2. CASE l \in {"closed", "lost"} /\ s # <<Refusal>>
  <2>1. CASE s = <<>>
    BY <1>2, <2>1 DEF Relays
  <2>2. CASE s # <<>>
    <3>1. /\ Len(s) >= 1 /\ s[1] = Header(0, 0, CONN) /\ Len(s) <= Len(ms) + 1
          /\ \A k \in 1..(Len(s) - 1) : s[k + 1] = ms[k]
      BY <1>2, <2>2 DEF Relays
    <3>2. PICK ns \in Seq(MessageType) :
            /\ ns = Append(ms, m) /\ Len(ns) = Len(ms) + 1
            /\ \A k \in 1..Len(ms) : ns[k] = ms[k]
      <4>1. /\ Append(ms, m) \in Seq(MessageType) /\ Len(Append(ms, m)) = Len(ms) + 1
            /\ \A k \in 1..Len(ms) : Append(ms, m)[k] = ms[k]
        BY AppendKeeps
      <4> QED BY <4>1, Zenon
    <3>3. PICK i \in Nat, n \in Nat : i = Len(ms) /\ n = Len(s) /\ n <= i + 1 /\ Len(ns) = i + 1
      BY <3>1, <3>2
    <3>4. \A k \in 1..(n - 1) : k \in 1..i
      BY <3>3
    <3>5. \A k \in 1..(n - 1) : s[k + 1] = ns[k]
      BY <3>1, <3>2, <3>3, <3>4, Zenon
    <3>6. Len(s) <= Len(ns) + 1 /\ ~(l \in {"up", "reset"})
      BY <1>2, <3>3
    <3>7. Relays(s, l, ns)
      BY <3>1, <3>3, <3>5, <3>6, Zenon DEF Relays
    <3> QED BY <3>2, <3>7
  <2> QED BY <2>1, <2>2
<1> QED BY <1>1, <1>2

\* The message in which a receiver is suits its place.
LEMMA CurrentSuits ==
  ASSUME Inductive, NEW h \in Hops, Len(received[h]) < Len(sent[h])
  PROVE  /\ Current(sent[h], received[h]) \in Messages
         /\ Suits(h, Len(received[h]) + 1, Current(sent[h], received[h]))
<1>1. TypeOK /\ TodoInv(h)
  BY DEF Inductive
<1>2. sent[h] \in Seq(Messages) /\ Fits(h, sent[h]) /\ received[h] \in Seq(MessageType)
  BY <1>1, Streams, Values
<1>3. Len(received[h]) + 1 \in 1..Len(sent[h])
  BY <1>2
<1>4. Suits(h, Len(received[h]) + 1, Current(sent[h], received[h]))
  BY <1>2, <1>3, Zenon DEF Fits, Current
<1> QED BY <1>2, <1>4, CurrentIs

LEMMA HandKeeps ==
  ASSUME Inductive, NEW h \in Hops, NEW q \in {"header", "done"},
         Len(received[h]) < Len(sent[h]),
         NEW m, m = Cut(Current(sent[h], received[h])),
         Hand(h, m, q), Forward(h, m),
         HopOf(sent[h], Append(received[h], m), q, <<>>, 0, wire[h], out[h], link[h], msg[h]),
         UNCHANGED <<input, out, wire, link, typed, sent, msg>>
  PROVE  Inductive'
<1>1. /\ TypeOK /\ Relayed /\ TextsAreTyped /\ \A g \in Hops : TodoInv(g)
  BY DEF Inductive
<1>2. /\ Current(sent[h], received[h]) \in Messages
      /\ Suits(h, Len(received[h]) + 1, Current(sent[h], received[h]))
  BY CurrentSuits
<1>3. /\ m \in Messages /\ m \in MessageType /\ WellMade(m)
      /\ m.kind = Current(sent[h], received[h]).kind
      /\ m.length > 0 <=> Current(sent[h], received[h]).length > 0
  BY <1>2, CutIs DEF Messages, WellMade
<1>4. received[h] \in Seq(MessageType) /\ Append(received[h], m) \in Seq(MessageType)
  BY <1>1, <1>3, Values, AppendKeeps
<1>5. /\ received' = [received EXCEPT ![h] = Append(received[h], m)]
      /\ pc' = [pc EXCEPT ![h] = q]
      /\ buf' = [buf EXCEPT ![h] = <<>>]
      /\ recvd' = [recvd EXCEPT ![h] = 0]
  BY Zenon DEF Hand
<1>6. /\ received' \in [Hops -> Seq(MessageType)] /\ received'[h] = Append(received[h], m)
      /\ \A g \in Hops : g # h => received'[g] = received[g]
  BY <1>1, <1>4, <1>5, Updates DEF TypeOK
<1>7. /\ pc' \in [Hops -> {"header", "payload", "done", "null", "failed"}] /\ pc'[h] = q
      /\ \A g \in Hops : g # h => pc'[g] = pc[g]
  BY <1>1, <1>5, Updates DEF TypeOK
<1>8. /\ buf' \in [Hops -> Seq(Byte)] /\ buf'[h] = <<>>
      /\ \A g \in Hops : g # h => buf'[g] = buf[g]
  <2>1. <<>> \in Seq(Byte)
    OBVIOUS
  <2> QED BY <1>1, <1>5, <2>1, Updates DEF TypeOK
<1>9. /\ recvd' \in [Hops -> Nat] /\ recvd'[h] = 0
      /\ \A g \in Hops : g # h => recvd'[g] = recvd[g]
  <2>1. 0 \in Nat
    OBVIOUS
  <2> QED BY <1>1, <1>5, <2>1, Updates DEF TypeOK
<1>10. \A g \in Hops : HopInv(g)'
  <2>1. HopInv(h)'
    BY <1>6, <1>7, <1>8, <1>9, Zenon DEF HopInv
  <2>2. \A g \in Hops : g # h => Same(g)
    BY <1>6, <1>7, <1>8, <1>9 DEF Same
  <2> QED BY <2>1, <2>2, BothHops DEF Inductive
<1>11. "up" \in Hops /\ "down" \in Hops /\ "up" # "down" /\ (h = "up" \/ h = "down")
  BY DEF Hops
<1>12. /\ Stream("down") \in Seq(Messages) /\ sent["down"] \in Seq(Messages)
       /\ todo["down"] \in Seq(Messages) /\ todo["down"] \in Seq(MessageType)
  BY <1>1, <1>11, Streams, Values
<1>13. ASSUME h = "up", Accepted, link["down"] \notin {"closed", "lost"}
       PROVE  Inductive'
  <2>1. todo' = [todo EXCEPT !["down"] = Append(todo["down"], m)]
    BY <1>13, Zenon DEF Forward
  <2>2. /\ Append(todo["down"], m) \in Seq(MessageType) /\ <<m>> \in Seq(Messages)
        /\ Append(todo["down"], m) = Cat(todo["down"], <<m>>)
    <3>1. m \in MessageType /\ <<m>> \in Seq(Messages)
      BY <1>3
    <3>2. Append(todo["down"], m) = Cat(todo["down"], <<m>>)
      BY <1>3, <1>12, AppendIsCat, Zenon
    <3>3. Append(todo["down"], m) \in Seq(MessageType)
      BY <1>12, <3>1
    <3> QED BY <3>1, <3>2, <3>3, Zenon
  <2>3. /\ todo' \in [Hops -> Seq(MessageType)] /\ todo'["down"] = Append(todo["down"], m)
        /\ todo'["up"] = todo["up"]
    BY <1>1, <1>11, <2>1, <2>2, Updates DEF TypeOK
  <2>4. TypeOK'
    BY <1>1, <1>6, <1>7, <1>8, <1>9, <2>3 DEF TypeOK
  <2>5. Stream("down")' = Cat(Stream("down"), <<m>>)
    <3>1. PICK a \in Seq(Messages), b \in Seq(Messages), c \in Seq(Messages) :
            a = sent["down"] /\ b = todo["down"] /\ c = <<m>>
      BY <1>12, <2>2
    <3>2. Cat(Cat(a, b), c) = Cat(a, Cat(b, c))
      BY CatAssociates
    <3>3. sent' = sent
      OBVIOUS
    <3> QED BY <2>2, <2>3, <3>1, <3>2, <3>3, Zenon DEF Stream
  <2>6. Stream("up")' = Stream("up")
    BY <2>3, Zenon DEF Stream
  <2>7. link["down"] \in {"up", "reset"} /\ Stream("down") # <<Refusal>>
    BY <1>1, <1>11, <1>13, Values, AcceptedIs
  <2>8. /\ Len(Stream("down")) >= 1
        /\ Relays(Cat(Stream("down"), <<m>>), link["down"], Append(received["up"], m))
    <3>1. Relays(Stream("down"), link["down"], received["up"])
      BY <1>1 DEF Relayed
    <3> QED BY <1>3, <1>4, <1>12, <1>13, <2>7, <3>1, RelaysNext
  <2>9. Relayed'
    BY <1>6, <1>13, <2>5, <2>8, Zenon DEF Relayed
  <2>10. TextsAreTyped'
    BY <1>1, <2>6, Zenon DEF TextsAreTyped
  <2>11. TodoInv("up")'
    BY <1>1, <1>11, <2>3, <2>6, Zenon DEF TodoInv
  <2>12. TodoInv("down")'
    <3>1. Suits("down", Len(Stream("down")) + 1, m)
      <4>1. m.length > 0 <=> m.kind = DATA
        BY <1>2, <1>3, <1>11, <1>13 DEF Suits
      <4>2. Len(Stream("down")) + 1 # 1
        BY <1>12, <2>8
      <4> QED BY <1>3, <4>1, <4>2 DEF Suits
    <3>2. Fits("down", Stream("down"))
      BY <1>1, <1>11 DEF TodoInv
    <3>3. Fits("down", Cat(Stream("down"), <<m>>))
      BY <1>3, <1>12, <3>1, <3>2, FitsNext
    <3> QED BY <1>13, <2>5, <3>3, Zenon DEF TodoInv
  <2> QED BY <1>10, <2>4, <2>9, <2>10, <2>11, <2>12 DEF Inductive, Hops
<1>14. ASSUME h = "down" \/ ~Accepted \/ link["down"] \in {"closed", "lost"}
       PROVE  Inductive'
  <2>1. todo' = todo
    BY <1>11, <1>14, Zenon DEF Forward
  <2>2. TypeOK'
    BY <1>1, <1>6, <1>7, <1>8, <1>9, <2>1 DEF TypeOK
  <2>3. \A g \in Hops : Stream(g)' = Stream(g)
    BY <2>1 DEF Stream
  <2>4. \A g \in Hops : TodoInv(g)'
    BY <1>1, <2>1, <2>3, Zenon DEF TodoInv
  <2>5. TextsAreTyped'
    BY <1>1, <1>11, <2>3, Zenon DEF TextsAreTyped
  <2>6. Relays(Stream("down"), link["down"], received["up"])
    BY <1>1 DEF Relayed
  <2>7. CASE h = "down"
    <3>1. Relayed'
      BY <1>6, <1>11, <2>3, <2>6, <2>7, Zenon DEF Relayed
    <3> QED BY <1>10, <2>2, <2>4, <2>5, <3>1 DEF Inductive
  <2>8. CASE h = "up"
    <3>1. Stream("down") = <<Refusal>> \/ link["down"] \in {"closed", "lost"}
      BY <1>11, <1>14, <2>8, AcceptedIs
    <3>2. Relays(Stream("down"), link["down"], Append(received["up"], m))
      BY <1>3, <1>4, <1>12, <2>6, <2>8, <3>1, RelaysLess
    <3>3. Relayed'
      BY <1>6, <1>11, <2>3, <2>8, <3>2, Zenon DEF Relayed
    <3> QED BY <1>10, <2>2, <2>4, <2>5, <3>3 DEF Inductive
  <2> QED BY <1>11, <2>7, <2>8
<1> QED BY <1>11, <1>13, <1>14

LEMMA HeaderDoneKeeps ==
  ASSUME Inductive, NEW h \in Hops, HeaderDone(h)
  PROVE  Inductive'
<1>1. /\ TypeOK /\ HopInv(h) /\ TodoInv(h) /\ pc[h] = "header" /\ recvd[h] = HeaderLen
  BY DEF Inductive, HeaderDone
<1>2. PICK u : u = Unmarshal(buf[h])
  OBVIOUS
<1>3. PICK c : c = Current(sent[h], received[h])
  OBVIOUS
<1>4. HopOf(sent[h], received[h], "header", buf[h], HeaderLen, wire[h], out[h], link[h], msg[h])
  BY <1>1, Zenon DEF HopInv
<1>5. sent[h] \in Seq(Messages)
  BY <1>1, Streams
<1>6. /\ Len(received[h]) < Len(sent[h]) /\ u = Header(c.length, c.id, c.kind)
      /\ c.length > 0 =>
           HopOf(sent[h], received[h], "payload", <<>>, 0, wire[h], out[h], link[h], u)
      /\ c.length = 0 =>
           /\ u = Cut(c)
           /\ \A q \in {"header", "done"} :
                HopOf(sent[h], Append(received[h], Cut(c)), q, <<>>, 0, wire[h], out[h], link[h], msg[h])
  BY <1>1, <1>2, <1>3, <1>4, <1>5, Values, HeaderRead
<1>7. c \in Messages /\ Suits(h, Len(received[h]) + 1, c) /\ c.length \in Nat
  BY <1>3, <1>6, CurrentSuits, WellMadeType DEF Messages
<1>8. u.kind = c.kind /\ u.id = c.id /\ u.length = c.length /\ u \in MessageType
  <2>1. c.id \in Nat /\ c.kind \in Nat /\ <<>> \in Seq(Byte)
    BY <1>7, WellMadeType DEF Messages
  <2> QED BY <1>6, <1>7, <2>1 DEF Header, MessageType
<1>9. HasPayload(h, u) <=> c.length > 0
  <2>1. received[h] = <<>> <=> Len(received[h]) + 1 = 1
    <3>1. received[h] \in Seq(MessageType)
      BY <1>1, Values
    <3> QED BY <3>1
  <2> QED BY <1>7, <1>8, <2>1 DEF HasPayload, Suits
<1>10. UNCHANGED <<input, out, wire, link, typed, sent>>
  BY DEF HeaderDone
<1>11. CASE c.length > 0
  <2>1. /\ msg' = [msg EXCEPT ![h] = u] /\ pc' = [pc EXCEPT ![h] = "payload"]
        /\ buf' = [buf EXCEPT ![h] = <<>>] /\ recvd' = [recvd EXCEPT ![h] = 0]
        /\ UNCHANGED <<received, todo>>
    BY <1>2, <1>9, <1>11, Zenon DEF HeaderDone
  <2>2. /\ msg' \in [Hops -> MessageType] /\ msg'[h] = u
        /\ \A g \in Hops : g # h => msg'[g] = msg[g]
    BY <1>1, <1>8, <2>1, Updates DEF TypeOK
  <2>3. /\ pc' \in [Hops -> {"header", "payload", "done", "null", "failed"}] /\ pc'[h] = "payload"
        /\ \A g \in Hops : g # h => pc'[g] = pc[g]
    BY <1>1, <2>1, Updates DEF TypeOK
  <2>4. /\ buf' \in [Hops -> Seq(Byte)] /\ buf'[h] = <<>>
        /\ \A g \in Hops : g # h => buf'[g] = buf[g]
    <3>1. <<>> \in Seq(Byte)
      OBVIOUS
    <3> QED BY <1>1, <2>1, <3>1, Updates DEF TypeOK
  <2>5. /\ recvd' \in [Hops -> Nat] /\ recvd'[h] = 0
        /\ \A g \in Hops : g # h => recvd'[g] = recvd[g]
    <3>1. 0 \in Nat
      OBVIOUS
    <3> QED BY <1>1, <2>1, <3>1, Updates DEF TypeOK
  <2>6. TypeOK'
    BY <1>1, <1>10, <2>1, <2>2, <2>3, <2>4, <2>5 DEF TypeOK
  <2>7. HopInv(h)'
    BY <1>6, <1>10, <1>11, <2>1, <2>2, <2>3, <2>4, <2>5, Zenon DEF HopInv
  <2>8. \A g \in Hops : HopInv(g)'
    <3>1. \A g \in Hops : g # h => Same(g)
      BY <1>10, <2>1, <2>2, <2>3, <2>4, <2>5 DEF Same
    <3> QED BY <2>7, <3>1, BothHops DEF Inductive
  <2> QED BY <1>10, <2>1, <2>6, <2>8, BytesMove DEF Inductive
<1>12. CASE c.length = 0
  <2>1. ~HasPayload(h, u)
    BY <1>9, <1>12
  <2>2. PICK q \in {"header", "done"} : Hand(h, u, q) /\ Forward(h, u) /\ UNCHANGED msg
    BY <1>2, <2>1, Zenon DEF HeaderDone
  <2>3. /\ u = Cut(Current(sent[h], received[h]))
        /\ HopOf(sent[h], Append(received[h], u), q, <<>>, 0, wire[h], out[h], link[h], msg[h])
    BY <1>3, <1>6, <1>12, Zenon
  <2> QED BY <1>6, <1>10, <2>2, <2>3, HandKeeps
<1> QED BY <1>7, <1>11, <1>12

LEMMA PayloadDoneKeeps ==
  ASSUME Inductive, NEW h \in Hops, PayloadDone(h)
  PROVE  Inductive'
<1>1. /\ TypeOK /\ HopInv(h) /\ TodoInv(h) /\ pc[h] = "payload" /\ recvd[h] >= msg[h].length
  BY DEF Inductive, PayloadDone
<1>2. PICK m : m = Message(Kept(h), msg[h].id, msg[h].kind, buf[h])
  OBVIOUS
<1>3. HopOf(sent[h], received[h], "payload", buf[h], recvd[h], wire[h], out[h], link[h], msg[h])
  BY <1>1, Zenon DEF HopInv
<1>4. sent[h] \in Seq(Messages)
  BY <1>1, Streams
<1>5. /\ Len(received[h]) < Len(sent[h]) /\ m = Cut(Current(sent[h], received[h]))
      /\ \A q \in {"header", "done"} :
           HopOf(sent[h], Append(received[h], m), q, <<>>, 0, wire[h], out[h], link[h], msg[h])
  <2>1. /\ Len(received[h]) < Len(sent[h])
        /\ Message(Least(msg[h].length, MaxLen), msg[h].id, msg[h].kind, buf[h])
             = Cut(Current(sent[h], received[h]))
        /\ \A q \in {"header", "done"} :
             HopOf(sent[h], Append(received[h], Cut(Current(sent[h], received[h]))), q, <<>>, 0,
                   wire[h], out[h], link[h], msg[h])
    BY <1>1, <1>3, <1>4, Values, PayloadRead
  <2> QED BY <1>2, <2>1, Zenon DEF Kept
<1>6. UNCHANGED <<input, out, wire, link, typed, sent, msg>>
  BY DEF PayloadDone
<1>7. PICK q \in {"header", "done"} : Hand(h, m, q) /\ Forward(h, m)
  BY <1>2, Zenon DEF PayloadDone
<1>8. HopOf(sent[h], Append(received[h], m), q, <<>>, 0, wire[h], out[h], link[h], msg[h])
  BY <1>5
<1> QED BY <1>5, <1>6, <1>7, <1>8, HandKeeps

-----------------------------------------------------------------------------
(* The first state, and every step. *)

LEMMA HopEmpty ==
  ASSUME NEW m
  PROVE  HopOf(<<>>, <<>>, "header", <<>>, 0, <<>>, <<>>, "up", m)
<1>1. PICK e \in Seq(Byte) : e = <<>> /\ Len(e) = 0
  <2>1. <<>> \in Seq(Byte) /\ Len(<<>>) = 0
    OBVIOUS
  <2> QED BY <2>1, Zenon
<1>2. Cat(e, e) = e
  BY <1>1, CatEmpty
<1>3. Behind(<<>>, Len(<<>>)) = e
  <2>1. <<>> \in Seq(Messages)
    OBVIOUS
  <2> QED BY <1>1, <2>1, BehindNone
<1>4. DividedBy(e, e, e, e, "header", e, 0, e, e, "up", Least(m.length, MaxLen))
  <2>1. e = Cat(e, Cat(e, Cat(e, Cat(e, e))))
    BY <1>2, Zenon
  <2>2. Len(e) + Len(e) = 0
    BY <1>1
  <2> QED BY <1>1, <2>1, <2>2 DEF DividedBy
<1>5. Divided(e, "header", e, 0, e, e, "up", Least(m.length, MaxLen))
  BY <1>4 DEF Divided
<1>6. Flow(<<>>, <<>>, "header", <<>>, 0, <<>>, <<>>, "up", m)
  BY <1>1, <1>3, <1>5, Zenon DEF Flow
<1>7. Handed(<<>>, <<>>)
  BY DEF Handed
<1>8. Broken("header", <<>>, <<>>, "up")
  BY DEF Broken
<1>9. InMessage(<<>>, <<>>, "header", <<>>, 0, m)
  BY DEF InMessage, HeaderLen
<1> QED BY <1>6, <1>7, <1>8, <1>9 DEF HopOf

LEMMA Initially == Init => Inductive
<1> SUFFICES ASSUME Init PROVE Inductive
  OBVIOUS
<1>1. PICK reply \in {Header(0, 0, CONN), Refusal} :
        todo = [h \in Hops |-> <<IF h = "up" THEN Header(0, Typist, CONN) ELSE reply>>]
  BY DEF Init
<1>2. PICK x : x = Header(0, Typist, CONN)
  OBVIOUS
<1>3. CONN \in {DATA, CONN, DCON} /\ CONN # DATA /\ CONN # DCON /\ DCON # DATA
  BY DEF DATA, CONN, DCON
<1>4. x \in Messages /\ x.length = 0 /\ x.kind = CONN
  BY <1>2, <1>3, HeaderMade, Constants DEF Messages, WellMade
<1>5. PICK y : y = Header(0, 0, CONN) /\ y \in Messages /\ y.length = 0 /\ y.kind = CONN
  <2>1. 0 \in Nat /\ 0 <= MaxShort
    BY MaxShortInNat
  <2> QED BY <1>3, <2>1, HeaderMade DEF Messages, WellMade
<1>6. reply \in Messages /\ (reply = y \/ reply = Refusal)
  BY <1>5, RefusalIs
<1>7. "up" \in Hops /\ "down" \in Hops /\ \A h \in Hops : h = "up" \/ h = "down"
  BY DEF Hops
<1>8. /\ todo["up"] = <<x>> /\ todo["down"] = <<reply>>
      /\ \A h \in Hops : sent[h] = <<>> /\ received[h] = <<>> /\ pc[h] = "header" /\ buf[h] = <<>>
      /\ \A h \in Hops : recvd[h] = 0 /\ wire[h] = <<>> /\ out[h] = <<>> /\ link[h] = "up"
      /\ typed = <<>>
  <2>1. "up" # "down"
    OBVIOUS
  <2>2. todo["up"] = <<x>> /\ todo["down"] = <<reply>>
    BY <1>1, <1>2, <1>7, <2>1
  <2>3. \A h \in Hops : sent[h] = <<>> /\ received[h] = <<>> /\ pc[h] = "header" /\ buf[h] = <<>>
    BY DEF Init
  <2>4. \A h \in Hops : recvd[h] = 0 /\ wire[h] = <<>> /\ out[h] = <<>> /\ link[h] = "up"
    BY DEF Init
  <2> QED BY <2>2, <2>3, <2>4 DEF Init
<1>9. TypeOK
  <2>1. todo \in [Hops -> Seq(MessageType)]
    <3>1. x \in MessageType /\ reply \in MessageType
      BY <1>4, <1>6 DEF Messages
    <3>2. \A h \in Hops : <<IF h = "up" THEN Header(0, Typist, CONN) ELSE reply>> \in Seq(MessageType)
      BY <1>2, <3>1
    <3> QED BY <1>1, <3>2
  <2>2. Header(0, 0, DATA) \in MessageType
    <3>1. <<>> \in Seq(Byte)
      OBVIOUS
    <3> QED BY <3>1 DEF Header, MessageType, DATA
  <2>3. <<>> \in Seq(Byte) /\ <<>> \in Seq(MessageType) /\ <<>> \in Seq(Seq(Byte)) /\ 0 \in Nat
    OBVIOUS
  <2>4. /\ out \in [Hops -> Seq(Byte)] /\ wire \in [Hops -> Seq(Byte)] /\ buf \in [Hops -> Seq(Byte)]
        /\ sent \in [Hops -> Seq(MessageType)] /\ received \in [Hops -> Seq(MessageType)]
        /\ recvd \in [Hops -> Nat] /\ msg \in [Hops -> MessageType]
        /\ link \in [Hops -> {"up", "closed", "reset", "lost"}]
        /\ pc \in [Hops -> {"header", "payload", "done", "null", "failed"}]
    BY <2>2, <2>3 DEF Init
  <2> QED BY <1>8, <2>1, <2>3, <2>4 DEF Init, TypeOK
<1>10. Stream("up") = <<x>> /\ Stream("down") = <<reply>>
  <2>1. <<x>> \in Seq(Messages) /\ <<reply>> \in Seq(Messages)
    BY <1>4, <1>6
  <2>2. Cat(<<>>, <<x>>) = <<x>> /\ Cat(<<>>, <<reply>>) = <<reply>>
    BY <2>1, CatEmpty
  <2> QED BY <1>7, <1>8, <2>2 DEF Stream
<1>11. Relayed
  <2>1. CASE reply = Refusal
    BY <1>10, <2>1 DEF Relayed, Relays
  <2>2. CASE reply = y
    <3>1. Relays(<<y>>, "up", <<>>)
      BY <1>5 DEF Relays
    <3> QED BY <1>7, <1>8, <1>10, <2>2, <3>1 DEF Relayed
  <2> QED BY <1>6, <2>1, <2>2
<1>12. TextsAreTyped
  <2>1. Cut(x) = x /\ ShownBy(x) = <<>>
    BY <1>3, <1>4 DEF Cut, ShownBy
  <2>2. AllCut(<<x>>) = <<x>>
    BY <2>1 DEF AllCut
  <2>3. ShownOf(AllCut(<<x>>)) = <<>>
    BY <1>4, <2>1, <2>2, ShownOne
  <2>4. Tells(<<x>>, "up", <<>>)
    BY <2>3 DEF Tells, IsStartOf
  <2>5. <<>> \in Seq(Texts)
    OBVIOUS
  <2> QED BY <1>7, <1>8, <1>10, <2>4, <2>5 DEF TextsAreTyped
<1>13. \A h \in Hops : HopInv(h)
  BY <1>8, HopEmpty DEF HopInv
<1>14. \A h \in Hops : TodoInv(h)
  <2>1. Suits("up", 1, x)
    BY <1>3, <1>4 DEF Suits, Messages
  <2>2. Suits("down", 1, reply)
    BY <1>3, <1>5, <1>6, RefusalIs DEF Suits, Messages
  <2>3. Fits("up", <<x>>) /\ Fits("down", <<reply>>)
    BY <2>1, <2>2 DEF Fits
  <2> QED BY <1>7, <1>8, <1>10, <2>3 DEF TodoInv
<1> QED BY <1>9, <1>11, <1>12, <1>13, <1>14 DEF Inductive

LEMMA NothingKeeps ==
  ASSUME Inductive, UNCHANGED vars
  PROVE  Inductive'
<1>1. UNCHANGED <<input, todo, out, wire, link, pc, buf, recvd, msg, typed, sent, received>>
  BY DEF vars, senders, receivers
<1>2. TypeOK'
  BY <1>1 DEF Inductive, TypeOK
<1>3. \A g \in Hops : HopInv(g)'
  BY <1>1 DEF Inductive, HopInv
<1> QED BY <1>1, <1>2, <1>3, BytesMove DEF Inductive

LEMMA NextKeeps == Inductive /\ [Next]_vars => Inductive'
<1> SUFFICES ASSUME Inductive, [Next]_vars PROVE Inductive'
  OBVIOUS
<1>1. ASSUME NEW n \in LineLens, NEW newline \in 0..1, Type(n, newline) PROVE Inductive'
  BY <1>1, TypeKeeps
<1>2. ASSUME NEW n \in Oversize, TypeUncut(n) PROVE Inductive'
  BY <1>2, TypeUncutKeeps
<1>3. CASE Quit
  BY <1>3, QuitKeeps
<1>4. ASSUME NEW h \in Hops, Send(h) PROVE Inductive'
  BY <1>4, SendBeginKeeps, SendBytesKeeps, SendFailsKeeps DEF Send
<1>5. ASSUME NEW h \in Hops, Recv(h) PROVE Inductive'
  <2>1. CASE RecvHeader(h)
    BY <2>1, RecvHeaderKeeps
  <2>2. CASE HeaderDone(h)
    BY <2>2, HeaderDoneKeeps
  <2>3. CASE RecvPayload(h)
    BY <2>3, RecvPayloadKeeps
  <2>4. CASE Discard(h)
    BY <2>4, DiscardKeeps
  <2>5. CASE PayloadDone(h)
    BY <2>5, PayloadDoneKeeps
  <2>6. CASE RecvFails(h)
    BY <2>6, RecvFailsKeeps
  <2> QED BY <1>5, <2>1, <2>2, <2>3, <2>4, <2>5, <2>6 DEF Recv
<1>6. ASSUME NEW h \in Hops, Close(h) PROVE Inductive'
  BY <1>6, CloseKeeps
<1>7. ASSUME NEW h \in Hops, Reset(h) PROVE Inductive'
  BY <1>7, ResetKeeps
<1>8. CASE UNCHANGED vars
  BY <1>8, NothingKeeps
<1> QED BY <1>1, <1>2, <1>3, <1>4, <1>5, <1>6, <1>7, <1>8 DEF Next

-----------------------------------------------------------------------------
(* Theorems. *)

\* Every step of send_message(), recv_header() and recv_payload() on both
\* hops, of a client that types and of a connection that fails keeps the
\* invariant.
THEOREM InductiveInvariance == Spec => []Inductive
<1>1. Init => Inductive
  BY Initially
<1>2. Inductive /\ [Next]_vars => Inductive'
  BY NextKeeps
<1> QED BY <1>1, <1>2, PTL DEF Spec

\* The buffers of message_net.c hold bytes: message_marshal() and
\* message_unmarshal_header() make of numbers of 16 and 32 bits bytes and
\* from those the numbers again.
THEOREM TypeCorrectness == Spec => []TypeOK
<1>1. Inductive => TypeOK
  BY DEF Inductive
<1> QED BY <1>1, InductiveInvariance, PTL

\* recv_payload() is called for a message with a payload only, so that the
\* terminator it writes at payload[length - 1] is in the buffer.
THEOREM TerminatorTheorem == Spec => []TerminatorInBuffer
<1>1. Inductive => TerminatorInBuffer
  <2> SUFFICES ASSUME Inductive, NEW h \in Hops, pc[h] = "payload"
               PROVE  msg[h].length > 0
    BY DEF TerminatorInBuffer
  <2>1. PICK c : c = Current(sent[h], received[h])
    OBVIOUS
  <2>2. c.length > 0 /\ msg[h] = Header(c.length, c.id, c.kind)
    BY <2>1 DEF Inductive, HopInv, HopOf, InMessage
  <2>3. msg[h].length = c.length
    BY <2>2 DEF Header
  <2> QED BY <2>2, <2>3
<1> QED BY <1>1, InductiveInvariance, PTL

\* Wherever send() and recv() split the bytes, recv_header() begins at the
\* first byte of a message, behind a payload over MESG_MAX_LEN too.
THEOREM AlignedTheorem == Spec => []Aligned
<1>1. Inductive => Aligned
  <2> SUFFICES ASSUME Inductive, NEW h \in Hops, link[h] = "up"
               PROVE  wire[h] \o out[h] = Skip(Unfinished(h), Consumed(h))
    BY DEF Aligned
  <2>1. TypeOK /\ HopInv(h) /\ TodoInv(h)
    BY DEF Inductive
  <2>2. PICK s \in Seq(Messages), ms \in Seq(MessageType) : s = sent[h] /\ ms = received[h]
    BY <2>1, Streams, Values
  <2>3. PICK b \in Seq(Byte), r \in Nat, w \in Seq(Byte), o \in Seq(Byte) :
          b = buf[h] /\ r = recvd[h] /\ w = wire[h] /\ o = out[h]
    BY <2>1, Values
  <2>4. HopOf(s, ms, pc[h], b, r, w, o, "up", msg[h])
    BY <2>1, <2>2, <2>3, Zenon DEF HopInv
  <2>5. Handed(s, ms) /\ pc[h] \in {"header", "payload", "done"}
    BY <2>4 DEF HopOf, Broken
  <2>6. Divided(Behind(s, Len(ms)), pc[h], b, r, w, o, "up", Least(msg[h].length, MaxLen))
    BY <2>4, <2>5, Zenon DEF HopOf, Flow
  <2>7. Behind(s, Len(ms)) \in Seq(Byte)
    <3>1. Len(ms) \in 0..Len(s)
      BY <2>5, HandedType
    <3> QED BY <3>1, FormsType
  <2>8. Skip(Behind(s, Len(ms)), r + IF pc[h] = "payload" THEN HeaderLen ELSE 0) = Cat(w, o)
    BY <2>6, <2>7, DividedRest
  <2>9. Unfinished(h) = Behind(s, Len(ms))
    BY <2>2 DEF Unfinished, Behind
  <2> QED BY <2>3, <2>8, <2>9, Zenon DEF Consumed, Cat
<1> QED BY <1>1, InductiveInvariance, PTL

-----------------------------------------------------------------------------
(* The lines that are typed are the lines that are shown. *)

\* What the client that listens was handed comes from what was typed.
LEMMA DownIsUp ==
  ASSUME NEW d \in Seq(Messages), NEW u \in Seq(Messages), NEW l, Relays(d, l, u),
         NEW s \in Seq(Messages), Handed(s, u)
  PROVE  IsStartOf(ShownOf(AllCut(d)), ShownOf(AllCut(s)))
<1>1. /\ AllCut(d) \in Seq(Messages) /\ AllCut(s) \in Seq(Messages)
      /\ ShownOf(AllCut(d)) \in Seq(Seq(Byte)) /\ ShownOf(AllCut(s)) \in Seq(Seq(Byte))
  BY AllCutIs, PagesType
<1>2. ASSUME ShownOf(AllCut(d)) = <<>>
      PROVE  IsStartOf(ShownOf(AllCut(d)), ShownOf(AllCut(s)))
  <2>1. \A x \in Seq(Seq(Byte)) : IsStartOf(<<>>, x)
    BY DEF IsStartOf
  <2> QED BY <1>1, <1>2, <2>1, Zenon
<1>3. CASE d = <<Refusal>>
  <2>1. Cut(Refusal).kind = DCON /\ DCON # DATA
    BY RefusalIs, CutIs DEF Messages, DATA, DCON
  <2>2. ShownBy(Cut(Refusal)) = <<>>
    BY <2>1 DEF ShownBy
  <2> QED BY <1>2, <1>3, <2>2, RefusalIs, AllCutOne, Zenon
<1>4. CASE d = <<>>
  <2>1. AllCut(<<>>) = <<>>
    BY DEF AllCut
  <2> QED BY <1>2, <1>4, <2>1, ShownNone, Zenon
<1>5. CASE /\ Len(d) >= 1 /\ d[1] = Header(0, 0, CONN) /\ Len(d) <= Len(u) + 1
           /\ \A k \in 1..(Len(d) - 1) : d[k + 1] = u[k]
  <2>1. PICK first \in Seq(Messages), rest \in Seq(Messages) :
          /\ first = SubSeq(d, 1, 1) /\ Len(first) = 1
          /\ Len(rest) = Len(d) - 1 /\ d = Cat(first, rest)
    <3>1. 1 \in 0..Len(d)
      BY <1>5
    <3>2. /\ SubSeq(d, 1, 1) \in Seq(Messages) /\ Len(SubSeq(d, 1, 1)) = 1
          /\ Skip(d, 1) \in Seq(Messages) /\ Len(Skip(d, 1)) = Len(d) - 1
          /\ d = Cat(SubSeq(d, 1, 1), Skip(d, 1))
      BY <3>1, CatSplits
    <3> QED BY <3>2, Zenon
  <2>2. IsCat(d, first, rest)
    BY <2>1, CatMade, Zenon
  <2>3. first = <<Header(0, 0, CONN)>>
    <3>1. first[1] = d[1]
      BY <2>1, <2>2 DEF IsCat
    <3>2. \A k \in 1..Len(first) : first[k] = <<Header(0, 0, CONN)>>[k]
      BY <1>5, <2>1, <3>1
    <3>3. Header(0, 0, CONN) = d[1] /\ d[1] \in Messages
      BY <1>5
    <3>4. <<Header(0, 0, CONN)>> \in Seq(Messages) /\ Len(<<Header(0, 0, CONN)>>) = 1
      BY <3>3
    <3> QED BY <2>1, <3>2, <3>4, SeqEqual
  <2>4. IsStartOf(rest, u)
    <3>1. PICK n \in Nat, m \in Nat : n = Len(rest) /\ m = Len(u) /\ n <= m /\ n = Len(d) - 1
      BY <1>5, <2>1
    <3>2. \A k \in 1..n : 1 + k = k + 1
      OBVIOUS
    <3>3. \A k \in 1..n : rest[k] = d[1 + k]
      BY <2>1, <2>2, <3>1, Zenon DEF IsCat
    <3>4. \A k \in 1..n : d[k + 1] = u[k]
      BY <1>5, <3>1, Zenon
    <3>5. \A k \in 1..n : rest[k] = u[k]
      BY <3>2, <3>3, <3>4, Zenon
    <3> QED BY <3>1, <3>5 DEF IsStartOf
  <2>5. PICK a \in Seq(Messages), b \in Seq(Messages), c \in Seq(Messages) :
          a = AllCut(rest) /\ b = AllCut(u) /\ c = AllCut(s)
    BY AllCutIs
  <2>6. b = u
    <3>1. \A k \in 1..Len(u) : b[k] = u[k]
      <4> SUFFICES ASSUME NEW k \in 1..Len(u) PROVE b[k] = u[k]
        OBVIOUS
      <4>1. k \in 1..Len(s) /\ u[k] = Cut(s[k])
        BY DEF Handed
      <4>2. s[k] \in Messages /\ WellMade(s[k])
        BY <4>1 DEF Messages
      <4>3. b[k] = Cut(u[k])
        BY <2>5, AllCutIs
      <4> QED BY <4>1, <4>2, <4>3, CutIs, Zenon
    <3>2. Len(b) = Len(u)
      BY <2>5, AllCutIs
    <3> QED BY <3>1, <3>2, SeqEqual
  <2>7. IsStartOf(a, b) /\ IsStartOf(b, c)
    <3>1. u \in Seq(MessageType) /\ s \in Seq(Messages)
      <4>1. \A x \in Messages : x \in MessageType
        BY DEF Messages
      <4>2. PICK n \in Nat : n = Len(u) /\ u \in [1..n -> Messages]
        OBVIOUS
      <4>3. u \in [1..n -> MessageType]
        BY <4>1, <4>2
      <4> QED BY <4>3
    <3>2. IsStartOf(u, c)
      BY <2>5, <3>1, HandedType
    <3> QED BY <2>4, <2>5, <2>6, <3>2, AllCutStart
  <2>8. IsStartOf(a, c)
    BY <2>7, StartOfMore
  <2>9. IsStartOf(ShownOf(a), ShownOf(c))
    BY <2>8, ShownStart
  <2>10. ShownOf(AllCut(d)) = ShownOf(a)
    <3>1. PICK y \in Messages : y = Header(0, 0, CONN) /\ first = <<y>>
      <4>1. d[1] \in Messages
        BY <1>5
      <4> QED BY <1>5, <2>3, <4>1
    <3>2. Cut(y) = y /\ y.kind # DATA
      BY <3>1 DEF Header, Cut, CONN, DATA
    <3>3. ShownBy(Cut(y)) = <<>>
      BY <3>2 DEF ShownBy
    <3>4. ShownOf(AllCut(first)) = <<>>
      BY <3>1, <3>3, AllCutOne, Zenon
    <3>5. ShownOf(AllCut(d)) = Cat(<<>>, ShownOf(a))
      <4>1. ShownOf(AllCut(Cat(first, rest))) = Cat(ShownOf(AllCut(first)), ShownOf(AllCut(rest)))
        BY AllCutShown
      <4> QED BY <2>1, <2>5, <3>4, <4>1, Zenon
    <3>6. ShownOf(a) \in Seq(Seq(Byte))
      BY PagesType
    <3> QED BY <3>5, <3>6, CatEmpty, Zenon
  <2> QED BY <2>5, <2>9, <2>10, Zenon
<1> QED BY <1>3, <1>4, <1>5 DEF Relays

\* What was shown is a start of what was typed.
ShownStarts ==
  /\ received["down"] \in Seq(Messages) /\ received \in [Hops -> Seq(MessageType)]
  /\ ShownOf(received["down"]) \in Seq(Seq(Byte)) /\ typed \in Seq(Seq(Byte))
  /\ IsStartOf(ShownOf(received["down"]), typed)

LEMMA ShownIsTyped == Inductive => ShownStarts
<1> SUFFICES ASSUME Inductive PROVE ShownStarts
  OBVIOUS
<1>1. /\ TypeOK /\ HopInv("up") /\ HopInv("down") /\ TodoInv("up") /\ TodoInv("down")
      /\ "up" \in Hops /\ "down" \in Hops
  BY DEF Inductive, Hops
<1>2. PICK s \in Seq(Messages), st \in Seq(Messages), ms \in Seq(MessageType) :
        /\ s = sent["up"] /\ st = Stream("up") /\ ms = received["up"] /\ IsStartOf(s, st)
  BY <1>1, Streams, Values
<1>3. PICK d \in Seq(Messages), dt \in Seq(Messages), ns \in Seq(MessageType) :
        /\ d = sent["down"] /\ dt = Stream("down") /\ ns = received["down"] /\ IsStartOf(d, dt)
  BY <1>1, Streams, Values
<1>4. Handed(s, ms) /\ Handed(d, ns)
  BY <1>1, <1>2, <1>3 DEF HopInv, HopOf
<1>5. ms \in Seq(Messages) /\ ns \in Seq(Messages) /\ IsStartOf(ns, AllCut(d))
  BY <1>4, HandedType
<1>6. PICK f \in Seq(Messages), g \in Seq(Messages), ft \in Seq(Messages), gt \in Seq(Messages) :
        f = AllCut(s) /\ g = AllCut(d) /\ ft = AllCut(st) /\ gt = AllCut(dt)
  BY AllCutIs, Zenon
<1>7. IsStartOf(f, ft) /\ IsStartOf(g, gt) /\ IsStartOf(ns, g)
  BY <1>2, <1>3, <1>5, <1>6, AllCutStart
<1>8. PICK a \in Seq(Seq(Byte)), b \in Seq(Seq(Byte)), c \in Seq(Seq(Byte)), e \in Seq(Seq(Byte)),
          t \in Seq(Seq(Byte)) :
        a = ShownOf(ns) /\ b = ShownOf(gt) /\ c = ShownOf(f) /\ e = ShownOf(ft) /\ t = typed
  <2>1. typed \in Seq(Seq(Byte))
    BY <1>1 DEF TypeOK
  <2> QED BY <1>5, <2>1, PagesType, Zenon
<1>9. IsStartOf(a, b)
  <2>1. IsStartOf(ns, gt)
    BY <1>5, <1>7, StartOfMore
  <2> QED BY <1>5, <1>8, <2>1, ShownStart
<1>10. IsStartOf(b, c)
  <2>1. Relays(dt, link["down"], ms)
    BY <1>2, <1>3 DEF Inductive, Relayed
  <2>2. IsStartOf(ShownOf(AllCut(dt)), ShownOf(AllCut(s)))
    BY <1>4, <1>5, <2>1, DownIsUp
  <2> QED BY <1>6, <1>8, <2>2, Zenon
<1>11. IsStartOf(c, e)
  BY <1>7, <1>8, ShownStart
<1>12. IsStartOf(e, t)
  BY <1>2, <1>6, <1>8 DEF Inductive, TextsAreTyped, Tells
<1>13. IsStartOf(a, c) /\ IsStartOf(c, t)
  BY <1>9, <1>10, <1>11, <1>12, StartOfMore
<1>14. IsStartOf(a, t)
  BY <1>13, StartOfMore
<1>15. received \in [Hops -> Seq(MessageType)]
  BY <1>1 DEF TypeOK
<1> QED BY <1>3, <1>5, <1>8, <1>14, <1>15 DEF ShownStarts

LEMMA MapsInit == Init => Abstract!Init
<1> SUFFICES ASSUME Init PROVE Abstract!Init
  OBVIOUS
<1>1. "down" \in Hops
  BY DEF Hops
<1>2. received["down"] = <<>> /\ typed = <<>>
  BY <1>1 DEF Init
<1> QED BY <1>2, ShownNone, Zenon DEF Abstract!Init

\* A message handed to the client shows the next text, or nothing.
LEMMA HandShows ==
  ASSUME ShownStarts, ShownStarts', NEW h \in Hops, NEW m,
         received' = [received EXCEPT ![h] = Append(received[h], m)], UNCHANGED typed
  PROVE  [Abstract!Next]_(Abstract!vars)
<1>1. received \in [Hops -> Seq(MessageType)] /\ "down" \in Hops
  BY DEF ShownStarts, Hops
<1>2. CASE h # "down"
  <2>1. received'["down"] = received["down"]
    BY <1>1, <1>2
  <2>2. UNCHANGED Abstract!vars
    BY <2>1, Zenon DEF Abstract!vars
  <2> QED BY <2>2
<1>3. CASE h = "down"
  <2>1. PICK r \in Seq(Messages), n \in Seq(Messages) :
          /\ r = received["down"] /\ n = received'["down"]
          /\ ShownOf(r) \in Seq(Seq(Byte)) /\ ShownOf(n) \in Seq(Seq(Byte))
          /\ IsStartOf(ShownOf(n), typed)
    <3>1. typed' = typed
      OBVIOUS
    <3> QED BY <3>1, Zenon DEF ShownStarts
  <2>2. n = Append(r, m)
    BY <1>1, <1>3, <2>1
  <2>3. m \in Messages
    <3>1. PICK i \in Nat : i = Len(r)
      OBVIOUS
    <3>2. Len(n) = i + 1 /\ n[i + 1] = m
      BY <2>2, <3>1
    <3> QED BY <3>2
  <2>4. ShownOf(n) = Cat(ShownOf(r), ShownBy(m))
    <3>1. <<m>> \in Seq(Messages)
      BY <2>3
    <3>2. n = Cat(r, <<m>>)
      BY <2>2, <2>3, AppendIsCat
    <3>3. ShownOf(Cat(r, <<m>>)) = Cat(ShownOf(r), ShownOf(<<m>>))
      BY <3>1, ShownConcat
    <3> QED BY <2>3, <3>2, <3>3, ShownOne, Zenon
  <2>5. CASE m.kind # DATA
    <3>1. ShownBy(m) = <<>>
      BY <2>5 DEF ShownBy
    <3>2. ShownOf(n) = ShownOf(r)
      BY <2>1, <2>4, <3>1, CatEmpty, Zenon
    <3>3. UNCHANGED Abstract!vars
      BY <2>1, <3>2, Zenon DEF Abstract!vars
    <3> QED BY <3>3
  <2>6. CASE m.kind = DATA
    <3>1. PICK x \in Seq(Byte), a \in Seq(Seq(Byte)), t \in Seq(Seq(Byte)) :
            ShownBy(m) = <<x>> /\ a = ShownOf(r) /\ t = typed
      <4>1. ShownBy(m) = <<TextOf(m)>> /\ ShownBy(m) \in Seq(Seq(Byte))
        BY <2>3, <2>6, ShownByType DEF ShownBy
      <4>2. TextOf(m) \in Seq(Byte)
        BY <4>1
      <4>3. typed \in Seq(Seq(Byte))
        BY DEF ShownStarts
      <4> QED BY <2>1, <4>1, <4>2, <4>3, Zenon
    <3>2. ShownOf(n) = Append(a, x) /\ IsStartOf(Append(a, x), t)
      BY <2>1, <2>4, <3>1, AppendIsCat, Zenon
    <3>3. Len(Append(a, x)) = Len(a) + 1 /\ Append(a, x)[Len(a) + 1] = x /\ Len(a) \in Nat
      OBVIOUS
    <3>4. Len(a) < Len(t) /\ x = t[Len(a) + 1]
      <4>1. PICK i \in Nat, j \in Nat : i = Len(a) /\ j = Len(t)
        OBVIOUS
      <4>2. PICK e : /\ e = Append(a, x) /\ Len(e) = i + 1 /\ e[i + 1] = x
                     /\ IsStartOf(e, t)
        BY <3>2, <3>3, <4>1, Zenon
      <4>3. i + 1 <= j /\ \A k \in 1..(i + 1) : e[k] = t[k]
        BY <4>1, <4>2 DEF IsStartOf
      <4>4. i + 1 \in 1..(i + 1) /\ i < j
        BY <4>3
      <4> QED BY <4>1, <4>2, <4>3, <4>4, Zenon
    <3>5. Abstract!Show
      BY <2>1, <3>1, <3>2, <3>4, Zenon DEF Abstract!Show
    <3> QED BY <3>5 DEF Abstract!Next
  <2> QED BY <2>5, <2>6
<1> QED BY <1>2, <1>3

LEMMA MapsNext == ShownStarts /\ ShownStarts' /\ [Next]_vars => [Abstract!Next]_(Abstract!vars)
<1> SUFFICES ASSUME ShownStarts, ShownStarts', [Next]_vars
             PROVE  [Abstract!Next]_(Abstract!vars)
  OBVIOUS
<1>1. ASSUME UNCHANGED <<typed, received>>
      PROVE  [Abstract!Next]_(Abstract!vars)
  BY <1>1, Zenon DEF Abstract!vars
<1>2. ASSUME NEW t \in Texts, typed' = Append(typed, t), UNCHANGED received
      PROVE  [Abstract!Next]_(Abstract!vars)
  BY <1>2, Zenon DEF Abstract!Next, Abstract!Type, Texts
<1>3. ASSUME NEW n \in LineLens, NEW newline \in 0..1, Type(n, newline)
      PROVE  [Abstract!Next]_(Abstract!vars)
  <2>1. PICK l \in Nat : l = n + newline /\ l > 0
    BY <1>3, FramingAssumption DEF Type
  <2>2. Shown(n, newline) \in Texts
    BY <2>1, TextsAre, Zenon DEF Shown
  <2>3. typed' = Append(typed, Shown(n, newline)) /\ received' = received
    BY <1>3 DEF Type
  <2> QED BY <1>2, <2>2, <2>3, Zenon
<1>4. ASSUME NEW n \in Oversize, TypeUncut(n)
      PROVE  [Abstract!Next]_(Abstract!vars)
  <2>1. n \in Nat /\ n > 0
    BY FramingAssumption, MaxIntInNat
  <2>2. Text(Least(n, MaxLen) - 1) \in Texts
    BY <2>1, TextsAre
  <2>3. typed' = Append(typed, Text(Least(n, MaxLen) - 1)) /\ received' = received
    BY <1>4 DEF TypeUncut
  <2> QED BY <1>2, <2>2, <2>3, Zenon
<1>5. ASSUME NEW h \in Hops, HeaderDone(h)
      PROVE  [Abstract!Next]_(Abstract!vars)
  <2>1. typed' = typed
    BY <1>5 DEF HeaderDone
  <2>2. PICK m : m = Unmarshal(buf[h])
    OBVIOUS
  <2>3. \/ received' = received
        \/ received' = [received EXCEPT ![h] = Append(received[h], m)]
    BY <1>5, <2>2, Zenon DEF HeaderDone, Hand
  <2> QED BY <1>1, <2>1, <2>3, HandShows, Zenon
<1>6. ASSUME NEW h \in Hops, PayloadDone(h)
      PROVE  [Abstract!Next]_(Abstract!vars)
  <2>1. typed' = typed
    BY <1>6 DEF PayloadDone
  <2>2. PICK m : m = Message(Kept(h), msg[h].id, msg[h].kind, buf[h])
    OBVIOUS
  <2>3. received' = [received EXCEPT ![h] = Append(received[h], m)]
    BY <1>6, <2>2, Zenon DEF PayloadDone, Hand
  <2> QED BY <2>1, <2>3, HandShows, Zenon
<1>7. CASE Quit
  BY <1>1, <1>7 DEF Quit
<1>8. ASSUME NEW h \in Hops, Send(h)
      PROVE  [Abstract!Next]_(Abstract!vars)
  BY <1>1, <1>8 DEF Send, SendBegin, SendBytes, SendFails
<1>9. ASSUME NEW h \in Hops, RecvHeader(h) \/ RecvPayload(h) \/ Discard(h) \/ RecvFails(h)
      PROVE  [Abstract!Next]_(Abstract!vars)
  BY <1>1, <1>9 DEF RecvHeader, RecvPayload, Discard, RecvFails
<1>10. ASSUME NEW h \in Hops, Close(h) \/ Reset(h)
       PROVE  [Abstract!Next]_(Abstract!vars)
  BY <1>1, <1>10 DEF Close, Reset
<1>11. CASE UNCHANGED vars
  BY <1>1, <1>11 DEF vars
<1> QED BY <1>3, <1>4, <1>5, <1>6, <1>7, <1>8, <1>9, <1>10, <1>11 DEF Next, Recv

\* The two hops implement a channel of lines: what send_message() and the
\* loops of message_net.c carry from the client that types to the server and
\* on to the client that listens is shown there in order, each line as a whole
\* and once, also when programs end or connections are reset in a message.
THEOREM Refinement == Spec => ImplementsChannel
<1>1. Init => Abstract!Init
  BY MapsInit
<1>2. ShownStarts /\ ShownStarts' /\ [Next]_vars => [Abstract!Next]_(Abstract!vars)
  BY MapsNext
<1>3. Inductive => ShownStarts
  BY ShownIsTyped
<1> QED BY <1>1, <1>2, <1>3, InductiveInvariance, PTL DEF Spec, ImplementsChannel, Abstract!Spec

=============================================================================
