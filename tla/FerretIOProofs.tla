---------------------------- MODULE FerretIOProofs ----------------------------
(***************************************************************************)
(* Proofs about FerretIO: for every program, every cut of an operation     *)
(* into batches and every buffer size, each message on the link is the one *)
(* that the step at its other end takes it for, and the bytes of a stream  *)
(* arrive in order and completely.                                         *)
(*                                                                         *)
(* No message says what it is, so the argument is one of order.  What an   *)
(* operation sends to a rank, and where the buffer of the sender cuts it,  *)
(* is fixed by the operation.  The messages have an order, the ranks pass  *)
(* through them in that order, and the link holds exactly those that its   *)
(* one end is past and its other end is not.                               *)
(***************************************************************************)
EXTENDS FerretIO, SequenceTheorems, TLAPS

-----------------------------------------------------------------------------
(* The messages of an operation.                                           *)

Total(q) == End(q, Len(q.ends))

\* Where the sender's buffer cuts the bytes of q.
Starts(q) == {o \in 0 .. Total(q) - 1 : \E c \in 0 .. Total(q) : o = c * BufferSize}

\* The end of the piece that starts at o.
Stop(q, o) == IF o + BufferSize <= Total(q) THEN o + BufferSize ELSE Total(q)

Piece(k, q, o) == Data(k, Bytes(k, o, Stop(q, o) - o))

\* What operation q sends to r, as the k-th of a program,
OpsMessages(q, k, r) ==
  {m \in {Extension(k)} : q.extends}
    \cup {m \in {Flips(k)} : q.flips /\ q.sender = r}
    \cup {m \in {Piece(k, q, o) : o \in Starts(q)} : q.sender # r}

\* and what the k-th operation of this one does.
OpMessages(k, r) == OpsMessages(program[k], k, r)

Messages(r) == UNION {OpMessages(k, r) : k \in 1 .. Len(program)}

\* The place of a message in its operation.
Place(m) ==
  IF m.kind = "extension" THEN 0
  ELSE IF m.kind = "flips" THEN 1
  ELSE m.bytes[1][2] + 1

Before(m, n) == m.op < n.op \/ (m.op = n.op /\ Place(m) < Place(n))

\* A rank that has done d operations and is at place p of the next is past m.
Past(m, d, p) == m.op <= d \/ (m.op = d + 1 /\ Place(m) < p)

\* How far r has got in its operation with sending, and with receiving.
Sent(r) ==
  IF pc[r] \in {"idle", "extend"} THEN 0
  ELSE IF pc[r] \in {"extended", "choose"} THEN 1
  ELSE IF Sends(r) THEN 2 + (offset[r] - Len(wbuf[r]))
  ELSE 2

Got(r) ==
  IF pc[r] \in {"idle", "extend", "extended"} THEN 0
  ELSE IF pc[r] = "choose" THEN 1
  ELSE IF Sends(r) THEN 2
  ELSE 2 + (offset[r] + Len(rbuf[r]))

\* The messages to r that its peer is past, and those that r is past.
SentTo(r) == {m \in Messages(r) : Past(m, done[Peer(r)], Sent(Peer(r)))}
GotBy(r) == {m \in Messages(r) : Past(m, done[r], Got(r))}

\* Queue n holds the messages of set W, in their order.
Holds(n, W) ==
  /\ \A i \in 1 .. Len(n) : n[i] \in W
  /\ \A i, j \in 1 .. Len(n) : i < j => Before(n[i], n[j])
  /\ \A m \in W : \E i \in 1 .. Len(n) : n[i] = m

-----------------------------------------------------------------------------
(* The inductive invariant.                                                *)

Byte == Nat \X Nat
Message == [kind : {"extension", "flips", "data"}, op : Nat, bytes : Seq(Byte)]

TypeInv ==
  /\ program \in Seq(Operation)
  /\ done \in [Rank -> 0 .. MaxOps]
  /\ pc \in [Rank -> {"idle", "extend", "extended", "choose", "stream"}]
  /\ batch \in [Rank -> Nat] /\ offset \in [Rank -> Nat]
  /\ wbuf \in [Rank -> Seq(Byte)] /\ rbuf \in [Rank -> Seq(Byte)]
  /\ net \in [Rank -> Seq(Message)]

\* A number of bytes where a piece of q ends.
AtCut(q, n) == n = Total(q) \/ n \in Starts(q)

StreamAt(r) ==
  /\ batch[r] <= Len(Current(r).ends)
  /\ offset[r] <= End(Current(r), batch[r])
  /\ Sends(r) => /\ rbuf[r] = <<>> /\ Len(wbuf[r]) < BufferSize
                 /\ Len(wbuf[r]) <= offset[r]
                 /\ wbuf[r] = Bytes(done[r] + 1, offset[r] - Len(wbuf[r]), Len(wbuf[r]))
                 /\ AtCut(Current(r), offset[r] - Len(wbuf[r]))
  /\ ~Sends(r) => /\ wbuf[r] = <<>> /\ Len(rbuf[r]) <= BufferSize
                  /\ rbuf[r] = Bytes(done[r] + 1, offset[r], Len(rbuf[r]))
                  /\ AtCut(Current(r), offset[r] + Len(rbuf[r]))

PhaseAt(r) ==
  /\ done[r] <= Len(program)
  /\ pc[r] # "idle" => done[r] < Len(program) /\ done[r] < MaxOps
  /\ pc[r] \in {"extend", "extended"} => Current(r).extends
  /\ pc[r] \notin {"idle", "stream"} => batch[r] = 0 /\ offset[r] = 0
  /\ pc[r] # "stream" => wbuf[r] = <<>> /\ rbuf[r] = <<>>
  /\ pc[r] = "stream" => StreamAt(r)

LinkAt(r) == GotBy(r) \subseteq SentTo(r) /\ Holds(net[r], SentTo(r) \ GotBy(r))

IInv == TypeInv /\ \A r \in Rank : PhaseAt(r) /\ LinkAt(r)

-----------------------------------------------------------------------------
(* Where an operation's bytes are cut.                                     *)

LEMMA ConstantFacts ==
  /\ BufferSize \in Nat \ {0} /\ MaxOps \in Nat
  /\ \A e \in Batches \cup {<<>>} :
       /\ e \in Seq(Nat \ {0})
       /\ \A i, j \in 1 .. Len(e) : i < j => e[i] < e[j]
<1>1. Len(<<>>) = 0 /\ <<>> \in Seq(Nat \ {0})
  OBVIOUS
<1>2. \A e \in Batches : /\ e \in Seq(Nat \ {0})
                         /\ \A i, j \in 1 .. Len(e) : i < j => e[i] < e[j]
  BY StreamAssumption DEF StreamAssumption
<1>3. \A i, j \in 1 .. Len(<<>>) : FALSE
  BY <1>1
<1> QED
  BY <1>1, <1>2, <1>3, StreamAssumption DEF StreamAssumption

LEMMA OperationFacts ==
  ASSUME NEW q \in Operation
  PROVE  /\ q.sender \in Rank /\ q.extends \in BOOLEAN /\ q.flips \in BOOLEAN
         /\ q.ends \in Seq(Nat \ {0}) /\ Len(q.ends) \in Nat
         /\ \A b \in 0 .. Len(q.ends) : End(q, b) \in Nat
         /\ \A b, d \in 0 .. Len(q.ends) : b <= d => End(q, b) <= End(q, d)
         /\ Total(q) \in Nat
<1>1. /\ q.sender \in Rank /\ q.extends \in BOOLEAN /\ q.flips \in BOOLEAN
      /\ q.ends \in Batches \cup {<<>>}
  BY DEF Operation
<1>2. /\ q.ends \in Seq(Nat \ {0}) /\ Len(q.ends) \in Nat
      /\ \A i, j \in 1 .. Len(q.ends) : i < j => q.ends[i] < q.ends[j]
  BY <1>1, ConstantFacts, LenProperties
<1>3. \A b \in 1 .. Len(q.ends) : q.ends[b] \in Nat
  BY <1>2, ElementOfSeq
<1>4. \A b \in 0 .. Len(q.ends) : End(q, b) \in Nat
  <2> TAKE b \in 0 .. Len(q.ends)
  <2>1. b = 0 \/ b \in 1 .. Len(q.ends)
    BY <1>2
  <2> QED
    BY <1>3, <2>1 DEF End
<1>5. \A b, d \in 0 .. Len(q.ends) : b <= d => End(q, b) <= End(q, d)
  <2> SUFFICES ASSUME NEW b \in 0 .. Len(q.ends), NEW d \in 0 .. Len(q.ends), b <= d
               PROVE  End(q, b) <= End(q, d)
    OBVIOUS
  <2>1. End(q, b) \in Nat /\ End(q, d) \in Nat
    BY <1>4
  <2>2. CASE b = 0
    BY <2>1, <2>2 DEF End
  <2>3. CASE b = d
    BY <2>1, <2>3
  <2>4. CASE b # 0 /\ b # d
    <3>1. b \in 1 .. Len(q.ends) /\ d \in 1 .. Len(q.ends) /\ b < d /\ d # 0
      BY <1>2, <2>4
    <3>2. q.ends[b] < q.ends[d]
      BY <1>2, <3>1
    <3> QED
      BY <2>1, <2>4, <3>1, <3>2 DEF End
  <2> QED
    BY <2>2, <2>3, <2>4
<1>6. Len(q.ends) \in 0 .. Len(q.ends)
  BY <1>2
<1> QED
  BY <1>1, <1>2, <1>4, <1>5, <1>6 DEF Total

LEMMA Cancel ==
  ASSUME NEW a \in Nat, NEW b \in Nat, NEW c \in Nat \ {0}, a * c < b * c
  PROVE  a + 1 <= b
OBVIOUS

LEMMA Grow ==
  ASSUME NEW a \in Nat, NEW b \in Nat, NEW c \in Nat, a <= b
  PROVE  a * c <= b * c
OBVIOUS

\* Of two pieces, the one that starts first stops where the other one starts,
\* or before; the next one starts where a piece stops.
LEMMA StartFacts ==
  ASSUME NEW q \in Operation, NEW o \in Starts(q)
  PROVE  /\ o \in Nat /\ o < Total(q) /\ Total(q) \in Nat
         /\ Stop(q, o) \in Nat /\ o < Stop(q, o) /\ Stop(q, o) <= Total(q)
         /\ Stop(q, o) <= o + BufferSize
         /\ AtCut(q, Stop(q, o))
         /\ \A p \in Starts(q) : o < p => Stop(q, o) <= p
<1> DEFINE t == Total(q)
<1>0. t \in Nat /\ BufferSize \in Nat \ {0}
  BY OperationFacts, ConstantFacts
<1>1. \A p \in Starts(q) : /\ p \in Nat /\ p < t
                           /\ \E c \in 0 .. t : p = c * BufferSize
  BY <1>0 DEF Starts
<1>2. PICK c \in 0 .. t : o = c * BufferSize
  BY <1>1
<1>3. /\ Stop(q, o) \in Nat /\ o < Stop(q, o) /\ Stop(q, o) <= t
      /\ Stop(q, o) <= o + BufferSize
  BY <1>0, <1>1 DEF Stop
<1>4. (c + 1) * BufferSize = o + BufferSize /\ c + 1 \in Nat /\ c \in Nat
  BY <1>0, <1>2
<1>5. ASSUME NEW p \in Starts(q), o < p
      PROVE  Stop(q, o) <= p
  <2>1. PICK d \in 0 .. t : p = d * BufferSize
    BY <1>1
  <2>2. d \in Nat /\ c + 1 <= d
    BY <1>0, <1>2, <1>4, <1>5, <2>1, Cancel
  <2>3. (c + 1) * BufferSize <= d * BufferSize
    BY <1>0, <1>4, <2>2, Grow
  <2>4. o + BufferSize <= p
    BY <1>4, <2>1, <2>3
  <2>5. p \in Nat /\ o \in Nat
    BY <1>1
  <2> QED
    BY <1>0, <1>3, <2>4, <2>5
<1>6. AtCut(q, Stop(q, o))
  <2>1. CASE o + BufferSize < t
    <3>1. Stop(q, o) = o + BufferSize /\ o + BufferSize \in 0 .. t - 1
      BY <1>0, <1>1, <2>1 DEF Stop
    <3>2. c + 1 <= (c + 1) * BufferSize
      <4>1. (c + 1) * 1 = c + 1 /\ 1 <= BufferSize
        BY <1>0, <1>4
      <4>2. \A x \in Nat : \A y \in Nat \ {0} : x <= x * y
        OBVIOUS
      <4> QED
        BY <1>0, <1>4, <4>2
    <3>3. c + 1 \in 0 .. t
      BY <1>0, <1>4, <2>1, <3>1, <3>2
    <3> QED
      BY <1>4, <3>1, <3>3 DEF AtCut, Starts
  <2>2. CASE ~(o + BufferSize < t)
    <3>1. Stop(q, o) = t
      BY <1>0, <1>1, <2>2 DEF Stop
    <3> QED
      BY <3>1 DEF AtCut
  <2> QED
    BY <2>1, <2>2
<1> HIDE DEF t
<1> QED
  BY <1>0, <1>1, <1>3, <1>5, <1>6 DEF t

-----------------------------------------------------------------------------
(* Bytes.                                                                  *)

LEMMA BytesFacts ==
  ASSUME NEW k \in Nat, NEW o \in Nat, NEW n \in Nat
  PROVE  /\ Bytes(k, o, n) \in Seq(Byte) /\ Len(Bytes(k, o, n)) = n
         /\ \A i \in 1 .. n : Bytes(k, o, n)[i] = <<k, o + i>>
         /\ Bytes(k, o, n) = <<>> <=> n = 0
<1>1. \A i \in 1 .. n : <<k, o + i>> \in Byte
  BY DEF Byte
<1>2. /\ [i \in 1 .. n |-> <<k, o + i>>] \in Seq(Byte)
      /\ Len([i \in 1 .. n |-> <<k, o + i>>]) = n
  BY <1>1
<1>3. \A i \in 1 .. n : Bytes(k, o, n)[i] = <<k, o + i>>
  BY DEF Bytes
<1>4. Bytes(k, o, n) \in Seq(Byte) /\ Len(Bytes(k, o, n)) = n
  BY <1>2 DEF Bytes
<1>5. \A s \in Seq(Byte) : s = <<>> <=> Len(s) = 0
  BY EmptySeq
<1> QED
  BY <1>3, <1>4, <1>5

\* The same, as one fact about a sequence.
AreBytes(s, k, o, n) ==
  /\ s \in Seq(Byte) /\ Len(s) = n
  /\ \A i \in 1 .. n : s[i] = <<k, o + i>>

LEMMA BytesAre ==
  ASSUME NEW k \in Nat, NEW o \in Nat, NEW n \in Nat
  PROVE  AreBytes(Bytes(k, o, n), k, o, n)
<1>1. /\ Bytes(k, o, n) \in Seq(Byte) /\ Len(Bytes(k, o, n)) = n
      /\ \A i \in 1 .. n : Bytes(k, o, n)[i] = <<k, o + i>>
  BY BytesFacts
<1> QED
  BY <1>1 DEF AreBytes

Joined(s, t) == s \o t

LEMMA BytesJoin ==
  ASSUME NEW op \in Nat, NEW from \in Nat, NEW len \in Nat, NEW more \in Nat
  PROVE  Joined(Bytes(op, from, len), Bytes(op, from + len, more)) = Bytes(op, from, len + more)
<1> DEFINE s == Bytes(op, from, len)
           t == Bytes(op, from + len, more)
           u == Bytes(op, from, len + more)
<1>1. /\ s \in Seq(Byte) /\ Len(s) = len /\ \A i \in 1 .. len : s[i] = <<op, from + i>>
  BY BytesFacts
<1>2. from + len \in Nat /\ len + more \in Nat
  OBVIOUS
<1>3. /\ t \in Seq(Byte) /\ Len(t) = more /\ \A i \in 1 .. more : t[i] = <<op, from + len + i>>
  <2>1. AreBytes(t, op, from + len, more)
    BY <1>2, BytesAre
  <2> QED
    BY <2>1 DEF AreBytes
<1>4. /\ u \in Seq(Byte) /\ Len(u) = len + more /\ \A i \in 1 .. len + more : u[i] = <<op, from + i>>
  <2>1. AreBytes(u, op, from, len + more)
    BY <1>2, BytesAre
  <2> QED
    BY <2>1 DEF AreBytes
<1> HIDE DEF s, t, u
<1>5. /\ s \o t \in Seq(Byte) /\ Len(s \o t) = len + more
      /\ \A i \in 1 .. len + more : (s \o t)[i] = IF i <= len THEN s[i] ELSE t[i - len]
  BY <1>1, <1>3, ConcatProperties
<1>6. \A i \in 1 .. len + more : (s \o t)[i] = u[i]
  <2> TAKE i \in 1 .. len + more
  <2>1. CASE i <= len
    <3>1. i \in 1 .. len
      BY <2>1
    <3> QED
      BY <1>1, <1>4, <1>5, <2>1, <3>1
  <2>2. CASE ~(i <= len)
    <3>1. i - len \in 1 .. more /\ from + len + (i - len) = from + i
      BY <2>2
    <3> QED
      BY <1>3, <1>4, <1>5, <2>2, <3>1
  <2> QED
    BY <2>1, <2>2
<1>7. s \o t = u
  BY <1>4, <1>5, <1>6, SeqEqual
<1> QED
  BY <1>7 DEF s, t, u, Joined

Dropped(s, n) == SubSeq(s, n + 1, Len(s))

LEMMA BytesRest ==
  ASSUME NEW op \in Nat, NEW from \in Nat, NEW len \in Nat, NEW less \in Nat, less <= len
  PROVE  Dropped(Bytes(op, from, len), less) = Bytes(op, from + less, len - less)
<1> DEFINE s == Bytes(op, from, len)
           t == Bytes(op, from + less, len - less)
           u == SubSeq(s, less + 1, len)
<1>1. /\ s \in Seq(Byte) /\ Len(s) = len /\ \A i \in 1 .. len : s[i] = <<op, from + i>>
  BY BytesFacts
<1>2. from + less \in Nat /\ len - less \in Nat
  OBVIOUS
<1>3. /\ t \in Seq(Byte) /\ Len(t) = len - less /\ \A i \in 1 .. len - less : t[i] = <<op, from + less + i>>
  <2>1. AreBytes(t, op, from + less, len - less)
    BY <1>2, BytesAre
  <2> QED
    BY <2>1 DEF AreBytes
<1> HIDE DEF s, t
<1>4. \A i \in (less + 1) .. len : s[i] \in Byte
  <2>1. \A i \in (less + 1) .. len : i \in 1 .. Len(s)
    BY <1>1
  <2> QED
    BY <1>1, <2>1, ElementOfSeq
<1>5. /\ u \in Seq(Byte)
      /\ Len(u) = IF less + 1 <= len THEN len - (less + 1) + 1 ELSE 0
      /\ \A i \in 1 .. len - (less + 1) + 1 : u[i] = s[(less + 1) + i - 1]
  BY <1>4, SubSeqProperties
<1> HIDE DEF u
<1>6. \A i \in 1 .. len - less : u[i] = t[i]
  <2> TAKE i \in 1 .. len - less
  <2>1. /\ i \in 1 .. len - (less + 1) + 1 /\ (less + 1) + i - 1 = less + i /\ less + i \in 1 .. len
        /\ from + (less + i) = from + less + i
    OBVIOUS
  <2>2. u[i] = s[less + i] /\ s[less + i] = <<op, from + (less + i)>>
    BY <1>1, <1>5, <2>1
  <2> QED
    BY <1>3, <2>1, <2>2
<1>7. Len(u) = Len(t)
  BY <1>3, <1>5
<1>8. u = t
  BY <1>3, <1>5, <1>6, <1>7, SeqEqual
<1> QED
  BY <1>1, <1>8 DEF s, t, u, Dropped

-----------------------------------------------------------------------------
(* Messages.                                                               *)

LEMMA PeerFacts ==
  ASSUME NEW r \in Rank
  PROVE  Peer(r) \in Rank /\ Peer(Peer(r)) = r /\ Peer(r) # r
BY DEF Rank, Peer

LEMMA AtProgram ==
  ASSUME TypeInv, NEW k \in 1 .. Len(program)
  PROVE  k \in Nat \ {0} /\ program[k] \in Operation
BY ElementOfSeq DEF TypeInv

LEMMA PieceFacts ==
  ASSUME NEW k \in Nat, NEW q \in Operation, NEW o \in Starts(q)
  PROVE  /\ Piece(k, q, o).op = k /\ Piece(k, q, o).kind = "data"
         /\ Piece(k, q, o).bytes = Bytes(k, o, Stop(q, o) - o)
         /\ Stop(q, o) - o \in Nat \ {0}
         /\ Place(Piece(k, q, o)) = o + 2 /\ o \in Nat
         /\ Piece(k, q, o) \in Message
<1> DEFINE n == Stop(q, o) - o
<1>1. n \in Nat \ {0} /\ o \in Nat
  BY StartFacts
<1>2. /\ Piece(k, q, o).op = k /\ Piece(k, q, o).kind = "data"
      /\ Piece(k, q, o).bytes = Bytes(k, o, n)
      /\ Piece(k, q, o) = [kind |-> "data", op |-> k, bytes |-> Bytes(k, o, n)]
  BY DEF Piece, Data
<1> HIDE DEF n
<1>3. Bytes(k, o, n) \in Seq(Byte) /\ Bytes(k, o, n)[1] = <<k, o + 1>>
  <2>1. 1 \in 1 .. n /\ n \in Nat /\ o \in Nat
    BY <1>1
  <2>2. Bytes(k, o, n) \in Seq(Byte) /\ \A i \in 1 .. n : Bytes(k, o, n)[i] = <<k, o + i>>
    BY <2>1, BytesFacts
  <2> QED
    BY <2>1, <2>2
<1>4. Place(Piece(k, q, o)) = o + 2
  BY <1>1, <1>2, <1>3 DEF Place
<1>5. Piece(k, q, o) \in Message
  BY <1>2, <1>3 DEF Message
<1> QED
  BY <1>1, <1>2, <1>4, <1>5 DEF n

\* The messages of an operation by their place.
LEMMA OpsMessageFacts ==
  ASSUME NEW q \in Operation, NEW k \in Nat, NEW r \in Rank, NEW m \in OpsMessages(q, k, r)
  PROVE  /\ m \in Message /\ m.op = k /\ Place(m) \in Nat
         /\ \/ m = Extension(k) /\ q.extends /\ Place(m) = 0
            \/ m = Flips(k) /\ q.flips /\ q.sender = r /\ Place(m) = 1
            \/ /\ q.sender # r
               /\ \E o \in Starts(q) : m = Piece(k, q, o) /\ Place(m) = o + 2
<1>1. <<>> \in Seq(Byte)
  OBVIOUS
<1>2. CASE m = Extension(k) /\ q.extends
  BY <1>1, <1>2 DEF Extension, Message, Place
<1>3. CASE m = Flips(k) /\ q.flips /\ q.sender = r
  BY <1>1, <1>3 DEF Flips, Message, Place
<1>4. CASE q.sender # r /\ \E o \in Starts(q) : m = Piece(k, q, o)
  <2>1. PICK o \in Starts(q) : m = Piece(k, q, o)
    BY <1>4
  <2>2. m.op = k /\ m \in Message /\ Place(m) = o + 2 /\ o \in Nat
    BY <2>1, PieceFacts
  <2>3. Place(m) \in Nat
    BY <2>2
  <2> QED
    BY <1>4, <2>1, <2>2, <2>3
<1> QED
  BY <1>2, <1>3, <1>4 DEF OpsMessages

LEMMA OpMessageFacts ==
  ASSUME TypeInv, NEW k \in 1 .. Len(program), NEW r \in Rank, NEW m \in OpMessages(k, r)
  PROVE  /\ m \in Message /\ m.op = k /\ Place(m) \in Nat
         /\ \/ m = Extension(k) /\ program[k].extends /\ Place(m) = 0
            \/ m = Flips(k) /\ program[k].flips /\ program[k].sender = r /\ Place(m) = 1
            \/ /\ program[k].sender # r
               /\ \E o \in Starts(program[k]) : m = Piece(k, program[k], o) /\ Place(m) = o + 2
<1>1. k \in Nat /\ program[k] \in Operation /\ m \in OpsMessages(program[k], k, r)
  BY AtProgram DEF OpMessages
<1> QED
  BY <1>1, OpsMessageFacts

LEMMA MessageFacts ==
  ASSUME TypeInv, NEW r \in Rank, NEW m \in Messages(r)
  PROVE  /\ m.op \in 1 .. Len(program) /\ m.op \in Nat /\ m \in OpMessages(m.op, r)
         /\ Place(m) \in Nat /\ m \in Message
<1>1. PICK k \in 1 .. Len(program) : m \in OpMessages(k, r)
  BY DEF Messages
<1>2. m.op = k /\ Place(m) \in Nat /\ m \in Message
  BY <1>1, OpMessageFacts
<1> QED
  BY <1>1, <1>2

\* The messages to a rank have an order.
LEMMA MessagesOrdered ==
  ASSUME TypeInv, NEW r \in Rank, NEW m \in Messages(r), NEW n \in Messages(r), m # n
  PROVE  Before(m, n) \/ Before(n, m)
<1>1. /\ m.op \in 1 .. Len(program) /\ m.op \in Nat /\ m \in OpMessages(m.op, r) /\ Place(m) \in Nat
      /\ n.op \in 1 .. Len(program) /\ n.op \in Nat /\ n \in OpMessages(n.op, r) /\ Place(n) \in Nat
  BY MessageFacts
<1>2. CASE m.op # n.op
  BY <1>1, <1>2 DEF Before
<1>3. CASE m.op = n.op
  <2> DEFINE k == m.op
  <2>1. Place(m) # Place(n)
    <3> SUFFICES ASSUME Place(m) = Place(n) PROVE FALSE
      OBVIOUS
    <3>1. \/ m = Extension(k) /\ Place(m) = 0
          \/ m = Flips(k) /\ Place(m) = 1
          \/ \E o \in Starts(program[k]) : m = Piece(k, program[k], o) /\ Place(m) = o + 2
      BY <1>1, OpMessageFacts
    <3>2. \/ n = Extension(k) /\ Place(n) = 0
          \/ n = Flips(k) /\ Place(n) = 1
          \/ \E o \in Starts(program[k]) : n = Piece(k, program[k], o) /\ Place(n) = o + 2
      BY <1>1, <1>3, OpMessageFacts
    <3>3. \A o \in Starts(program[k]) : o \in Nat
      BY <1>1, AtProgram, StartFacts
    <3> HIDE DEF k
    <3> QED
      BY <3>1, <3>2, <3>3
  <2> QED
    BY <1>1, <1>3, <2>1 DEF Before
<1> QED
  BY <1>2, <1>3

-----------------------------------------------------------------------------
(* Queues.                                                                 *)

LEMMA HoldsAppend ==
  ASSUME NEW n \in Seq(Message), NEW W, Holds(n, W), NEW m \in Message,
         \A w \in W : Before(w, m)
  PROVE  Holds(Append(n, m), W \cup {m})
<1> DEFINE a == Append(n, m)
<1>1. /\ Len(n) \in Nat /\ Len(a) = Len(n) + 1 /\ a[Len(n) + 1] = m
      /\ \A i \in 1 .. Len(n) : a[i] = n[i]
  BY AppendProperties, LenProperties
<1> HIDE DEF a
<1>2. \A i \in 1 .. Len(a) : i \in 1 .. Len(n) \/ i = Len(n) + 1
  BY <1>1
<1>3. \A i \in 1 .. Len(a) : a[i] \in W \cup {m}
  BY <1>1, <1>2 DEF Holds
<1>4. \A i, j \in 1 .. Len(a) : i < j => Before(a[i], a[j])
  <2> SUFFICES ASSUME NEW i \in 1 .. Len(a), NEW j \in 1 .. Len(a), i < j
               PROVE  Before(a[i], a[j])
    OBVIOUS
  <2>1. i \in 1 .. Len(n)
    BY <1>1
  <2>2. CASE j \in 1 .. Len(n)
    BY <1>1, <2>1, <2>2 DEF Holds
  <2>3. CASE j = Len(n) + 1
    BY <1>1, <2>1, <2>3 DEF Holds
  <2> QED
    BY <1>2, <2>2, <2>3
<1>5. \A w \in W \cup {m} : \E i \in 1 .. Len(a) : a[i] = w
  <2> TAKE w \in W \cup {m}
  <2>1. CASE w = m
    <3>1. Len(n) + 1 \in 1 .. Len(a)
      BY <1>1
    <3> QED
      BY <1>1, <2>1, <3>1
  <2>2. CASE w \in W
    <3>1. PICK i \in 1 .. Len(n) : n[i] = w
      BY <2>2 DEF Holds
    <3>2. i \in 1 .. Len(a)
      BY <1>1
    <3> QED
      BY <1>1, <3>1, <3>2
  <2> QED
    BY <2>1, <2>2
<1> QED
  BY <1>3, <1>4, <1>5 DEF Holds, a

LEMMA HoldsTail ==
  ASSUME NEW n \in Seq(Message), NEW W, Holds(n, W), n # <<>>,
         \A w \in W : ~Before(w, w)
  PROVE  Holds(Tail(n), W \ {Head(n)})
<1> DEFINE t == Tail(n)
           h == Head(n)
<1>1. /\ Len(n) \in Nat /\ Len(n) > 0 /\ Len(t) = Len(n) - 1 /\ h = n[1]
      /\ \A i \in 1 .. Len(t) : t[i] = n[i + 1]
  BY HeadTailProperties, EmptySeq, LenProperties
<1> HIDE DEF t, h
<1>2. \A i \in 1 .. Len(t) : i + 1 \in 1 .. Len(n) /\ 1 < i + 1
  BY <1>1
<1>3. 1 \in 1 .. Len(n)
  BY <1>1
<1>4. \A i \in 1 .. Len(t) : t[i] \in W \ {h}
  <2> TAKE i \in 1 .. Len(t)
  <2>1. Before(n[1], n[i + 1]) /\ n[i + 1] \in W /\ n[1] \in W
    BY <1>2, <1>3 DEF Holds
  <2> QED
    BY <1>1, <2>1
<1>5. \A i, j \in 1 .. Len(t) : i < j => Before(t[i], t[j])
  <2> SUFFICES ASSUME NEW i \in 1 .. Len(t), NEW j \in 1 .. Len(t), i < j
               PROVE  Before(t[i], t[j])
    OBVIOUS
  <2>1. i + 1 < j + 1
    BY <1>1
  <2> QED
    BY <1>1, <1>2, <2>1 DEF Holds
<1>6. \A w \in W \ {h} : \E i \in 1 .. Len(t) : t[i] = w
  <2> TAKE w \in W \ {h}
  <2>1. PICK i \in 1 .. Len(n) : n[i] = w
    BY DEF Holds
  <2>2. i # 1
    BY <1>1, <2>1
  <2>3. i - 1 \in 1 .. Len(t) /\ (i - 1) + 1 = i
    BY <1>1, <2>2
  <2> QED
    BY <1>1, <2>1, <2>3
<1> QED
  BY <1>4, <1>5, <1>6 DEF Holds, t, h

-----------------------------------------------------------------------------
(* The ranks and the link between them.                                    *)

\* Where a rank is that is in an operation.
LEMMA AtOperation ==
  ASSUME IInv, NEW r \in Rank, pc[r] # "idle"
  PROVE  /\ done[r] \in Nat /\ done[r] + 1 \in 1 .. Len(program)
         /\ Current(r) \in Operation /\ Current(r) = program[done[r] + 1]
         /\ Current(r).sender \in Rank
         /\ Sends(r) <=> Current(r).sender = r
         /\ Sends(r) <=> Current(r).sender # Peer(r)
<1>1. TypeInv /\ PhaseAt(r)
  BY DEF IInv
<1>2. done[r] \in Nat /\ Len(program) \in Nat /\ done[r] < Len(program)
  BY <1>1, LenProperties, ConstantFacts DEF TypeInv, PhaseAt
<1>3. done[r] + 1 \in 1 .. Len(program)
  BY <1>2
<1>4. Current(r) \in Operation
  BY <1>1, <1>3, AtProgram DEF Current
<1>5. Current(r).sender \in Rank
  BY <1>4, OperationFacts
<1> QED
  BY <1>2, <1>3, <1>4, <1>5 DEF Current, Sends, Rank, Peer

LEMMA Positions ==
  ASSUME IInv, NEW r \in Rank
  PROVE  /\ done[r] \in Nat /\ Sent(r) \in Nat /\ Got(r) \in Nat
         /\ Len(wbuf[r]) \in Nat /\ Len(rbuf[r]) \in Nat /\ offset[r] \in Nat
         /\ net[r] \in Seq(Message) /\ Len(net[r]) \in Nat
<1>1. TypeInv /\ PhaseAt(r)
  BY DEF IInv
<1>2. /\ done[r] \in Nat /\ offset[r] \in Nat /\ net[r] \in Seq(Message)
      /\ wbuf[r] \in Seq(Byte) /\ rbuf[r] \in Seq(Byte)
      /\ pc[r] \in {"idle", "extend", "extended", "choose", "stream"}
  BY <1>1, ConstantFacts DEF TypeInv
<1>3. Len(wbuf[r]) \in Nat /\ Len(rbuf[r]) \in Nat /\ Len(net[r]) \in Nat
  BY <1>2, LenProperties
<1>4. pc[r] = "stream" /\ Sends(r) => offset[r] - Len(wbuf[r]) \in Nat
  BY <1>1, <1>2, <1>3 DEF PhaseAt, StreamAt
<1>5. Sent(r) \in Nat
  BY <1>2, <1>4 DEF Sent
<1>6. Got(r) \in Nat
  BY <1>2, <1>3 DEF Got
<1> QED
  BY <1>2, <1>3, <1>5, <1>6

\* The peer of r passes the messages to r in their order.
LEMMA SentDown ==
  ASSUME IInv, NEW r \in Rank, NEW m \in Messages(r), NEW n \in SentTo(r), Before(m, n)
  PROVE  m \in SentTo(r)
<1>1. n \in Messages(r) /\ TypeInv
  BY DEF SentTo, IInv
<1>2. m.op \in Nat /\ n.op \in Nat /\ Place(m) \in Nat /\ Place(n) \in Nat
  BY <1>1, MessageFacts
<1>3. done[Peer(r)] \in Nat /\ Sent(Peer(r)) \in Nat
  BY PeerFacts, Positions
<1>4. Past(n, done[Peer(r)], Sent(Peer(r)))
  BY DEF SentTo
<1>5. Past(m, done[Peer(r)], Sent(Peer(r)))
  BY <1>2, <1>3, <1>4 DEF Past, Before
<1> QED
  BY <1>5 DEF SentTo

LEMMA NeverBefore ==
  ASSUME TypeInv, NEW r \in Rank, NEW m \in Messages(r)
  PROVE  ~Before(m, m)
<1>1. m.op \in Nat /\ Place(m) \in Nat
  BY MessageFacts
<1> QED
  BY <1>1 DEF Before

\* The message at the head of the link is the first that r is not past.
LEMMA HeadIs ==
  ASSUME IInv, NEW r \in Rank, pc[r] # "idle", net[r] # <<>>,
         NEW m \in OpMessages(done[r] + 1, r), Got(r) <= Place(m),
         \A n \in OpMessages(done[r] + 1, r) : Got(r) <= Place(n) => Place(m) <= Place(n)
  PROVE  Head(net[r]) = m
<1> DEFINE k == done[r] + 1
           h == Head(net[r])
           W == SentTo(r) \ GotBy(r)
<1>0. TypeInv /\ Holds(net[r], W)
  BY DEF IInv, LinkAt
<1>1. /\ k \in 1 .. Len(program) /\ done[r] \in Nat /\ Got(r) \in Nat
      /\ net[r] \in Seq(Message) /\ Len(net[r]) \in Nat
  BY AtOperation, Positions
<1>2. 1 \in 1 .. Len(net[r]) /\ h = net[r][1]
  BY <1>1, EmptySeq, HeadTailProperties
<1>3. h \in W
  BY <1>0, <1>2 DEF Holds
<1>4. /\ m \in Messages(r) /\ m.op = k /\ Place(m) \in Nat
  BY <1>0, <1>1, OpMessageFacts DEF Messages
<1>5. h \in Messages(r) /\ h \in SentTo(r) /\ ~Past(h, done[r], Got(r))
  BY <1>3 DEF SentTo, GotBy
<1>6. /\ h.op \in Nat /\ Place(h) \in Nat /\ h \in OpMessages(h.op, r)
  BY <1>0, <1>5, MessageFacts
<1>7. ~Past(m, done[r], Got(r))
  BY <1>1, <1>4 DEF Past
<1>8. m = h \/ Before(m, h)
  <2>1. h.op >= k /\ (h.op = k => Got(r) <= Place(h))
    BY <1>1, <1>5, <1>6 DEF Past
  <2>2. h.op = k => Place(m) <= Place(h)
    BY <1>6, <2>1
  <2>3. ~Before(h, m)
    BY <1>1, <1>4, <1>6, <2>1, <2>2 DEF Before
  <2> QED
    BY <1>0, <1>4, <1>5, <2>3, MessagesOrdered
<1>9. m \in W
  BY <1>3, <1>4, <1>5, <1>7, <1>8, SentDown DEF GotBy
<1>10. PICK i \in 1 .. Len(net[r]) : net[r][i] = m
  BY <1>0, <1>9 DEF Holds
<1>11. i # 1 => Before(h, m)
  <2>1. i # 1 => 1 < i
    BY <1>1
  <2> QED
    BY <1>0, <1>2, <1>10, <2>1 DEF Holds
<1>12. ~(Before(m, h) /\ Before(h, m))
  BY <1>1, <1>4, <1>6 DEF Before
<1> QED
  BY <1>2, <1>8, <1>10, <1>11, <1>12

\* The link holds what it should after a message is sent,
LEMMA PostKeeps ==
  ASSUME IInv, NEW t \in Rank, NEW m \in Messages(t), m \notin SentTo(t),
         net'[t] = Append(net[t], m),
         SentTo(t)' = SentTo(t) \cup {m}, GotBy(t)' = GotBy(t)
  PROVE  LinkAt(t)'
<1> DEFINE W == SentTo(t) \ GotBy(t)
<1>0. TypeInv /\ LinkAt(t) /\ net[t] \in Seq(Message) /\ m \in Message
  BY Positions, MessageFacts DEF IInv
<1>1. \A w \in W : Before(w, m)
  <2> TAKE w \in W
  <2>1. w \in SentTo(t) /\ w \in Messages(t) /\ w # m
    BY DEF SentTo
  <2> QED
    BY <1>0, <2>1, MessagesOrdered, SentDown
<1>2. Holds(Append(net[t], m), W \cup {m})
  BY <1>0, <1>1, HoldsAppend DEF LinkAt
<1>3. W \cup {m} = (SentTo(t) \cup {m}) \ GotBy(t)
  BY <1>0 DEF LinkAt
<1>4. GotBy(t)' \subseteq SentTo(t)'
  BY <1>0 DEF LinkAt
<1> HIDE DEF W
<1>5. Holds(net'[t], SentTo(t)' \ GotBy(t)')
  BY <1>2, <1>3
<1>6. LinkAt(t)' <=> GotBy(t)' \subseteq SentTo(t)' /\ Holds(net'[t], SentTo(t)' \ GotBy(t)')
  BY DEF LinkAt, Holds
<1> QED
  BY <1>4, <1>5, <1>6

\* after one is received,
LEMMA ConsumeKeeps ==
  ASSUME IInv, NEW r \in Rank, net[r] # <<>>, net'[r] = Tail(net[r]),
         SentTo(r)' = SentTo(r), GotBy(r)' = GotBy(r) \cup {Head(net[r])}
  PROVE  LinkAt(r)'
<1> DEFINE W == SentTo(r) \ GotBy(r)
           h == Head(net[r])
<1>0. TypeInv /\ LinkAt(r) /\ net[r] \in Seq(Message) /\ Len(net[r]) \in Nat
  BY Positions DEF IInv
<1>1. \A w \in W : ~Before(w, w)
  BY <1>0, NeverBefore DEF SentTo
<1>2. Holds(net'[r], W \ {h})
  BY <1>0, <1>1, HoldsTail DEF LinkAt
<1>3. h \in W
  <2>1. 1 \in 1 .. Len(net[r]) /\ h = net[r][1]
    BY <1>0, EmptySeq, HeadTailProperties
  <2> QED
    BY <1>0, <2>1 DEF LinkAt, Holds
<1>4. W \ {h} = SentTo(r)' \ GotBy(r)' /\ GotBy(r)' \subseteq SentTo(r)'
  BY <1>0, <1>3 DEF LinkAt
<1> HIDE DEF W, h
<1>5. Holds(net'[r], SentTo(r)' \ GotBy(r)')
  BY <1>2, <1>4
<1>6. LinkAt(r)' <=> GotBy(r)' \subseteq SentTo(r)' /\ Holds(net'[r], SentTo(r)' \ GotBy(r)')
  BY DEF LinkAt, Holds
<1> QED
  BY <1>4, <1>5, <1>6

\* and when the ranks are past the same messages as before.
LEMMA SameKeeps ==
  ASSUME IInv, NEW t \in Rank, net'[t] = net[t],
         SentTo(t)' = SentTo(t), GotBy(t)' = GotBy(t)
  PROVE  LinkAt(t)'
<1>1. LinkAt(t)' <=> GotBy(t)' \subseteq SentTo(t)' /\ Holds(net'[t], SentTo(t)' \ GotBy(t)')
  BY DEF LinkAt, Holds
<1> QED
  BY <1>1 DEF IInv, LinkAt

-----------------------------------------------------------------------------
(* What a step of one rank changes.                                        *)

LEMMA SentMore ==
  ASSUME IInv, NEW r \in Rank, pc[r] # "idle", program' = program,
         NEW S, S \subseteq OpMessages(done[r] + 1, Peer(r)),
         \/ done'[r] = done[r]
         \/ done'[r] = done[r] + 1 /\ Sent(r)' = 0,
         \A m \in OpMessages(done[r] + 1, Peer(r)) :
           Past(m, done'[r], Sent(r)') <=> Place(m) < Sent(r) \/ m \in S
  PROVE  SentTo(Peer(r))' = SentTo(Peer(r)) \cup S
<1> DEFINE t == Peer(r)
           k == done[r] + 1
<1>0. TypeInv /\ t \in Rank /\ Peer(t) = r
  BY PeerFacts DEF IInv
<1>1. k \in 1 .. Len(program) /\ done[r] \in Nat /\ Sent(r) \in Nat
  BY AtOperation, Positions
<1>2. Messages(t)' = Messages(t)
  BY DEF Messages, OpMessages, OpsMessages
<1>3. /\ SentTo(t)' = {m \in Messages(t) : Past(m, done'[r], Sent(r)')}
      /\ SentTo(t) = {m \in Messages(t) : Past(m, done[r], Sent(r))}
  <2>1. Peer(t)' = r
    BY <1>0 DEF Peer
  <2>2. SentTo(t)' = {m \in Messages(t)' : Past(m, done'[Peer(t)], Sent(Peer(t))')}
    BY DEF SentTo, Past, Place
  <2>3. Sent(Peer(t))' = Sent(r)'
    BY <1>0
  <2> QED
    BY <1>0, <1>2, <2>2, <2>3 DEF SentTo
<1>4. S \subseteq Messages(t)
  BY <1>1 DEF Messages
<1>5. ASSUME NEW m \in Messages(t)
      PROVE  Past(m, done'[r], Sent(r)') <=> Past(m, done[r], Sent(r)) \/ m \in S
  <2>1. m.op \in Nat /\ Place(m) \in Nat /\ m \in OpMessages(m.op, t)
    BY <1>0, MessageFacts
  <2>2. CASE m.op = k
    <3>1. m \in OpMessages(k, t)
      BY <2>1, <2>2
    <3>2. Past(m, done[r], Sent(r)) <=> Place(m) < Sent(r)
      BY <1>1, <2>2 DEF Past
    <3> QED
      BY <3>1, <3>2
  <2>3. CASE m.op # k
    <3>1. m \notin S
      BY <1>0, <1>1, <2>3, OpMessageFacts
    <3>2. Past(m, done[r], Sent(r)) <=> m.op < k
      BY <1>1, <2>1, <2>3 DEF Past
    <3>3. Past(m, done'[r], Sent(r)') <=> m.op < k
      BY <1>1, <2>1, <2>3 DEF Past
    <3> QED
      BY <3>1, <3>2, <3>3
  <2> QED
    BY <2>2, <2>3
<1> QED
  BY <1>3, <1>4, <1>5

LEMMA GotMore ==
  ASSUME IInv, NEW r \in Rank, pc[r] # "idle", program' = program,
         NEW S, S \subseteq OpMessages(done[r] + 1, r),
         \/ done'[r] = done[r]
         \/ done'[r] = done[r] + 1 /\ Got(r)' = 0,
         \A m \in OpMessages(done[r] + 1, r) :
           Past(m, done'[r], Got(r)') <=> Place(m) < Got(r) \/ m \in S
  PROVE  GotBy(r)' = GotBy(r) \cup S
<1> DEFINE k == done[r] + 1
<1>0. TypeInv
  BY DEF IInv
<1>1. k \in 1 .. Len(program) /\ done[r] \in Nat /\ Got(r) \in Nat
  BY AtOperation, Positions
<1>2. Messages(r)' = Messages(r)
  BY DEF Messages, OpMessages, OpsMessages
<1>3. /\ GotBy(r)' = {m \in Messages(r) : Past(m, done'[r], Got(r)')}
      /\ GotBy(r) = {m \in Messages(r) : Past(m, done[r], Got(r))}
  BY <1>2 DEF GotBy, Past, Place
<1>4. S \subseteq Messages(r)
  BY <1>1 DEF Messages
<1>5. ASSUME NEW m \in Messages(r)
      PROVE  Past(m, done'[r], Got(r)') <=> Past(m, done[r], Got(r)) \/ m \in S
  <2>1. m.op \in Nat /\ Place(m) \in Nat /\ m \in OpMessages(m.op, r)
    BY <1>0, MessageFacts
  <2>2. CASE m.op = k
    <3>1. m \in OpMessages(k, r)
      BY <2>1, <2>2
    <3>2. Past(m, done[r], Got(r)) <=> Place(m) < Got(r)
      BY <1>1, <2>2 DEF Past
    <3> QED
      BY <3>1, <3>2
  <2>3. CASE m.op # k
    <3>1. m \notin S
      BY <1>0, <1>1, <2>3, OpMessageFacts
    <3>2. Past(m, done[r], Got(r)) <=> m.op < k
      BY <1>1, <2>1, <2>3 DEF Past
    <3>3. Past(m, done'[r], Got(r)') <=> m.op < k
      BY <1>1, <2>1, <2>3 DEF Past
    <3> QED
      BY <3>1, <3>2, <3>3
  <2> QED
    BY <2>2, <2>3
<1> QED
  BY <1>3, <1>4, <1>5

\* Nothing of t changes in a step of its peer.
AsBefore(t) ==
  /\ done'[t] = done[t] /\ pc'[t] = pc[t] /\ batch'[t] = batch[t] /\ offset'[t] = offset[t]
  /\ wbuf'[t] = wbuf[t] /\ rbuf'[t] = rbuf[t]

LEMMA PeerKeeps ==
  ASSUME IInv, NEW t \in Rank, AsBefore(t), program' = program
  PROVE  PhaseAt(t)' /\ GotBy(t)' = GotBy(t) /\ SentTo(Peer(t))' = SentTo(Peer(t))
<1>1. Current(t)' = Current(t)
  BY DEF AsBefore, Current
<1>2. Sends(t)' <=> Sends(t)
  BY <1>1 DEF Sends
<1>3. Sent(t)' = Sent(t) /\ Got(t)' = Got(t)
  BY <1>2 DEF AsBefore, Sent, Got
<1>4. \A x : Messages(x)' = Messages(x)
  BY DEF Messages, OpMessages, OpsMessages
<1>5. GotBy(t)' = GotBy(t)
  BY <1>3, <1>4 DEF GotBy, AsBefore, Past, Place
<1>6. SentTo(Peer(t))' = SentTo(Peer(t))
  <2> DEFINE x == Peer(t)
  <2>1. x \in Rank /\ Peer(x) = t
    BY PeerFacts
  <2>2. SentTo(x)' = {m \in Messages(x)' : Past(m, done'[Peer(x)], Sent(Peer(x))')}
    BY DEF SentTo, Past, Place
  <2>3. Sent(Peer(x))' = Sent(t)'
    BY <2>1
  <2> QED
    BY <1>3, <1>4, <2>1, <2>2, <2>3 DEF SentTo, AsBefore
<1>7. PhaseAt(t)
  BY DEF IInv
<1>8. StreamAt(t)' <=> StreamAt(t)
  BY <1>1, <1>2 DEF StreamAt, AsBefore, AtCut, Starts, Total, End, Bytes
<1>9. PhaseAt(t)'
  BY <1>1, <1>7, <1>8 DEF PhaseAt, AsBefore
<1> QED
  BY <1>5, <1>6, <1>9

\* A step of r in an operation.
Moves(r) ==
  /\ pc[r] # "idle" /\ program' = program
  /\ done' = [done EXCEPT ![r] = done'[r]] /\ done'[r] \in 0 .. MaxOps
  /\ pc' = [pc EXCEPT ![r] = pc'[r]]
  /\ pc'[r] \in {"idle", "extend", "extended", "choose", "stream"}
  /\ batch' = [batch EXCEPT ![r] = batch'[r]] /\ batch'[r] \in Nat
  /\ offset' = [offset EXCEPT ![r] = offset'[r]] /\ offset'[r] \in Nat
  /\ wbuf' = [wbuf EXCEPT ![r] = wbuf'[r]] /\ wbuf'[r] \in Seq(Byte)
  /\ rbuf' = [rbuf EXCEPT ![r] = rbuf'[r]] /\ rbuf'[r] \in Seq(Byte)

LEMMA MovesFacts ==
  ASSUME IInv, NEW r \in Rank, Moves(r), net' \in [Rank -> Seq(Message)]
  PROVE  /\ TypeInv' /\ AsBefore(Peer(r))
         /\ PhaseAt(Peer(r))' /\ GotBy(Peer(r))' = GotBy(Peer(r)) /\ SentTo(r)' = SentTo(r)
<1>0. TypeInv /\ Peer(r) \in Rank /\ Peer(Peer(r)) = r /\ Peer(r) # r
  BY PeerFacts DEF IInv
<1>1. TypeInv'
  BY <1>0 DEF TypeInv, Moves
<1>2. AsBefore(Peer(r))
  BY <1>0 DEF TypeInv, Moves, AsBefore
<1>3. /\ PhaseAt(Peer(r))' /\ GotBy(Peer(r))' = GotBy(Peer(r))
      /\ SentTo(Peer(Peer(r)))' = SentTo(Peer(Peer(r)))
  BY <1>0, <1>2, PeerKeeps DEF Moves
<1> QED
  BY <1>0, <1>1, <1>2, <1>3

LEMMA BothRanks ==
  ASSUME NEW r \in Rank, TypeInv', PhaseAt(r)', PhaseAt(Peer(r))', LinkAt(r)', LinkAt(Peer(r))'
  PROVE  IInv'
<1>1. \A x \in Rank : x = r \/ x = Peer(r)
  BY DEF Rank, Peer
<1> QED
  BY <1>1 DEF IInv

\* A step without a message,
LEMMA QuietStep ==
  ASSUME IInv, NEW r \in Rank, Moves(r), net' = net, PhaseAt(r)',
         SentTo(Peer(r))' = SentTo(Peer(r)), GotBy(r)' = GotBy(r)
  PROVE  IInv'
<1>1. Peer(r) \in Rank /\ TypeInv
  BY PeerFacts DEF IInv
<1>2. net' \in [Rank -> Seq(Message)]
  BY <1>1 DEF TypeInv
<1>3. /\ TypeInv' /\ PhaseAt(Peer(r))' /\ GotBy(Peer(r))' = GotBy(Peer(r))
      /\ SentTo(r)' = SentTo(r)
  BY <1>2, MovesFacts
<1>4. LinkAt(r)' /\ LinkAt(Peer(r))'
  BY <1>1, <1>3, SameKeeps
<1> QED
  BY <1>3, <1>4, BothRanks

\* a step that sends one,
LEMMA PostStep ==
  ASSUME IInv, NEW r \in Rank, Moves(r), NEW m, Post(r, m), PhaseAt(r)',
         m \in OpMessages(done[r] + 1, Peer(r)), Sent(r) <= Place(m),
         SentTo(Peer(r))' = SentTo(Peer(r)) \cup {m}, GotBy(r)' = GotBy(r)
  PROVE  IInv'
<1> DEFINE t == Peer(r)
<1>1. t \in Rank /\ TypeInv /\ t # r /\ Peer(t) = r
  BY PeerFacts DEF IInv
<1>2. done[r] + 1 \in 1 .. Len(program) /\ done[r] \in Nat /\ Sent(r) \in Nat
  BY AtOperation, Positions DEF Moves
<1>3. m \in Messages(t) /\ m \in Message /\ m.op = done[r] + 1 /\ Place(m) \in Nat
  BY <1>1, <1>2, OpMessageFacts DEF Messages
<1>4. m \notin SentTo(t)
  BY <1>1, <1>2, <1>3 DEF SentTo, Past
<1>5. net' \in [Rank -> Seq(Message)] /\ net'[t] = Append(net[t], m) /\ net'[r] = net[r]
  <2>1. net \in [Rank -> Seq(Message)] /\ net' = [net EXCEPT ![t] = Append(@, m)]
    BY <1>1 DEF TypeInv, Post
  <2>2. Append(net[t], m) \in Seq(Message)
    BY <1>1, <1>3, <2>1, AppendProperties
  <2> QED
    BY <1>1, <2>1, <2>2
<1>6. /\ TypeInv' /\ PhaseAt(t)' /\ GotBy(t)' = GotBy(t) /\ SentTo(r)' = SentTo(r)
  BY <1>5, MovesFacts
<1>7. LinkAt(r)'
  BY <1>5, <1>6, SameKeeps
<1>8. LinkAt(t)'
  BY <1>1, <1>3, <1>4, <1>5, <1>6, PostKeeps
<1> QED
  BY <1>6, <1>7, <1>8, BothRanks

\* and a step that receives one.
LEMMA ConsumeStep ==
  ASSUME IInv, NEW r \in Rank, Moves(r), Arrived(r), Consume(r), PhaseAt(r)',
         SentTo(Peer(r))' = SentTo(Peer(r)), GotBy(r)' = GotBy(r) \cup {Head(net[r])}
  PROVE  IInv'
<1> DEFINE t == Peer(r)
<1>1. t \in Rank /\ TypeInv /\ t # r
  BY PeerFacts DEF IInv
<1>2. net' \in [Rank -> Seq(Message)] /\ net'[t] = net[t] /\ net'[r] = Tail(net[r])
  <2>1. net \in [Rank -> Seq(Message)] /\ net' = [net EXCEPT ![r] = Tail(@)]
    BY <1>1 DEF TypeInv, Consume
  <2>2. Tail(net[r]) \in Seq(Message)
    BY <2>1, HeadTailProperties DEF Arrived
  <2> QED
    BY <1>1, <2>1, <2>2
<1>3. /\ TypeInv' /\ PhaseAt(t)' /\ GotBy(t)' = GotBy(t) /\ SentTo(r)' = SentTo(r)
  BY <1>2, MovesFacts
<1>4. LinkAt(t)'
  BY <1>1, <1>2, <1>3, SameKeeps
<1>5. LinkAt(r)'
  BY <1>2, <1>3, ConsumeKeeps DEF Arrived
<1> QED
  BY <1>3, <1>4, <1>5, BothRanks

-----------------------------------------------------------------------------
(* One lemma per action.                                                   *)

LEMMA CutZero ==
  ASSUME NEW q \in Operation
  PROVE  AtCut(q, 0)
<1>1. Total(q) \in Nat /\ BufferSize \in Nat /\ 0 = 0 * BufferSize
  BY OperationFacts, ConstantFacts
<1> QED
  BY <1>1 DEF AtCut, Starts

\* The places of the messages of an operation to rank x, without its pieces.
LEMMA FirstPlaces ==
  ASSUME IInv, NEW r \in Rank, pc[r] # "idle", NEW x \in Rank,
         NEW m \in OpMessages(done[r] + 1, x)
  PROVE  /\ Place(m) \in Nat /\ m.op = done[r] + 1 /\ done[r] \in Nat
         /\ Place(m) = 0 <=> m = Extension(done[r] + 1)
         /\ Place(m) = 0 => Current(r).extends
         /\ Place(m) = 1 <=> m = Flips(done[r] + 1)
         /\ Place(m) = 1 => Current(r).flips /\ Current(r).sender = x
         /\ Place(m) > 1 => /\ Current(r).sender # x
                            /\ \E o \in Starts(Current(r)) :
                                 m = Piece(done[r] + 1, Current(r), o) /\ Place(m) = o + 2
<1> DEFINE k == done[r] + 1
           q == Current(r)
<1>1. TypeInv /\ k \in 1 .. Len(program) /\ done[r] \in Nat /\ q = program[k] /\ q \in Operation
  BY AtOperation DEF IInv
<1>2. /\ m \in Message /\ m.op = k /\ Place(m) \in Nat
      /\ \/ m = Extension(k) /\ q.extends /\ Place(m) = 0
         \/ m = Flips(k) /\ q.flips /\ q.sender = x /\ Place(m) = 1
         \/ /\ q.sender # x
            /\ \E o \in Starts(q) : m = Piece(k, q, o) /\ Place(m) = o + 2
  BY <1>1, OpMessageFacts
<1>3. \A o \in Starts(q) : o \in Nat
  BY <1>1, StartFacts
<1>4. Place(Extension(k)) = 0 /\ Place(Flips(k)) = 1
  BY DEF Place, Extension, Flips
<1> HIDE DEF k, q
<1>5. CASE m = Extension(k) /\ q.extends /\ Place(m) = 0
  BY <1>1, <1>2, <1>4, <1>5 DEF k, q
<1>6. CASE m = Flips(k) /\ q.flips /\ q.sender = x /\ Place(m) = 1
  BY <1>1, <1>2, <1>4, <1>6 DEF k, q
<1>7. CASE /\ q.sender # x
           /\ \E o \in Starts(q) : m = Piece(k, q, o) /\ Place(m) = o + 2
  <2>1. Place(m) > 1
    BY <1>3, <1>7
  <2> QED
    BY <1>1, <1>2, <1>4, <1>7, <2>1 DEF k, q
<1> QED
  BY <1>2, <1>5, <1>6, <1>7

LEMMA ExtendStep ==
  ASSUME IInv, NEW r \in Rank, Extend(r)
  PROVE  IInv'
<1> DEFINE k == done[r] + 1
           t == Peer(r)
           m == Extension(k)
<1>0. TypeInv /\ PhaseAt(r) /\ t \in Rank /\ pc[r] = "extend" /\ pc[r] # "idle"
  BY PeerFacts DEF IInv, Extend
<1>1. Moves(r) /\ done'[r] = done[r] /\ program' = program /\ pc'[r] = "extended"
  BY <1>0 DEF Extend, TypeInv, Moves
<1>2. PhaseAt(r)'
  BY <1>0, <1>1 DEF PhaseAt, Current, Extend
<1>3. Sent(r) = 0 /\ Sent(r)' = 1 /\ Got(r) = 0 /\ Got(r)' = 0
  BY <1>0, <1>1 DEF Sent, Got
<1>4. m \in OpMessages(k, t) /\ m \in OpMessages(k, r)
  BY <1>0 DEF OpMessages, OpsMessages, PhaseAt, Current
<1>5. Place(m) = 0
  BY DEF Place, Extension
<1>6. SentTo(t)' = SentTo(t) \cup {m}
  <2> DEFINE S == {m}
  <2>1. ASSUME NEW n \in OpMessages(k, t)
        PROVE  Past(n, done'[r], Sent(r)') <=> Place(n) < Sent(r) \/ n \in S
    <3>1. /\ Place(n) \in Nat /\ n.op = k /\ done[r] \in Nat
          /\ Place(n) = 0 <=> n = m
      BY <1>0, FirstPlaces
    <3> QED
      BY <1>1, <1>3, <3>1 DEF Past
  <2>2. S \subseteq OpMessages(k, t)
    BY <1>4
  <2> HIDE DEF S
  <2>3. SentTo(t)' = SentTo(t) \cup S
    BY <1>0, <1>1, <2>1, <2>2, SentMore
  <2> QED
    BY <2>3 DEF S
<1>7. GotBy(r)' = GotBy(r)
  <2>1. ASSUME NEW n \in OpMessages(k, r)
        PROVE  Past(n, done'[r], Got(r)') <=> Place(n) < Got(r) \/ n \in {}
    <3>1. Place(n) \in Nat /\ n.op = k /\ done[r] \in Nat
      BY <1>0, FirstPlaces
    <3> QED
      BY <1>1, <1>3, <3>1 DEF Past
  <2>2. GotBy(r)' = GotBy(r) \cup {}
    BY <1>0, <1>1, <2>1, GotMore
  <2> QED
    BY <2>2
<1>8. Post(r, m)
  BY DEF Extend
<1>9. Sent(r) <= Place(m)
  BY <1>3, <1>5
<1> HIDE DEF m
<1> QED
  BY <1>1, <1>2, <1>4, <1>6, <1>7, <1>8, <1>9, PostStep

LEMMA ExtendedStep ==
  ASSUME IInv, NEW r \in Rank, Extended(r)
  PROVE  IInv'
<1> DEFINE k == done[r] + 1
           t == Peer(r)
           m == Extension(k)
<1>0. TypeInv /\ PhaseAt(r) /\ t \in Rank /\ pc[r] = "extended" /\ pc[r] # "idle"
  BY PeerFacts DEF IInv, Extended
<1>1. Moves(r) /\ done'[r] = done[r] /\ program' = program /\ pc'[r] = "choose"
  BY <1>0 DEF Extended, TypeInv, Moves
<1>2. PhaseAt(r)'
  BY <1>0, <1>1 DEF PhaseAt, Current, Extended
<1>3. Sent(r) = 1 /\ Sent(r)' = 1 /\ Got(r) = 0 /\ Got(r)' = 1
  BY <1>0, <1>1 DEF Sent, Got
<1>4. m \in OpMessages(k, r)
  BY <1>0 DEF OpMessages, OpsMessages, PhaseAt, Current
<1>5. Place(m) = 0
  BY DEF Place, Extension
<1>6. SentTo(t)' = SentTo(t)
  <2>1. ASSUME NEW n \in OpMessages(k, t)
        PROVE  Past(n, done'[r], Sent(r)') <=> Place(n) < Sent(r) \/ n \in {}
    <3>1. Place(n) \in Nat /\ n.op = k /\ done[r] \in Nat
      BY <1>0, FirstPlaces
    <3> QED
      BY <1>1, <1>3, <3>1 DEF Past
  <2>2. SentTo(t)' = SentTo(t) \cup {}
    BY <1>0, <1>1, <2>1, SentMore
  <2> QED
    BY <2>2
<1>7. GotBy(r)' = GotBy(r) \cup {m}
  <2> DEFINE S == {m}
  <2>1. ASSUME NEW n \in OpMessages(k, r)
        PROVE  Past(n, done'[r], Got(r)') <=> Place(n) < Got(r) \/ n \in S
    <3>1. /\ Place(n) \in Nat /\ n.op = k /\ done[r] \in Nat
          /\ Place(n) = 0 <=> n = m
      BY <1>0, FirstPlaces
    <3> QED
      BY <1>1, <1>3, <3>1 DEF Past
  <2>2. S \subseteq OpMessages(k, r)
    BY <1>4
  <2> HIDE DEF S
  <2>3. GotBy(r)' = GotBy(r) \cup S
    BY <1>0, <1>1, <2>1, <2>2, GotMore
  <2> QED
    BY <2>3 DEF S
<1>8. Arrived(r) /\ Consume(r)
  BY DEF Extended
<1>9. Head(net[r]) = m
  <2>1. \A n \in OpMessages(k, r) : Place(m) <= Place(n)
    BY <1>0, <1>5, FirstPlaces
  <2>2. Got(r) <= Place(m)
    BY <1>3, <1>5
  <2> QED
    BY <1>0, <1>4, <1>8, <2>1, <2>2, HeadIs DEF Arrived
<1> HIDE DEF m
<1> QED
  BY <1>1, <1>2, <1>6, <1>7, <1>8, <1>9, ConsumeStep

\* The stream of a rank after a step.
LEMMA StreamIs ==
  ASSUME NEW r, NEW q, q = Current(r)', NEW k, k = done'[r] + 1
  PROVE  StreamAt(r)' <=>
           /\ batch'[r] <= Len(q.ends)
           /\ offset'[r] <= End(q, batch'[r])
           /\ Sends(r)' => /\ rbuf'[r] = <<>> /\ Len(wbuf'[r]) < BufferSize
                           /\ Len(wbuf'[r]) <= offset'[r]
                           /\ wbuf'[r] = Bytes(k, offset'[r] - Len(wbuf'[r]), Len(wbuf'[r]))
                           /\ AtCut(q, offset'[r] - Len(wbuf'[r]))
           /\ ~Sends(r)' => /\ wbuf'[r] = <<>> /\ Len(rbuf'[r]) <= BufferSize
                            /\ rbuf'[r] = Bytes(k, offset'[r], Len(rbuf'[r]))
                            /\ AtCut(q, offset'[r] + Len(rbuf'[r]))
BY DEF StreamAt, AtCut, Starts, Total, End, Bytes

LEMMA ChooseStep ==
  ASSUME IInv, NEW r \in Rank, Choose(r)
  PROVE  IInv'
<1> DEFINE k == done[r] + 1
           t == Peer(r)
           q == Current(r)
           m == Flips(k)
<1>0. /\ TypeInv /\ PhaseAt(r) /\ t \in Rank /\ pc[r] = "choose" /\ pc[r] # "idle" /\ t # r
      /\ done[r] \in Nat
  BY PeerFacts, Positions DEF IInv, Choose
<1>1. /\ Moves(r) /\ done'[r] = done[r] /\ program' = program /\ pc'[r] = "stream"
      /\ batch' = batch /\ offset' = offset /\ wbuf' = wbuf /\ rbuf' = rbuf
      /\ Current(r)' = q /\ (Sends(r)' <=> Sends(r))
  BY <1>0 DEF Choose, TypeInv, Moves, Current, Sends
<1>2. /\ batch[r] = 0 /\ offset[r] = 0 /\ wbuf[r] = <<>> /\ rbuf[r] = <<>>
      /\ Len(wbuf[r]) = 0 /\ Len(rbuf[r]) = 0 /\ done[r] < Len(program)
  BY <1>0 DEF PhaseAt
<1>3. q \in Operation /\ (Sends(r) <=> q.sender = r) /\ (Sends(r) <=> q.sender # t)
      /\ q = program[k]
  BY <1>0, AtOperation
<1>4. PhaseAt(r)'
  <2>1. /\ AtCut(q, 0) /\ 0 <= Len(q.ends) /\ 0 <= End(q, 0) /\ 0 < BufferSize /\ 0 <= BufferSize
        /\ Bytes(k, 0, 0) = <<>> /\ 0 - 0 = 0 /\ 0 + 0 = 0
    <3>1. AtCut(q, 0) /\ Len(q.ends) \in Nat /\ BufferSize \in Nat \ {0}
      BY <1>3, CutZero, OperationFacts, ConstantFacts
    <3>2. Bytes(k, 0, 0) = <<>>
      <4>1. k \in Nat /\ 0 \in Nat
        BY <1>0
      <4> HIDE DEF k
      <4> QED
        BY <4>1, BytesFacts
    <3> QED
      BY <3>1, <3>2 DEF End
  <2>2. StreamAt(r)'
    <3>1. q = Current(r)' /\ k = done'[r] + 1
      BY <1>1
    <3> HIDE DEF q, k
    <3>2. End(q, batch'[r]) = End(q, 0)
      BY <1>1, <1>2
    <3> QED
      BY <1>0, <1>1, <1>2, <2>1, <3>1, <3>2, StreamIs
  <2> QED
    BY <1>0, <1>1, <1>2, <2>2 DEF PhaseAt
<1>5. Sent(r) = 1 /\ Sent(r)' = 2 /\ Got(r) = 1 /\ Got(r)' = 2
  <2>1. pc'[r] \notin {"idle", "extend", "extended", "choose"}
    BY <1>1
  <2> QED
    BY <1>0, <1>1, <1>2, <2>1 DEF Sent, Got
<1>6. Place(m) = 1
  BY DEF Place, Flips
<1>7. \A x \in Rank : \A n \in OpMessages(k, x) :
        /\ Place(n) \in Nat /\ n.op = k
        /\ Place(n) = 1 <=> n = m
        /\ Place(n) = 1 => q.flips /\ q.sender = x
  BY <1>0, FirstPlaces
<1>8. ASSUME NEW S, S \subseteq OpMessages(k, t),
             \A n \in OpMessages(k, t) : n = m <=> n \in S
      PROVE  SentTo(t)' = SentTo(t) \cup S
  <2>1. ASSUME NEW n \in OpMessages(k, t)
        PROVE  Past(n, done'[r], Sent(r)') <=> Place(n) < Sent(r) \/ n \in S
    <3>1. Place(n) \in Nat /\ n.op = k /\ (Place(n) = 1 <=> n \in S)
      BY <1>0, <1>7, <1>8
    <3> QED
      BY <1>0, <1>1, <1>5, <3>1 DEF Past
  <2> QED
    BY <1>0, <1>1, <1>8, <2>1, SentMore
<1>9. ASSUME NEW S, S \subseteq OpMessages(k, r),
             \A n \in OpMessages(k, r) : n = m <=> n \in S
      PROVE  GotBy(r)' = GotBy(r) \cup S
  <2>1. ASSUME NEW n \in OpMessages(k, r)
        PROVE  Past(n, done'[r], Got(r)') <=> Place(n) < Got(r) \/ n \in S
    <3>1. Place(n) \in Nat /\ n.op = k /\ (Place(n) = 1 <=> n \in S)
      BY <1>0, <1>7, <1>9
    <3> QED
      BY <1>0, <1>1, <1>5, <3>1 DEF Past
  <2> QED
    BY <1>0, <1>1, <1>9, <2>1, GotMore
<1>10. ASSUME ~(q.flips /\ q.sender = t)
       PROVE  SentTo(t)' = SentTo(t)
  <2>1. \A n \in OpMessages(k, t) : n # m
    BY <1>0, <1>6, <1>7, <1>10
  <2>2. SentTo(t)' = SentTo(t) \cup {}
    BY <1>8, <2>1
  <2> QED
    BY <2>2
<1>11. ASSUME ~(q.flips /\ q.sender = r)
       PROVE  GotBy(r)' = GotBy(r)
  <2>1. \A n \in OpMessages(k, r) : n # m
    BY <1>6, <1>7, <1>11
  <2>2. GotBy(r)' = GotBy(r) \cup {}
    BY <1>9, <2>1
  <2> QED
    BY <2>2
<1>12. CASE ~q.flips
  <2>1. net' = net
    BY <1>12 DEF Choose
  <2> QED
    BY <1>1, <1>4, <1>10, <1>11, <1>12, <2>1, QuietStep
<1>13. CASE q.flips /\ Sends(r)
  <2>1. Arrived(r) /\ Consume(r)
    BY <1>13 DEF Choose
  <2>2. m \in OpMessages(k, r)
    BY <1>3, <1>13 DEF OpMessages, OpsMessages
  <2>3. GotBy(r)' = GotBy(r) \cup {m}
    <3> HIDE DEF m
    <3> QED
      BY <1>9, <2>2
  <2>4. SentTo(t)' = SentTo(t)
    BY <1>3, <1>10, <1>13
  <2>5. Head(net[r]) = m
    <3>1. \A n \in OpMessages(k, r) : Got(r) <= Place(n) => Place(m) <= Place(n)
      BY <1>5, <1>6
    <3>2. Got(r) <= Place(m)
      BY <1>5, <1>6
    <3> QED
      BY <1>0, <2>1, <2>2, <3>1, <3>2, HeadIs DEF Arrived
  <2> HIDE DEF m
  <2> QED
    BY <1>1, <1>4, <2>1, <2>3, <2>4, <2>5, ConsumeStep
<1>14. CASE q.flips /\ ~Sends(r)
  <2>1. Post(r, m)
    BY <1>14 DEF Choose
  <2>2. m \in OpMessages(k, t)
    BY <1>3, <1>14 DEF OpMessages, OpsMessages
  <2>3. SentTo(t)' = SentTo(t) \cup {m}
    <3> HIDE DEF m
    <3> QED
      BY <1>8, <2>2
  <2>4. GotBy(r)' = GotBy(r)
    BY <1>3, <1>11, <1>14
  <2>5. Sent(r) <= Place(m)
    BY <1>5, <1>6
  <2> HIDE DEF m
  <2> QED
    BY <1>1, <1>4, <2>1, <2>2, <2>3, <2>4, <2>5, PostStep
<1> QED
  BY <1>12, <1>13, <1>14

LEMMA Unmoved ==
  ASSUME IInv, NEW r \in Rank, Moves(r), net' = net, PhaseAt(r)',
         done'[r] = done[r], Sent(r)' = Sent(r), Got(r)' = Got(r)
  PROVE  IInv'
<1> DEFINE k == done[r] + 1
           t == Peer(r)
<1>0. t \in Rank /\ pc[r] # "idle" /\ program' = program
  BY PeerFacts DEF Moves
<1>1. \A x \in Rank : \A n \in OpMessages(k, x) : n.op = k /\ done[r] \in Nat
  BY <1>0, FirstPlaces
<1>2. SentTo(t)' = SentTo(t)
  <2>1. \A n \in OpMessages(k, t) :
          Past(n, done'[r], Sent(r)') <=> Place(n) < Sent(r) \/ n \in {}
    BY <1>0, <1>1 DEF Past
  <2>2. SentTo(t)' = SentTo(t) \cup {}
    BY <1>0, <2>1, SentMore
  <2> QED
    BY <2>2
<1>3. GotBy(r)' = GotBy(r)
  <2>1. \A n \in OpMessages(k, r) :
          Past(n, done'[r], Got(r)') <=> Place(n) < Got(r) \/ n \in {}
    BY <1>1 DEF Past
  <2>2. GotBy(r)' = GotBy(r) \cup {}
    BY <1>0, <2>1, GotMore
  <2> QED
    BY <2>2
<1> QED
  BY <1>2, <1>3, QuietStep

\* Where a rank is in a stream.
LEMMA AtStream ==
  ASSUME IInv, NEW r \in Rank, pc[r] = "stream"
  PROVE  LET q == Current(r)
         IN  /\ q \in Operation /\ q.ends \in Seq(Nat \ {0}) /\ Total(q) \in Nat
             /\ done[r] \in Nat /\ done[r] + 1 \in Nat
             /\ batch[r] \in 0 .. Len(q.ends) /\ Len(q.ends) \in Nat
             /\ offset[r] \in Nat /\ End(q, batch[r]) \in Nat
             /\ offset[r] <= End(q, batch[r]) /\ End(q, batch[r]) <= Total(q)
             /\ Todo(r) = End(q, batch[r]) - offset[r] /\ Todo(r) \in Nat
             /\ Len(wbuf[r]) \in Nat /\ Len(rbuf[r]) \in Nat
             /\ StreamAt(r) /\ PhaseAt(r) /\ TypeInv /\ pc[r] # "idle"
             /\ BufferSize \in Nat \ {0}
<1> DEFINE q == Current(r)
<1>0. pc[r] # "idle"
  OBVIOUS
<1>1. TypeInv /\ PhaseAt(r) /\ StreamAt(r) /\ q \in Operation /\ done[r] \in Nat
  BY <1>0, AtOperation DEF IInv, PhaseAt
<1>2. /\ q.ends \in Seq(Nat \ {0}) /\ Len(q.ends) \in Nat
      /\ \A b \in 0 .. Len(q.ends) : End(q, b) \in Nat
      /\ \A b, d \in 0 .. Len(q.ends) : b <= d => End(q, b) <= End(q, d)
      /\ Total(q) \in Nat
  BY <1>1, OperationFacts
<1>3. /\ batch[r] \in 0 .. Len(q.ends) /\ offset[r] <= End(q, batch[r])
      /\ Len(q.ends) \in 0 .. Len(q.ends) /\ offset[r] \in Nat
  BY <1>1, <1>2 DEF StreamAt, TypeInv
<1>4. End(q, batch[r]) \in Nat /\ End(q, batch[r]) <= Total(q)
  BY <1>2, <1>3 DEF Total
<1>5. Todo(r) = End(q, batch[r]) - offset[r]
  BY DEF Todo
<1> HIDE DEF q
<1>6. Todo(r) \in Nat /\ done[r] + 1 \in Nat
  BY <1>1, <1>3, <1>4, <1>5
<1>7. Len(wbuf[r]) \in Nat /\ Len(rbuf[r]) \in Nat
  BY Positions
<1> QED
  BY <1>0, <1>1, <1>2, <1>3, <1>4, <1>5, <1>6, <1>7, ConstantFacts DEF q

\* The phase of a rank that stays in its stream.
LEMMA StreamKept ==
  ASSUME IInv, NEW r \in Rank, pc[r] = "stream", pc'[r] = "stream",
         program' = program, done'[r] = done[r], StreamAt(r)'
  PROVE  PhaseAt(r)'
BY AtStream DEF PhaseAt, Current

LEMMA NextBatchStep ==
  ASSUME IInv, NEW r \in Rank, NextBatch(r)
  PROVE  IInv'
<1> DEFINE q == Current(r)
           b == batch[r]
<1>0. pc[r] = "stream" /\ Todo(r) = 0 /\ b < Len(q.ends)
  BY DEF NextBatch
<1>1. /\ q \in Operation /\ b \in 0 .. Len(q.ends) /\ Len(q.ends) \in Nat
      /\ offset[r] \in Nat /\ offset[r] = End(q, b) /\ StreamAt(r) /\ TypeInv
  BY <1>0, AtStream
<1>2. /\ Moves(r) /\ done'[r] = done[r] /\ pc'[r] = pc[r] /\ program' = program
      /\ batch'[r] = b + 1 /\ offset'[r] = offset[r] /\ wbuf'[r] = wbuf[r] /\ rbuf'[r] = rbuf[r]
      /\ Current(r)' = q /\ (Sends(r)' <=> Sends(r)) /\ net' = net
  BY <1>0, <1>1 DEF NextBatch, TypeInv, Moves, Current, Sends
<1>3. b + 1 \in 0 .. Len(q.ends) /\ b <= b + 1
  BY <1>0, <1>1
<1>4. End(q, b) <= End(q, b + 1)
  BY <1>1, <1>3, OperationFacts
<1>5. StreamAt(r)'
  <2> HIDE DEF q, b
  <2>1. b + 1 <= Len(q.ends) /\ offset[r] <= End(q, b + 1)
    BY <1>1, <1>3, <1>4
  <2> QED
    BY <1>1, <1>2, <2>1 DEF StreamAt, AtCut, Starts, Total, End, Bytes, q
<1>6. Sent(r)' = Sent(r) /\ Got(r)' = Got(r)
  BY <1>2 DEF Sent, Got
<1>7. PhaseAt(r)'
  BY <1>0, <1>2, <1>5, StreamKept
<1> QED
  BY <1>2, <1>6, <1>7, Unmoved

\* A piece is all that a rank passes between where it starts and where it stops.
LEMMA PiecePlaces ==
  ASSUME IInv, NEW r \in Rank, pc[r] # "idle", NEW x \in Rank,
         NEW o \in Starts(Current(r)), NEW m \in OpMessages(done[r] + 1, x)
  PROVE  /\ Place(m) < 2 + Stop(Current(r), o)
              <=> Place(m) < 2 + o \/ m = Piece(done[r] + 1, Current(r), o)
         /\ Place(m) < 2 + Total(Current(r))
<1> DEFINE q == Current(r)
           k == done[r] + 1
           n == Piece(k, q, o)
<1>1. /\ q \in Operation /\ k \in Nat /\ Place(m) \in Nat
      /\ Place(m) > 1 => \E p \in Starts(q) : m = Piece(k, q, p) /\ Place(m) = p + 2
  BY AtOperation, FirstPlaces
<1>2. /\ Stop(q, o) \in Nat /\ o \in Nat /\ o < Stop(q, o) /\ Total(q) \in Nat
      /\ \A p \in Starts(q) : o < p => Stop(q, o) <= p
      /\ \A p \in Starts(q) : p \in Nat /\ p < Total(q)
  BY <1>1, StartFacts
<1>3. Place(n) = o + 2
  BY <1>1, PieceFacts
<1>4. CASE Place(m) <= 1
  BY <1>1, <1>2, <1>4
<1>5. CASE Place(m) > 1
  <2>1. PICK p \in Starts(q) : m = Piece(k, q, p) /\ Place(m) = p + 2
    BY <1>1, <1>5
  <2>2. p \in Nat /\ p < Total(q) /\ (o < p => Stop(q, o) <= p)
    BY <1>2
  <2>3. p = o <=> m = n
    BY <1>2, <1>3, <2>1, <2>2
  <2> HIDE DEF n, k, q
  <2>4. Place(m) < 2 + Stop(q, o) <=> Place(m) < 2 + o \/ p = o
    BY <1>2, <2>1, <2>2
  <2>5. Place(m) < 2 + Total(q)
    BY <1>2, <2>1, <2>2
  <2> QED
    BY <2>3, <2>4, <2>5 DEF n, k, q
<1> QED
  BY <1>1, <1>4, <1>5

\* An operation has no message at a place after its last byte.
LEMMA LastPlace ==
  ASSUME IInv, NEW r \in Rank, pc[r] # "idle", NEW x \in Rank,
         NEW m \in OpMessages(done[r] + 1, x)
  PROVE  /\ Place(m) \in Nat /\ Place(m) < 2 + Total(Current(r))
         /\ Current(r).sender = x => Place(m) < 2
<1> DEFINE q == Current(r)
<1>1. /\ q \in Operation /\ Place(m) \in Nat
      /\ Place(m) > 1 => q.sender # x /\ \E p \in Starts(q) : Place(m) = p + 2
  BY AtOperation, FirstPlaces
<1>2. Total(q) \in Nat /\ \A p \in Starts(q) : p \in Nat /\ p < Total(q)
  BY <1>1, StartFacts, OperationFacts
<1> HIDE DEF q
<1>3. Place(m) < 2 + Total(q)
  BY <1>1, <1>2
<1>4. q.sender = x => Place(m) < 2
  BY <1>1
<1> QED
  BY <1>1, <1>3, <1>4 DEF q

\* The sender passes a piece, and nothing else; what it receives is not a piece.
LEMMA PieceSent ==
  ASSUME IInv, NEW r \in Rank, Moves(r), Sends(r), PhaseAt(r)',
         NEW o \in Starts(Current(r)),
         Sent(r) = 2 + o, Got(r) = 2,
         Post(r, Piece(done[r] + 1, Current(r), o)),
         \/ done'[r] = done[r] /\ Sent(r)' = 2 + Stop(Current(r), o) /\ Got(r)' = 2
         \/ /\ done'[r] = done[r] + 1 /\ Sent(r)' = 0 /\ Got(r)' = 0
            /\ Stop(Current(r), o) = Total(Current(r))
  PROVE  IInv'
<1> DEFINE q == Current(r)
           k == done[r] + 1
           t == Peer(r)
           m == Piece(k, q, o)
           S == {m}
<1>0. t \in Rank /\ t # r /\ pc[r] # "idle" /\ program' = program
  BY PeerFacts DEF Moves
<1>1. q \in Operation /\ done[r] \in Nat /\ q.sender = r /\ k \in Nat /\ q = program[k]
  BY <1>0, AtOperation
<1>2. Stop(q, o) \in Nat /\ Total(q) \in Nat
  BY <1>1, StartFacts
<1>3. m \in OpMessages(k, t) /\ Place(m) = o + 2 /\ o \in Nat
  BY <1>0, <1>1, PieceFacts DEF OpMessages, OpsMessages
<1>4. S \subseteq OpMessages(k, t)
  BY <1>3
<1>5. ASSUME NEW n \in OpMessages(k, t)
      PROVE  Past(n, done'[r], Sent(r)') <=> Place(n) < Sent(r) \/ n \in S
  <2>1. /\ Place(n) \in Nat /\ n.op = k /\ Place(n) < 2 + Total(q)
        /\ Place(n) < 2 + Stop(q, o) <=> Place(n) < 2 + o \/ n \in S
    BY <1>0, PiecePlaces, LastPlace, FirstPlaces
  <2> HIDE DEF S, q
  <2>2. CASE done'[r] = done[r] /\ Sent(r)' = 2 + Stop(q, o)
    BY <1>1, <2>1, <2>2 DEF Past
  <2>3. CASE done'[r] = done[r] + 1 /\ Stop(q, o) = Total(q)
    BY <1>1, <2>1, <2>3 DEF Past
  <2> QED
    BY <2>2, <2>3 DEF q
<1>6. ASSUME NEW n \in OpMessages(k, r)
      PROVE  Past(n, done'[r], Got(r)') <=> Place(n) < Got(r) \/ n \in {}
  <2>1. Place(n) \in Nat /\ n.op = k /\ Place(n) < 2
    BY <1>0, <1>1, LastPlace, FirstPlaces
  <2> QED
    BY <1>1, <2>1 DEF Past
<1>7. GotBy(r)' = GotBy(r) \cup {}
  BY <1>0, <1>6, GotMore
<1>8. SentTo(t)' = SentTo(t) \cup S
  <2> HIDE DEF S
  <2> QED
    BY <1>0, <1>4, <1>5, SentMore
<1>9. Sent(r) <= Place(m)
  BY <1>3
<1> HIDE DEF m
<1> QED
  BY <1>3, <1>7, <1>8, <1>9, PostStep DEF m

LEMMA SendDataStep ==
  ASSUME IInv, NEW r \in Rank, SendData(r)
  PROVE  IInv'
<1> DEFINE q == Current(r)
           k == done[r] + 1
           l == Len(wbuf[r])
           n == IF Fills(r) THEN BufferSize - l ELSE Todo(r)
           f == offset[r] - l
           b == wbuf[r] \o Bytes(k, offset[r], n)
<1>0. pc[r] = "stream" /\ Sends(r) /\ Todo(r) > 0
  BY DEF SendData
<1>1. /\ q \in Operation /\ Total(q) \in Nat /\ k \in Nat /\ done[r] \in Nat
      /\ offset[r] \in Nat /\ End(q, batch[r]) \in Nat
      /\ offset[r] <= End(q, batch[r]) /\ End(q, batch[r]) <= Total(q)
      /\ Todo(r) = End(q, batch[r]) - offset[r]
      /\ l \in Nat /\ StreamAt(r) /\ TypeInv /\ pc[r] # "idle" /\ BufferSize \in Nat \ {0}
  BY <1>0, AtStream
<1>2. /\ l < BufferSize /\ l <= offset[r] /\ wbuf[r] = Bytes(k, f, l) /\ AtCut(q, f)
      /\ rbuf[r] = <<>> /\ batch[r] <= Len(q.ends) /\ f \in Nat
  BY <1>0, <1>1 DEF StreamAt
<1>3. n \in Nat /\ n > 0 /\ n <= Todo(r) /\ (Fills(r) => l + n = BufferSize) /\ (~Fills(r) => l + n < BufferSize)
  <2>1. Todo(r) \in Nat /\ Todo(r) > 0 /\ l \in Nat /\ l < BufferSize /\ BufferSize \in Nat
        /\ (Fills(r) <=> BufferSize - l <= Todo(r))
    BY <1>0, <1>1, <1>2 DEF Fills
  <2> HIDE DEF l
  <2>2. CASE Fills(r)
    BY <2>1, <2>2
  <2>3. CASE ~Fills(r)
    BY <2>1, <2>3
  <2> QED
    BY <2>2, <2>3
<1>4. b = Bytes(k, f, l + n)
  <2>1. f + l = offset[r]
    BY <1>1
  <2>2. k \in Nat /\ f \in Nat /\ l \in Nat /\ n \in Nat /\ wbuf[r] = Bytes(k, f, l)
    BY <1>1, <1>2, <1>3
  <2> HIDE DEF k, l, n, f
  <2>3. Joined(Bytes(k, f, l), Bytes(k, f + l, n)) = Bytes(k, f, l + n)
    BY <2>2, BytesJoin
  <2> QED
    BY <2>1, <2>2, <2>3 DEF Joined
<1>5. /\ offset' = [offset EXCEPT ![r] = @ + n]
      /\ wbuf' = [wbuf EXCEPT ![r] = IF Fills(r) THEN <<>> ELSE b]
      /\ Fills(r) => Flush(r, b)
      /\ ~Fills(r) => net' = net
      /\ UNCHANGED <<program, done, pc, batch, rbuf>>
  BY DEF SendData
<1> HIDE DEF n, b
<1>6. b \in Seq(Byte) /\ Len(b) = l + n /\ offset[r] + n \in Nat /\ <<>> \in Seq(Byte) /\ b # <<>>
  <2> DEFINE e == l + n
  <2>1. e \in Nat /\ e # 0 /\ k \in Nat /\ f \in Nat /\ offset[r] + n \in Nat
    <3>1. l \in Nat /\ n \in Nat /\ n > 0 /\ k \in Nat /\ f \in Nat /\ offset[r] \in Nat
      BY <1>1, <1>2, <1>3
    <3> HIDE DEF l, k, f
    <3> QED
      BY <3>1
  <2>2. b = Bytes(k, f, e)
    BY <1>4
  <2> HIDE DEF k, l, f, e
  <2>3. b \in Seq(Byte) /\ Len(b) = e /\ b # <<>>
    BY <2>1, <2>2, BytesFacts
  <2> QED
    BY <2>1, <2>3 DEF e
<1>7. /\ Moves(r) /\ done'[r] = done[r] /\ pc'[r] = "stream" /\ program' = program
      /\ offset'[r] = offset[r] + n /\ wbuf'[r] = IF Fills(r) THEN <<>> ELSE b
      /\ rbuf'[r] = <<>> /\ batch'[r] = batch[r]
      /\ Current(r)' = q /\ (Sends(r)' <=> TRUE)
  BY <1>0, <1>1, <1>2, <1>5, <1>6 DEF TypeInv, Moves, Current, Sends
<1>8. Sent(r) = 2 + f /\ Got(r) = 2 /\ Got(r)' = 2
      /\ Sent(r)' = 2 + (offset'[r] - Len(wbuf'[r]))
  BY <1>0, <1>7 DEF Sent, Got
<1>9. offset'[r] <= End(q, batch[r]) /\ offset'[r] <= Total(q)
  BY <1>1, <1>3, <1>7
<1>10. CASE ~Fills(r)
  <2>1. wbuf'[r] = b /\ offset'[r] = offset[r] + n /\ offset[r] + n - (l + n) = f
    BY <1>1, <1>3, <1>7, <1>10
  <2>2. /\ Len(wbuf'[r]) = l + n /\ offset'[r] - Len(wbuf'[r]) = f
        /\ l + n < BufferSize /\ l + n <= offset'[r]
    <3>1. Len(wbuf'[r]) = l + n /\ l + n < BufferSize
      BY <1>3, <1>6, <1>10, <2>1
    <3>2. l + n <= offset[r] + n
      BY <1>1, <1>2, <1>3
    <3>3. offset'[r] - Len(wbuf'[r]) = f
      <4>1. /\ offset[r] \in Nat /\ l \in Nat /\ n \in Nat
            /\ offset'[r] = offset[r] + n /\ Len(wbuf'[r]) = l + n
        BY <1>1, <1>2, <1>3, <2>1, <3>1
      <4> HIDE DEF l
      <4> QED
        BY <4>1
    <3> HIDE DEF l, f
    <3> QED
      BY <2>1, <3>1, <3>2, <3>3
  <2>3. StreamAt(r)'
    <3>1. wbuf'[r] = Bytes(done'[r] + 1, offset'[r] - Len(wbuf'[r]), Len(wbuf'[r]))
      BY <1>4, <1>7, <2>1, <2>2
    <3>2. AtCut(q, offset'[r] - Len(wbuf'[r]))
      BY <1>2, <2>2
    <3> HIDE DEF q, l, f, k
    <3> QED
      BY <1>1, <1>2, <1>7, <1>9, <2>2, <3>1, <3>2 DEF StreamAt, AtCut, Starts, Total, End, Bytes
  <2>4. PhaseAt(r)'
    BY <1>0, <1>7, <2>3, StreamKept
  <2>5. Sent(r)' = Sent(r) /\ Got(r)' = Got(r)
    BY <1>8, <2>2
  <2> QED
    BY <1>5, <1>7, <1>10, <2>4, <2>5, Unmoved
<1>11. CASE Fills(r)
  <2>1. wbuf'[r] = <<>> /\ Len(wbuf'[r]) = 0 /\ l + n = BufferSize
    BY <1>3, <1>7, <1>11
  <2>2. offset'[r] = f + BufferSize
    <3>1. f + (l + n) = offset[r] + n
      BY <1>1, <1>3
    <3> QED
      BY <1>7, <2>1, <3>1
  <2>3. f < Total(q)
    BY <1>1, <1>2, <1>9, <2>2
  <2>4. f \in Starts(q)
    BY <1>1, <1>2, <2>3 DEF AtCut
  <2>5. Stop(q, f) = f + BufferSize /\ Stop(q, f) - f = BufferSize
    BY <1>1, <1>2, <1>9, <2>2 DEF Stop
  <2>6. Piece(k, q, f) = Data(k, b)
    BY <1>4, <2>1, <2>5 DEF Piece
  <2>7. Post(r, Piece(k, q, f))
    BY <1>5, <1>6, <1>11, <2>6 DEF Flush
  <2>8. StreamAt(r)'
    <3>0. q = Current(r)' /\ k = done'[r] + 1
      BY <1>7
    <3>1. AtCut(q, f + BufferSize)
      BY <1>1, <2>4, <2>5, StartFacts
    <3>2. offset'[r] - Len(wbuf'[r]) = f + BufferSize /\ 0 <= offset'[r] /\ 0 < BufferSize
      BY <1>1, <1>2, <2>1, <2>2
    <3>3. wbuf'[r] = Bytes(done'[r] + 1, offset'[r] - Len(wbuf'[r]), Len(wbuf'[r]))
      <4>1. f + BufferSize \in Nat /\ 0 \in Nat
        BY <1>1, <1>2
      <4> HIDE DEF k, f
      <4>2. Bytes(k, f + BufferSize, 0) = <<>>
        BY <1>1, <4>1, BytesFacts
      <4> QED
        BY <1>7, <2>1, <3>2, <4>2 DEF k, f
    <3> HIDE DEF q, l, f, k
    <3> QED
      BY <1>1, <1>2, <1>7, <1>9, <2>1, <3>0, <3>1, <3>2, <3>3, StreamIs
  <2>9. PhaseAt(r)'
    BY <1>0, <1>7, <2>8, StreamKept
  <2>10. Sent(r)' = 2 + Stop(q, f)
    <3>1. offset'[r] - Len(wbuf'[r]) = f + BufferSize
      BY <1>1, <1>2, <2>1, <2>2
    <3> QED
      BY <1>8, <2>5, <3>1
  <2> HIDE DEF f
  <2> QED
    BY <1>0, <1>7, <1>8, <2>4, <2>7, <2>9, <2>10, PieceSent
<1> QED
  BY <1>10, <1>11

LEMMA RecvDataStep ==
  ASSUME IInv, NEW r \in Rank, RecvData(r)
  PROVE  IInv'
<1> DEFINE q == Current(r)
           k == done[r] + 1
           t == Peer(r)
           l == Len(rbuf[r])
           d == Todo(r)
           p == offset[r] + l
           m == Piece(k, q, p)
<1>0. pc[r] = "stream" /\ ~Sends(r) /\ d > 0 /\ t \in Rank
  BY PeerFacts DEF RecvData
<1>1. /\ q \in Operation /\ Total(q) \in Nat /\ k \in Nat /\ done[r] \in Nat
      /\ offset[r] \in Nat /\ End(q, batch[r]) \in Nat
      /\ offset[r] <= End(q, batch[r]) /\ End(q, batch[r]) <= Total(q)
      /\ d = End(q, batch[r]) - offset[r] /\ d \in Nat
      /\ l \in Nat /\ StreamAt(r) /\ TypeInv /\ pc[r] # "idle" /\ BufferSize \in Nat \ {0}
  BY <1>0, AtStream
<1>2. /\ l <= BufferSize /\ rbuf[r] = Bytes(k, offset[r], l) /\ AtCut(q, p) /\ p \in Nat
      /\ wbuf[r] = <<>> /\ batch[r] <= Len(q.ends)
  BY <1>0, <1>1 DEF StreamAt
<1>3. q.sender # r /\ q.sender = t /\ q = program[k]
  BY <1>0, <1>1, AtOperation DEF Rank, Peer
<1>4. Sent(r) = 2 /\ Got(r) = 2 + p
  BY <1>0 DEF Sent, Got
<1>5. CASE Suffices(r)
  <2>1. l >= d /\ l - d \in Nat /\ offset[r] + d = End(q, batch[r]) /\ offset[r] + d \in Nat
    BY <1>1, <1>5 DEF Suffices
  <2>2. /\ rbuf' = [rbuf EXCEPT ![r] = SubSeq(@, d + 1, Len(@))]
        /\ offset' = [offset EXCEPT ![r] = @ + d] /\ net' = net
        /\ UNCHANGED <<program, done, pc, batch, wbuf>>
    BY <1>5 DEF RecvData
  <2>3. SubSeq(rbuf[r], d + 1, l) = Bytes(k, offset[r] + d, l - d)
    <3> DEFINE f == offset[r]
    <3>1. k \in Nat /\ l \in Nat /\ d \in Nat /\ d <= l /\ f \in Nat
      BY <1>1, <2>1
    <3> HIDE DEF k, l, d, f
    <3>2. Dropped(Bytes(k, f, l), d) = Bytes(k, f + d, l - d)
      BY <3>1, BytesRest
    <3>3. Dropped(rbuf[r], d) = SubSeq(rbuf[r], d + 1, l)
      BY DEF Dropped, l
    <3> QED
      BY <1>2, <3>2, <3>3 DEF f
  <2>4. /\ Bytes(k, offset[r] + d, l - d) \in Seq(Byte)
        /\ Len(Bytes(k, offset[r] + d, l - d)) = l - d
    <3> DEFINE x == offset[r] + d
               y == l - d
    <3>1. x \in Nat /\ y \in Nat /\ k \in Nat
      BY <1>1, <2>1
    <3> HIDE DEF x, y, k
    <3>2. Bytes(k, x, y) \in Seq(Byte) /\ Len(Bytes(k, x, y)) = y
      BY <3>1, BytesFacts
    <3> QED
      BY <3>2 DEF x, y
  <2>5. /\ rbuf'[r] = Bytes(k, offset[r] + d, l - d) /\ Len(rbuf'[r]) = l - d
        /\ offset'[r] = offset[r] + d
    <3>1. rbuf'[r] = SubSeq(rbuf[r], d + 1, l) /\ offset'[r] = offset[r] + d
      BY <1>1, <2>2 DEF TypeInv
    <3> QED
      BY <2>3, <2>4, <3>1
  <2>6. /\ Moves(r) /\ done'[r] = done[r] /\ pc'[r] = "stream" /\ program' = program
        /\ wbuf'[r] = <<>> /\ batch'[r] = batch[r]
        /\ Current(r)' = q /\ (Sends(r)' <=> FALSE)
    BY <1>0, <1>1, <1>2, <2>1, <2>2, <2>4, <2>5 DEF TypeInv, Moves, Current, Sends
  <2>7. /\ offset'[r] <= End(q, batch[r]) /\ Len(rbuf'[r]) <= BufferSize
        /\ offset'[r] + Len(rbuf'[r]) = p
        /\ rbuf'[r] = Bytes(done'[r] + 1, offset'[r], Len(rbuf'[r]))
    <3>1. (offset[r] + d) + (l - d) = p /\ l - d <= BufferSize /\ offset[r] + d <= End(q, batch[r])
      <4>1. /\ offset[r] \in Nat /\ l \in Nat /\ d \in Nat /\ l <= BufferSize
            /\ BufferSize \in Nat /\ offset[r] + d = End(q, batch[r])
        BY <1>1, <1>2, <2>1
      <4> HIDE DEF l, d, q
      <4> QED
        BY <4>1
    <3> QED
      BY <2>5, <2>6, <3>1
  <2>8. StreamAt(r)'
    <3> HIDE DEF q, k, l, d, p
    <3> QED
      BY <1>1, <1>2, <2>6, <2>7 DEF StreamAt, AtCut, Starts, Total, End, Bytes
  <2>9. PhaseAt(r)'
    BY <1>0, <2>6, <2>8, StreamKept
  <2>10. Sent(r)' = 2 /\ Got(r)' = 2 + p
    BY <2>6, <2>7 DEF Sent, Got
  <2> QED
    BY <1>4, <2>2, <2>6, <2>9, <2>10, Unmoved
<1>6. CASE ~Suffices(r)
  <2>1. p < Total(q)
    BY <1>1, <1>6 DEF Suffices
  <2>2. p \in Starts(q)
    BY <1>1, <1>2, <2>1 DEF AtCut
  <2>3. /\ Stop(q, p) \in Nat /\ p < Stop(q, p) /\ Stop(q, p) <= p + BufferSize
        /\ AtCut(q, Stop(q, p)) /\ Stop(q, p) - p \in Nat
    BY <1>1, <2>2, StartFacts
  <2>4. m \in OpMessages(k, r)
    BY <1>3, <2>2 DEF OpMessages, OpsMessages
  <2>5. Place(m) = p + 2 /\ m.bytes = Bytes(k, p, Stop(q, p) - p)
    BY SMTT(30), <1>1, <2>2, PieceFacts
  <2>6. /\ Arrived(r) /\ Consume(r)
        /\ rbuf' = [rbuf EXCEPT ![r] = Head(net[r]).bytes]
        /\ offset' = [offset EXCEPT ![r] = @ + l]
        /\ UNCHANGED <<program, done, pc, batch, wbuf>>
    BY <1>6 DEF RecvData, Unread
  <2>7. Head(net[r]) = m
    <3>1. \A n \in OpMessages(k, r) : Got(r) <= Place(n) => Place(m) <= Place(n)
      BY <1>1, <1>2, <1>4, <2>5
    <3>2. Got(r) <= Place(m)
      BY <1>1, <1>2, <1>4, <2>5
    <3> HIDE DEF m
    <3> QED
      BY <1>1, <2>4, <2>6, <3>1, <3>2, HeadIs DEF Arrived
  <2>8. /\ Bytes(k, p, Stop(q, p) - p) \in Seq(Byte)
        /\ Len(Bytes(k, p, Stop(q, p) - p)) = Stop(q, p) - p
    <3> DEFINE y == Stop(q, p) - p
    <3>1. p \in Nat /\ y \in Nat /\ k \in Nat
      BY <1>1, <1>2, <2>3
    <3> HIDE DEF p, y, k
    <3>2. Bytes(k, p, y) \in Seq(Byte) /\ Len(Bytes(k, p, y)) = y
      BY <3>1, BytesFacts
    <3> QED
      BY <3>2 DEF y
  <2>9. /\ rbuf'[r] = Bytes(k, p, Stop(q, p) - p) /\ Len(rbuf'[r]) = Stop(q, p) - p
        /\ offset'[r] = p
    <3> HIDE DEF m
    <3> QED
      BY <1>1, <2>5, <2>6, <2>7, <2>8 DEF TypeInv
  <2>10. /\ Moves(r) /\ done'[r] = done[r] /\ pc'[r] = "stream" /\ program' = program
         /\ wbuf'[r] = <<>> /\ batch'[r] = batch[r]
         /\ Current(r)' = q /\ (Sends(r)' <=> FALSE)
    <3> HIDE DEF m
    <3> QED
      BY <1>0, <1>1, <1>2, <2>6, <2>8, <2>9 DEF TypeInv, Moves, Current, Sends
  <2>11. /\ offset'[r] <= End(q, batch[r]) /\ Len(rbuf'[r]) <= BufferSize
         /\ offset'[r] + Len(rbuf'[r]) = Stop(q, p)
         /\ rbuf'[r] = Bytes(done'[r] + 1, offset'[r], Len(rbuf'[r]))
    <3>1. /\ p + (Stop(q, p) - p) = Stop(q, p) /\ Stop(q, p) - p <= BufferSize
          /\ p <= End(q, batch[r])
      <4>1. p <= End(q, batch[r])
        BY <1>1, <1>6 DEF Suffices
      <4>2. /\ p \in Nat /\ Stop(q, p) \in Nat /\ Stop(q, p) <= p + BufferSize
            /\ BufferSize \in Nat
        BY <1>1, <1>2, <2>3
      <4> DEFINE z == Stop(q, p)
      <4> HIDE DEF p, z
      <4>3. p + (z - p) = z /\ z - p <= BufferSize
        BY <4>2 DEF z
      <4> QED
        BY <4>1, <4>3 DEF z
    <3> QED
      BY <2>9, <2>10, <3>1
  <2>12. StreamAt(r)'
    <3> HIDE DEF q, k, l, d, p, m
    <3> QED
      BY <1>1, <1>2, <2>3, <2>10, <2>11 DEF StreamAt, AtCut, Starts, Total, End, Bytes
  <2>13. PhaseAt(r)'
    BY <1>0, <2>10, <2>12, StreamKept
  <2>14. Sent(r)' = 2 /\ Got(r)' = 2 + Stop(q, p)
    BY <2>10, <2>11 DEF Sent, Got
  <2>15. SentTo(t)' = SentTo(t)
    <3>1. ASSUME NEW n \in OpMessages(k, t)
          PROVE  Past(n, done'[r], Sent(r)') <=> Place(n) < Sent(r) \/ n \in {}
      <4>1. n.op = k
        BY <1>0, <1>1, FirstPlaces
      <4> QED
        BY <1>1, <1>4, <2>10, <2>14, <4>1 DEF Past
    <3>2. SentTo(t)' = SentTo(t) \cup {}
      BY <1>1, <2>10, <3>1, SentMore
    <3> QED
      BY <3>2
  <2>16. GotBy(r)' = GotBy(r) \cup {m}
    <3> DEFINE S == {m}
    <3>1. ASSUME NEW n \in OpMessages(k, r)
          PROVE  Past(n, done'[r], Got(r)') <=> Place(n) < Got(r) \/ n \in S
      <4>1. /\ n.op = k
            /\ Place(n) < 2 + Stop(q, p) <=> Place(n) < 2 + p \/ n \in S
        BY <1>1, <2>2, PiecePlaces, FirstPlaces
      <4> HIDE DEF S, q, p
      <4> QED
        BY <1>1, <1>4, <2>10, <2>14, <4>1 DEF Past
    <3>2. S \subseteq OpMessages(k, r)
      BY <2>4
    <3> HIDE DEF S
    <3>3. GotBy(r)' = GotBy(r) \cup S
      BY <1>1, <2>10, <3>1, <3>2, GotMore
    <3> QED
      BY <3>3 DEF S
  <2> HIDE DEF m
  <2> QED
    BY <2>6, <2>7, <2>10, <2>13, <2>15, <2>16, ConsumeStep
<1> QED
  BY <1>5, <1>6

LEMMA ReturnStep ==
  ASSUME IInv, NEW r \in Rank, Return(r)
  PROVE  IInv'
<1> DEFINE q == Current(r)
           k == done[r] + 1
           t == Peer(r)
           l == Len(wbuf[r])
           f == offset[r] - l
<1>0. pc[r] = "stream" /\ Todo(r) = 0 /\ batch[r] = Len(q.ends) /\ t \in Rank
  BY PeerFacts DEF Return
<1>1. /\ q \in Operation /\ Total(q) \in Nat /\ k \in Nat /\ done[r] \in Nat
      /\ offset[r] = Total(q) /\ offset[r] \in Nat
      /\ l \in Nat /\ Len(rbuf[r]) \in Nat
      /\ StreamAt(r) /\ TypeInv /\ PhaseAt(r) /\ pc[r] # "idle" /\ BufferSize \in Nat \ {0}
  BY <1>0, AtStream DEF Total
<1>2. k \in 1 .. Len(program) /\ (Sends(r) <=> q.sender = r) /\ (Sends(r) <=> q.sender # t)
  BY <1>1, AtOperation
<1>3. k \in 0 .. MaxOps
  BY <1>1, ConstantFacts DEF PhaseAt
<1>4. /\ program' = program /\ pc' = [pc EXCEPT ![r] = "idle"] /\ done' = [done EXCEPT ![r] = k]
      /\ batch' = batch /\ offset' = offset /\ rbuf' = rbuf
      /\ Sends(r) => Flush(r, wbuf[r]) /\ wbuf' = [wbuf EXCEPT ![r] = <<>>]
      /\ ~Sends(r) => wbuf' = wbuf /\ net' = net
  BY <1>1 DEF Return, LastFlush, TypeInv
<1>5. rbuf[r] = <<>>
  <2>1. CASE Sends(r)
    BY <1>1, <2>1 DEF StreamAt
  <2>2. CASE ~Sends(r)
    <3>1. AtCut(q, offset[r] + Len(rbuf[r])) /\ rbuf[r] \in Seq(Byte)
      BY <1>1, <2>2 DEF StreamAt, TypeInv
    <3>2. offset[r] + Len(rbuf[r]) <= Total(q)
      <4>1. \A o \in Starts(q) : o <= Total(q)
        BY <1>1, StartFacts
      <4> QED
        BY <1>1, <3>1, <4>1 DEF AtCut
    <3>3. Len(rbuf[r]) = 0
      BY <1>1, <3>2
    <3> QED
      BY <3>1, <3>3, EmptySeq
  <2> QED
    BY <2>1, <2>2
<1>6. wbuf'[r] = <<>>
  <2>1. CASE Sends(r)
    BY <1>1, <1>4, <2>1 DEF TypeInv
  <2>2. CASE ~Sends(r)
    BY <1>1, <1>4, <2>2 DEF StreamAt
  <2> QED
    BY <2>1, <2>2
<1>7. Moves(r) /\ done'[r] = k /\ pc'[r] = "idle" /\ rbuf'[r] = <<>>
  <2>1. <<>> \in Seq(Byte)
    OBVIOUS
  <2>2. done'[r] = k /\ pc'[r] = "idle" /\ rbuf'[r] = <<>> /\ wbuf' = [wbuf EXCEPT ![r] = wbuf'[r]]
    BY <1>1, <1>4, <1>5 DEF TypeInv
  <2> QED
    BY <1>1, <1>3, <1>4, <1>6, <2>1, <2>2 DEF TypeInv, Moves
<1>8. PhaseAt(r)'
  <2>1. k <= Len(program)
    BY <1>2
  <2> QED
    BY <1>4, <1>6, <1>7, <2>1 DEF PhaseAt
<1>9. Sent(r)' = 0 /\ Got(r)' = 0
  BY <1>7 DEF Sent, Got
<1>10. GotBy(r)' = GotBy(r)
  <2>1. ASSUME NEW n \in OpMessages(k, r)
        PROVE  Past(n, done'[r], Got(r)') <=> Place(n) < Got(r) \/ n \in {}
    <3>1. /\ Place(n) \in Nat /\ n.op = k /\ Place(n) < 2 + Total(q)
          /\ q.sender = r => Place(n) < 2
      BY <1>1, LastPlace, FirstPlaces
    <3>2. Got(r) = IF Sends(r) THEN 2 ELSE 2 + Total(q)
      BY <1>0, <1>1, <1>5 DEF Got
    <3> HIDE DEF q
    <3> QED
      BY <1>1, <1>2, <1>7, <3>1, <3>2 DEF Past
  <2>2. GotBy(r)' = GotBy(r) \cup {}
    BY <1>1, <1>4, <1>7, <1>9, <2>1, GotMore
  <2> QED
    BY <2>2
<1>11. CASE Sends(r) /\ wbuf[r] # <<>>
  <2>1. /\ l < BufferSize /\ l <= offset[r] /\ wbuf[r] = Bytes(k, f, l) /\ AtCut(q, f)
        /\ f \in Nat /\ wbuf[r] \in Seq(Byte)
    BY <1>1, <1>11 DEF StreamAt, TypeInv
  <2>2. l # 0
    BY <1>11, <2>1, EmptySeq
  <2>3. f \in Starts(q) /\ f + l = Total(q)
    BY <1>1, <2>1, <2>2 DEF AtCut
  <2>4. Stop(q, f) = Total(q) /\ Stop(q, f) - f = l
    BY <1>1, <2>1, <2>3 DEF Stop
  <2>5. Post(r, Piece(k, q, f))
    BY <1>4, <1>11, <2>1, <2>4 DEF Flush, Piece
  <2>6. Sent(r) = 2 + f /\ Got(r) = 2
    BY <1>0, <1>11 DEF Sent, Got
  <2> HIDE DEF f
  <2> QED
    BY <1>7, <1>8, <1>9, <1>11, <2>3, <2>4, <2>5, <2>6, PieceSent
<1>12. CASE ~Sends(r) \/ wbuf[r] = <<>>
  <2>1. net' = net
    BY <1>4, <1>12 DEF Flush
  <2>2. SentTo(t)' = SentTo(t)
    <3>1. ASSUME NEW n \in OpMessages(k, t)
          PROVE  Past(n, done'[r], Sent(r)') <=> Place(n) < Sent(r) \/ n \in {}
      <4>1. /\ Place(n) \in Nat /\ n.op = k /\ Place(n) < 2 + Total(q)
            /\ q.sender = t => Place(n) < 2
        BY <1>0, <1>1, LastPlace, FirstPlaces
      <4>2. Sent(r) = IF Sends(r) THEN 2 + Total(q) ELSE 2
        <5>1. Sends(r) => wbuf[r] = <<>> /\ Len(wbuf[r]) = 0
          BY <1>12
        <5> QED
          BY <1>0, <1>1, <5>1 DEF Sent
      <4> HIDE DEF q
      <4> QED
        BY <1>1, <1>2, <1>7, <4>1, <4>2 DEF Past
    <3>2. SentTo(t)' = SentTo(t) \cup {}
      BY <1>1, <1>4, <1>7, <1>9, <3>1, SentMore
    <3> QED
      BY <3>2
  <2> QED
    BY <1>7, <1>8, <1>10, <2>1, <2>2, QuietStep
<1> QED
  BY <1>11, <1>12

\* A rank that calls an operation is past no message for it, old or new.
LEMMA CallKeeps ==
  ASSUME IInv, TypeInv', NEW n \in Nat, n = Len(program), Len(program') \in {n, n + 1},
         \A k \in 1 .. n : program'[k] = program[k],
         NEW x \in Rank, NEW y \in Rank, NEW v \in Nat, NEW w \in Nat, NEW d \in Nat, d <= n,
         \/ w = v /\ (d = n => v = 0)
         \/ v = 0 /\ w = 1 /\ d + 1 <= Len(program') /\ ~program'[d + 1].extends
  PROVE  {m \in Messages(y)' : Past(m, d, w)} = {m \in Messages(y) : Past(m, d, v)}
<1>0. TypeInv /\ Len(program') \in Nat
  BY DEF IInv
<1>1. \A k \in 1 .. Len(program') : program'[k] \in Operation /\ k \in Nat
  BY <1>0, ElementOfSeq DEF TypeInv
<1>2. ASSUME NEW k \in 1 .. Len(program'), NEW m \in OpsMessages(program'[k], k, y)
      PROVE  m.op = k /\ Place(m) \in Nat /\ (Place(m) = 0 => program'[k].extends)
  <2>1. /\ m.op = k /\ Place(m) \in Nat
        /\ \/ program'[k].extends /\ Place(m) = 0
           \/ Place(m) = 1
           \/ \E o \in Starts(program'[k]) : Place(m) = o + 2
    BY <1>1, OpsMessageFacts
  <2>2. \A o \in Starts(program'[k]) : o \in Nat
    BY <1>1, StartFacts
  <2> QED
    BY <2>1, <2>2
<1>3. Messages(y)' = UNION {OpsMessages(program'[k], k, y) : k \in 1 .. Len(program')}
  BY DEF Messages, OpMessages, OpsMessages, Piece, Stop, Starts, Total, End, Bytes, Data, Extension, Flips
<1>4. Messages(y) = UNION {OpsMessages(program[k], k, y) : k \in 1 .. n}
  BY DEF Messages, OpMessages
<1>5. Messages(y) \subseteq Messages(y)'
  <2>1. \A k \in 1 .. n : k \in 1 .. Len(program')
    BY <1>0
  <2> QED
    BY <1>3, <1>4, <2>1
<1>6. ASSUME NEW m \in Messages(y)'
      PROVE  Past(m, d, w) <=> m \in Messages(y) /\ Past(m, d, v)
  <2>1. PICK k \in 1 .. Len(program') : m \in OpsMessages(program'[k], k, y)
    BY <1>3
  <2>2. /\ m.op = k /\ Place(m) \in Nat /\ k \in Nat
        /\ Place(m) = 0 => program'[k].extends
    BY <1>1, <1>2, <2>1
  <2>3. CASE k <= n
    <3>1. m \in Messages(y)
      BY <1>1, <1>4, <2>1, <2>3
    <3>2. Past(m, d, w) <=> Past(m, d, v)
      BY <2>2 DEF Past
    <3> QED
      BY <3>1, <3>2
  <2>4. CASE ~(k <= n)
    <3>1. k = n + 1
      BY <2>2, <2>4
    <3>2. m \notin Messages(y)
      <4> SUFFICES ASSUME m \in Messages(y) PROVE FALSE
        OBVIOUS
      <4>1. m.op \in 1 .. n
        BY <1>0, MessageFacts
      <4> QED
        BY <2>2, <2>4, <4>1
    <3>3. ~Past(m, d, w)
      BY <2>2, <3>1 DEF Past
    <3> QED
      BY <3>2, <3>3
  <2> QED
    BY <2>3, <2>4
<1> HIDE DEF Messages
<1> QED
  BY <1>5, <1>6

LEMMA CallStep ==
  ASSUME IInv, NEW r \in Rank, Call(r)
  PROVE  IInv'
<1> DEFINE n == Len(program)
           k == done[r] + 1
<1>0. TypeInv /\ PhaseAt(r) /\ pc[r] = "idle" /\ done[r] < MaxOps /\ done[r] \in Nat /\ n \in Nat
  BY Positions, LenProperties DEF IInv, Call, TypeInv
<1>1. /\ program' \in Seq(Operation) /\ Len(program') \in {n, n + 1} /\ k <= Len(program')
      /\ \A i \in 1 .. n : program'[i] = program[i]
  <2>1. CASE done[r] < n
    BY <1>0, <2>1 DEF Call, TypeInv
  <2>2. CASE ~(done[r] < n)
    <3>1. PICK q \in Operation : program' = Append(program, q)
      BY <2>2 DEF Call
    <3>2. program \in Seq(Operation) /\ k <= n + 1
      BY <1>0 DEF TypeInv, PhaseAt
    <3> QED
      BY <1>0, <3>1, <3>2, AppendProperties
  <2> QED
    BY <2>1, <2>2
<1>2. /\ pc' = [pc EXCEPT ![r] = IF program'[k].extends THEN "extend" ELSE "choose"]
      /\ batch' = [batch EXCEPT ![r] = 0] /\ offset' = [offset EXCEPT ![r] = 0]
      /\ UNCHANGED <<done, wbuf, rbuf, net>>
  BY DEF Call
<1>3. TypeInv'
  BY <1>0, <1>1, <1>2 DEF TypeInv
<1>4. /\ pc'[r] = (IF program'[k].extends THEN "extend" ELSE "choose")
      /\ batch'[r] = 0 /\ offset'[r] = 0 /\ done'[r] = done[r]
      /\ wbuf'[r] = <<>> /\ rbuf'[r] = <<>>
  BY <1>0, <1>2 DEF TypeInv, PhaseAt
<1>5. PhaseAt(r)'
  <2>1. Current(r)' = program'[k]
    BY <1>4 DEF Current
  <2>2. done[r] < Len(program') /\ done[r] <= Len(program')
    BY <1>0, <1>1
  <2> QED
    BY <1>0, <1>4, <2>1, <2>2 DEF PhaseAt
<1>6. ASSUME NEW x \in Rank, x # r
      PROVE  /\ PhaseAt(x)' /\ Sent(x)' = Sent(x) /\ Got(x)' = Got(x)
             /\ done[x] = n => Sent(x) = 0 /\ Got(x) = 0
  <2>1. /\ pc'[x] = pc[x] /\ batch'[x] = batch[x] /\ offset'[x] = offset[x] /\ done'[x] = done[x]
        /\ wbuf'[x] = wbuf[x] /\ rbuf'[x] = rbuf[x] /\ PhaseAt(x)
    BY <1>0, <1>2, <1>6 DEF TypeInv, IInv
  <2>2. done[x] \in Nat
    BY Positions
  <2>3. CASE pc[x] = "idle"
    <3>1. PhaseAt(x)'
      BY <1>0, <1>1, <2>1, <2>2, <2>3 DEF PhaseAt
    <3> QED
      BY <2>1, <2>3, <3>1 DEF Sent, Got
  <2>4. CASE pc[x] # "idle"
    <3>1. done[x] + 1 \in 1 .. n /\ done[x] < n
      BY <1>0, <2>1, <2>2, <2>4 DEF PhaseAt
    <3>2. Current(x)' = Current(x) /\ (Sends(x)' <=> Sends(x))
      BY <1>1, <2>1, <3>1 DEF Current, Sends
    <3>3. Sent(x)' = Sent(x) /\ Got(x)' = Got(x)
      BY <2>1, <3>2 DEF Sent, Got
    <3>4. StreamAt(x)' <=> StreamAt(x)
      BY <2>1, <3>2 DEF StreamAt, AtCut, Starts, Total, End, Bytes
    <3>5. done[x] < Len(program') /\ done[x] <= Len(program')
      BY <1>0, <1>1, <2>2, <3>1
    <3>6. PhaseAt(x)'
      BY <2>1, <2>4, <3>2, <3>4, <3>5 DEF PhaseAt
    <3> QED
      BY <1>0, <2>2, <3>1, <3>3, <3>6
  <2> QED
    BY <2>3, <2>4
<1>7. /\ Sent(r) = 0 /\ Got(r) = 0 /\ Sent(r)' = Got(r)' /\ Got(r)' \in {0, 1}
      /\ Got(r)' = 1 => ~program'[k].extends
  BY <1>0, <1>4 DEF Sent, Got
<1>8. ASSUME NEW x \in Rank, NEW y \in Rank
      PROVE  /\ {m \in Messages(y)' : Past(m, done[x], Sent(x)')} = {m \in Messages(y) : Past(m, done[x], Sent(x))}
             /\ {m \in Messages(y)' : Past(m, done[x], Got(x)')} = {m \in Messages(y) : Past(m, done[x], Got(x))}
  <2>1. done[x] \in Nat /\ Sent(x) \in Nat /\ Got(x) \in Nat /\ done[x] <= n
    BY Positions DEF IInv, PhaseAt
  <2>2. CASE x # r
    <3>1. /\ Sent(x)' = Sent(x) /\ Got(x)' = Got(x)
          /\ done[x] = n => Sent(x) = 0 /\ Got(x) = 0
      BY <1>6, <2>2
    <3> QED
      BY SMTT(30), <1>0, <1>1, <1>3, <2>1, <3>1, CallKeeps
  <2>3. CASE x = r
    <3>1. CASE Got(r)' = 0
      BY <1>0, <1>1, <1>3, <1>7, <2>1, <2>3, <3>1, CallKeeps
    <3>2. CASE Got(r)' = 1
      <4>1. Sent(r)' = 1 /\ ~program'[k].extends
        BY <1>7, <3>2
      <4> QED
        BY <1>0, <1>1, <1>3, <1>7, <2>1, <2>3, <3>2, <4>1, CallKeeps
    <3> QED
      BY <1>7, <3>1, <3>2
  <2> QED
    BY <2>2, <2>3
<1>9. ASSUME NEW x \in Rank
      PROVE  SentTo(x)' = SentTo(x) /\ GotBy(x)' = GotBy(x)
  <2>1. Peer(x) \in Rank /\ done' = done
    BY <1>2, PeerFacts
  <2>2. /\ SentTo(x)' = {m \in Messages(x)' : Past(m, done[Peer(x)], Sent(Peer(x))')}
        /\ GotBy(x)' = {m \in Messages(x)' : Past(m, done[x], Got(x)')}
    BY <2>1 DEF SentTo, GotBy, Past, Place
  <2> QED
    BY <1>8, <2>1, <2>2 DEF SentTo, GotBy
<1>10. ASSUME NEW x \in Rank
       PROVE  LinkAt(x)'
  <2>1. net'[x] = net[x]
    BY <1>2
  <2> QED
    BY <1>9, <2>1, SameKeeps
<1> QED
  BY <1>3, <1>5, <1>6, <1>10 DEF IInv

-----------------------------------------------------------------------------
(* The invariant, and what follows from it.                                *)

LEMMA InitStep == Init => IInv
<1> SUFFICES ASSUME Init PROVE IInv
  OBVIOUS
<1>1. <<>> \in Seq(Operation) /\ <<>> \in Seq(Byte) /\ <<>> \in Seq(Message) /\ Len(<<>>) = 0
  OBVIOUS
<1>2. TypeInv
  BY <1>1, ConstantFacts DEF Init, TypeInv
<1>3. ASSUME NEW r \in Rank
      PROVE  PhaseAt(r) /\ LinkAt(r)
  <2>1. PhaseAt(r)
    BY <1>1 DEF Init, PhaseAt
  <2>2. Messages(r) = {}
    BY <1>1 DEF Init, Messages
  <2>3. SentTo(r) = {} /\ GotBy(r) = {}
    BY <2>2 DEF SentTo, GotBy
  <2>4. Holds(<<>>, {})
    BY <1>1 DEF Holds
  <2>5. net[r] = <<>>
    BY DEF Init
  <2> QED
    BY <2>1, <2>3, <2>4, <2>5 DEF LinkAt
<1> QED
  BY <1>2, <1>3 DEF IInv

LEMMA StutterStep ==
  ASSUME IInv, UNCHANGED vars
  PROVE  IInv'
<1>1. /\ UNCHANGED <<program, done, pc, batch, offset, wbuf, rbuf, net>>
  BY DEF vars
<1>2. TypeInv'
  BY <1>1 DEF TypeInv, IInv
<1>3. ASSUME NEW r \in Rank
      PROVE  PhaseAt(r)' /\ LinkAt(r)'
  <2>1. /\ PhaseAt(r)' /\ GotBy(r)' = GotBy(r)
    BY <1>1, PeerKeeps DEF AsBefore
  <2>2. SentTo(Peer(Peer(r)))' = SentTo(Peer(Peer(r)))
    BY <1>1, PeerFacts, PeerKeeps DEF AsBefore
  <2>3. SentTo(r)' = SentTo(r)
    BY <2>2, PeerFacts
  <2> QED
    BY <1>1, <2>1, <2>3, SameKeeps
<1> QED
  BY <1>2, <1>3 DEF IInv

LEMMA NextStep == IInv /\ [Next]_vars => IInv'
<1> SUFFICES ASSUME IInv, [Next]_vars
             PROVE  IInv'
  OBVIOUS
<1>1. ASSUME NEW r \in Rank, Step(r)
      PROVE  IInv'
  BY <1>1, CallStep, ExtendStep, ExtendedStep, ChooseStep, NextBatchStep, SendDataStep,
     RecvDataStep, ReturnStep DEF Step
<1>2. CASE Done \/ UNCHANGED vars
  BY <1>2, StutterStep DEF Done
<1> QED
  BY <1>1, <1>2 DEF Next

\* In every state each link holds, in their order, the messages that its sender
\* is past and its receiver is not.
THEOREM Invariance == Spec => []IInv
<1>1. Init => IInv
  BY InitStep
<1> QED
  BY <1>1, NextStep, PTL DEF Spec

\* Between two calls the send buffer is never full, and no rank is past the end
\* of a batch.
THEOREM TypeCorrect == Spec => []TypeOK
<1>1. IInv => TypeOK
  <2> SUFFICES ASSUME IInv, NEW r \in Rank
               PROVE  /\ program \in Seq(Operation)
                      /\ done[r] \in 0 .. MaxOps
                      /\ pc[r] \in {"idle", "extend", "extended", "choose", "stream"}
                      /\ pc[r] # "idle" => done[r] < Len(program) /\ batch[r] <= Len(Current(r).ends)
                      /\ offset[r] \in Nat
                      /\ pc[r] = "stream" => offset[r] <= End(Current(r), batch[r])
                      /\ Len(wbuf[r]) < BufferSize /\ Len(rbuf[r]) <= BufferSize
    <3>1. Rank # {}
      BY DEF Rank
    <3> QED
      BY <3>1 DEF TypeOK
  <2>1. TypeInv /\ PhaseAt(r) /\ BufferSize \in Nat \ {0} /\ Len(<<>>) = 0
    BY ConstantFacts DEF IInv
  <2>2. /\ program \in Seq(Operation) /\ done[r] \in 0 .. MaxOps /\ offset[r] \in Nat
        /\ pc[r] \in {"idle", "extend", "extended", "choose", "stream"}
    BY <2>1 DEF TypeInv
  <2>3. CASE pc[r] = "stream"
    <3>1. StreamAt(r)
      BY <2>1, <2>3 DEF PhaseAt
    <3>2. Len(wbuf[r]) < BufferSize /\ Len(rbuf[r]) <= BufferSize
      BY <2>1, <3>1 DEF StreamAt
    <3> QED
      BY <2>1, <2>2, <2>3, <3>1, <3>2 DEF PhaseAt, StreamAt
  <2>4. CASE pc[r] # "stream"
    <3>1. Len(wbuf[r]) < BufferSize /\ Len(rbuf[r]) <= BufferSize
      BY <2>1, <2>4 DEF PhaseAt
    <3>2. pc[r] # "idle" => batch[r] <= Len(Current(r).ends)
      <4> SUFFICES ASSUME pc[r] # "idle" PROVE batch[r] <= Len(Current(r).ends)
        OBVIOUS
      <4>1. batch[r] = 0
        BY <2>1, <2>4 DEF PhaseAt
      <4>2. Len(Current(r).ends) \in Nat
        BY AtOperation, OperationFacts
      <4> QED
        BY <4>1, <4>2
    <3> QED
      BY <2>1, <2>2, <2>4, <3>1, <3>2 DEF PhaseAt
  <2> QED
    BY <2>3, <2>4
<1> QED
  BY <1>1, Invariance, PTL

\* The piece that a reader waits for.
LEMMA NextPiece ==
  ASSUME IInv, NEW r \in Rank, pc[r] = "stream", ~Sends(r), net[r] # <<>>,
         offset[r] + Len(rbuf[r]) < Total(Current(r))
  PROVE  /\ offset[r] + Len(rbuf[r]) \in Starts(Current(r))
         /\ Head(net[r]) = Piece(done[r] + 1, Current(r), offset[r] + Len(rbuf[r]))
<1> DEFINE q == Current(r)
           k == done[r] + 1
           p == offset[r] + Len(rbuf[r])
           m == Piece(k, q, p)
<1>1. /\ q \in Operation /\ k \in Nat /\ Total(q) \in Nat /\ p \in Nat /\ StreamAt(r)
      /\ pc[r] # "idle"
  BY AtStream
<1>2. p \in Starts(q)
  BY <1>1 DEF StreamAt, AtCut
<1>3. q.sender # r /\ q = program[k]
  BY <1>1, AtOperation
<1>4. m \in OpMessages(k, r) /\ Place(m) = p + 2
  BY <1>1, <1>2, <1>3, PieceFacts DEF OpMessages, OpsMessages
<1>5. Got(r) = 2 + p
  BY DEF Got
<1>6. Got(r) <= Place(m) /\ \A n \in OpMessages(k, r) : Got(r) <= Place(n) => Place(m) <= Place(n)
  BY <1>1, <1>4, <1>5
<1>7. Head(net[r]) = m
  <2> HIDE DEF m
  <2> QED
    BY <1>1, <1>4, <1>6, HeadIs
<1> QED
  BY <1>2, <1>7

\* Every message that a step takes from the link is the one that it waits for:
\* extension, flips or bytes, and of the operation that the rank is in.
THEOREM MessagesAreExpected == Spec => []MessagesExpected
<1>1. IInv => MessagesExpected
  <2> SUFFICES ASSUME IInv, NEW r \in Rank, Arrived(r), pc[r] # "idle"
               PROVE  LET m == Head(net[r]) IN
                      /\ pc[r] = "extended" => m = Extension(done[r] + 1)
                      /\ pc[r] = "choose" /\ Sends(r) /\ Current(r).flips =>
                           m = Flips(done[r] + 1)
                      /\ pc[r] = "stream" /\ ~Sends(r) /\ ~Suffices(r) =>
                           m.kind = "data" /\ m.op = done[r] + 1
    BY DEF MessagesExpected
  <2> DEFINE k == done[r] + 1
  <2>0. /\ net[r] # <<>> /\ PhaseAt(r) /\ Current(r) = program[k]
        /\ (Sends(r) <=> Current(r).sender = r)
    BY AtOperation DEF Arrived, IInv
  <2>1. ASSUME pc[r] = "extended"
        PROVE  Head(net[r]) = Extension(k)
    <3> DEFINE m == Extension(k)
    <3>1. m \in OpMessages(k, r)
      BY <2>0, <2>1 DEF PhaseAt, OpMessages, OpsMessages
    <3>2. Got(r) = 0 /\ Place(m) = 0
      BY <2>1 DEF Got, Place, Extension
    <3>3. \A n \in OpMessages(k, r) : Place(m) <= Place(n)
      BY <3>2, FirstPlaces
    <3> HIDE DEF m
    <3>4. Head(net[r]) = m
      BY <2>0, <3>1, <3>2, <3>3, HeadIs
    <3> QED
      BY <3>4 DEF m
  <2>2. ASSUME pc[r] = "choose", Sends(r), Current(r).flips
        PROVE  Head(net[r]) = Flips(k)
    <3> DEFINE m == Flips(k)
    <3>1. m \in OpMessages(k, r)
      BY <2>0, <2>2 DEF OpMessages, OpsMessages
    <3>2. Got(r) = 1 /\ Place(m) = 1
      BY <2>2 DEF Got, Place, Flips
    <3> HIDE DEF m
    <3>3. Head(net[r]) = m
      BY <2>0, <3>1, <3>2, HeadIs
    <3> QED
      BY <3>3 DEF m
  <2>3. ASSUME pc[r] = "stream", ~Sends(r), ~Suffices(r)
        PROVE  Head(net[r]).kind = "data" /\ Head(net[r]).op = k
    <3>1. offset[r] + Len(rbuf[r]) < Total(Current(r)) /\ Current(r) \in Operation /\ k \in Nat
      BY <2>3, AtStream DEF Suffices
    <3>2. /\ offset[r] + Len(rbuf[r]) \in Starts(Current(r))
          /\ Head(net[r]) = Piece(k, Current(r), offset[r] + Len(rbuf[r]))
      BY <2>0, <2>3, <3>1, NextPiece
    <3> QED
      BY <3>1, <3>2, PieceFacts
  <2> QED
    BY <2>1, <2>2, <2>3
<1> QED
  BY <1>1, Invariance, PTL

\* A message on its way is of an operation that its receiver has not finished.
LEMMA OnItsWay ==
  ASSUME IInv, NEW r \in Rank, NEW i \in 1 .. Len(net[r])
  PROVE  /\ net[r][i] \in SentTo(r) /\ net[r][i] \in Messages(r)
         /\ ~Past(net[r][i], done[r], Got(r))
         /\ net[r][i].op \in Nat /\ Place(net[r][i]) \in Nat
         /\ net[r][i] \in OpMessages(net[r][i].op, r)
         /\ net[r][i].op >= done[r] + 1
         /\ net[r][i].op = done[r] + 1 => Place(net[r][i]) >= Got(r)
<1> DEFINE m == net[r][i]
<1>1. m \in SentTo(r) /\ m \notin GotBy(r) /\ m \in Messages(r) /\ TypeInv
  BY DEF IInv, LinkAt, Holds, SentTo
<1>2. ~Past(m, done[r], Got(r))
  BY <1>1 DEF GotBy
<1>3. m.op \in Nat /\ Place(m) \in Nat /\ m \in OpMessages(m.op, r) /\ done[r] \in Nat /\ Got(r) \in Nat
  BY <1>1, MessageFacts, Positions
<1> HIDE DEF m
<1>4. m.op >= done[r] + 1 /\ (m.op = done[r] + 1 => Place(m) >= Got(r))
  BY <1>2, <1>3 DEF Past
<1> QED
  BY <1>1, <1>2, <1>3, <1>4 DEF m

\* Nothing of an operation is left in a buffer or on the link when a rank has
\* returned from it.
THEOREM StreamsAreDrained == Spec => []StreamsDrained
<1>1. IInv => StreamsDrained
  <2> SUFFICES ASSUME IInv, NEW r \in Rank
               PROVE  /\ pc[r] # "stream" => wbuf[r] = <<>> /\ rbuf[r] = <<>>
                      /\ \A i \in 1 .. Len(net[r]) : net[r][i].op > done[r]
    BY DEF StreamsDrained
  <2>1. PhaseAt(r) /\ done[r] \in Nat
    BY Positions DEF IInv
  <2>2. \A i \in 1 .. Len(net[r]) : net[r][i].op > done[r]
    BY <2>1, OnItsWay
  <2> QED
    BY <2>1, <2>2 DEF PhaseAt
<1> QED
  BY <1>1, Invariance, PTL

\* What is on its way to a reader, of the operation it is in, are pieces that
\* start where its buffer ends, or later.
LEMMA PieceOnItsWay ==
  ASSUME IInv, NEW r \in Rank, pc[r] = "stream", ~Sends(r),
         NEW i \in 1 .. Len(net[r]), net[r][i].op = done[r] + 1
  PROVE  \E o \in Starts(Current(r)) :
           /\ net[r][i] = Piece(done[r] + 1, Current(r), o)
           /\ Place(net[r][i]) = o + 2 /\ o \in Nat
           /\ offset[r] + Len(rbuf[r]) <= o
<1> DEFINE m == net[r][i]
           p == offset[r] + Len(rbuf[r])
<1>0. pc[r] # "idle"
  OBVIOUS
<1>1. m \in OpMessages(done[r] + 1, r) /\ Place(m) >= Got(r)
  BY OnItsWay
<1>2. Got(r) = 2 + p /\ p \in Nat
  BY SMTT(30), AtStream DEF Got
<1> HIDE DEF m, p
<1>3. /\ Place(m) \in Nat
      /\ Place(m) > 1 => \E o \in Starts(Current(r)) :
                           m = Piece(done[r] + 1, Current(r), o) /\ Place(m) = o + 2
  BY <1>0, <1>1, FirstPlaces
<1>4. Place(m) > 1 /\ Place(m) >= 2 + p
  BY <1>1, <1>2, <1>3
<1>5. PICK o \in Starts(Current(r)) : m = Piece(done[r] + 1, Current(r), o) /\ Place(m) = o + 2
  BY <1>3, <1>4
<1>6. o \in Nat
  BY <1>0, AtOperation, StartFacts
<1>7. p <= o
  BY <1>2, <1>4, <1>5, <1>6
<1> QED
  BY <1>5, <1>6, <1>7 DEF m, p

\* No piece is missing between two messages to a reader.
LEMMA PieceAfter ==
  ASSUME IInv, NEW r \in Rank, pc[r] = "stream", ~Sends(r),
         NEW i \in 2 .. Len(net[r]),
         NEW a \in Starts(Current(r)), NEW o \in Starts(Current(r)),
         offset[r] + Len(rbuf[r]) <= a,
         net[r][i - 1] = Piece(done[r] + 1, Current(r), a),
         net[r][i] = Piece(done[r] + 1, Current(r), o)
  PROVE  Stop(Current(r), a) = o
<1> DEFINE q == Current(r)
           k == done[r] + 1
           s == Stop(q, a)
           h == i - 1
           m == Piece(k, q, s)
           p == offset[r] + Len(rbuf[r])
           n == net[r]
<1>0. /\ q \in Operation /\ k \in Nat /\ done[r] \in Nat /\ p \in Nat /\ TypeInv
      /\ pc[r] # "idle" /\ Len(n) \in Nat
  <2>1. q \in Operation /\ k \in Nat /\ TypeInv /\ pc[r] # "idle"
    BY AtStream
  <2>2. done[r] \in Nat /\ Len(n) \in Nat /\ offset[r] \in Nat /\ Len(rbuf[r]) \in Nat
    BY Positions
  <2> QED
    BY <2>1, <2>2
<1>1. h \in 1 .. Len(n) /\ i \in 1 .. Len(n) /\ h < i
  BY <1>0
<1>2. /\ Holds(n, SentTo(r) \ GotBy(r))
      /\ \A x, y \in 1 .. Len(n) : x < y => Before(n[x], n[y])
  BY DEF IInv, LinkAt, Holds
<1>3. /\ n[h] = Piece(k, q, a) /\ n[i] = Piece(k, q, o)
      /\ n[h].op = k /\ n[i].op = k
      /\ Place(n[h]) = a + 2 /\ Place(n[i]) = o + 2 /\ a \in Nat /\ o \in Nat
  BY SMTT(30), <1>0, PieceFacts
<1>4. a < o
  <2>1. Before(n[h], n[i])
    BY <1>1, <1>2
  <2> HIDE DEF k, q, h, n
  <2> QED
    BY <1>0, <1>3, <2>1 DEF Before
<1>5. /\ s \in Nat /\ a < s /\ s <= o /\ AtCut(q, s) /\ o < Total(q) /\ Total(q) \in Nat
  BY <1>0, <1>4, StartFacts
<1>6. s \in Starts(q)
  <2> HIDE DEF s, q
  <2>1. s # Total(q)
    BY <1>3, <1>5
  <2> QED
    BY <1>5, <2>1 DEF AtCut
<1>7. q.sender # r /\ q = program[k] /\ k \in 1 .. Len(program)
  BY <1>0, AtOperation
<1>8. m \in OpMessages(k, r) /\ Place(m) = s + 2 /\ m.op = k
  <2>1. Place(m) = s + 2 /\ m.op = k
    <3> HIDE DEF s, k, q
    <3> QED
      BY <1>0, <1>6, PieceFacts
  <2>2. m \in OpsMessages(q, k, r)
    <3> HIDE DEF s, k, q
    <3> QED
      BY <1>6, <1>7 DEF OpsMessages
  <2> QED
    BY <1>7, <2>1, <2>2 DEF OpMessages
<1>9. SUFFICES ASSUME s < o PROVE FALSE
  <2> HIDE DEF s
  <2>1. s = o
    BY <1>3, <1>5, <1>9
  <2> QED
    BY <2>1 DEF s
<1>10. m \in Messages(r)
  BY <1>7, <1>8 DEF Messages
<1> HIDE DEF q, k, s, h, m, p, n
<1>11. Before(m, n[i]) /\ Before(n[h], m)
  BY SMTT(30), <1>0, <1>3, <1>5, <1>8, <1>9 DEF Before
<1>12. m \in SentTo(r)
  <2>1. n[i] \in SentTo(r)
    BY <1>1, OnItsWay DEF n
  <2> QED
    BY <1>10, <1>11, <2>1, SentDown
<1>13. m \notin GotBy(r)
  <2>1. Got(r) = 2 + p
    BY DEF Got, p
  <2>2. p <= a /\ k = done[r] + 1
    BY DEF p, k
  <2>3. Place(m) > Got(r) /\ m.op = done[r] + 1
    BY <1>0, <1>3, <1>5, <1>8, <2>1, <2>2
  <2>4. ~Past(m, done[r], Got(r))
    BY <1>0, <1>5, <1>8, <2>1, <2>3 DEF Past
  <2> QED
    BY <2>4 DEF GotBy
<1>14. PICK j \in 1 .. Len(n) : n[j] = m
  BY <1>2, <1>12, <1>13 DEF Holds
<1>15. ~Before(n[i], m) /\ ~Before(m, n[h]) /\ ~Before(m, m)
  BY <1>0, <1>3, <1>5, <1>8, <1>9 DEF Before
<1>16. ~(i < j) /\ ~(j < h) /\ j # i /\ j # h
  BY <1>1, <1>2, <1>11, <1>14, <1>15
<1> QED
  BY <1>1, <1>14, <1>16 DEF h

\* A reader gets the bytes that the sender wrote, in order and none missing.
THEOREM BytesArriveInOrder == Spec => []BytesInOrder
<1>1. IInv => BytesInOrder
  <2> SUFFICES ASSUME IInv, NEW r \in Rank, pc[r] = "stream", ~Sends(r)
               PROVE  LET op == done[r] + 1
                          b(i) == net[r][i].bytes
                          Prior(i) == IF i = 1 THEN offset[r] + Len(rbuf[r])
                                      ELSE b(i - 1)[Len(b(i - 1))][2]
                      IN  /\ rbuf[r] = Bytes(op, offset[r], Len(rbuf[r]))
                          /\ \A i \in 1 .. Len(net[r]) : net[r][i].op = op =>
                               b(i) # <<>> /\ b(i) = Bytes(op, Prior(i), Len(b(i)))
    BY DEF BytesInOrder
  <2> DEFINE q == Current(r)
             k == done[r] + 1
             p == offset[r] + Len(rbuf[r])
             b(i) == net[r][i].bytes
             Prior(i) == IF i = 1 THEN p ELSE b(i - 1)[Len(b(i - 1))][2]
  <2>0. /\ q \in Operation /\ k \in Nat /\ done[r] \in Nat /\ p \in Nat /\ TypeInv
        /\ pc[r] # "idle" /\ Len(net[r]) \in Nat /\ StreamAt(r) /\ Total(q) \in Nat
    BY SMTT(30), AtStream, Positions
  <2>1. rbuf[r] = Bytes(k, offset[r], Len(rbuf[r]))
    BY <2>0 DEF StreamAt
  <2>2. ASSUME NEW i \in 1 .. Len(net[r]), net[r][i].op = k
        PROVE  b(i) # <<>> /\ b(i) = Bytes(k, Prior(i), Len(b(i)))
    <3>1. PICK o \in Starts(q) : /\ net[r][i] = Piece(k, q, o)
                                 /\ Place(net[r][i]) = o + 2 /\ o \in Nat /\ p <= o
      BY <2>2, PieceOnItsWay
    <3> DEFINE n == Stop(q, o) - o
    <3>2. n \in Nat \ {0} /\ b(i) = Bytes(k, o, n)
      BY <2>0, <3>1, PieceFacts
    <3>3. b(i) # <<>> /\ Len(b(i)) = n
      <4>0. n \in Nat /\ n # 0 /\ o \in Nat /\ k \in Nat
        BY <2>0, <3>1, <3>2
      <4> HIDE DEF n, k
      <4>1. Len(Bytes(k, o, n)) = n /\ (Bytes(k, o, n) = <<>> <=> n = 0)
        BY <4>0, BytesFacts
      <4> HIDE DEF b
      <4> QED
        BY <3>2, <4>0, <4>1
    <3>4. ASSUME i = 1 PROVE o = p
      <4>1. net[r] # <<>> /\ Head(net[r]) = net[r][1]
        BY <2>0, <3>4, EmptySeq, HeadTailProperties, Positions
      <4>2. o < Total(q)
        BY <2>0, StartFacts
      <4>3. p < Total(q)
        <5> HIDE DEF p, q
        <5> QED
          BY <2>0, <3>1, <4>2
      <4>4. p \in Starts(q) /\ Head(net[r]) = Piece(k, q, p)
        BY <4>1, <4>3, NextPiece
      <4>5. Place(Head(net[r])) = p + 2
        <5> HIDE DEF p
        <5> QED
          BY <2>0, <4>4, PieceFacts
      <4> HIDE DEF p
      <4> QED
        BY <2>0, <3>1, <3>4, <4>1, <4>5
    <3>5. ASSUME i # 1 PROVE b(i - 1)[Len(b(i - 1))][2] = o
      <4> DEFINE h == i - 1
      <4>1. i \in 2 .. Len(net[r]) /\ h \in 1 .. Len(net[r]) /\ h < i
        BY <2>0, <3>5
      <4>2. net[r][h].op = k
        <5>1. Before(net[r][h], net[r][i])
          BY <4>1 DEF IInv, LinkAt, Holds
        <5>2. net[r][h].op \in Nat /\ net[r][h].op >= k
          BY <4>1, OnItsWay
        <5> HIDE DEF h, k
        <5> QED
          BY <2>0, <2>2, <5>1, <5>2 DEF Before
      <4>3. PICK a \in Starts(q) : /\ net[r][h] = Piece(k, q, a)
                                   /\ a \in Nat /\ p <= a
        BY <4>1, <4>2, PieceOnItsWay
      <4>4. Stop(q, a) = o
        BY <3>1, <4>1, <4>3, PieceAfter
      <4> DEFINE l == Stop(q, a) - a
      <4>5. l \in Nat \ {0} /\ b(h) = Bytes(k, a, l) /\ a + l = o
        <5>1. l \in Nat \ {0} /\ Piece(k, q, a).bytes = Bytes(k, a, l)
          BY <2>0, PieceFacts
        <5>2. a + l = o
          <6>1. a \in Nat /\ o \in Nat /\ l = o - a
            BY <3>1, <4>3, <4>4
          <6> HIDE DEF l
          <6> QED
            BY <6>1
        <5> QED
          BY <4>3, <5>1, <5>2
      <4>6. l \in 1 .. l /\ l \in Nat
        BY <4>5
      <4>7. Len(b(h)) = l /\ b(h)[l] = <<k, a + l>>
        <5>0. k \in Nat /\ a \in Nat
          BY <2>0, <4>3
        <5> HIDE DEF l, k
        <5>1. Len(Bytes(k, a, l)) = l /\ \A x \in 1 .. l : Bytes(k, a, l)[x] = <<k, a + x>>
          BY <4>6, <5>0, BytesFacts
        <5> HIDE DEF b
        <5> QED
          BY <4>5, <4>6, <5>1
      <4> HIDE DEF l
      <4> QED
        BY <4>5, <4>7 DEF h
    <3>6. Prior(i) = o
      BY <3>4, <3>5
    <3> QED
      BY <3>2, <3>3, <3>6
  <2> QED
    BY <2>1, <2>2
<1> QED
  BY <1>1, Invariance, PTL

=============================================================================
