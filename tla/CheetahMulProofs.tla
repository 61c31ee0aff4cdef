--------------------------- MODULE CheetahMulProofs ---------------------------
(***************************************************************************)
(* Proofs about CheetahMul: for every program of kernels, every packing    *)
(* and every batch size, a thread takes from its link the message it       *)
(* expects, and tasks run only while the contexts of their ring are ready. *)
(*                                                                         *)
(* A message carries no tag, so the argument is one of order.  A kernel    *)
(* has at most one task per link, and in it each rank sends the messages   *)
(* of one phase, which the kernel fixes.  The messages a rank sends on a   *)
(* link are therefore ordered by kernel and number, the ranks pass them in *)
(* that order, and the link holds exactly those its sender has sent and    *)
(* its receiver has not taken.                                             *)
(***************************************************************************)
EXTENDS CheetahMul, SequenceTheorems, TLAPS

-----------------------------------------------------------------------------
(* The messages of a program.                                              *)

Steps == 1 .. Len(Program)

TaskAt(c, w) == TaskOf(Program[c], w)
PolysAt(c, w) == NumPolys(Program[c].bits, TaskAt(c, w).n)

\* The kernels and threads with a task on link l.
TasksOn(l) ==
  {p \in Steps \X Worker : TaskAt(p[1], p[2]).n # 0 /\ TaskAt(p[1], p[2]).link = l}

\* The one phase in which s sends, and how many messages.
PhaseOf(c, w, s) == IF TaskAt(c, w).evaluator = s THEN "resp" ELSE "ct"

TotalAt(c, w, s) ==
  IF TaskAt(c, w).evaluator = s THEN PolysAt(c, w)
  ELSE TaskAt(c, w).streams * PolysAt(c, w)

Item(c, w, s, i) ==
  <<PhaseOf(c, w, s), c, w, i, (i % PolysAt(c, w)) \div CeilDiv(TaskAt(c, w).n, Slots)>>

PublicKey == <<"pk">>

\* What s sends on link l.
Posts(s, l) ==
  {m \in {PublicKey} : l = "lctx"}
    \cup UNION {{Item(p[1], p[2], s, i) : i \in 0 .. TotalAt(p[1], p[2], s) - 1} :
                  p \in TasksOn(l)}

\* The place of a message: its kernel and its number; the key comes first.
KernelOf(m) == IF m = PublicKey THEN 0 ELSE m[2]
NumberOf(m) == IF m = PublicKey THEN 0 ELSE m[4]

Before(m, n) ==
  KernelOf(m) < KernelOf(n) \/ (KernelOf(m) = KernelOf(n) /\ NumberOf(m) < NumberOf(n))

KeySent(s) == seal[s] # 0 \/ (s = 1 /\ kpc[s] = "recvpk")
KeyTaken(r) == seal[r] # 0 \/ (r = 0 /\ kpc[r] = "sendpk")

\* Number i of the kernel that rank r is at, by its thread w: sent, taken.
InSent(r, w, i) ==
  \/ tpc[r][w] \in {"encrecv", "finished"}
  \/ tpc[r][w] \in {"encsend", "respond"} /\ i < count[r][w]

InTaken(r, w, i) ==
  \/ tpc[r][w] \in {"respond", "finished"}
  \/ tpc[r][w] \in {"encrecv", "evalrecv"} /\ i < count[r][w]

HasSent(m, s) ==
  \/ m = PublicKey /\ KeySent(s)
  \/ /\ m # PublicKey
     /\ m[2] < op[s] \/ (m[2] = op[s] /\ InSent(s, m[3], m[4]))

HasTaken(m, r) ==
  \/ m = PublicKey /\ KeyTaken(r)
  \/ /\ m # PublicKey
     /\ m[2] < op[r] \/ (m[2] = op[r] /\ InTaken(r, m[3], m[4]))

Sent(s, l) == {m \in Posts(s, l) : HasSent(m, s)}
Taken(r, l) == {m \in Posts(Peer(r), l) : HasTaken(m, r)}

\* Queue n holds the messages of set W, in their order.
Holds(n, W) ==
  /\ \A i \in 1 .. Len(n) : n[i] \in W
  /\ \A i, j \in 1 .. Len(n) : i < j => Before(n[i], n[j])
  /\ \A m \in W : \E i \in 1 .. Len(n) : n[i] = m

-----------------------------------------------------------------------------
(* The inductive invariant.                                                *)

AnyPost == UNION {Posts(s, l) : s \in Rank, l \in Link}

TypeInv ==
  /\ op \in [Rank -> Nat \ {0}]
  /\ kpc \in [Rank -> {"lazyinit", "sendpk", "recvpk", "start", "running"}]
  /\ seal \in [Rank -> Nat]
  /\ peerKey \in [Rank -> BOOLEAN]
  /\ helpers \in [Rank -> SUBSET {32, 64, 128}]
  /\ tpc \in [Rank -> [Worker -> {"none", "deferred", "encsend", "encrecv",
                                  "evalrecv", "respond", "finished"}]]
  /\ count \in [Rank -> [Worker -> Nat]]
  /\ net \in [Rank -> [Link -> Seq(AnyPost)]]

\* The contexts and the public keys.
KeysAt(r) ==
  /\ op[r] <= Len(Program) + 1
  /\ kpc[r] # "lazyinit" => op[r] \in Steps
  /\ kpc[r] \in {"sendpk", "recvpk"} => seal[r] = 0
  /\ seal[r] = 0 => op[r] = 1 /\ kpc[r] \in {"lazyinit", "sendpk", "recvpk"}
  /\ peerKey[r] <=> KeyTaken(r)
  /\ kpc[r] \in {"start", "running"} =>
       /\ seal[r] >= WorkingContextSize(Kernel(r).bits)
       /\ Kernel(r).bits \in helpers[r]

\* A thread that sends or receives has a task, in its role, and has done no
\* more messages than there are.
ThreadAt(r, w) ==
  LET t == TaskAt(op[r], w) IN
  /\ tpc[r][w] = "none" <=> kpc[r] # "running"
  /\ tpc[r][w] = "deferred" => count[r][w] = 0
  /\ tpc[r][w] \in {"encsend", "encrecv"} => t.n # 0 /\ t.evaluator = Peer(r)
  /\ tpc[r][w] \in {"evalrecv", "respond"} => t.n # 0 /\ t.evaluator = r
  /\ tpc[r][w] \in {"encsend", "respond"} => count[r][w] <= TotalAt(op[r], w, r)
  /\ tpc[r][w] \in {"encrecv", "evalrecv"} => count[r][w] <= TotalAt(op[r], w, Peer(r))

LinkAt(r, l) ==
  /\ Taken(r, l) \subseteq Sent(Peer(r), l)
  /\ Holds(net[r][l], Sent(Peer(r), l) \ Taken(r, l))

IInv ==
  /\ TypeInv
  /\ \A r \in Rank :
       /\ KeysAt(r)
       /\ \A w \in Worker : ThreadAt(r, w)
       /\ \A l \in Link : LinkAt(r, l)

-----------------------------------------------------------------------------
(* The tasks of a kernel.                                                  *)

LEMMA PeerFacts ==
  ASSUME NEW r \in Rank
  PROVE  Peer(r) \in Rank /\ Peer(Peer(r)) = r /\ Peer(r) # r /\ Rank = {r, Peer(r)}
BY DEF Rank, Peer

LEMMA Quotient ==
  ASSUME NEW a \in Nat, NEW b \in Nat \ {0}
  PROVE  /\ a \div b \in Nat
         /\ (a \div b) * b <= a /\ a < (a \div b) * b + b
         /\ a >= b => a \div b # 0
OBVIOUS

LEMMA Positive ==
  ASSUME NEW a \in Nat \ {0}, NEW b \in Nat \ {0}
  PROVE  a * b \in Nat \ {0}
OBVIOUS

LEMMA CeilFacts ==
  ASSUME NEW a \in Nat \ {0}, NEW b \in Nat \ {0}
  PROVE  CeilDiv(a, b) \in Nat \ {0}
<1> DEFINE c == a + b - 1
<1>1. c \in Nat /\ c >= b
  OBVIOUS
<1> HIDE DEF c
<1>2. c \div b \in Nat /\ c \div b # 0
  BY <1>1, Quotient
<1> QED
  BY <1>2 DEF CeilDiv, c

LEMMA ContextFacts ==
  ASSUME NEW bits \in {32, 64, 128}
  PROVE  WorkingContextSize(bits) \in Nat \ {0}
<1>1. bits + bits + 32 \in Nat \ {0} /\ 45 \in Nat \ {0}
  OBVIOUS
<1>2. CeilDiv(bits + bits + 32, 45) \in Nat \ {0}
  BY <1>1, CeilFacts
<1> QED
  BY <1>2 DEF WorkingContextSize

LEMMA ProgramFacts ==
  /\ Slots \in Nat \ {0} /\ Batch \in Nat \ {0} /\ Len(Program) \in Nat
  /\ \A c \in Steps :
       /\ c \in Nat \ {0} /\ Program[c] \in Kernels
       /\ Program[c].bits \in {32, 64, 128} /\ Program[c].n \in Nat \ {0}
       /\ Program[c].kind \in {"beaver", "square", "direct", "mulav"}
       /\ Program[c].kind = "mulav" => Program[c].owner \in Rank
       /\ Program[c].kind = "direct" => Program[c].n >= 2 * Slots
<1>1. /\ Slots \in Nat \ {0} /\ Batch \in Nat \ {0} /\ Program \in Seq(Kernels)
      /\ \A c \in Steps : Program[c].kind = "direct" => Program[c].n >= 2 * Slots
  BY ProgramAssumption DEF ProgramAssumption, Steps
<1>2. Len(Program) \in Nat /\ \A c \in Steps : Program[c] \in Kernels
  BY <1>1, LenProperties, ElementOfSeq DEF Steps
<1>3. \A k \in Kernels : /\ k.bits \in {32, 64, 128} /\ k.n \in Nat \ {0}
                         /\ k.kind \in {"beaver", "square", "direct", "mulav"}
                         /\ k.kind = "mulav" => k.owner \in Rank
  BY DEF Kernels
<1>4. \A c \in Steps : c \in Nat \ {0}
  BY <1>2 DEF Steps
<1> QED
  BY <1>1, <1>2, <1>3, <1>4

LEMMA TaskFacts ==
  ASSUME NEW c \in Steps, NEW w \in Worker
  PROVE  /\ TaskAt(c, w).n \in Nat /\ TaskAt(c, w).link \in Link
         /\ TaskAt(c, w).n # 0 => /\ TaskAt(c, w).streams \in {1, 2}
                                  /\ TaskAt(c, w).evaluator \in Rank
<1> DEFINE k == Program[c]
<1>1. /\ k.n \in Nat \ {0} /\ Slots \in Nat \ {0}
      /\ k.kind \in {"beaver", "square", "direct", "mulav"}
      /\ k.kind = "mulav" => k.owner \in Rank
      /\ k.kind = "direct" => k.n >= 2 * Slots
  BY ProgramFacts
<1> HIDE DEF k
<1>2. \A l, s, e, n : /\ Task(l, s, e, n).link = l /\ Task(l, s, e, n).streams = s
                      /\ Task(l, s, e, n).evaluator = e /\ Task(l, s, e, n).n = n
  BY DEF Task
<1>3. /\ k.n \div 2 \in Nat /\ k.n - k.n \div 2 \in Nat
      /\ CeilDiv(2 * k.n, Slots) * Slots \in Nat
  <2>1. k.n \div 2 \in Nat /\ k.n - k.n \div 2 \in Nat
    BY <1>1
  <2>2. 2 * k.n \in Nat \ {0}
    BY <1>1
  <2>3. CeilDiv(2 * k.n, Slots) \in Nat \ {0}
    BY <1>1, <2>2, CeilFacts
  <2>4. CeilDiv(2 * k.n, Slots) * Slots \in Nat \ {0}
    BY <1>1, <2>3, Positive
  <2> QED
    BY <2>1, <2>4
<1>4. "lctx" \in Link /\ "duplx" \in Link /\ 0 \in Rank /\ 1 \in Rank
  BY DEF Link, Rank
<1>5. CASE w = "main"
  <2>1. TaskAt(c, w) = MainTask(k)
    BY <1>5 DEF TaskAt, TaskOf, k
  <2>2. CASE k.kind = "beaver"
    BY <1>2, <1>3, <1>4, <2>1, <2>2 DEF MainTask
  <2>3. CASE k.kind = "mulav"
    <3>1. 1 - k.owner \in Rank
      BY <1>1, <2>3 DEF Rank
    <3> QED
      BY <1>1, <1>2, <1>4, <2>1, <2>3, <3>1 DEF MainTask
  <2>4. CASE k.kind = "square"
    BY <1>2, <1>3, <1>4, <2>1, <2>4 DEF MainTask, NoTask
  <2>5. CASE k.kind = "direct"
    BY <1>2, <1>3, <1>4, <2>1, <2>5 DEF MainTask
  <2> QED
    BY <1>1, <2>2, <2>3, <2>4, <2>5
<1>6. CASE w = "sub"
  <2>1. TaskAt(c, w) = SubTask(k)
    BY <1>6 DEF TaskAt, TaskOf, k
  <2> QED
    BY <1>1, <1>2, <1>3, <1>4, <2>1 DEF SubTask, NoTask
<1> QED
  BY <1>5, <1>6 DEF Worker

\* A kernel has at most one task on a link.
LEMMA OneTaskPerLink ==
  ASSUME NEW c \in Steps, NEW v \in Worker, NEW w \in Worker,
         TaskAt(c, v).n # 0, TaskAt(c, w).n # 0, TaskAt(c, v).link = TaskAt(c, w).link
  PROVE  v = w
<1> DEFINE k == Program[c]
<1>1. \A l, s, e, n : Task(l, s, e, n).link = l /\ Task(l, s, e, n).n = n
  BY DEF Task
<1>2. k.kind \in {"beaver", "square", "direct", "mulav"}
  BY ProgramFacts
<1> HIDE DEF k
<1>3. \/ MainTask(k).n = 0 \/ SubTask(k).n = 0
      \/ MainTask(k).link # SubTask(k).link
  <2>1. CASE k.kind \in {"beaver", "mulav"}
    BY <1>1, <2>1 DEF SubTask, NoTask
  <2>2. CASE k.kind = "square"
    BY <1>1, <2>2 DEF SubTask, MainTask, NoTask
  <2>3. CASE k.kind = "direct"
    BY <1>1, <2>3 DEF SubTask, MainTask
  <2> QED
    BY <1>2, <2>1, <2>2, <2>3
<1> QED
  BY <1>3 DEF TaskAt, TaskOf, Worker, k

LEMMA TotalFacts ==
  ASSUME NEW c \in Steps, NEW w \in Worker, TaskAt(c, w).n # 0
  PROVE  /\ PolysAt(c, w) \in Nat \ {0}
         /\ TaskAt(c, w).streams * PolysAt(c, w) \in Nat
         /\ \A s \in Rank :
              /\ TotalAt(c, w, s) \in Nat
              /\ TaskAt(c, w).evaluator = s =>
                   TotalAt(c, w, s) = PolysAt(c, w) /\ PhaseOf(c, w, s) = "resp"
              /\ TaskAt(c, w).evaluator = Peer(s) =>
                   /\ TotalAt(c, w, s) = TaskAt(c, w).streams * PolysAt(c, w)
                   /\ PhaseOf(c, w, s) = "ct"
<1>1. TaskAt(c, w).n \in Nat \ {0} /\ TaskAt(c, w).streams \in Nat \ {0}
  BY TaskFacts
<1>2. Slots \in Nat \ {0} /\ Program[c].bits \in {32, 64, 128}
  BY ProgramFacts
<1>3. CeilDiv(TaskAt(c, w).n, Slots) \in Nat \ {0}
  BY <1>1, <1>2, CeilFacts
<1>4. WorkingContextSize(Program[c].bits) \in Nat \ {0}
  BY <1>2, ContextFacts
<1>5. PolysAt(c, w) \in Nat \ {0}
  BY <1>3, <1>4, Positive DEF PolysAt, NumPolys
<1>6. TaskAt(c, w).streams * PolysAt(c, w) \in Nat
  BY <1>1, <1>5, Positive
<1>7. \A s \in Rank : Peer(s) # s
  BY PeerFacts
<1> QED
  BY <1>5, <1>6, <1>7 DEF TotalAt, PhaseOf

-----------------------------------------------------------------------------
(* Messages.                                                               *)

LEMMA ItemFacts ==
  ASSUME NEW c, NEW w, NEW s, NEW i
  PROVE  /\ Item(c, w, s, i) # PublicKey
         /\ Item(c, w, s, i)[2] = c /\ Item(c, w, s, i)[3] = w /\ Item(c, w, s, i)[4] = i
         /\ KernelOf(Item(c, w, s, i)) = c /\ NumberOf(Item(c, w, s, i)) = i
<1> DEFINE k == (i % PolysAt(c, w)) \div CeilDiv(TaskAt(c, w).n, Slots)
           h == PhaseOf(c, w, s)
<1>1. Item(c, w, s, i) = <<h, c, w, i, k>>
  BY DEF Item
<1> HIDE DEF k, h
<1>2. <<h, c, w, i, k>> # <<"pk">>
  <2>1. Len(<<h, c, w, i, k>>) = 5 /\ Len(<<"pk">>) = 1
    OBVIOUS
  <2> QED
    BY <2>1
<1>3. Item(c, w, s, i) # PublicKey
  BY <1>1, <1>2 DEF PublicKey
<1>4. Item(c, w, s, i)[2] = c /\ Item(c, w, s, i)[3] = w /\ Item(c, w, s, i)[4] = i
  BY <1>1
<1> QED
  BY <1>3, <1>4 DEF KernelOf, NumberOf

LEMMA KeyFacts == KernelOf(PublicKey) = 0 /\ NumberOf(PublicKey) = 0
BY DEF KernelOf, NumberOf

LEMMA OnLink ==
  ASSUME NEW l, NEW c \in Steps, NEW w \in Worker
  PROVE  <<c, w>> \in TasksOn(l) <=> TaskAt(c, w).n # 0 /\ TaskAt(c, w).link = l
BY DEF TasksOn

LEMMA PostIntro ==
  ASSUME NEW s, NEW l, NEW c \in Steps, NEW w \in Worker,
         TaskAt(c, w).n # 0, TaskAt(c, w).link = l, NEW i \in 0 .. TotalAt(c, w, s) - 1
  PROVE  Item(c, w, s, i) \in Posts(s, l)
<1>1. <<c, w>> \in TasksOn(l) /\ <<c, w>>[1] = c /\ <<c, w>>[2] = w
  BY OnLink
<1>2. Item(c, w, s, i) \in {Item(<<c, w>>[1], <<c, w>>[2], s, j) :
                              j \in 0 .. TotalAt(<<c, w>>[1], <<c, w>>[2], s) - 1}
  BY <1>1
<1> QED
  BY <1>1, <1>2 DEF Posts

LEMMA KeyPosted ==
  ASSUME NEW s, NEW l
  PROVE  PublicKey \in Posts(s, l) <=> l = "lctx"
<1>1. ASSUME NEW p \in TasksOn(l), NEW i \in 0 .. TotalAt(p[1], p[2], s) - 1
      PROVE  Item(p[1], p[2], s, i) # PublicKey
  BY ItemFacts
<1>2. \A p \in TasksOn(l) :
        PublicKey \notin {Item(p[1], p[2], s, i) : i \in 0 .. TotalAt(p[1], p[2], s) - 1}
  BY <1>1
<1> QED
  BY <1>2 DEF Posts

\* A post is the key, or a numbered message of a task on its link.
LEMMA PostFacts ==
  ASSUME NEW s \in Rank, NEW l \in Link, NEW m \in Posts(s, l), m # PublicKey
  PROVE  \E c \in Steps, w \in Worker :
           /\ TaskAt(c, w).n # 0 /\ TaskAt(c, w).link = l
           /\ \E i \in 0 .. TotalAt(c, w, s) - 1 :
                /\ m = Item(c, w, s, i) /\ i \in Nat
                /\ m[2] = c /\ m[3] = w /\ m[4] = i
                /\ KernelOf(m) = c /\ NumberOf(m) = i
<1>1. PICK p \in TasksOn(l) :
        m \in {Item(p[1], p[2], s, i) : i \in 0 .. TotalAt(p[1], p[2], s) - 1}
  BY DEF Posts
<1>2. PICK i \in 0 .. TotalAt(p[1], p[2], s) - 1 : m = Item(p[1], p[2], s, i)
  BY <1>1
<1>3. /\ p[1] \in Steps /\ p[2] \in Worker
      /\ TaskAt(p[1], p[2]).n # 0 /\ TaskAt(p[1], p[2]).link = l
  BY DEF TasksOn
<1>4. i \in Nat
  BY <1>3, TotalFacts
<1>5. /\ m[2] = p[1] /\ m[3] = p[2] /\ m[4] = i
      /\ KernelOf(m) = p[1] /\ NumberOf(m) = i
  BY <1>2, ItemFacts
<1> QED
  BY <1>2, <1>3, <1>4, <1>5

LEMMA PlaceFacts ==
  ASSUME NEW s \in Rank, NEW l \in Link, NEW m \in Posts(s, l)
  PROVE  /\ KernelOf(m) \in Nat /\ NumberOf(m) \in Nat
         /\ m = PublicKey <=> KernelOf(m) = 0
         /\ m # PublicKey => KernelOf(m) = m[2] /\ NumberOf(m) = m[4]
<1>1. CASE m = PublicKey
  BY <1>1, KeyFacts
<1>2. CASE m # PublicKey
  <2>1. KernelOf(m) \in Steps /\ NumberOf(m) \in Nat
    BY <1>2, PostFacts
  <2>2. KernelOf(m) \in Nat \ {0}
    BY <2>1, ProgramFacts
  <2> QED
    BY <1>2, <2>1, <2>2 DEF KernelOf, NumberOf
<1> QED
  BY <1>1, <1>2

\* What a rank sends on a link has an order.
LEMMA PostsOrdered ==
  ASSUME NEW s \in Rank, NEW l \in Link, NEW m \in Posts(s, l), NEW n \in Posts(s, l)
  PROVE  /\ ~Before(m, m)
         /\ ~(Before(m, n) /\ Before(n, m))
         /\ m = n \/ Before(m, n) \/ Before(n, m)
<1>1. /\ KernelOf(m) \in Nat /\ NumberOf(m) \in Nat
      /\ m = PublicKey <=> KernelOf(m) = 0
      /\ KernelOf(n) \in Nat /\ NumberOf(n) \in Nat
      /\ n = PublicKey <=> KernelOf(n) = 0
  <2>1. KernelOf(m) \in Nat /\ NumberOf(m) \in Nat /\ (m = PublicKey <=> KernelOf(m) = 0)
    BY PlaceFacts
  <2>2. KernelOf(n) \in Nat /\ NumberOf(n) \in Nat /\ (n = PublicKey <=> KernelOf(n) = 0)
    BY PlaceFacts
  <2> QED
    BY <2>1, <2>2
<1>2. ~Before(m, m) /\ ~(Before(m, n) /\ Before(n, m))
  BY <1>1 DEF Before
<1>3. ASSUME KernelOf(m) = KernelOf(n), NumberOf(m) = NumberOf(n)
      PROVE  m = n
  <2>1. CASE m = PublicKey
    BY <1>1, <1>3, <2>1
  <2>2. CASE m # PublicKey
    <3>1. n # PublicKey
      BY <1>1, <1>3, <2>2
    <3>2. PICK c \in Steps, w \in Worker :
            /\ TaskAt(c, w).n # 0 /\ TaskAt(c, w).link = l
            /\ \E i \in 0 .. TotalAt(c, w, s) - 1 :
                 m = Item(c, w, s, i) /\ KernelOf(m) = c /\ NumberOf(m) = i
      BY <2>2, PostFacts
    <3>3. PICK d \in Steps, v \in Worker :
            /\ TaskAt(d, v).n # 0 /\ TaskAt(d, v).link = l
            /\ \E j \in 0 .. TotalAt(d, v, s) - 1 :
                 n = Item(d, v, s, j) /\ KernelOf(n) = d /\ NumberOf(n) = j
      BY <3>1, PostFacts
    <3>4. c = d
      BY <1>3, <3>2, <3>3
    <3>5. w = v
      BY <3>2, <3>3, <3>4, OneTaskPerLink
    <3> QED
      BY <1>3, <3>2, <3>3, <3>4, <3>5
  <2> QED
    BY <2>1, <2>2
<1>4. m = n \/ Before(m, n) \/ Before(n, m)
  BY <1>1, <1>3 DEF Before
<1> QED
  BY <1>2, <1>4

-----------------------------------------------------------------------------
(* Queues.                                                                 *)

Join2(s, t) == s \o t

\* The messages of b, all later than those of W, are sent at once.
LEMMA HoldsJoin ==
  ASSUME NEW T, NEW n \in Seq(T), NEW W, Holds(n, W), NEW b \in Seq(T), NEW B, Holds(b, B),
         \A m \in W, e \in B : Before(m, e)
  PROVE  Holds(Join2(n, b), W \cup B) /\ Join2(n, b) \in Seq(T)
<1> DEFINE j == n \o b
<1>1. /\ j \in Seq(T) /\ Len(n) \in Nat /\ Len(b) \in Nat /\ Len(j) = Len(n) + Len(b)
      /\ \A i \in 1 .. Len(n) + Len(b) : j[i] = IF i <= Len(n) THEN n[i] ELSE b[i - Len(n)]
  BY ConcatProperties, LenProperties
<1> HIDE DEF j
<1>2. \A i \in 1 .. Len(j) :
        \/ i \in 1 .. Len(n) /\ j[i] = n[i]
        \/ i > Len(n) /\ i - Len(n) \in 1 .. Len(b) /\ j[i] = b[i - Len(n)]
  BY <1>1
<1>3. \A i \in 1 .. Len(j) : j[i] \in W \cup B
  BY <1>2 DEF Holds
<1>4. ASSUME NEW i \in 1 .. Len(j), NEW k \in 1 .. Len(j), i < k
      PROVE  Before(j[i], j[k])
  <2>1. CASE k \in 1 .. Len(n) /\ j[k] = n[k]
    <3>1. i \in 1 .. Len(n) /\ j[i] = n[i]
      BY <1>1, <1>2, <1>4, <2>1
    <3> QED
      BY <1>4, <2>1, <3>1 DEF Holds
  <2>2. CASE k - Len(n) \in 1 .. Len(b) /\ j[k] = b[k - Len(n)]
    <3>1. CASE i \in 1 .. Len(n) /\ j[i] = n[i]
      <4>1. n[i] \in W /\ b[k - Len(n)] \in B
        BY <2>2, <3>1 DEF Holds
      <4> QED
        BY <2>2, <3>1, <4>1
    <3>2. CASE i - Len(n) \in 1 .. Len(b) /\ j[i] = b[i - Len(n)]
      <4>1. i - Len(n) < k - Len(n)
        BY <1>1, <1>4
      <4> QED
        BY <2>2, <3>2, <4>1 DEF Holds
    <3> QED
      BY <1>2, <3>1, <3>2
  <2> QED
    BY <1>2, <2>1, <2>2
<1>5. ASSUME NEW m \in W \cup B
      PROVE  \E i \in 1 .. Len(j) : j[i] = m
  <2>1. CASE m \in W
    <3>1. PICK i \in 1 .. Len(n) : n[i] = m
      BY <2>1 DEF Holds
    <3>2. i \in 1 .. Len(j) /\ i <= Len(n) /\ i \in 1 .. Len(n) + Len(b)
      BY <1>1
    <3> QED
      BY <1>1, <3>1, <3>2
  <2>2. CASE m \in B
    <3>1. PICK i \in 1 .. Len(b) : b[i] = m
      BY <2>2 DEF Holds
    <3>2. /\ Len(n) + i \in 1 .. Len(j) /\ ~(Len(n) + i <= Len(n)) /\ (Len(n) + i) - Len(n) = i
          /\ Len(n) + i \in 1 .. Len(n) + Len(b)
      BY <1>1
    <3> QED
      BY <1>1, <3>1, <3>2
  <2> QED
    BY <2>1, <2>2
<1>6. Holds(j, W \cup B)
  BY <1>3, <1>4, <1>5 DEF Holds
<1> QED
  BY <1>1, <1>6 DEF Join2, j

LEMMA HoldsTail ==
  ASSUME NEW T, NEW n \in Seq(T), NEW W, Holds(n, W), n # <<>>,
         \A m \in W : ~Before(m, m)
  PROVE  Holds(Tail(n), W \ {Head(n)}) /\ Tail(n) \in Seq(T) /\ Head(n) \in W
<1> DEFINE t == Tail(n)
           h == Head(n)
<1>1. /\ Len(n) \in Nat /\ Len(n) > 0 /\ Len(t) = Len(n) - 1 /\ h = n[1] /\ t \in Seq(T)
      /\ \A i \in 1 .. Len(t) : t[i] = n[i + 1]
  BY HeadTailProperties, EmptySeq, LenProperties
<1> HIDE DEF t, h
<1>2. \A i \in 1 .. Len(t) : i + 1 \in 1 .. Len(n) /\ 1 < i + 1
  BY <1>1
<1>3. 1 \in 1 .. Len(n)
  BY <1>1
<1>4. \A i \in 1 .. Len(t) : t[i] \in W \ {h}
  <2> TAKE i \in 1 .. Len(t)
  <2>1. Before(n[1], n[i + 1]) /\ n[i + 1] \in W /\ n[1] \in W
    BY <1>2, <1>3 DEF Holds
  <2> QED
    BY <1>1, <2>1
<1>5. \A i, j \in 1 .. Len(t) : i < j => Before(t[i], t[j])
  <2> SUFFICES ASSUME NEW i \in 1 .. Len(t), NEW j \in 1 .. Len(t), i < j
               PROVE  Before(t[i], t[j])
    OBVIOUS
  <2>1. i + 1 < j + 1
    BY <1>1
  <2> QED
    BY <1>1, <1>2, <2>1 DEF Holds
<1>6. \A m \in W \ {h} : \E i \in 1 .. Len(t) : t[i] = m
  <2> TAKE m \in W \ {h}
  <2>1. PICK i \in 1 .. Len(n) : n[i] = m
    BY DEF Holds
  <2>2. i # 1
    BY <1>1, <2>1
  <2>3. i - 1 \in 1 .. Len(t) /\ (i - 1) + 1 = i
    BY <1>1, <2>2
  <2> QED
    BY <1>1, <2>1, <2>3
<1>7. h \in W
  BY <1>1, <1>3 DEF Holds
<1> QED
  BY <1>1, <1>4, <1>5, <1>6, <1>7 DEF Holds, t, h

\* A message of W that no other of W precedes is the head.
LEMMA HoldsHead ==
  ASSUME NEW T, NEW n \in Seq(T), NEW W, Holds(n, W), NEW m \in W,
         \A e \in W : ~Before(e, m)
  PROVE  n # <<>> /\ Head(n) = m
<1>1. PICK i \in 1 .. Len(n) : n[i] = m
  BY DEF Holds
<1>2. Len(n) \in Nat /\ n # <<>> /\ 1 \in 1 .. Len(n)
  BY <1>1, LenProperties, EmptySeq
<1>3. Head(n) = n[1]
  BY <1>2, HeadTailProperties
<1>4. n[1] \in W
  BY <1>2 DEF Holds
<1>5. i = 1
  <2> SUFFICES ASSUME i # 1 PROVE FALSE
    OBVIOUS
  <2>1. 1 < i
    BY <1>2
  <2>2. Before(n[1], m)
    BY <1>1, <1>2, <2>1 DEF Holds
  <2> QED
    BY <1>4, <2>2
<1> QED
  BY <1>1, <1>2, <1>3, <1>5

-----------------------------------------------------------------------------
(* The links.                                                              *)

\* A rank that has begun its tasks, or is past the first kernel, has the keys.
LEMMA KeysDone ==
  ASSUME IInv, NEW r \in Rank
  PROVE  /\ op[r] \in Nat \ {0}
         /\ op[r] # 1 \/ kpc[r] \in {"start", "running"} => seal[r] # 0
         /\ \A w \in Worker : tpc[r][w] # "none" =>
              /\ kpc[r] = "running" /\ seal[r] # 0
              /\ op[r] \in Steps
         /\ \A w \in Worker : count[r][w] \in Nat
<1>1. op[r] \in Nat \ {0} /\ \A w \in Worker : count[r][w] \in Nat
  BY DEF IInv, TypeInv
<1>2. KeysAt(r) /\ \A w \in Worker : ThreadAt(r, w)
  BY DEF IInv
<1>3. op[r] # 1 \/ kpc[r] \in {"start", "running"} => seal[r] # 0
  BY <1>2 DEF KeysAt
<1>4. \A w \in Worker : tpc[r][w] # "none" => kpc[r] = "running"
  BY <1>2 DEF ThreadAt
<1>5. kpc[r] = "running" => op[r] \in Steps
  BY <1>2 DEF KeysAt
<1> QED
  BY <1>1, <1>3, <1>4, <1>5

LEMMA PostSent ==
  ASSUME NEW s \in Rank, NEW l \in Link, NEW m \in Posts(s, l)
  PROVE  m \in Sent(s, l) <=>
           IF m = PublicKey THEN KeySent(s)
           ELSE \/ KernelOf(m) < op[s]
                \/ KernelOf(m) = op[s] /\ InSent(s, m[3], NumberOf(m))
BY PlaceFacts DEF Sent, HasSent

LEMMA PostTaken ==
  ASSUME NEW r \in Rank, NEW l \in Link, NEW m \in Posts(Peer(r), l)
  PROVE  m \in Taken(r, l) <=>
           IF m = PublicKey THEN KeyTaken(r)
           ELSE \/ KernelOf(m) < op[r]
                \/ KernelOf(m) = op[r] /\ InTaken(r, m[3], NumberOf(m))
BY PlaceFacts, PeerFacts DEF Taken, HasTaken

\* The messages of a kernel on a link are those of one thread.
LEMMA ThreadOfPost ==
  ASSUME NEW s \in Rank, NEW l \in Link, NEW m \in Posts(s, l), m # PublicKey
  PROVE  /\ KernelOf(m) \in Steps /\ m[3] \in Worker
         /\ TaskAt(KernelOf(m), m[3]).n # 0 /\ TaskAt(KernelOf(m), m[3]).link = l
         /\ NumberOf(m) \in Nat /\ NumberOf(m) < TotalAt(KernelOf(m), m[3], s)
         /\ m = Item(KernelOf(m), m[3], s, NumberOf(m))
         /\ \A w \in Worker :
              TaskAt(KernelOf(m), w).n # 0 /\ TaskAt(KernelOf(m), w).link = l => m[3] = w
<1>1. PICK c \in Steps, w \in Worker :
           /\ TaskAt(c, w).n # 0 /\ TaskAt(c, w).link = l
           /\ \E i \in 0 .. TotalAt(c, w, s) - 1 :
                /\ m = Item(c, w, s, i) /\ i \in Nat
                /\ m[3] = w
                /\ KernelOf(m) = c /\ NumberOf(m) = i
  BY PostFacts
<1>2. TotalAt(c, w, s) \in Nat
  BY <1>1, TotalFacts
<1>3. /\ KernelOf(m) = c /\ m[3] = w /\ NumberOf(m) \in Nat
      /\ NumberOf(m) < TotalAt(c, w, s) /\ m = Item(c, w, s, NumberOf(m))
  BY <1>1, <1>2
<1>4. \A v \in Worker : TaskAt(c, v).n # 0 /\ TaskAt(c, v).link = l => v = w
  BY <1>1, OneTaskPerLink
<1> QED
  BY <1>1, <1>3, <1>4

\* A rank sends its messages in their order.
LEMMA SentDown ==
  ASSUME IInv, NEW s \in Rank, NEW l \in Link,
         NEW m \in Posts(s, l), NEW n \in Sent(s, l), Before(m, n)
  PROVE  m \in Sent(s, l)
<1>0. n \in Posts(s, l)
  BY DEF Sent
<1>1. /\ KernelOf(m) \in Nat /\ NumberOf(m) \in Nat
      /\ KernelOf(n) \in Nat /\ NumberOf(n) \in Nat
  BY <1>0, PlaceFacts
<1>2. n # PublicKey
  BY <1>1, KeyFacts DEF Before
<1>3. \/ KernelOf(n) < op[s]
      \/ KernelOf(n) = op[s] /\ InSent(s, n[3], NumberOf(n))
  BY <1>0, <1>2, PostSent
<1>4. /\ n[3] \in Worker /\ KernelOf(n) \in Nat \ {0}
      /\ TaskAt(KernelOf(n), n[3]).n # 0 /\ TaskAt(KernelOf(n), n[3]).link = l
  BY <1>0, <1>2, ThreadOfPost, ProgramFacts
<1>5. seal[s] # 0
  <2>1. CASE KernelOf(n) < op[s]
    BY <1>4, <2>1, KeysDone
  <2>2. CASE InSent(s, n[3], NumberOf(n))
    BY <1>4, <2>2, KeysDone DEF InSent
  <2> QED
    BY <1>3, <2>1, <2>2
<1>6. CASE m = PublicKey
  BY <1>5, <1>6, PostSent DEF KeySent
<1>7. CASE m # PublicKey
  <2>0. op[s] \in Nat
    BY KeysDone
  <2>1. CASE KernelOf(m) < op[s]
    BY <1>7, <2>1, PostSent
  <2>2. CASE ~(KernelOf(m) < op[s])
    <3>1. /\ KernelOf(m) = op[s] /\ KernelOf(n) = op[s] /\ NumberOf(m) < NumberOf(n)
          /\ InSent(s, n[3], NumberOf(n))
      BY <1>1, <1>3, <2>0, <2>2 DEF Before
    <3>2. m[3] = n[3]
      BY <1>4, <1>7, <3>1, ThreadOfPost
    <3>3. count[s][n[3]] \in Nat
      BY <1>4, KeysDone
    <3>4. InSent(s, m[3], NumberOf(m))
      BY <1>1, <3>1, <3>2, <3>3 DEF InSent
    <3> QED
      BY <1>7, <3>1, <3>4, PostSent
  <2> QED
    BY <2>1, <2>2
<1> QED
  BY <1>6, <1>7

LEMMA AtLink ==
  ASSUME IInv, NEW r \in Rank, NEW l \in Link
  PROVE  /\ net[r][l] \in Seq(AnyPost) /\ LinkAt(r, l)
         /\ \A m \in Sent(Peer(r), l) : ~Before(m, m)
         /\ Taken(r, l) \subseteq Posts(Peer(r), l)
         /\ Sent(Peer(r), l) \subseteq Posts(Peer(r), l)
BY PostsOrdered, PeerFacts DEF IInv, TypeInv, Sent, Taken

\* The first message that a rank has not taken is the head of the link.
LEMMA FirstIsHead ==
  ASSUME IInv, NEW r \in Rank, NEW l \in Link, net[r][l] # <<>>,
         NEW e \in Posts(Peer(r), l), e \notin Taken(r, l),
         \A m \in Posts(Peer(r), l) : Before(m, e) => m \in Taken(r, l)
  PROVE  Head(net[r][l]) = e
<1> DEFINE W == Sent(Peer(r), l) \ Taken(r, l)
           n == net[r][l]
           p == Peer(r)
<1>1. /\ n \in Seq(AnyPost) /\ Holds(n, W) /\ \A m \in W : ~Before(m, m)
      /\ W \subseteq Posts(p, l) /\ p \in Rank
  BY AtLink, PeerFacts DEF LinkAt
<1>2. Head(n) \in W
  BY <1>1, HoldsTail
<1>3. \A m \in W : ~Before(m, e)
  BY <1>1
<1>4. e \in W
  <2>1. CASE Head(n) = e
    BY <1>2, <2>1
  <2>2. CASE Before(e, Head(n))
    <3>1. e \in Sent(p, l)
      BY <1>1, <1>2, <2>2, SentDown
    <3> QED
      BY <3>1
  <2> QED
    BY <1>1, <1>2, <1>3, <2>1, <2>2, PostsOrdered
<1> HIDE DEF W, n
<1>5. Head(n) = e
  BY <1>1, <1>3, <1>4, HoldsHead
<1> QED
  BY <1>5 DEF n

\* LinkAt of the next state.
LEMMA LinkNext ==
  ASSUME NEW r \in Rank, NEW l \in Link, NEW S, NEW T, NEW n,
         Sent(Peer(r), l)' = S, Taken(r, l)' = T, net'[r][l] = n,
         T \subseteq S, Holds(n, S \ T)
  PROVE  LinkAt(r, l)'
<1>1. LinkAt(r, l)' <=> /\ Taken(r, l)' \subseteq Sent(Peer(r), l)'
                        /\ Holds(net'[r][l], Sent(Peer(r), l)' \ Taken(r, l)')
  BY DEF LinkAt, Holds
<1> QED
  BY <1>1

\* A step of a rank leaves its peer as it is.
Stays(s) ==
  /\ op'[s] = op[s] /\ kpc'[s] = kpc[s] /\ seal'[s] = seal[s] /\ peerKey'[s] = peerKey[s]
  /\ helpers'[s] = helpers[s] /\ tpc'[s] = tpc[s] /\ count'[s] = count[s]

LEMMA StaysKeep ==
  ASSUME IInv, NEW s \in Rank, Stays(s)
  PROVE  /\ KeysAt(s)' /\ \A w \in Worker : ThreadAt(s, w)'
         /\ \A l \in Link : Sent(s, l)' = Sent(s, l) /\ Taken(s, l)' = Taken(s, l)
<1>1. KeySent(s)' = KeySent(s) /\ KeyTaken(s)' = KeyTaken(s)
  BY DEF KeySent, KeyTaken, Stays
<1>2. KeysAt(s)'
  BY <1>1 DEF IInv, KeysAt, Stays, Kernel
<1>3. \A w \in Worker : ThreadAt(s, w)'
  BY DEF IInv, ThreadAt, Stays, TaskAt, TotalAt, PolysAt, Peer
<1>4. ASSUME NEW m, NEW q
      PROVE  HasSent(m, s)' = HasSent(m, s) /\ HasTaken(m, s)' = HasTaken(m, s)
  BY <1>1 DEF HasSent, HasTaken, InSent, InTaken, Stays
<1>5. \A l \in Link : Sent(s, l)' = Sent(s, l) /\ Taken(s, l)' = Taken(s, l)
  BY <1>4 DEF Sent, Taken
<1> QED
  BY <1>2, <1>3, <1>5

\* The step of rank r leads from the invariant to the invariant,
LEMMA RankStep ==
  ASSUME IInv, TypeInv', NEW r \in Rank, Stays(Peer(r)),
         KeysAt(r)', \A w \in Worker : ThreadAt(r, w)',
         \A l \in Link : LinkAt(r, l)' /\ LinkAt(Peer(r), l)'
  PROVE  IInv'
<1>1. Peer(r) \in Rank /\ \A s \in Rank : s = r \/ s = Peer(r)
  BY PeerFacts
<1>2. KeysAt(Peer(r))' /\ \A w \in Worker : ThreadAt(Peer(r), w)'
  BY <1>1, StaysKeep
<1>3. ASSUME NEW s \in Rank
      PROVE  KeysAt(s)' /\ (\A w \in Worker : ThreadAt(s, w)') /\ (\A l \in Link : LinkAt(s, l)')
  <2>1. CASE s = r
    BY <2>1
  <2>2. CASE s = Peer(r)
    BY <1>2, <2>2
  <2> QED
    BY <1>1, <2>1, <2>2
<1> QED
  BY <1>3 DEF IInv

\* when it moves no message,
LEMMA QuietStep ==
  ASSUME IInv, TypeInv', NEW r \in Rank, Stays(Peer(r)),
         KeysAt(r)', \A w \in Worker : ThreadAt(r, w)', net' = net,
         \A l \in Link : Sent(r, l)' = Sent(r, l) /\ Taken(r, l)' = Taken(r, l)
  PROVE  IInv'
<1> DEFINE p == Peer(r)
<1>1. p \in Rank /\ Peer(p) = r
  BY PeerFacts
<1>2. \A l \in Link : Sent(p, l)' = Sent(p, l) /\ Taken(p, l)' = Taken(p, l)
  BY <1>1, StaysKeep
<1>3. ASSUME NEW l \in Link
      PROVE  LinkAt(r, l)' /\ LinkAt(p, l)'
  <2>1. LinkAt(r, l) /\ LinkAt(p, l)
    BY <1>1, AtLink
  <2>2. LinkAt(r, l)'
    BY <1>2, <2>1, LinkNext DEF LinkAt
  <2>3. LinkAt(p, l)'
    <3> HIDE DEF p
    <3>1. Sent(Peer(p), l)' = Sent(Peer(p), l)
      BY <1>1
    <3> QED
      BY <1>1, <1>2, <2>1, <3>1, LinkNext DEF LinkAt
  <2> QED
    BY <2>2, <2>3
<1> QED
  BY <1>3, RankStep

Put(f, t, k, q) == [f EXCEPT ![t][k] = q]

LEMMA NetFacts ==
  ASSUME IInv, NEW t \in Rank, NEW k \in Link, NEW q \in Seq(AnyPost),
         net' = Put(net, t, k, q)
  PROVE  /\ net' \in [Rank -> [Link -> Seq(AnyPost)]]
         /\ net'[t][k] = q
         /\ \A l \in Link : net'[Peer(t)][l] = net[Peer(t)][l]
         /\ \A l \in Link : l # k => net'[t][l] = net[t][l]
<1>1. net \in [Rank -> [Link -> Seq(AnyPost)]]
  BY DEF IInv, TypeInv
<1>2. net' = [net EXCEPT ![t] = [net[t] EXCEPT ![k] = q]]
  BY <1>1 DEF Put
<1>3. [net[t] EXCEPT ![k] = q] \in [Link -> Seq(AnyPost)]
  BY <1>1
<1>4. net'[t] = [net[t] EXCEPT ![k] = q]
  BY <1>1, <1>2
<1>5. net'[Peer(t)] = net[Peer(t)]
  BY <1>1, <1>2, PeerFacts
<1> QED
  BY <1>1, <1>2, <1>3, <1>4, <1>5

\* when it sends the messages B on link k, all later than those it has sent,
LEMMA PostStep ==
  ASSUME IInv, NEW r \in Rank, NEW k \in Link, NEW b \in Seq(AnyPost), NEW B,
         net' = [net EXCEPT ![Peer(r)][k] = Join2(net[Peer(r)][k], b)],
         net' \in [Rank -> [Link -> Seq(AnyPost)]] => TypeInv', Stays(Peer(r)),
         KeysAt(r)', \A w \in Worker : ThreadAt(r, w)',
         Holds(b, B), B \subseteq Posts(r, k),
         \A m \in Sent(r, k), e \in B : Before(m, e),
         Sent(r, k)' = Sent(r, k) \cup B,
         \A l \in Link : l # k => Sent(r, l)' = Sent(r, l),
         \A l \in Link : Taken(r, l)' = Taken(r, l)
  PROVE  IInv'
<1> DEFINE p == Peer(r)
           W == Sent(r, k) \ Taken(p, k)
           n == net[p][k]
<1>1. p \in Rank /\ Peer(p) = r
  BY PeerFacts
<1>2. \A l \in Link : Sent(p, l)' = Sent(p, l) /\ Taken(p, l)' = Taken(p, l)
  BY <1>1, StaysKeep
<1>3. n \in Seq(AnyPost) /\ LinkAt(p, k) /\ Taken(p, k) \subseteq Sent(r, k) /\ Holds(n, W)
  BY <1>1, AtLink DEF LinkAt
<1>4. Holds(Join2(n, b), W \cup B) /\ Join2(n, b) \in Seq(AnyPost)
  <2>1. \A m \in W, e \in B : Before(m, e)
    OBVIOUS
  <2> HIDE DEF n, W
  <2> QED
    BY <1>3, <2>1, HoldsJoin
<1>5. /\ net' \in [Rank -> [Link -> Seq(AnyPost)]]
      /\ net'[p][k] = Join2(n, b)
      /\ \A l \in Link : net'[r][l] = net[r][l]
      /\ \A l \in Link : l # k => net'[p][l] = net[p][l]
  <2> DEFINE q == Join2(n, b)
  <2>1. q \in Seq(AnyPost) /\ net' = Put(net, p, k, q)
    BY <1>4 DEF Put
  <2> HIDE DEF q, p
  <2>2. /\ net' \in [Rank -> [Link -> Seq(AnyPost)]] /\ net'[p][k] = q
        /\ \A l \in Link : net'[Peer(p)][l] = net[Peer(p)][l]
        /\ \A l \in Link : l # k => net'[p][l] = net[p][l]
    BY <1>1, <2>1, NetFacts
  <2> QED
    BY <1>1, <2>2 DEF q
<1>6. W \cup B = (Sent(r, k) \cup B) \ Taken(p, k)
  <2>1. \A e \in B : e \notin Taken(p, k)
    <3> SUFFICES ASSUME NEW e \in B, e \in Taken(p, k) PROVE FALSE
      OBVIOUS
    <3>1. Before(e, e)
      BY <1>3
    <3> QED
      BY <3>1, PostsOrdered
  <2> QED
    BY <2>1
<1>7. LinkAt(p, k)'
  <2>1. Sent(Peer(p), k)' = Sent(r, k) \cup B /\ Taken(p, k)' = Taken(p, k)
    BY <1>1, <1>2
  <2>2. Taken(p, k) \subseteq Sent(r, k) \cup B /\ Holds(Join2(n, b), (Sent(r, k) \cup B) \ Taken(p, k))
    BY <1>3, <1>4, <1>6
  <2> HIDE DEF p, n, W
  <2> QED
    BY <1>1, <1>5, <2>1, <2>2, LinkNext
<1>8. ASSUME NEW l \in Link
      PROVE  LinkAt(r, l)' /\ LinkAt(p, l)'
  <2>1. LinkAt(r, l) /\ LinkAt(p, l)
    BY <1>1, AtLink
  <2>2. LinkAt(r, l)'
    BY <1>2, <1>5, <2>1, LinkNext DEF LinkAt
  <2>3. CASE l # k
    <3> HIDE DEF p
    <3>1. Sent(Peer(p), l)' = Sent(Peer(p), l)
      BY <1>1, <2>3
    <3> QED
      BY <1>1, <1>2, <1>5, <2>1, <2>2, <2>3, <3>1, LinkNext DEF LinkAt
  <2> QED
    BY <1>7, <2>2, <2>3
<1> QED
  BY <1>5, <1>8, RankStep

\* and when it takes the head of link k.
LEMMA TakeStep ==
  ASSUME IInv, NEW r \in Rank, NEW k \in Link, net[r][k] # <<>>,
         net' = [net EXCEPT ![r][k] = Tail(net[r][k])],
         net' \in [Rank -> [Link -> Seq(AnyPost)]] => TypeInv', Stays(Peer(r)),
         KeysAt(r)', \A w \in Worker : ThreadAt(r, w)',
         Taken(r, k)' = Taken(r, k) \cup {Head(net[r][k])},
         \A l \in Link : l # k => Taken(r, l)' = Taken(r, l),
         \A l \in Link : Sent(r, l)' = Sent(r, l)
  PROVE  IInv'
<1> DEFINE p == Peer(r)
           S == Sent(p, k)
           T == Taken(r, k)
           n == net[r][k]
           h == Head(n)
<1>1. p \in Rank /\ Peer(p) = r
  BY PeerFacts
<1>2. \A l \in Link : Sent(p, l)' = Sent(p, l) /\ Taken(p, l)' = Taken(p, l)
  BY <1>1, StaysKeep
<1>3. n \in Seq(AnyPost) /\ LinkAt(r, k) /\ T \subseteq S /\ Holds(n, S \ T)
      /\ \A m \in S \ T : ~Before(m, m)
  BY <1>1, AtLink DEF LinkAt
<1>4. Holds(Tail(n), (S \ T) \ {h}) /\ Tail(n) \in Seq(AnyPost) /\ h \in S \ T
  <2> HIDE DEF S, T
  <2> QED
    BY <1>3, HoldsTail
<1>5. /\ net' \in [Rank -> [Link -> Seq(AnyPost)]]
      /\ net'[r][k] = Tail(n)
      /\ \A l \in Link : net'[p][l] = net[p][l]
      /\ \A l \in Link : l # k => net'[r][l] = net[r][l]
  <2> DEFINE q == Tail(n)
  <2>1. q \in Seq(AnyPost) /\ net' = Put(net, r, k, q)
    BY <1>4 DEF Put
  <2> HIDE DEF q
  <2>2. /\ net' \in [Rank -> [Link -> Seq(AnyPost)]] /\ net'[r][k] = q
        /\ \A l \in Link : net'[Peer(r)][l] = net[Peer(r)][l]
        /\ \A l \in Link : l # k => net'[r][l] = net[r][l]
    BY <1>1, <2>1, NetFacts
  <2> QED
    BY <2>2 DEF q
<1>6. LinkAt(r, k)'
  <2>1. Sent(Peer(r), k)' = S /\ Taken(r, k)' = T \cup {h}
    BY <1>2
  <2>2. T \cup {h} \subseteq S /\ S \ (T \cup {h}) = (S \ T) \ {h}
    BY <1>3, <1>4
  <2> HIDE DEF S, T, h, n
  <2> QED
    BY <1>4, <1>5, <2>1, <2>2, LinkNext
<1>7. ASSUME NEW l \in Link
      PROVE  LinkAt(r, l)' /\ LinkAt(p, l)'
  <2>1. LinkAt(r, l) /\ LinkAt(p, l)
    BY <1>1, AtLink
  <2>2. LinkAt(p, l)'
    <3> HIDE DEF p
    <3>1. Sent(Peer(p), l)' = Sent(Peer(p), l)
      BY <1>1
    <3> QED
      BY <1>1, <1>2, <1>5, <2>1, <3>1, LinkNext DEF LinkAt
  <2>3. CASE l # k
    BY <1>2, <1>5, <2>1, <2>2, <2>3, LinkNext DEF LinkAt
  <2> QED
    BY <1>6, <2>2, <2>3
<1> QED
  BY <1>5, <1>7, RankStep

-----------------------------------------------------------------------------
(* The keys.                                                               *)

LEMMA InitStep == Init => IInv
<1> SUFFICES ASSUME Init PROVE IInv
  OBVIOUS
<1>0. Len(Program) \in Nat
  BY ProgramFacts
<1>1. TypeInv
  <2>1. <<>> \in Seq(AnyPost)
    OBVIOUS
  <2> QED
    BY <2>1 DEF Init, TypeInv
<1>2. ASSUME NEW r \in Rank
      PROVE  /\ op[r] = 1 /\ kpc[r] = "lazyinit" /\ seal[r] = 0 /\ peerKey[r] = FALSE
             /\ \A w \in Worker : tpc[r][w] = "none"
  BY DEF Init
<1>3. ASSUME NEW r \in Rank
      PROVE  KeysAt(r) /\ (\A w \in Worker : ThreadAt(r, w))
  <2>1. /\ op[r] = 1 /\ kpc[r] = "lazyinit" /\ seal[r] = 0 /\ peerKey[r] = FALSE
        /\ \A w \in Worker : tpc[r][w] = "none"
    BY <1>2
  <2>2. ~KeyTaken(r) /\ 1 <= Len(Program) + 1
    BY <1>0, <2>1 DEF KeyTaken
  <2>3. KeysAt(r)
    BY <2>1, <2>2 DEF KeysAt
  <2>4. ASSUME NEW w \in Worker PROVE ThreadAt(r, w)
    BY <2>1 DEF ThreadAt
  <2> QED
    BY <2>3, <2>4
<1>4. ASSUME NEW r \in Rank, NEW l \in Link
      PROVE  Sent(r, l) = {} /\ Taken(r, l) = {}
  <2>1. ASSUME NEW s \in Rank, NEW m \in Posts(s, l)
        PROVE  ~HasSent(m, r) /\ ~HasTaken(m, r)
    <3>1. CASE m = PublicKey
      BY <1>2, <3>1 DEF KeySent, KeyTaken, HasSent, HasTaken
    <3>2. CASE m # PublicKey
      <4>1. PICK c \in Steps, w \in Worker : m[2] = c /\ m[3] = w
        BY <3>2, PostFacts
      <4>2. c \in Nat \ {0} /\ op[r] = 1 /\ tpc[r][w] = "none"
        <5>1. c \in Nat \ {0}
          BY ProgramFacts
        <5>2. op[r] = 1 /\ tpc[r][w] = "none"
          BY <1>2
        <5> QED
          BY <5>1, <5>2
      <4>3. ~(c < op[r])
        BY <4>2
      <4> QED
        BY <3>2, <4>1, <4>2, <4>3 DEF HasSent, HasTaken, InSent, InTaken
    <3> QED
      BY <3>1, <3>2
  <2> QED
    BY <2>1, PeerFacts DEF Sent, Taken
<1>5. ASSUME NEW r \in Rank, NEW l \in Link
      PROVE  LinkAt(r, l)
  <2>1. Sent(Peer(r), l) = {} /\ Taken(r, l) = {}
    BY <1>4, PeerFacts
  <2>2. Holds(<<>>, {})
    <3>1. Len(<<>>) = 0
      OBVIOUS
    <3>2. \A i \in 1 .. Len(<<>>) : FALSE
      BY <3>1
    <3> QED
      BY <3>2 DEF Holds
  <2>3. net[r][l] = <<>>
    BY DEF Init
  <2>4. Taken(r, l) \subseteq Sent(Peer(r), l) /\ Sent(Peer(r), l) \ Taken(r, l) = {}
    BY <2>1
  <2> QED
    BY <2>2, <2>3, <2>4 DEF LinkAt
<1> QED
  BY <1>1, <1>3, <1>5 DEF IInv

\* What is sent and taken of a rank that is in no task.
LEMMA Between ==
  ASSUME NEW r \in Rank, NEW l \in Link,
         \A w \in Worker : tpc[r][w] = "none", tpc'[r] = tpc[r], op'[r] = op[r],
         KeySent(r)' = KeySent(r) \/ l # "lctx", KeyTaken(r)' = KeyTaken(r) \/ l # "lctx"
  PROVE  Sent(r, l)' = Sent(r, l) /\ Taken(r, l)' = Taken(r, l)
<1>1. ASSUME NEW s \in Rank, NEW m \in Posts(s, l)
      PROVE  HasSent(m, r)' = HasSent(m, r) /\ HasTaken(m, r)' = HasTaken(m, r)
  <2>1. CASE m = PublicKey
    <3>1. l = "lctx"
      BY <2>1, KeyPosted
    <3> QED
      BY <2>1, <3>1 DEF HasSent, HasTaken
  <2>2. CASE m # PublicKey
    <3>1. m[3] \in Worker
      BY <2>2, PostFacts
    <3> QED
      BY <2>2, <3>1 DEF HasSent, HasTaken, InSent, InTaken
  <2> QED
    BY <2>1, <2>2
<1>2. Sent(r, l)' = Sent(r, l)
  BY <1>1 DEF Sent
<1>3. Taken(r, l)' = Taken(r, l)
  BY <1>1, PeerFacts DEF Taken
<1> QED
  BY <1>2, <1>3

LEMMA LazyInitStep ==
  ASSUME IInv, NEW r \in Rank, LazyInitKeys(r)
  PROVE  IInv'
<1> DEFINE need == WorkingContextSize(Kernel(r).bits)
<1>0. TypeInv /\ KeysAt(r) /\ kpc[r] = "lazyinit" /\ op[r] \in Nat \ {0} /\ op[r] <= Len(Program)
  BY KeysDone DEF LazyInitKeys, IInv
<1>1. /\ op[r] \in Steps /\ Kernel(r).bits \in {32, 64, 128} /\ need \in Nat \ {0}
      /\ seal[r] \in Nat /\ Peer(r) \in Rank /\ Peer(r) # r
  <2>1. op[r] \in Steps
    BY <1>0, ProgramFacts DEF Steps
  <2>2. Kernel(r).bits \in {32, 64, 128}
    BY <2>1, ProgramFacts DEF Kernel
  <2>3. need \in Nat \ {0}
    BY <2>2, ContextFacts
  <2> QED
    BY <1>0, <2>1, <2>2, <2>3, PeerFacts DEF TypeInv
<1>2. \A w \in Worker : tpc[r][w] = "none" /\ ThreadAt(r, w)
  BY <1>0 DEF IInv, ThreadAt
<1>3. net' = net /\ op' = op /\ tpc' = tpc /\ count' = count /\ peerKey' = peerKey
  BY DEF LazyInitKeys
<1> HIDE DEF need
<1>4. CASE seal[r] = 0
  <2>1. /\ kpc' = [kpc EXCEPT ![r] = IF r = 1 THEN "sendpk" ELSE "recvpk"]
        /\ seal' = seal /\ helpers' = helpers
    BY <1>4 DEF LazyInitKeys
  <2>2. kpc'[r] = (IF r = 1 THEN "sendpk" ELSE "recvpk") /\ seal'[r] = 0
    BY <1>0, <1>4, <2>1 DEF TypeInv
  <2>3. TypeInv' /\ Stays(Peer(r))
    BY <1>0, <1>1, <1>3, <2>1 DEF TypeInv, Stays
  <2>4. ~KeyTaken(r) /\ ~KeyTaken(r)' /\ ~KeySent(r) /\ ~KeySent(r)'
    BY <1>0, <1>4, <2>2 DEF KeyTaken, KeySent
  <2>5. KeysAt(r)'
    BY <1>0, <1>1, <1>3, <1>4, <2>2, <2>4 DEF KeysAt
  <2>6. \A w \in Worker : ThreadAt(r, w)'
    BY <1>2, <1>3, <2>2 DEF ThreadAt
  <2>7. \A l \in Link : Sent(r, l)' = Sent(r, l) /\ Taken(r, l)' = Taken(r, l)
    <3>1. KeySent(r)' = KeySent(r) /\ KeyTaken(r)' = KeyTaken(r)
      BY <2>4 DEF KeySent, KeyTaken
    <3> QED
      BY <1>2, <1>3, <3>1, Between
  <2> QED
    BY <1>3, <2>3, <2>5, <2>6, <2>7, QuietStep
<1>5. CASE seal[r] # 0
  <2>1. /\ seal' = [seal EXCEPT ![r] = IF @ < need THEN need ELSE @]
        /\ helpers' = [helpers EXCEPT ![r] = @ \cup {Kernel(r).bits}]
        /\ kpc' = [kpc EXCEPT ![r] = "start"]
    BY <1>5 DEF LazyInitKeys, need
  <2>2. /\ kpc'[r] = "start" /\ seal'[r] = (IF seal[r] < need THEN need ELSE seal[r])
        /\ helpers'[r] = helpers[r] \cup {Kernel(r).bits}
    BY <1>0, <2>1 DEF TypeInv
  <2>3. seal'[r] \in Nat /\ seal'[r] # 0 /\ seal'[r] >= need /\ Kernel(r)' = Kernel(r)
    BY <1>1, <1>3, <1>5, <2>2 DEF Kernel
  <2>4. TypeInv' /\ Stays(Peer(r))
    <3>1. helpers' \in [Rank -> SUBSET {32, 64, 128}]
      BY <1>0, <1>1, <2>1 DEF TypeInv
    <3>2. seal' \in [Rank -> Nat]
      BY <1>0, <1>1, <2>1 DEF TypeInv
    <3> QED
      BY <1>0, <1>1, <1>3, <2>1, <3>1, <3>2 DEF TypeInv, Stays
  <2>5. KeyTaken(r) /\ KeyTaken(r)' /\ KeySent(r) /\ KeySent(r)'
    BY <1>5, <2>3 DEF KeyTaken, KeySent
  <2>6. KeysAt(r)'
    BY <1>0, <1>1, <1>3, <2>2, <2>3, <2>5 DEF KeysAt, need
  <2>7. \A w \in Worker : ThreadAt(r, w)'
    BY <1>2, <1>3, <2>2 DEF ThreadAt
  <2>8. \A l \in Link : Sent(r, l)' = Sent(r, l) /\ Taken(r, l)' = Taken(r, l)
    <3>1. KeySent(r)' = KeySent(r) /\ KeyTaken(r)' = KeyTaken(r)
      BY <2>5 DEF KeySent, KeyTaken
    <3> QED
      BY <1>2, <1>3, <3>1, Between
  <2> QED
    BY <1>3, <2>4, <2>6, <2>7, <2>8, QuietStep
<1> QED
  BY <1>4, <1>5

\* In the exchange of the keys nothing else has been sent or taken.
LEMMA OnlyKeys ==
  ASSUME NEW r \in Rank, op[r] = 1, \A w \in Worker : tpc[r][w] = "none",
         op' = op, tpc' = tpc
  PROVE  /\ Sent(r, "lctx") = {m \in {PublicKey} : KeySent(r)}
         /\ Taken(r, "lctx") = {m \in {PublicKey} : KeyTaken(r)}
         /\ Sent(r, "lctx")' = {m \in {PublicKey} : KeySent(r)'}
         /\ Taken(r, "lctx")' = {m \in {PublicKey} : KeyTaken(r)'}
<1>1. ASSUME NEW s \in Rank, NEW m \in Posts(s, "lctx"), m # PublicKey
      PROVE  /\ ~HasSent(m, r) /\ ~HasTaken(m, r)
             /\ ~HasSent(m, r)' /\ ~HasTaken(m, r)'
  <2>1. PICK c \in Steps, w \in Worker : m[2] = c /\ m[3] = w
    BY <1>1, PostFacts DEF Link
  <2>2. c \in Nat \ {0} /\ op[r] = 1 /\ tpc[r][w] = "none"
    BY ProgramFacts
  <2>3. ~(c < op[r])
    BY <2>2
  <2> QED
    BY <1>1, <2>1, <2>2, <2>3 DEF HasSent, HasTaken, InSent, InTaken
<1>2. \A s : PublicKey \in Posts(s, "lctx")
  BY KeyPosted
<1>3. /\ HasSent(PublicKey, r) <=> KeySent(r)
      /\ HasTaken(PublicKey, r) <=> KeyTaken(r)
      /\ HasSent(PublicKey, r)' <=> KeySent(r)'
      /\ HasTaken(PublicKey, r)' <=> KeyTaken(r)'
  BY DEF HasSent, HasTaken, KeySent, KeyTaken
<1>4. Sent(r, "lctx") = {m \in {PublicKey} : KeySent(r)}
  BY <1>1, <1>2, <1>3 DEF Sent
<1>5. Taken(r, "lctx") = {m \in {PublicKey} : KeyTaken(r)}
  BY <1>1, <1>2, <1>3, PeerFacts DEF Taken
<1>6. Sent(r, "lctx")' = {m \in {PublicKey} : KeySent(r)'}
  BY <1>1, <1>2, <1>3 DEF Sent
<1>7. Taken(r, "lctx")' = {m \in {PublicKey} : KeyTaken(r)'}
  BY <1>1, <1>2, <1>3, PeerFacts DEF Taken
<1> QED
  BY <1>4, <1>5, <1>6, <1>7

\* A rank in the exchange of the keys.
LEMMA AtExchange ==
  ASSUME IInv, NEW r \in Rank, kpc[r] \in {"sendpk", "recvpk"}
  PROVE  /\ seal[r] = 0 /\ op[r] = 1 /\ op[r] \in Steps /\ op[r] <= Len(Program) + 1
         /\ \A w \in Worker : tpc[r][w] = "none"
         /\ peerKey[r] <=> KeyTaken(r)
         /\ Kernel(r).bits \in {32, 64, 128}
         /\ Peer(r) \in Rank /\ Peer(r) # r
<1>1. KeysAt(r) /\ \A w \in Worker : ThreadAt(r, w)
  BY DEF IInv
<1>2. seal[r] = 0 /\ op[r] = 1 /\ op[r] \in Steps /\ op[r] <= Len(Program) + 1
  BY <1>1 DEF KeysAt
<1>3. peerKey[r] <=> KeyTaken(r)
  BY <1>1 DEF KeysAt
<1>4. \A w \in Worker : tpc[r][w] = "none"
  BY <1>1 DEF ThreadAt
<1>5. Kernel(r).bits \in {32, 64, 128}
  BY <1>2, ProgramFacts DEF Kernel
<1> QED
  BY <1>2, <1>3, <1>4, <1>5, PeerFacts

LEMMA ExpandFacts ==
  ASSUME IInv, NEW r \in Rank, kpc[r] \in {"sendpk", "recvpk"}, ExpandAll(r), op' = op
  PROVE  /\ kpc'[r] = "start" /\ seal'[r] \in Nat /\ seal'[r] # 0
         /\ seal'[r] >= WorkingContextSize(Kernel(r)'.bits) /\ Kernel(r)'.bits \in helpers'[r]
         /\ seal' \in [Rank -> Nat] /\ helpers' \in [Rank -> SUBSET {32, 64, 128}]
         /\ kpc' \in [Rank -> {"lazyinit", "sendpk", "recvpk", "start", "running"}]
         /\ kpc'[Peer(r)] = kpc[Peer(r)] /\ seal'[Peer(r)] = seal[Peer(r)]
         /\ helpers'[Peer(r)] = helpers[Peer(r)]
<1> DEFINE need == WorkingContextSize(Kernel(r).bits)
<1>1. /\ Kernel(r).bits \in {32, 64, 128} /\ Peer(r) \in Rank /\ Peer(r) # r
      /\ need \in Nat \ {0}
  BY AtExchange, ContextFacts
<1>2. /\ seal \in [Rank -> Nat] /\ helpers \in [Rank -> SUBSET {32, 64, 128}]
      /\ kpc \in [Rank -> {"lazyinit", "sendpk", "recvpk", "start", "running"}]
  BY DEF IInv, TypeInv
<1>3. /\ seal' = [seal EXCEPT ![r] = need]
      /\ helpers' = [helpers EXCEPT ![r] = @ \cup {Kernel(r).bits}]
      /\ kpc' = [kpc EXCEPT ![r] = "start"]
      /\ Kernel(r)' = Kernel(r)
  BY DEF ExpandAll, Kernel
<1>4. Kernel(r)'.bits = Kernel(r).bits /\ WorkingContextSize(Kernel(r)'.bits) = need
  BY <1>3
<1> HIDE DEF need
<1>5. seal'[r] = need /\ seal' \in [Rank -> Nat] /\ seal'[Peer(r)] = seal[Peer(r)]
  BY <1>1, <1>2, <1>3
<1>6. /\ helpers'[r] = helpers[r] \cup {Kernel(r).bits} /\ helpers'[Peer(r)] = helpers[Peer(r)]
      /\ helpers' \in [Rank -> SUBSET {32, 64, 128}]
  BY <1>1, <1>2, <1>3
<1>7. /\ kpc'[r] = "start" /\ kpc'[Peer(r)] = kpc[Peer(r)]
      /\ kpc' \in [Rank -> {"lazyinit", "sendpk", "recvpk", "start", "running"}]
  BY <1>1, <1>2, <1>3
<1>8. seal'[r] \in Nat /\ seal'[r] # 0 /\ seal'[r] >= need
  BY <1>1, <1>5
<1> QED
  BY <1>4, <1>5, <1>6, <1>7, <1>8

LEMMA KeyIsPost == \A l \in Link : PublicKey \in AnyPost
BY KeyPosted DEF AnyPost, Rank, Link

LEMMA AppendIs ==
  ASSUME NEW T, NEW n \in Seq(T), NEW e \in T
  PROVE  Append(n, e) = Join2(n, <<e>>) /\ <<e>> \in Seq(T)
<1> DEFINE a == Append(n, e)
           b == <<e>>
           j == n \o b
<1>1. b \in Seq(T) /\ Len(b) = 1 /\ b[1] = e
  OBVIOUS
<1>2. /\ a \in Seq(T) /\ Len(n) \in Nat /\ Len(a) = Len(n) + 1 /\ a[Len(n) + 1] = e
      /\ \A i \in 1 .. Len(n) : a[i] = n[i]
  BY AppendProperties, LenProperties
<1> HIDE DEF a, b
<1>3. /\ j \in Seq(T) /\ Len(j) = Len(n) + Len(b)
      /\ \A i \in 1 .. Len(n) + Len(b) : j[i] = IF i <= Len(n) THEN n[i] ELSE b[i - Len(n)]
  BY <1>1, ConcatProperties
<1> HIDE DEF j
<1>4. ASSUME NEW i \in 1 .. Len(a) PROVE a[i] = j[i]
  <2>1. CASE i <= Len(n)
    BY <1>1, <1>2, <1>3, <2>1
  <2>2. CASE i = Len(n) + 1
    <3>1. ~(i <= Len(n)) /\ i - Len(n) = 1 /\ i \in 1 .. Len(n) + Len(b)
      BY <1>1, <1>2, <2>2
    <3> QED
      BY <1>1, <1>2, <1>3, <2>2, <3>1
  <2> QED
    BY <1>2, <2>1, <2>2
<1>5. a = j
  BY <1>1, <1>2, <1>3, <1>4, SeqEqual
<1> QED
  BY <1>1, <1>5 DEF a, b, j, Join2

LEMMA SendPkStep ==
  ASSUME IInv, NEW r \in Rank, SendPk(r)
  PROVE  IInv'
<1> DEFINE p == Peer(r)
           b == <<PublicKey>>
           B == {PublicKey}
<1>0. kpc[r] = "sendpk" /\ TypeInv
  BY DEF SendPk, IInv
<1>1. /\ seal[r] = 0 /\ op[r] = 1 /\ op[r] \in Steps /\ op[r] <= Len(Program) + 1
      /\ \A w \in Worker : tpc[r][w] = "none"
      /\ peerKey[r] <=> KeyTaken(r)
      /\ p \in Rank /\ p # r
  BY <1>0, AtExchange
<1>2. /\ op' = op /\ peerKey' = peerKey /\ tpc' = tpc /\ count' = count
      /\ net' = [net EXCEPT ![p]["lctx"] = Append(@, <<"pk">>)]
  BY DEF SendPk
<1>3. (KeyTaken(r) <=> r = 0) /\ ~KeySent(r)
  BY <1>0, <1>1 DEF KeyTaken, KeySent
<1>4. net' = [net EXCEPT ![p]["lctx"] = Join2(net[p]["lctx"], b)] /\ b \in Seq(AnyPost)
  <2>1. net[p]["lctx"] \in Seq(AnyPost) /\ PublicKey \in AnyPost
    BY <1>1, AtLink, KeyIsPost DEF Link
  <2>2. Append(net[p]["lctx"], PublicKey) = Join2(net[p]["lctx"], b) /\ b \in Seq(AnyPost)
    BY <2>1, AppendIs
  <2> QED
    BY <1>2, <2>2 DEF PublicKey
<1>5. /\ (seal'[r] # 0 /\ kpc'[r] = "start") \/ (seal'[r] = 0 /\ kpc'[r] = "recvpk" /\ r = 1)
      /\ r = 0 <=> seal'[r] # 0
      /\ kpc'[r] = "start" => /\ seal'[r] >= WorkingContextSize(Kernel(r)'.bits)
                              /\ Kernel(r)'.bits \in helpers'[r]
      /\ seal' \in [Rank -> Nat] /\ helpers' \in [Rank -> SUBSET {32, 64, 128}]
      /\ kpc' \in [Rank -> {"lazyinit", "sendpk", "recvpk", "start", "running"}]
      /\ kpc'[p] = kpc[p] /\ seal'[p] = seal[p] /\ helpers'[p] = helpers[p]
  <2>1. CASE peerKey[r]
    <3>1. ExpandAll(r) /\ r = 0
      BY <1>1, <1>3, <2>1 DEF SendPk
    <3> QED
      BY <1>0, <1>2, <3>1, ExpandFacts
  <2>2. CASE ~peerKey[r]
    <3>1. /\ r = 1 /\ kpc' = [kpc EXCEPT ![r] = "recvpk"] /\ seal' = seal /\ helpers' = helpers
      BY <1>1, <1>3, <2>2 DEF SendPk, Rank
    <3> QED
      BY <1>0, <1>1, <3>1 DEF TypeInv
  <2> QED
    BY <2>1, <2>2
<1>6. KeySent(r)' /\ (KeyTaken(r)' <=> r = 0)
  BY <1>5 DEF KeySent, KeyTaken, Rank
<1>7. Stays(p) /\ (net' \in [Rank -> [Link -> Seq(AnyPost)]] => TypeInv')
  BY <1>0, <1>2, <1>5 DEF Stays, TypeInv
<1>8. KeysAt(r)'
  BY <1>1, <1>2, <1>3, <1>5, <1>6 DEF KeysAt
<1>9. \A w \in Worker : ThreadAt(r, w)'
  BY <1>1, <1>2, <1>5 DEF ThreadAt
<1>10. /\ Sent(r, "lctx") = {} /\ Sent(r, "lctx")' = {PublicKey}
       /\ Taken(r, "lctx")' = Taken(r, "lctx")
  <2>1. /\ Sent(r, "lctx") = {m \in {PublicKey} : KeySent(r)}
        /\ Taken(r, "lctx") = {m \in {PublicKey} : KeyTaken(r)}
        /\ Sent(r, "lctx")' = {m \in {PublicKey} : KeySent(r)'}
        /\ Taken(r, "lctx")' = {m \in {PublicKey} : KeyTaken(r)'}
    BY <1>1, <1>2, OnlyKeys
  <2> QED
    BY <1>3, <1>6, <2>1
<1>11. \A l \in Link : l # "lctx" => Sent(r, l)' = Sent(r, l) /\ Taken(r, l)' = Taken(r, l)
  BY <1>1, <1>2, Between
<1>12. Holds(b, B) /\ B \subseteq Posts(r, "lctx")
  <2>1. Len(b) = 1 /\ b[1] = PublicKey
    OBVIOUS
  <2> HIDE DEF b
  <2>2. Holds(b, B)
    BY <2>1 DEF Holds
  <2> QED
    BY <2>2, KeyPosted
<1> HIDE DEF b
<1>13. "lctx" \in Link
  BY DEF Link
<1> QED
  BY <1>4, <1>7, <1>8, <1>9, <1>10, <1>11, <1>12, <1>13, PostStep

\* What comes first on the main link is the key of the peer.
LEMMA KeyComesFirst ==
  ASSUME IInv, NEW r \in Rank, kpc[r] = "recvpk", net[r]["lctx"] # <<>>
  PROVE  Head(net[r]["lctx"]) = PublicKey
<1>1. "lctx" \in Link
  BY DEF Link
<1>2. PublicKey \in Posts(Peer(r), "lctx")
  BY KeyPosted
<1>3. ~KeyTaken(r)
  BY AtExchange DEF KeyTaken
<1>4. PublicKey \notin Taken(r, "lctx")
  BY <1>1, <1>2, <1>3, PostTaken
<1>5. \A m \in Posts(Peer(r), "lctx") : ~Before(m, PublicKey)
  <2> TAKE m \in Posts(Peer(r), "lctx")
  <2>1. KernelOf(m) \in Nat /\ NumberOf(m) \in Nat
    BY <1>1, PeerFacts, PlaceFacts
  <2> QED
    BY <2>1, KeyFacts DEF Before
<1> QED
  BY <1>1, <1>2, <1>4, <1>5, FirstIsHead

LEMMA RecvPkStep ==
  ASSUME IInv, NEW r \in Rank, RecvPk(r)
  PROVE  IInv'
<1> DEFINE p == Peer(r)
<1>0. kpc[r] = "recvpk" /\ TypeInv /\ net[r]["lctx"] # <<>>
  BY DEF RecvPk, IInv
<1>1. /\ seal[r] = 0 /\ op[r] = 1 /\ op[r] \in Steps /\ op[r] <= Len(Program) + 1
      /\ \A w \in Worker : tpc[r][w] = "none"
      /\ p \in Rank /\ p # r
  BY <1>0, AtExchange
<1>2. /\ op' = op /\ tpc' = tpc /\ count' = count
      /\ net' = [net EXCEPT ![r]["lctx"] = Tail(@)]
      /\ peerKey' = [peerKey EXCEPT ![r] = Head(net[r]["lctx"]) = <<"pk">>]
  BY DEF RecvPk
<1>3. ~KeyTaken(r) /\ (KeySent(r) <=> r = 1)
  BY <1>0, <1>1 DEF KeyTaken, KeySent
<1>4. Head(net[r]["lctx"]) = PublicKey
  BY <1>0, KeyComesFirst
<1>5. /\ peerKey'[r] = TRUE /\ peerKey'[p] = peerKey[p] /\ peerKey' \in [Rank -> BOOLEAN]
  <2>1. peerKey' = [peerKey EXCEPT ![r] = TRUE]
    BY <1>2, <1>4 DEF PublicKey
  <2>2. peerKey \in [Rank -> BOOLEAN]
    BY <1>0 DEF TypeInv
  <2> QED
    BY <1>1, <2>1, <2>2
<1>6. /\ \/ seal'[r] # 0 /\ kpc'[r] = "start" /\ r = 1
         \/ seal'[r] = 0 /\ kpc'[r] = "sendpk" /\ r = 0
      /\ kpc'[r] = "start" => /\ seal'[r] >= WorkingContextSize(Kernel(r)'.bits)
                              /\ Kernel(r)'.bits \in helpers'[r]
      /\ seal' \in [Rank -> Nat] /\ helpers' \in [Rank -> SUBSET {32, 64, 128}]
      /\ kpc' \in [Rank -> {"lazyinit", "sendpk", "recvpk", "start", "running"}]
      /\ kpc'[p] = kpc[p] /\ seal'[p] = seal[p] /\ helpers'[p] = helpers[p]
  <2>1. CASE r = 1
    <3>1. ExpandAll(r)
      BY <2>1 DEF RecvPk
    <3> QED
      BY <1>0, <1>2, <2>1, <3>1, ExpandFacts
  <2>2. CASE r # 1
    <3>1. /\ r = 0 /\ kpc' = [kpc EXCEPT ![r] = "sendpk"] /\ seal' = seal /\ helpers' = helpers
      BY <2>2 DEF RecvPk, Rank
    <3> QED
      BY <1>0, <1>1, <3>1 DEF TypeInv
  <2> QED
    BY <2>1, <2>2
<1>7. KeyTaken(r)' /\ (KeySent(r)' <=> r = 1)
  BY <1>6 DEF KeySent, KeyTaken, Rank
<1>8. Stays(p) /\ (net' \in [Rank -> [Link -> Seq(AnyPost)]] => TypeInv')
  BY <1>0, <1>2, <1>5, <1>6 DEF Stays, TypeInv
<1>9. KeysAt(r)'
  BY <1>1, <1>2, <1>5, <1>6, <1>7 DEF KeysAt
<1>10. \A w \in Worker : ThreadAt(r, w)'
  BY <1>1, <1>2, <1>6 DEF ThreadAt
<1>11. /\ Taken(r, "lctx")' = Taken(r, "lctx") \cup {Head(net[r]["lctx"])}
       /\ Sent(r, "lctx")' = Sent(r, "lctx")
  <2>1. /\ Sent(r, "lctx") = {m \in {PublicKey} : KeySent(r)}
        /\ Taken(r, "lctx") = {m \in {PublicKey} : KeyTaken(r)}
        /\ Sent(r, "lctx")' = {m \in {PublicKey} : KeySent(r)'}
        /\ Taken(r, "lctx")' = {m \in {PublicKey} : KeyTaken(r)'}
    BY <1>1, <1>2, OnlyKeys
  <2> QED
    BY <1>3, <1>4, <1>7, <2>1
<1>12. \A l \in Link : l # "lctx" => Sent(r, l)' = Sent(r, l) /\ Taken(r, l)' = Taken(r, l)
  BY <1>1, <1>2, Between
<1>13. "lctx" \in Link /\ net' = [net EXCEPT ![r]["lctx"] = Tail(net[r]["lctx"])]
  BY <1>2 DEF Link
<1>14. \A l \in Link : Sent(r, l)' = Sent(r, l)
  BY <1>11, <1>12
<1> QED
  BY <1>0, <1>8, <1>9, <1>10, <1>11, <1>12, <1>13, <1>14, TakeStep

-----------------------------------------------------------------------------
(* Tasks start and end.                                                    *)

\* Nothing is sent or taken by a step that only moves thread positions over
\* phases in which nothing is left to do.
LEMMA SameItems ==
  ASSUME IInv, NEW r \in Rank, seal'[r] = seal[r], seal[r] # 0,
         \A c \in Steps, w \in Worker, i \in Nat :
           /\ TaskAt(c, w).n # 0 /\ i < TotalAt(c, w, r) =>
                ((c < op'[r] \/ (c = op'[r] /\ InSent(r, w, i)')) <=>
                 (c < op[r] \/ (c = op[r] /\ InSent(r, w, i))))
           /\ TaskAt(c, w).n # 0 /\ i < TotalAt(c, w, Peer(r)) =>
                ((c < op'[r] \/ (c = op'[r] /\ InTaken(r, w, i)')) <=>
                 (c < op[r] \/ (c = op[r] /\ InTaken(r, w, i))))
  PROVE  \A l \in Link : Sent(r, l)' = Sent(r, l) /\ Taken(r, l)' = Taken(r, l)
<1> TAKE l \in Link
<1>1. KeySent(r) /\ KeyTaken(r) /\ KeySent(r)' /\ KeyTaken(r)'
  BY DEF KeySent, KeyTaken
<1>2. ASSUME NEW m \in Posts(r, l)
      PROVE  HasSent(m, r)' <=> HasSent(m, r)
  <2>1. CASE m = PublicKey
    BY <1>1, <2>1 DEF HasSent
  <2>2. CASE m # PublicKey
    <3>1. PICK c \in Steps, w \in Worker :
            /\ TaskAt(c, w).n # 0
            /\ \E i \in 0 .. TotalAt(c, w, r) - 1 :
                 i \in Nat /\ m[2] = c /\ m[3] = w /\ m[4] = i
      BY <2>2, PostFacts
    <3>2. PICK i \in 0 .. TotalAt(c, w, r) - 1 : i \in Nat /\ m[2] = c /\ m[3] = w /\ m[4] = i
      BY <3>1
    <3>3. i < TotalAt(c, w, r)
      BY <3>1, TotalFacts
    <3>4. (c < op'[r] \/ (c = op'[r] /\ InSent(r, w, i)')) <=>
          (c < op[r] \/ (c = op[r] /\ InSent(r, w, i)))
      BY <3>1, <3>2, <3>3
    <3>5. InSent(r, w, i)' <=> InSent(r, m[3], m[4])'
      BY <3>2 DEF InSent
    <3> QED
      BY <2>2, <3>2, <3>4, <3>5 DEF HasSent
  <2> QED
    BY <2>1, <2>2
<1>3. ASSUME NEW m \in Posts(Peer(r), l)
      PROVE  HasTaken(m, r)' <=> HasTaken(m, r)
  <2>1. CASE m = PublicKey
    BY <1>1, <2>1 DEF HasTaken
  <2>2. CASE m # PublicKey
    <3>1. PICK c \in Steps, w \in Worker :
            /\ TaskAt(c, w).n # 0
            /\ \E i \in 0 .. TotalAt(c, w, Peer(r)) - 1 :
                 i \in Nat /\ m[2] = c /\ m[3] = w /\ m[4] = i
      BY <2>2, PostFacts, PeerFacts
    <3>2. PICK i \in 0 .. TotalAt(c, w, Peer(r)) - 1 :
            i \in Nat /\ m[2] = c /\ m[3] = w /\ m[4] = i
      BY <3>1
    <3>3. i < TotalAt(c, w, Peer(r))
      BY <3>1, TotalFacts, PeerFacts
    <3>4. (c < op'[r] \/ (c = op'[r] /\ InTaken(r, w, i)')) <=>
          (c < op[r] \/ (c = op[r] /\ InTaken(r, w, i)))
      BY <3>1, <3>2, <3>3
    <3>5. InTaken(r, w, i)' <=> InTaken(r, m[3], m[4])'
      BY <3>2 DEF InTaken
    <3> QED
      BY <2>2, <3>2, <3>4, <3>5 DEF HasTaken
  <2> QED
    BY <2>1, <2>2
<1> QED
  BY <1>2, <1>3 DEF Sent, Taken

Phases == {"none", "deferred", "encsend", "encrecv", "evalrecv", "respond", "finished"}

LEMMA SetFacts ==
  ASSUME NEW T, NEW f \in [Rank -> [Worker -> T]], NEW g, NEW r \in Rank, NEW w \in Worker,
         NEW q \in T, g = [f EXCEPT ![r][w] = q]
  PROVE  /\ g \in [Rank -> [Worker -> T]]
         /\ g[r][w] = q
         /\ \A v \in Worker : v # w => g[r][v] = f[r][v]
         /\ \A s \in Rank : s # r => g[s] = f[s]
         /\ q = f[r][w] => g = f
<1>1. g = [f EXCEPT ![r] = [f[r] EXCEPT ![w] = q]]
  OBVIOUS
<1>2. [f[r] EXCEPT ![w] = q] \in [Worker -> T]
  OBVIOUS
<1>3. g \in [Rank -> [Worker -> T]] /\ g[r] = [f[r] EXCEPT ![w] = q]
  BY <1>1, <1>2
<1>4. g[r][w] = q /\ \A v \in Worker : v # w => g[r][v] = f[r][v]
  BY <1>3
<1>5. \A s \in Rank : s # r => g[s] = f[s]
  BY <1>1
<1>6. ASSUME q = f[r][w] PROVE g = f
  <2>1. g[r] = f[r]
    BY <1>3, <1>6
  <2>2. \A s \in Rank : g[s] = f[s]
    BY <1>5, <2>1
  <2> QED
    BY <1>3, <2>2
<1> QED
  BY <1>3, <1>4, <1>5, <1>6

\* A thread gets to phase q, with d messages of it done.
ThreadTo(r, w, q, d) ==
  /\ op' = op /\ kpc' = kpc /\ seal' = seal /\ peerKey' = peerKey /\ helpers' = helpers
  /\ tpc' = [tpc EXCEPT ![r][w] = q]
  /\ count' = [count EXCEPT ![r][w] = d]

LEMMA ThreadToFacts ==
  ASSUME IInv, NEW r \in Rank, NEW w \in Worker, NEW q \in Phases, NEW d \in Nat,
         tpc[r][w] # "none", q # "none", ThreadTo(r, w, q, d)
  PROVE  /\ tpc'[r][w] = q /\ count'[r][w] = d
         /\ \A v \in Worker : v # w => tpc'[r][v] = tpc[r][v] /\ count'[r][v] = count[r][v]
         /\ Stays(Peer(r)) /\ KeysAt(r)'
         /\ net' \in [Rank -> [Link -> Seq(AnyPost)]] => TypeInv'
         /\ \A v \in Worker : v # w => ThreadAt(r, v)'
         /\ kpc[r] = "running" /\ kpc'[r] = "running"
<1>1. Peer(r) \in Rank /\ Peer(r) # r
  BY PeerFacts
<1>2. /\ tpc \in [Rank -> [Worker -> Phases]] /\ count \in [Rank -> [Worker -> Nat]]
      /\ KeysAt(r) /\ \A v \in Worker : ThreadAt(r, v)
  BY DEF IInv, TypeInv, Phases
<1>3. /\ tpc' \in [Rank -> [Worker -> Phases]] /\ tpc'[r][w] = q
      /\ \A v \in Worker : v # w => tpc'[r][v] = tpc[r][v]
      /\ tpc'[Peer(r)] = tpc[Peer(r)]
  <2>1. tpc' = [tpc EXCEPT ![r][w] = q]
    BY DEF ThreadTo
  <2> QED
    BY <1>1, <1>2, <2>1, SetFacts
<1>4. /\ count' \in [Rank -> [Worker -> Nat]] /\ count'[r][w] = d
      /\ \A v \in Worker : v # w => count'[r][v] = count[r][v]
      /\ count'[Peer(r)] = count[Peer(r)]
  <2>1. count' = [count EXCEPT ![r][w] = d]
    BY DEF ThreadTo
  <2> QED
    BY <1>1, <1>2, <2>1, SetFacts
<1>5. /\ op' = op /\ kpc' = kpc /\ seal' = seal /\ peerKey' = peerKey /\ helpers' = helpers
  BY DEF ThreadTo
<1>6. Stays(Peer(r))
  BY <1>3, <1>4, <1>5 DEF Stays
<1>7. KeysAt(r)'
  BY <1>2, <1>5 DEF KeysAt, KeyTaken, Kernel
<1>8. net' \in [Rank -> [Link -> Seq(AnyPost)]] => TypeInv'
  BY <1>3, <1>4, <1>5 DEF IInv, TypeInv, Phases
<1>9. ASSUME NEW v \in Worker, v # w PROVE ThreadAt(r, v)'
  <2>1. ThreadAt(r, v) /\ tpc'[r][v] = tpc[r][v] /\ count'[r][v] = count[r][v]
    BY <1>2, <1>3, <1>4, <1>9
  <2> QED
    BY <1>5, <2>1 DEF ThreadAt, TaskAt, TotalAt, PolysAt
<1>10. kpc[r] = "running"
  BY <1>2 DEF ThreadAt
<1> QED
  BY <1>3, <1>4, <1>5, <1>6, <1>7, <1>8, <1>9, <1>10

\* A thread that goes to another phase has nothing left to do in its own.
LEMMA PhaseStep ==
  ASSUME IInv, NEW r \in Rank, NEW w \in Worker, NEW q \in Phases, NEW d \in Nat,
         tpc[r][w] # "none", q # "none", ThreadTo(r, w, q, d), net' = net, ThreadAt(r, w)',
         \A i \in Nat :
           /\ TaskAt(op[r], w).n # 0 /\ i < TotalAt(op[r], w, r) =>
                (InSent(r, w, i)' <=> InSent(r, w, i))
           /\ TaskAt(op[r], w).n # 0 /\ i < TotalAt(op[r], w, Peer(r)) =>
                (InTaken(r, w, i)' <=> InTaken(r, w, i))
  PROVE  IInv'
<1>1. /\ \A v \in Worker : v # w => tpc'[r][v] = tpc[r][v] /\ count'[r][v] = count[r][v]
      /\ Stays(Peer(r)) /\ KeysAt(r)'
      /\ net' \in [Rank -> [Link -> Seq(AnyPost)]] => TypeInv'
      /\ \A v \in Worker : v # w => ThreadAt(r, v)'
  BY ThreadToFacts
<1>2. TypeInv'
  BY <1>1 DEF IInv, TypeInv
<1>3. op' = op /\ seal' = seal /\ seal[r] # 0
  BY KeysDone DEF ThreadTo
<1>4. ASSUME NEW c \in Steps, NEW v \in Worker, NEW i \in Nat
      PROVE  /\ TaskAt(c, v).n # 0 /\ i < TotalAt(c, v, r) =>
                ((c < op'[r] \/ (c = op'[r] /\ InSent(r, v, i)')) <=>
                 (c < op[r] \/ (c = op[r] /\ InSent(r, v, i))))
             /\ TaskAt(c, v).n # 0 /\ i < TotalAt(c, v, Peer(r)) =>
                ((c < op'[r] \/ (c = op'[r] /\ InTaken(r, v, i)')) <=>
                 (c < op[r] \/ (c = op[r] /\ InTaken(r, v, i))))
  <2>1. CASE v = w
    <3>1. CASE c = op[r]
      BY <1>3, <2>1, <3>1
    <3>2. CASE c # op[r]
      BY <1>3, <3>2
    <3> QED
      BY <3>1, <3>2
  <2>2. CASE v # w
    <3>1. (InSent(r, v, i)' <=> InSent(r, v, i)) /\ (InTaken(r, v, i)' <=> InTaken(r, v, i))
      BY <1>1, <2>2 DEF InSent, InTaken
    <3> QED
      BY <1>3, <3>1
  <2> QED
    BY <2>1, <2>2
<1>5. \A l \in Link : Sent(r, l)' = Sent(r, l) /\ Taken(r, l)' = Taken(r, l)
  BY <1>3, <1>4, SameItems
<1>6. \A v \in Worker : ThreadAt(r, v)'
  BY <1>1
<1> QED
  BY <1>1, <1>2, <1>5, <1>6, QuietStep

LEMMA FirstPhaseFacts ==
  ASSUME NEW c \in Steps, NEW w \in Worker, NEW r \in Rank
  PROVE  LET q == FirstPhase(r, TaskAt(c, w)) IN
         /\ q \in {"finished", "evalrecv", "encsend"}
         /\ q = "finished" => TaskAt(c, w).n = 0
         /\ q = "evalrecv" => TaskAt(c, w).n # 0 /\ TaskAt(c, w).evaluator = r
         /\ q = "encsend" => TaskAt(c, w).n # 0 /\ TaskAt(c, w).evaluator = Peer(r)
         /\ TaskAt(c, w).n # 0 => TotalAt(c, w, r) >= 0 /\ TotalAt(c, w, Peer(r)) >= 0
<1>1. TaskAt(c, w).n # 0 => TaskAt(c, w).evaluator \in {r, Peer(r)}
  BY TaskFacts, PeerFacts
<1>2. TaskAt(c, w).n # 0 => TotalAt(c, w, r) \in Nat /\ TotalAt(c, w, Peer(r)) \in Nat
  BY TotalFacts, PeerFacts
<1> QED
  BY <1>1, <1>2 DEF FirstPhase

LEMMA StartTasksStep ==
  ASSUME IInv, NEW r \in Rank, StartTasks(r)
  PROVE  IInv'
<1>0. TypeInv /\ KeysAt(r) /\ kpc[r] = "start" /\ op[r] \in Steps /\ seal[r] # 0
  BY KeysDone DEF StartTasks, IInv, KeysAt
<1>1. Peer(r) \in Rank /\ Peer(r) # r
  BY PeerFacts
<1>2. \A w \in Worker : tpc[r][w] = "none"
  BY <1>0 DEF IInv, ThreadAt
<1>3. /\ op' = op /\ seal' = seal /\ peerKey' = peerKey /\ helpers' = helpers /\ net' = net
      /\ kpc' = [kpc EXCEPT ![r] = "running"]
      /\ count' = [count EXCEPT ![r] = [w \in Worker |-> 0]]
  BY DEF StartTasks
<1>4. PICK policy \in {"async", "deferred"} :
        tpc' = [tpc EXCEPT ![r] = [w \in Worker |->
                  IF w = "sub" /\ policy = "deferred" THEN "deferred"
                  ELSE FirstPhase(r, TaskOf(Kernel(r), w))]]
  BY DEF StartTasks
<1>5. \A w \in Worker : TaskOf(Kernel(r), w) = TaskAt(op[r], w)
  BY DEF TaskAt, Kernel
<1> DEFINE q(w) == IF w = "sub" /\ policy = "deferred" THEN "deferred"
                   ELSE FirstPhase(r, TaskAt(op[r], w))
<1>6. tpc' = [tpc EXCEPT ![r] = [w \in Worker |-> q(w)]]
  BY <1>4, <1>5
<1>7. \A w \in Worker :
        /\ q(w) \in {"deferred", "finished", "evalrecv", "encsend"}
        /\ q(w) = "finished" => TaskAt(op[r], w).n = 0
        /\ q(w) = "evalrecv" => TaskAt(op[r], w).n # 0 /\ TaskAt(op[r], w).evaluator = r
        /\ q(w) = "encsend" => TaskAt(op[r], w).n # 0 /\ TaskAt(op[r], w).evaluator = Peer(r)
        /\ TaskAt(op[r], w).n # 0 =>
             TotalAt(op[r], w, r) >= 0 /\ TotalAt(op[r], w, Peer(r)) >= 0
  BY <1>0, FirstPhaseFacts
<1> HIDE DEF q
<1>8. /\ \A w \in Worker : tpc'[r][w] = q(w) /\ count'[r][w] = 0
      /\ kpc'[r] = "running" /\ TypeInv' /\ Stays(Peer(r))
  <2>1. /\ \A w \in Worker : q(w) \in {"none", "deferred", "encsend", "encrecv",
                                       "evalrecv", "respond", "finished"}
    BY <1>7
  <2>2. /\ tpc' \in [Rank -> [Worker -> {"none", "deferred", "encsend", "encrecv",
                                         "evalrecv", "respond", "finished"}]]
        /\ \A w \in Worker : tpc'[r][w] = q(w)
        /\ tpc'[Peer(r)] = tpc[Peer(r)]
    BY <1>0, <1>1, <1>6, <2>1 DEF TypeInv
  <2>3. /\ count' \in [Rank -> [Worker -> Nat]] /\ \A w \in Worker : count'[r][w] = 0
        /\ count'[Peer(r)] = count[Peer(r)]
    BY <1>0, <1>1, <1>3 DEF TypeInv
  <2>4. /\ kpc' \in [Rank -> {"lazyinit", "sendpk", "recvpk", "start", "running"}]
        /\ kpc'[r] = "running" /\ kpc'[Peer(r)] = kpc[Peer(r)]
    BY <1>0, <1>1, <1>3 DEF TypeInv
  <2>5. TypeInv'
    BY <1>0, <1>3, <2>2, <2>3, <2>4 DEF TypeInv
  <2> QED
    BY <1>3, <2>2, <2>3, <2>4, <2>5 DEF Stays
<1>9. KeysAt(r)'
  BY <1>0, <1>3, <1>8 DEF KeysAt, KeyTaken, Kernel
<1>10. ASSUME NEW w \in Worker PROVE ThreadAt(r, w)'
  BY <1>3, <1>7, <1>8 DEF ThreadAt, TaskAt, TotalAt, PolysAt, Peer
<1>11. ASSUME NEW c \in Steps, NEW w \in Worker, NEW i \in Nat, TaskAt(c, w).n # 0
       PROVE  /\ (c < op'[r] \/ (c = op'[r] /\ InSent(r, w, i)')) <=>
                 (c < op[r] \/ (c = op[r] /\ InSent(r, w, i)))
              /\ (c < op'[r] \/ (c = op'[r] /\ InTaken(r, w, i)')) <=>
                 (c < op[r] \/ (c = op[r] /\ InTaken(r, w, i)))
  <2>1. ~InSent(r, w, i) /\ ~InTaken(r, w, i)
    BY <1>2 DEF InSent, InTaken
  <2>2. c = op[r] => ~InSent(r, w, i)' /\ ~InTaken(r, w, i)'
    BY <1>7, <1>8, <1>11 DEF InSent, InTaken
  <2> QED
    BY <1>3, <2>1, <2>2
<1>12. \A l \in Link : Sent(r, l)' = Sent(r, l) /\ Taken(r, l)' = Taken(r, l)
  BY <1>0, <1>3, <1>11, SameItems
<1> QED
  BY <1>3, <1>8, <1>9, <1>10, <1>12, QuietStep

LEMMA RunDeferredStep ==
  ASSUME IInv, NEW r \in Rank, RunDeferred(r)
  PROVE  IInv'
<1> DEFINE q == FirstPhase(r, TaskAt(op[r], "sub"))
<1>0. TypeInv /\ tpc[r]["sub"] = "deferred" /\ "sub" \in Worker
  BY DEF RunDeferred, IInv, Worker
<1>1. count[r]["sub"] = 0 /\ ThreadAt(r, "sub")
  BY <1>0 DEF IInv, ThreadAt
<1>2. op[r] \in Steps
  BY <1>0, KeysDone
<1>3. /\ q \in {"finished", "evalrecv", "encsend"}
      /\ q = "finished" => TaskAt(op[r], "sub").n = 0
      /\ q = "evalrecv" => TaskAt(op[r], "sub").n # 0 /\ TaskAt(op[r], "sub").evaluator = r
      /\ q = "encsend" => TaskAt(op[r], "sub").n # 0 /\ TaskAt(op[r], "sub").evaluator = Peer(r)
      /\ TaskAt(op[r], "sub").n # 0 =>
           TotalAt(op[r], "sub", r) >= 0 /\ TotalAt(op[r], "sub", Peer(r)) >= 0
  BY <1>0, <1>2, FirstPhaseFacts
<1>4. q = FirstPhase(r, SubTask(Kernel(r)))
  BY DEF TaskAt, TaskOf, Kernel
<1>5. ThreadTo(r, "sub", q, 0) /\ net' = net
  <2>1. count = [count EXCEPT ![r]["sub"] = 0]
    BY <1>0, <1>1, SetFacts DEF TypeInv
  <2> HIDE DEF q
  <2> QED
    BY <1>4, <2>1 DEF RunDeferred, ThreadTo
<1> HIDE DEF q
<1>6. q \in Phases /\ q # "none" /\ 0 \in Nat
  BY <1>3 DEF Phases
<1>7. tpc'[r]["sub"] = q /\ count'[r]["sub"] = 0 /\ kpc'[r] = "running"
  BY <1>0, <1>5, <1>6, ThreadToFacts
<1>8. op' = op
  BY <1>5 DEF ThreadTo
<1>9. ThreadAt(r, "sub")'
  BY <1>3, <1>7, <1>8 DEF ThreadAt, TaskAt, TotalAt, PolysAt
<1>10. ASSUME NEW i \in Nat, TaskAt(op[r], "sub").n # 0
       PROVE  /\ InSent(r, "sub", i)' <=> InSent(r, "sub", i)
              /\ InTaken(r, "sub", i)' <=> InTaken(r, "sub", i)
  <2>1. ~InSent(r, "sub", i) /\ ~InTaken(r, "sub", i)
    BY <1>0 DEF InSent, InTaken
  <2>2. ~InSent(r, "sub", i)' /\ ~InTaken(r, "sub", i)'
    BY <1>3, <1>7, <1>10 DEF InSent, InTaken
  <2> QED
    BY <2>1, <2>2
<1> QED
  BY <1>0, <1>5, <1>6, <1>9, <1>10, PhaseStep

LEMMA JoinStep ==
  ASSUME IInv, NEW r \in Rank, Join(r)
  PROVE  IInv'
<1>0. /\ TypeInv /\ KeysAt(r) /\ kpc[r] = "running" /\ op[r] \in Steps /\ seal[r] # 0
      /\ op[r] \in Nat \ {0} /\ \A w \in Worker : tpc[r][w] = "finished"
  BY KeysDone DEF Join, IInv, KeysAt
<1>1. Peer(r) \in Rank /\ Peer(r) # r
  BY PeerFacts
<1>2. /\ op' = [op EXCEPT ![r] = @ + 1] /\ kpc' = [kpc EXCEPT ![r] = "lazyinit"]
      /\ tpc' = [tpc EXCEPT ![r] = [w \in Worker |-> "none"]]
      /\ seal' = seal /\ peerKey' = peerKey /\ helpers' = helpers
      /\ count' = count /\ net' = net
  BY DEF Join
<1>3. /\ op'[r] = op[r] + 1 /\ kpc'[r] = "lazyinit" /\ \A w \in Worker : tpc'[r][w] = "none"
      /\ TypeInv' /\ Stays(Peer(r))
  <2>1. op' \in [Rank -> Nat \ {0}] /\ op'[r] = op[r] + 1 /\ op'[Peer(r)] = op[Peer(r)]
    BY <1>0, <1>1, <1>2 DEF TypeInv
  <2>2. /\ tpc' \in [Rank -> [Worker -> {"none", "deferred", "encsend", "encrecv",
                                         "evalrecv", "respond", "finished"}]]
        /\ \A w \in Worker : tpc'[r][w] = "none"
        /\ tpc'[Peer(r)] = tpc[Peer(r)]
    BY <1>0, <1>1, <1>2 DEF TypeInv
  <2>3. /\ kpc' \in [Rank -> {"lazyinit", "sendpk", "recvpk", "start", "running"}]
        /\ kpc'[r] = "lazyinit" /\ kpc'[Peer(r)] = kpc[Peer(r)]
    BY <1>0, <1>1, <1>2 DEF TypeInv
  <2>4. TypeInv'
    BY <1>0, <1>2, <2>1, <2>2, <2>3 DEF TypeInv
  <2> QED
    BY <1>2, <2>1, <2>2, <2>3, <2>4 DEF Stays
<1>4. op'[r] <= Len(Program) + 1
  BY <1>0, <1>3, ProgramFacts DEF Steps
<1>5. KeysAt(r)'
  <2>1. KeyTaken(r)' /\ KeyTaken(r)
    BY <1>0, <1>2 DEF KeyTaken
  <2> QED
    BY <1>0, <1>2, <1>3, <1>4, <2>1 DEF KeysAt
<1>6. \A w \in Worker : ThreadAt(r, w)'
  BY <1>3 DEF ThreadAt
<1>7. ASSUME NEW c \in Steps, NEW w \in Worker, NEW i \in Nat
      PROVE  /\ (c < op'[r] \/ (c = op'[r] /\ InSent(r, w, i)')) <=>
                (c < op[r] \/ (c = op[r] /\ InSent(r, w, i)))
             /\ (c < op'[r] \/ (c = op'[r] /\ InTaken(r, w, i)')) <=>
                (c < op[r] \/ (c = op[r] /\ InTaken(r, w, i)))
  <2>1. InSent(r, w, i) /\ InTaken(r, w, i)
    BY <1>0 DEF InSent, InTaken
  <2>2. ~InSent(r, w, i)' /\ ~InTaken(r, w, i)'
    BY <1>3 DEF InSent, InTaken
  <2>3. c < op'[r] <=> c < op[r] \/ c = op[r]
    BY <1>0, <1>3, ProgramFacts
  <2> QED
    BY <2>1, <2>2, <2>3
<1>8. \A l \in Link : Sent(r, l)' = Sent(r, l) /\ Taken(r, l)' = Taken(r, l)
  BY <1>0, <1>2, <1>7, SameItems
<1> QED
  BY <1>2, <1>3, <1>5, <1>6, <1>8, QuietStep

-----------------------------------------------------------------------------
(* Messages are sent and taken.                                            *)

\* What a thread has sent and taken when the count of its phase is set.
LEMMA CountFacts ==
  ASSUME IInv, NEW r \in Rank, NEW w \in Worker, tpc[r][w] # "none", NEW d \in Nat,
         ThreadTo(r, w, tpc[r][w], d), TaskAt(op[r], w).n # 0, NEW l \in Link
  PROVE  /\ \A m \in Posts(r, l) :
              m \in Sent(r, l)' <=>
                IF m # PublicKey /\ KernelOf(m) = op[r] /\ l = TaskAt(op[r], w).link
                THEN InSent(r, w, NumberOf(m))' ELSE m \in Sent(r, l)
         /\ \A m \in Posts(Peer(r), l) :
              m \in Taken(r, l)' <=>
                IF m # PublicKey /\ KernelOf(m) = op[r] /\ l = TaskAt(op[r], w).link
                THEN InTaken(r, w, NumberOf(m))' ELSE m \in Taken(r, l)
<1>0. tpc[r][w] \in Phases /\ Peer(r) \in Rank
  BY PeerFacts DEF IInv, TypeInv, Phases
<1>1. /\ \A v \in Worker : v # w => tpc'[r][v] = tpc[r][v] /\ count'[r][v] = count[r][v]
  BY <1>0, ThreadToFacts
<1>2. op' = op /\ kpc' = kpc /\ seal' = seal
  BY DEF ThreadTo
<1>3. \A v \in Worker : \A i :
        v # w => /\ InSent(r, v, i)' <=> InSent(r, v, i)
                 /\ InTaken(r, v, i)' <=> InTaken(r, v, i)
  BY <1>1 DEF InSent, InTaken
<1>4. (KeySent(r)' <=> KeySent(r)) /\ (KeyTaken(r)' <=> KeyTaken(r))
  BY <1>2 DEF KeySent, KeyTaken
<1>5. ASSUME NEW s \in Rank, NEW m \in Posts(s, l), m # PublicKey
      PROVE  /\ KernelOf(m) = m[2] /\ NumberOf(m) = m[4] /\ m[3] \in Worker
             /\ m[2] = op[r] => (l = TaskAt(op[r], w).link <=> m[3] = w)
  <2>1. /\ KernelOf(m) = m[2] /\ NumberOf(m) = m[4]
    BY <1>5, PlaceFacts
  <2>2. /\ m[3] \in Worker /\ TaskAt(KernelOf(m), m[3]).link = l
        /\ \A v \in Worker :
             TaskAt(KernelOf(m), v).n # 0 /\ TaskAt(KernelOf(m), v).link = l => m[3] = v
    BY <1>5, ThreadOfPost
  <2> QED
    BY <2>1, <2>2
<1>6. ASSUME NEW m \in Posts(r, l)
      PROVE  m \in Sent(r, l)' <=>
               IF m # PublicKey /\ KernelOf(m) = op[r] /\ l = TaskAt(op[r], w).link
               THEN InSent(r, w, NumberOf(m))' ELSE m \in Sent(r, l)
  <2>1. (m \in Sent(r, l)' <=> HasSent(m, r)') /\ (m \in Sent(r, l) <=> HasSent(m, r))
    BY DEF Sent
  <2>2. CASE m = PublicKey
    BY <1>4, <2>1, <2>2 DEF HasSent
  <2>3. CASE m # PublicKey
    <3>1. /\ KernelOf(m) = m[2] /\ NumberOf(m) = m[4] /\ m[3] \in Worker
          /\ m[2] = op[r] => (l = TaskAt(op[r], w).link <=> m[3] = w)
      BY <1>5, <2>3
    <3>2. HasSent(m, r)' <=> m[2] < op[r] \/ (m[2] = op[r] /\ InSent(r, m[3], m[4])')
      BY <1>2, <2>3 DEF HasSent, InSent
    <3>3. HasSent(m, r) <=> m[2] < op[r] \/ (m[2] = op[r] /\ InSent(r, m[3], m[4]))
      BY <2>3 DEF HasSent
    <3>4. op[r] \in Nat
      BY KeysDone
    <3>5. CASE m[2] = op[r] /\ m[3] = w
      <4>1. InSent(r, m[3], m[4])' <=> InSent(r, w, NumberOf(m))'
        BY <3>1, <3>5 DEF InSent
      <4> QED
        BY <2>1, <2>3, <3>1, <3>2, <3>4, <3>5, <4>1
    <3>6. CASE m[2] = op[r] /\ m[3] # w
      <4>1. InSent(r, m[3], m[4])' <=> InSent(r, m[3], m[4])
        BY <1>3, <3>1, <3>6
      <4> QED
        BY <2>1, <3>1, <3>2, <3>3, <3>6, <4>1
    <3>7. CASE m[2] # op[r]
      BY <2>1, <3>1, <3>2, <3>3, <3>7
    <3> QED
      BY <3>5, <3>6, <3>7
  <2> QED
    BY <2>2, <2>3
<1>7. ASSUME NEW m \in Posts(Peer(r), l)
      PROVE  m \in Taken(r, l)' <=>
               IF m # PublicKey /\ KernelOf(m) = op[r] /\ l = TaskAt(op[r], w).link
               THEN InTaken(r, w, NumberOf(m))' ELSE m \in Taken(r, l)
  <2>1. (m \in Taken(r, l)' <=> HasTaken(m, r)') /\ (m \in Taken(r, l) <=> HasTaken(m, r))
    BY DEF Taken
  <2>2. CASE m = PublicKey
    BY <1>4, <2>1, <2>2 DEF HasTaken
  <2>3. CASE m # PublicKey
    <3>1. /\ KernelOf(m) = m[2] /\ NumberOf(m) = m[4] /\ m[3] \in Worker
          /\ m[2] = op[r] => (l = TaskAt(op[r], w).link <=> m[3] = w)
      BY <1>0, <1>5, <2>3
    <3>2. HasTaken(m, r)' <=> m[2] < op[r] \/ (m[2] = op[r] /\ InTaken(r, m[3], m[4])')
      BY <1>2, <2>3 DEF HasTaken, InTaken
    <3>3. HasTaken(m, r) <=> m[2] < op[r] \/ (m[2] = op[r] /\ InTaken(r, m[3], m[4]))
      BY <2>3 DEF HasTaken
    <3>4. op[r] \in Nat
      BY KeysDone
    <3>5. CASE m[2] = op[r] /\ m[3] = w
      <4>1. InTaken(r, m[3], m[4])' <=> InTaken(r, w, NumberOf(m))'
        BY <3>1, <3>5 DEF InTaken
      <4> QED
        BY <2>1, <2>3, <3>1, <3>2, <3>4, <3>5, <4>1
    <3>6. CASE m[2] = op[r] /\ m[3] # w
      <4>1. InTaken(r, m[3], m[4])' <=> InTaken(r, m[3], m[4])
        BY <1>3, <3>1, <3>6
      <4> QED
        BY <2>1, <3>1, <3>2, <3>3, <3>6, <4>1
    <3>7. CASE m[2] # op[r]
      BY <2>1, <3>1, <3>2, <3>3, <3>7
    <3> QED
      BY <3>5, <3>6, <3>7
  <2> QED
    BY <2>2, <2>3
<1> QED
  BY <1>6, <1>7

\* The messages from number d to number d + m - 1 of a task.
Part(c, w, s, d, m) == [j \in 1 .. m |-> Item(c, w, s, d + j - 1)]
PartSet(c, w, s, d, m) == {Item(c, w, s, i) : i \in d .. d + m - 1}

LEMMA PartFacts ==
  ASSUME NEW c \in Steps, NEW w \in Worker, NEW s \in Rank, NEW d \in Nat, NEW m \in Nat,
         TaskAt(c, w).n # 0, d + m <= TotalAt(c, w, s)
  PROVE  /\ Part(c, w, s, d, m) \in Seq(AnyPost)
         /\ Holds(Part(c, w, s, d, m), PartSet(c, w, s, d, m))
         /\ PartSet(c, w, s, d, m) \subseteq Posts(s, TaskAt(c, w).link)
<1> DEFINE b == Part(c, w, s, d, m)
           B == PartSet(c, w, s, d, m)
           k == TaskAt(c, w).link
<1>1. k \in Link /\ TotalAt(c, w, s) \in Nat
  BY TaskFacts, TotalFacts
<1>2. ASSUME NEW i \in d .. d + m - 1
      PROVE  i \in Nat /\ Item(c, w, s, i) \in Posts(s, k) /\ Item(c, w, s, i) \in AnyPost
  <2>1. i \in 0 .. TotalAt(c, w, s) - 1 /\ i \in Nat
    BY <1>1
  <2>2. Item(c, w, s, i) \in Posts(s, k)
    BY <2>1, PostIntro
  <2> QED
    BY <1>1, <2>1, <2>2 DEF AnyPost
<1>3. B \subseteq Posts(s, k)
  BY <1>2 DEF PartSet
<1>4. \A j \in 1 .. m : d + j - 1 \in d .. d + m - 1
  OBVIOUS
<1>5. /\ b \in [1 .. m -> AnyPost]
      /\ \A j \in 1 .. m : b[j] = Item(c, w, s, d + j - 1)
  BY <1>2, <1>4 DEF Part
<1> HIDE DEF b
<1>6. b \in Seq(AnyPost) /\ Len(b) = m
  BY <1>5
<1>7. Holds(b, B)
  <2>1. \A j \in 1 .. Len(b) : b[j] \in B
    BY <1>4, <1>5, <1>6 DEF PartSet
  <2>2. ASSUME NEW i \in 1 .. Len(b), NEW j \in 1 .. Len(b), i < j
        PROVE  Before(b[i], b[j])
    <3>1. /\ KernelOf(b[i]) = c /\ NumberOf(b[i]) = d + i - 1
          /\ KernelOf(b[j]) = c /\ NumberOf(b[j]) = d + j - 1
      BY <1>5, <1>6, ItemFacts
    <3>2. d + i - 1 < d + j - 1
      BY <1>6, <2>2
    <3> QED
      BY <3>1, <3>2 DEF Before
  <2>3. ASSUME NEW e \in B PROVE \E j \in 1 .. Len(b) : b[j] = e
    <3>1. PICK i \in d .. d + m - 1 : e = Item(c, w, s, i)
      BY DEF PartSet
    <3>2. i - d + 1 \in 1 .. Len(b) /\ d + (i - d + 1) - 1 = i
      BY <1>6
    <3> QED
      BY <1>5, <1>6, <3>1, <3>2
  <2> QED
    BY <2>1, <2>2, <2>3 DEF Holds
<1> QED
  BY <1>3, <1>6, <1>7 DEF b

LEMMA MessageIs ==
  ASSUME NEW r \in Rank, NEW w \in Worker, NEW s, NEW i
  PROVE  /\ Running(r, w) = TaskAt(op[r], w) /\ Polys(r, w) = PolysAt(op[r], w)
         /\ Message(r, w, PhaseOf(op[r], w, s), i) = Item(op[r], w, s, i)
<1>1. Running(r, w) = TaskAt(op[r], w) /\ Polys(r, w) = PolysAt(op[r], w)
  BY DEF Running, Kernel, TaskAt, Polys, PolysAt
<1> QED
  BY <1>1 DEF Message, Item

\* A batch of messages of one phase goes out.
LEMMA SendBatchStep ==
  ASSUME IInv, NEW r \in Rank, NEW w \in Worker, tpc[r][w] \in {"encsend", "respond"},
         NEW total \in Nat, count[r][w] < total, total <= TotalAt(op[r], w, r),
         SendBatch(r, w, PhaseOf(op[r], w, r), total),
         UNCHANGED <<op, kpc, seal, peerKey, helpers, tpc>>
  PROVE  IInv'
<1>1. /\ op[r] \in Steps /\ count[r][w] \in Nat /\ Peer(r) \in Rank
      /\ TypeInv /\ ThreadAt(r, w)
  BY KeysDone, PeerFacts DEF IInv
<1>2. /\ TaskAt(op[r], w).n # 0 /\ TaskAt(op[r], w).link \in Link /\ Batch \in Nat \ {0}
      /\ TotalAt(op[r], w, r) \in Nat
  <2>1. TaskAt(op[r], w).n # 0
    BY <1>1 DEF ThreadAt
  <2> QED
    BY <1>1, <2>1, TaskFacts, TotalFacts, ProgramFacts
<1> SUFFICES ASSUME NEW c \in Steps, c = op[r], NEW d \in Nat, d = count[r][w],
                    NEW k \in Link, k = TaskAt(c, w).link
             PROVE  IInv'
  BY <1>1, <1>2
<1> DEFINE m == IF total - d < Batch THEN total - d ELSE Batch
           b == Part(c, w, r, d, m)
           B == PartSet(c, w, r, d, m)
           p == Peer(r)
<1>3. m \in Nat /\ d + m \in Nat /\ d + m <= total /\ d + m <= TotalAt(c, w, r)
  BY <1>1, <1>2
<1>4. /\ net' = [net EXCEPT ![p][k] = Join2(net[p][k], b)]
      /\ count' = [count EXCEPT ![r][w] = d + m]
  <2>1. /\ Running(r, w).link = k
        /\ \A i : Message(r, w, PhaseOf(op[r], w, r), i) = Item(c, w, r, i)
    BY MessageIs
  <2>2. [j \in 1 .. m |-> Message(r, w, PhaseOf(op[r], w, r), d + j - 1)] = b
    BY <2>1 DEF Part
  <2>3. /\ net' = [net EXCEPT ![p][k] = net[p][k] \o
                     [j \in 1 .. m |-> Message(r, w, PhaseOf(op[r], w, r), d + j - 1)]]
        /\ count' = [count EXCEPT ![r][w] = d + m]
    BY <2>1 DEF SendBatch
  <2> HIDE DEF b, p, m
  <2> QED
    BY <2>2, <2>3 DEF Join2
<1>5. b \in Seq(AnyPost) /\ Holds(b, B) /\ B \subseteq Posts(r, k)
  BY <1>1, <1>2, <1>3, PartFacts
<1> HIDE DEF b, m
<1>6. ThreadTo(r, w, tpc[r][w], d + m)
  <2>1. tpc \in [Rank -> [Worker -> Phases]]
    BY <1>1 DEF TypeInv, Phases
  <2>2. [tpc EXCEPT ![r][w] = tpc[r][w]] = tpc
    BY <2>1, SetFacts
  <2> QED
    BY <1>4, <2>2 DEF ThreadTo
<1>7. /\ tpc'[r][w] = tpc[r][w] /\ count'[r][w] = d + m /\ op' = op
      /\ Stays(p) /\ KeysAt(r)'
      /\ net' \in [Rank -> [Link -> Seq(AnyPost)]] => TypeInv'
      /\ \A v \in Worker : v # w => ThreadAt(r, v)'
      /\ kpc'[r] = "running"
  <2>1. tpc[r][w] \in Phases /\ tpc[r][w] # "none"
    BY DEF Phases
  <2> HIDE DEF p
  <2> QED
    BY <1>1, <1>3, <1>6, <2>1, ThreadToFacts DEF p
<1>8. \A v \in Worker : ThreadAt(r, v)'
  <2>1. ThreadAt(r, w)'
    BY <1>1, <1>3, <1>7 DEF ThreadAt, TaskAt, TotalAt, PolysAt, Peer
  <2> QED
    BY <1>7, <2>1
<1>9. ASSUME NEW l \in Link
      PROVE  /\ \A e \in Posts(r, l) :
                  e \in Sent(r, l)' <=>
                    IF e # PublicKey /\ KernelOf(e) = c /\ l = k
                    THEN InSent(r, w, NumberOf(e))' ELSE e \in Sent(r, l)
             /\ \A e \in Posts(p, l) :
                  e \in Taken(r, l)' <=>
                    IF e # PublicKey /\ KernelOf(e) = c /\ l = k
                    THEN InTaken(r, w, NumberOf(e))' ELSE e \in Taken(r, l)
  <2>1. tpc[r][w] # "none" /\ d + m \in Nat
    BY <1>3
  <2> QED
    BY <1>2, <1>6, <2>1, CountFacts
<1>10. \A e : InTaken(r, w, NumberOf(e))' <=> InTaken(r, w, NumberOf(e))
  BY <1>7 DEF InTaken
<1>11. ASSUME NEW l \in Link PROVE Taken(r, l)' = Taken(r, l)
  <2>1. ASSUME NEW e \in Posts(p, l) PROVE e \in Taken(r, l)' <=> e \in Taken(r, l)
    <3>1. CASE e # PublicKey /\ KernelOf(e) = c /\ l = k
      <4>1. e \in Taken(r, l) <=> InTaken(r, w, NumberOf(e))
        <5>1. e[3] = w
          BY <1>1, <1>2, <3>1, ThreadOfPost
        <5>2. ~(KernelOf(e) < op[r])
          BY <1>1, <3>1, ProgramFacts
        <5> QED
          BY <3>1, <5>1, <5>2, PostTaken
      <4> QED
        BY <1>9, <1>10, <3>1, <4>1
    <3>2. CASE ~(e # PublicKey /\ KernelOf(e) = c /\ l = k)
      BY <1>9, <3>2
    <3> QED
      BY <3>1, <3>2
  <2>2. Taken(r, l) \subseteq Posts(p, l) /\ Taken(r, l)' \subseteq Posts(p, l)
    BY DEF Taken
  <2> QED
    BY <2>1, <2>2
<1>12. \A l \in Link : l # k => Sent(r, l)' = Sent(r, l)
  <2> SUFFICES ASSUME NEW l \in Link, l # k PROVE Sent(r, l)' = Sent(r, l)
    OBVIOUS
  <2>1. \A e \in Posts(r, l) : e \in Sent(r, l)' <=> e \in Sent(r, l)
    BY <1>9
  <2>2. Sent(r, l) \subseteq Posts(r, l) /\ Sent(r, l)' \subseteq Posts(r, l)
    BY DEF Sent
  <2> QED
    BY <2>1, <2>2
<1>13. ASSUME NEW e \in Posts(r, k), e # PublicKey, KernelOf(e) = c
       PROVE  /\ NumberOf(e) \in Nat
              /\ e \in Sent(r, k) <=> NumberOf(e) < d
              /\ e \in Sent(r, k)' <=> NumberOf(e) < d + m
              /\ e \in B <=> NumberOf(e) \in d .. d + m - 1
  <2>1. NumberOf(e) \in Nat /\ e[3] = w /\ e = Item(c, w, r, NumberOf(e))
    BY <1>1, <1>2, <1>13, ThreadOfPost
  <2>2. ~(KernelOf(e) < op[r])
    BY <1>1, <1>13, ProgramFacts
  <2>3. e \in Sent(r, k) <=> InSent(r, w, NumberOf(e))
    BY <1>2, <1>13, <2>1, <2>2, PostSent
  <2>4. e \in Sent(r, k)' <=> InSent(r, w, NumberOf(e))'
    BY <1>2, <1>9, <1>13
  <2>5. InSent(r, w, NumberOf(e)) <=> NumberOf(e) < d
    BY DEF InSent
  <2>6. InSent(r, w, NumberOf(e))' <=> NumberOf(e) < d + m
    BY <1>7 DEF InSent
  <2>7. e \in B <=> NumberOf(e) \in d .. d + m - 1
    <3>1. \A i : e = Item(c, w, r, i) => NumberOf(e) = i
      BY ItemFacts
    <3> QED
      BY <2>1, <3>1 DEF PartSet
  <2> QED
    BY <2>1, <2>3, <2>4, <2>5, <2>6, <2>7
<1>14. \A e \in B : e \in Posts(r, k) /\ e # PublicKey /\ KernelOf(e) = c
  <2> TAKE e \in B
  <2>1. PICK i : e = Item(c, w, r, i)
    BY DEF PartSet
  <2> QED
    BY <1>5, <2>1, ItemFacts
<1>15. Sent(r, k)' = Sent(r, k) \cup B
  <2>1. ASSUME NEW e \in Posts(r, k)
        PROVE  e \in Sent(r, k)' <=> e \in Sent(r, k) \/ e \in B
    <3>1. CASE e # PublicKey /\ KernelOf(e) = c
      BY <1>1, <1>3, <1>13, <3>1
    <3>2. CASE ~(e # PublicKey /\ KernelOf(e) = c)
      BY <1>2, <1>9, <1>14, <3>2
    <3> QED
      BY <3>1, <3>2
  <2>2. Sent(r, k) \subseteq Posts(r, k) /\ Sent(r, k)' \subseteq Posts(r, k)
    BY DEF Sent
  <2> HIDE DEF B
  <2> QED
    BY <1>5, <2>1, <2>2
<1>16. ASSUME NEW e \in Sent(r, k), NEW f \in B PROVE Before(e, f)
  <2>0. e \in Posts(r, k)
    BY DEF Sent
  <2>1. KernelOf(f) = c /\ NumberOf(f) \in d .. d + m - 1 /\ NumberOf(f) \in Nat
    BY <1>13, <1>14
  <2>2. CASE e = PublicKey
    BY <1>1, <2>1, <2>2, KeyFacts, ProgramFacts DEF Before
  <2>3. CASE e # PublicKey /\ KernelOf(e) = c
    BY <1>1, <1>13, <2>0, <2>1, <2>3 DEF Before
  <2>4. CASE e # PublicKey /\ KernelOf(e) # c
    BY <1>2, <2>0, <2>1, <2>4, PostSent DEF Before
  <2> QED
    BY <2>2, <2>3, <2>4
<1> HIDE DEF B, p
<1>17. net' = [net EXCEPT ![Peer(r)][k] = Join2(net[Peer(r)][k], b)] /\ Stays(Peer(r))
  BY <1>4, <1>7 DEF p
<1> QED
  BY <1>2, <1>5, <1>7, <1>8, <1>11, <1>12, <1>15, <1>16, <1>17, PostStep

\* What comes first on the link of a thread that receives.
LEMMA HeadExpected ==
  ASSUME IInv, NEW r \in Rank, NEW w \in Worker, tpc[r][w] \in {"evalrecv", "encrecv"},
         count[r][w] < TotalAt(op[r], w, Peer(r)), net[r][TaskAt(op[r], w).link] # <<>>
  PROVE  Head(net[r][TaskAt(op[r], w).link]) = Item(op[r], w, Peer(r), count[r][w])
<1> DEFINE c == op[r]
           d == count[r][w]
           k == TaskAt(c, w).link
           p == Peer(r)
           e == Item(c, w, p, d)
<1>1. /\ c \in Steps /\ c \in Nat \ {0} /\ d \in Nat /\ p \in Rank /\ ThreadAt(r, w)
      /\ seal[r] # 0
  BY KeysDone, PeerFacts DEF IInv
<1>2. TaskAt(c, w).n # 0 /\ k \in Link /\ TotalAt(c, w, p) \in Nat
  <2>1. TaskAt(c, w).n # 0
    BY <1>1 DEF ThreadAt
  <2> QED
    BY <1>1, <2>1, TaskFacts, TotalFacts
<1>3. /\ e \in Posts(p, k) /\ e # PublicKey /\ e[3] = w
      /\ KernelOf(e) = c /\ NumberOf(e) = d
  <2>1. d \in 0 .. TotalAt(c, w, p) - 1
    BY <1>1, <1>2
  <2> HIDE DEF d, c, p
  <2> QED
    BY <1>1, <1>2, <2>1, PostIntro, ItemFacts
<1>4. e \notin Taken(r, k)
  <2>1. ~InTaken(r, w, d)
    BY <1>1 DEF InTaken
  <2>2. ~(c < op[r])
    BY <1>1
  <2> HIDE DEF e, d
  <2> QED
    BY <1>2, <1>3, <2>1, <2>2, PostTaken
<1>5. ASSUME NEW m \in Posts(p, k), Before(m, e)
      PROVE  m \in Taken(r, k)
  <2>1. CASE m = PublicKey
    BY <1>1, <1>2, <2>1, PostTaken DEF KeyTaken
  <2>2. CASE m # PublicKey
    <3>1. /\ KernelOf(m) \in Steps /\ NumberOf(m) \in Nat
          /\ KernelOf(m) = c => m[3] = w
      BY <1>1, <1>2, <2>2, ThreadOfPost
    <3>2. KernelOf(m) < c \/ (KernelOf(m) = c /\ NumberOf(m) < d)
      BY <1>3, <1>5 DEF Before
    <3>3. CASE KernelOf(m) < c
      BY <1>2, <2>2, <3>3, PostTaken
    <3>4. CASE KernelOf(m) = c /\ NumberOf(m) < d
      <4>1. InTaken(r, m[3], NumberOf(m))
        BY <3>1, <3>4 DEF InTaken
      <4> QED
        BY <1>2, <2>2, <3>4, <4>1, PostTaken
    <3> QED
      BY <3>2, <3>3, <3>4
  <2> QED
    BY <2>1, <2>2
<1> HIDE DEF e
<1>6. Head(net[r][k]) = e
  BY <1>2, <1>3, <1>4, <1>5, FirstIsHead
<1> QED
  BY <1>6 DEF e

\* The message a thread expects is taken.
LEMMA ReceiveOneStep ==
  ASSUME IInv, NEW r \in Rank, NEW w \in Worker, tpc[r][w] \in {"evalrecv", "encrecv"},
         count[r][w] < TotalAt(op[r], w, Peer(r)), ReceiveOne(r, w),
         UNCHANGED <<op, kpc, seal, peerKey, helpers, tpc>>
  PROVE  IInv'
<1>1. /\ op[r] \in Steps /\ count[r][w] \in Nat /\ Peer(r) \in Rank
      /\ TypeInv /\ ThreadAt(r, w)
  BY KeysDone, PeerFacts DEF IInv
<1>2. /\ TaskAt(op[r], w).n # 0 /\ TaskAt(op[r], w).link \in Link
      /\ TotalAt(op[r], w, Peer(r)) \in Nat
  <2>1. TaskAt(op[r], w).n # 0
    BY <1>1 DEF ThreadAt
  <2> QED
    BY <1>1, <2>1, TaskFacts, TotalFacts
<1> SUFFICES ASSUME NEW c \in Steps, c = op[r], NEW d \in Nat, d = count[r][w],
                    NEW k \in Link, k = TaskAt(c, w).link
             PROVE  IInv'
  BY <1>1, <1>2
<1> DEFINE p == Peer(r)
           h == Item(c, w, p, d)
<1>3. /\ net[r][k] # <<>> /\ net' = [net EXCEPT ![r][k] = Tail(net[r][k])]
      /\ count' = [count EXCEPT ![r][w] = d + 1]
  <2>1. Running(r, w).link = k
    BY MessageIs
  <2> QED
    BY <2>1 DEF ReceiveOne
<1>4. Head(net[r][k]) = h
  BY <1>3, HeadExpected
<1>5. d + 1 \in Nat /\ d + 1 <= TotalAt(c, w, p) /\ d \in 0 .. TotalAt(c, w, p) - 1
  BY <1>1, <1>2
<1>6. /\ h \in Posts(p, k) /\ h # PublicKey /\ KernelOf(h) = c /\ NumberOf(h) = d
  <2> HIDE DEF p
  <2> QED
    BY <1>2, <1>5, PostIntro, ItemFacts
<1>7. ThreadTo(r, w, tpc[r][w], d + 1)
  <2>1. tpc \in [Rank -> [Worker -> Phases]]
    BY <1>1 DEF TypeInv, Phases
  <2>2. [tpc EXCEPT ![r][w] = tpc[r][w]] = tpc
    BY <2>1, SetFacts
  <2> QED
    BY <1>3, <2>2 DEF ThreadTo
<1>8. /\ tpc'[r][w] = tpc[r][w] /\ count'[r][w] = d + 1 /\ op' = op
      /\ Stays(p) /\ KeysAt(r)'
      /\ net' \in [Rank -> [Link -> Seq(AnyPost)]] => TypeInv'
      /\ \A v \in Worker : v # w => ThreadAt(r, v)'
      /\ kpc'[r] = "running"
  <2>1. tpc[r][w] \in Phases /\ tpc[r][w] # "none"
    BY DEF Phases
  <2> HIDE DEF p
  <2> QED
    BY <1>1, <1>5, <1>7, <2>1, ThreadToFacts DEF p
<1>9. \A v \in Worker : ThreadAt(r, v)'
  <2>1. ThreadAt(r, w)'
    BY <1>1, <1>5, <1>8 DEF ThreadAt, TaskAt, TotalAt, PolysAt, Peer
  <2> QED
    BY <1>8, <2>1
<1>10. ASSUME NEW l \in Link
       PROVE  /\ \A e \in Posts(r, l) :
                   e \in Sent(r, l)' <=>
                     IF e # PublicKey /\ KernelOf(e) = c /\ l = k
                     THEN InSent(r, w, NumberOf(e))' ELSE e \in Sent(r, l)
              /\ \A e \in Posts(p, l) :
                   e \in Taken(r, l)' <=>
                     IF e # PublicKey /\ KernelOf(e) = c /\ l = k
                     THEN InTaken(r, w, NumberOf(e))' ELSE e \in Taken(r, l)
  <2>1. tpc[r][w] # "none"
    OBVIOUS
  <2> QED
    BY <1>2, <1>5, <1>7, <2>1, CountFacts
<1>11. \A i : InSent(r, w, i)' <=> InSent(r, w, i)
  BY <1>8 DEF InSent
<1>12. ASSUME NEW l \in Link PROVE Sent(r, l)' = Sent(r, l)
  <2>1. ASSUME NEW e \in Posts(r, l) PROVE e \in Sent(r, l)' <=> e \in Sent(r, l)
    <3>1. CASE e # PublicKey /\ KernelOf(e) = c /\ l = k
      <4>1. e \in Sent(r, l) <=> InSent(r, w, NumberOf(e))
        <5>1. e[3] = w
          BY <1>1, <1>2, <3>1, ThreadOfPost
        <5>2. ~(KernelOf(e) < op[r])
          BY <1>1, <3>1, ProgramFacts
        <5> QED
          BY <3>1, <5>1, <5>2, PostSent
      <4> QED
        BY <1>10, <1>11, <3>1, <4>1
    <3>2. CASE ~(e # PublicKey /\ KernelOf(e) = c /\ l = k)
      BY <1>10, <3>2
    <3> QED
      BY <3>1, <3>2
  <2>2. Sent(r, l) \subseteq Posts(r, l) /\ Sent(r, l)' \subseteq Posts(r, l)
    BY DEF Sent
  <2> QED
    BY <2>1, <2>2
<1>13. \A l \in Link : l # k => Taken(r, l)' = Taken(r, l)
  <2> SUFFICES ASSUME NEW l \in Link, l # k PROVE Taken(r, l)' = Taken(r, l)
    OBVIOUS
  <2>1. \A e \in Posts(p, l) : e \in Taken(r, l)' <=> e \in Taken(r, l)
    BY <1>10
  <2>2. Taken(r, l) \subseteq Posts(p, l) /\ Taken(r, l)' \subseteq Posts(p, l)
    BY DEF Taken
  <2> QED
    BY <2>1, <2>2
<1>14. Taken(r, k)' = Taken(r, k) \cup {h}
  <2>1. ASSUME NEW e \in Posts(p, k), e # PublicKey, KernelOf(e) = c
        PROVE  e \in Taken(r, k)' <=> e \in Taken(r, k) \/ e = h
    <3>1. NumberOf(e) \in Nat /\ e[3] = w /\ e = Item(c, w, p, NumberOf(e))
      BY <1>1, <1>2, <2>1, ThreadOfPost
    <3>2. ~(KernelOf(e) < op[r])
      BY <1>1, <2>1, ProgramFacts
    <3>3. e \in Taken(r, k) <=> InTaken(r, w, NumberOf(e))
      BY <1>2, <2>1, <3>1, <3>2, PostTaken
    <3>4. e \in Taken(r, k)' <=> InTaken(r, w, NumberOf(e))'
      BY <1>10, <2>1
    <3>5. InTaken(r, w, NumberOf(e)) <=> NumberOf(e) < d
      BY DEF InTaken
    <3>6. InTaken(r, w, NumberOf(e))' <=> NumberOf(e) < d + 1
      BY <1>8 DEF InTaken
    <3>7. e = h <=> NumberOf(e) = d
      BY <1>6, <3>1
    <3> HIDE DEF h
    <3> QED
      BY <3>1, <3>3, <3>4, <3>5, <3>6, <3>7
  <2>2. ASSUME NEW e \in Posts(p, k), ~(e # PublicKey /\ KernelOf(e) = c)
        PROVE  (e \in Taken(r, k)' <=> e \in Taken(r, k)) /\ e # h
    BY <1>6, <1>10, <2>2
  <2>3. Taken(r, k) \subseteq Posts(p, k) /\ Taken(r, k)' \subseteq Posts(p, k)
    BY DEF Taken
  <2> HIDE DEF h
  <2> QED
    BY <1>6, <2>1, <2>2, <2>3
<1> HIDE DEF h, p
<1>15. Taken(r, k)' = Taken(r, k) \cup {Head(net[r][k])} /\ Stays(Peer(r))
  BY <1>4, <1>8, <1>14 DEF p
<1> QED
  BY <1>3, <1>8, <1>9, <1>12, <1>13, <1>15, TakeStep

\* The end of the array in which message d of s arrays of p is.
LEMMA ArrayFacts ==
  ASSUME NEW p \in Nat \ {0}, NEW s \in {1, 2}, NEW d \in Nat, d < s * p
  PROVE  /\ (d \div p + 1) * p \in Nat
         /\ d < (d \div p + 1) * p /\ (d \div p + 1) * p <= s * p
<1> DEFINE q == d \div p
<1>1. q \in Nat /\ q * p <= d /\ d < q * p + p
  BY Quotient
<1> HIDE DEF q
<1>2. ASSUME NEW t \in Nat, q >= t PROVE q * p >= t * p
  <2>1. q - t \in Nat
    BY <1>1, <1>2
  <2>2. (q - t) * p \in Nat /\ q * p = (q - t) * p + t * p
    BY <1>1, <2>1
  <2>3. q * p \in Nat /\ t * p \in Nat
    BY <1>1
  <2> HIDE <2>1
  <2> QED
    BY <2>2, <2>3
<1>3. q < s
  <2> SUFFICES ASSUME q >= s PROVE FALSE
    BY <1>1
  <2>1. q * p >= s * p
    BY <1>2
  <2>2. q * p \in Nat /\ s * p \in Nat
    BY <1>1
  <2> QED
    BY <1>1, <2>1, <2>2
<1>4. q = 0 \/ (q = 1 /\ s = 2)
  BY <1>1, <1>3
<1>5. (q + 1) * p = q * p + p
  BY <1>1
<1>6. CASE q = 0
  BY <1>1, <1>5, <1>6
<1>7. CASE q = 1 /\ s = 2
  BY <1>1, <1>5, <1>7
<1> QED
  BY <1>4, <1>6, <1>7 DEF q

\* What a thread that sends or receives has to do.
LEMMA RoleFacts ==
  ASSUME IInv, NEW r \in Rank, NEW w \in Worker,
         tpc[r][w] \in {"encsend", "encrecv", "evalrecv", "respond"}
  PROVE  /\ op[r] \in Steps /\ TaskAt(op[r], w).n # 0 /\ count[r][w] \in Nat
         /\ kpc[r] = "running" /\ ThreadAt(r, w) /\ TaskAt(op[r], w).streams \in {1, 2}
         /\ Running(r, w) = TaskAt(op[r], w) /\ Polys(r, w) = PolysAt(op[r], w)
         /\ PolysAt(op[r], w) \in Nat \ {0}
         /\ TotalAt(op[r], w, r) \in Nat /\ TotalAt(op[r], w, Peer(r)) \in Nat
         /\ tpc[r][w] \in {"encsend", "encrecv"} =>
              /\ TaskAt(op[r], w).evaluator = Peer(r) /\ PhaseOf(op[r], w, r) = "ct"
              /\ PhaseOf(op[r], w, Peer(r)) = "resp"
              /\ TotalAt(op[r], w, r) = TaskAt(op[r], w).streams * PolysAt(op[r], w)
              /\ TotalAt(op[r], w, Peer(r)) = PolysAt(op[r], w)
         /\ tpc[r][w] \in {"evalrecv", "respond"} =>
              /\ TaskAt(op[r], w).evaluator = r /\ PhaseOf(op[r], w, r) = "resp"
              /\ PhaseOf(op[r], w, Peer(r)) = "ct"
              /\ TotalAt(op[r], w, r) = PolysAt(op[r], w)
              /\ TotalAt(op[r], w, Peer(r)) = TaskAt(op[r], w).streams * PolysAt(op[r], w)
<1>1. /\ op[r] \in Steps /\ kpc[r] = "running" /\ count[r][w] \in Nat /\ ThreadAt(r, w)
      /\ Peer(r) \in Rank /\ Peer(Peer(r)) = r /\ Peer(r) # r
  BY KeysDone, PeerFacts DEF IInv
<1>2. /\ TaskAt(op[r], w).n # 0
      /\ tpc[r][w] \in {"encsend", "encrecv"} => TaskAt(op[r], w).evaluator = Peer(r)
      /\ tpc[r][w] \in {"evalrecv", "respond"} => TaskAt(op[r], w).evaluator = r
  BY <1>1 DEF ThreadAt
<1>3. TaskAt(op[r], w).streams \in {1, 2}
  BY <1>1, <1>2, TaskFacts
<1>4. Running(r, w) = TaskAt(op[r], w) /\ Polys(r, w) = PolysAt(op[r], w)
  BY MessageIs
<1>5. /\ PolysAt(op[r], w) \in Nat \ {0}
      /\ TotalAt(op[r], w, r) \in Nat /\ TotalAt(op[r], w, Peer(r)) \in Nat
  BY <1>1, <1>2, TotalFacts
<1>6. /\ TaskAt(op[r], w).evaluator = Peer(r) =>
           /\ PhaseOf(op[r], w, r) = "ct" /\ PhaseOf(op[r], w, Peer(r)) = "resp"
           /\ TotalAt(op[r], w, r) = TaskAt(op[r], w).streams * PolysAt(op[r], w)
           /\ TotalAt(op[r], w, Peer(r)) = PolysAt(op[r], w)
      /\ TaskAt(op[r], w).evaluator = r =>
           /\ PhaseOf(op[r], w, r) = "resp" /\ PhaseOf(op[r], w, Peer(r)) = "ct"
           /\ TotalAt(op[r], w, r) = PolysAt(op[r], w)
           /\ TotalAt(op[r], w, Peer(r)) = TaskAt(op[r], w).streams * PolysAt(op[r], w)
  BY <1>1 DEF PhaseOf, TotalAt
<1> QED
  BY <1>1, <1>2, <1>3, <1>4, <1>5, <1>6

LEMMA MoveToStep ==
  ASSUME IInv, NEW r \in Rank, NEW w \in Worker, NEW q \in {"encrecv", "respond", "finished"},
         tpc[r][w] \in {"encsend", "encrecv", "evalrecv", "respond"},
         MoveTo(r, w, q), UNCHANGED <<op, kpc, seal, peerKey, helpers>>,
         \/ tpc[r][w] = "encsend" /\ q = "encrecv" /\ ~(count[r][w] < TotalAt(op[r], w, r))
         \/ tpc[r][w] = "encrecv" /\ q = "finished" /\ ~(count[r][w] < TotalAt(op[r], w, Peer(r)))
         \/ tpc[r][w] = "evalrecv" /\ q = "respond" /\ ~(count[r][w] < TotalAt(op[r], w, Peer(r)))
         \/ tpc[r][w] = "respond" /\ q = "finished" /\ ~(count[r][w] < TotalAt(op[r], w, r))
  PROVE  IInv'
<1>1. ThreadTo(r, w, q, 0) /\ net' = net
  BY DEF MoveTo, ThreadTo
<1>2. q \in Phases /\ q # "none" /\ tpc[r][w] # "none" /\ 0 \in Nat
  BY DEF Phases
<1>3. tpc'[r][w] = q /\ count'[r][w] = 0 /\ kpc'[r] = "running" /\ op' = op
  <2>1. tpc'[r][w] = q /\ count'[r][w] = 0 /\ kpc'[r] = "running"
    BY <1>1, <1>2, ThreadToFacts
  <2>2. op' = op
    BY <1>1 DEF ThreadTo
  <2> QED
    BY <2>1, <2>2
<1>4. /\ TaskAt(op[r], w).n # 0 /\ count[r][w] \in Nat /\ ThreadAt(r, w)
      /\ TotalAt(op[r], w, r) \in Nat /\ TotalAt(op[r], w, Peer(r)) \in Nat
  BY RoleFacts
<1>5. ThreadAt(r, w)'
  BY <1>3, <1>4 DEF ThreadAt, TaskAt, TotalAt, PolysAt, Peer
<1>6. ASSUME NEW i \in Nat
      PROVE  /\ i < TotalAt(op[r], w, r) => (InSent(r, w, i)' <=> InSent(r, w, i))
             /\ i < TotalAt(op[r], w, Peer(r)) => (InTaken(r, w, i)' <=> InTaken(r, w, i))
  BY <1>3, <1>4 DEF InSent, InTaken
<1> QED
  BY <1>1, <1>2, <1>5, <1>6, PhaseStep

LEMMA EncryptThenSendStep ==
  ASSUME IInv, NEW r \in Rank, NEW w \in Worker, EncryptThenSend(r, w)
  PROVE  IInv'
<1> DEFINE d == count[r][w]
           p == PolysAt(op[r], w)
           s == TaskAt(op[r], w).streams
           array == (d \div p + 1) * p
<1>0. tpc[r][w] = "encsend" /\ UNCHANGED <<op, kpc, seal, peerKey, helpers>>
  BY DEF EncryptThenSend
<1>1. /\ d \in Nat /\ p \in Nat \ {0} /\ s \in {1, 2} /\ PhaseOf(op[r], w, r) = "ct"
      /\ Polys(r, w) = p /\ Running(r, w).streams = s /\ TotalAt(op[r], w, r) = s * p
  BY <1>0, RoleFacts
<1>2. IF d < s * p THEN SendBatch(r, w, "ct", array) /\ UNCHANGED tpc
      ELSE MoveTo(r, w, "encrecv")
  BY <1>1 DEF EncryptThenSend
<1>3. CASE d < s * p
  <2>1. array \in Nat /\ d < array /\ array <= s * p
    <3> HIDE DEF d, p, s
    <3> QED
      BY <1>1, <1>3, ArrayFacts
  <2>2. SendBatch(r, w, PhaseOf(op[r], w, r), array) /\ UNCHANGED tpc
    BY <1>1, <1>2, <1>3
  <2> HIDE DEF array
  <2> QED
    BY <1>0, <1>1, <2>1, <2>2, SendBatchStep
<1>4. CASE ~(d < s * p)
  BY <1>0, <1>1, <1>2, <1>4, MoveToStep
<1> QED
  BY <1>3, <1>4

LEMMA ReceiveThenDecryptStep ==
  ASSUME IInv, NEW r \in Rank, NEW w \in Worker, ReceiveThenDecrypt(r, w)
  PROVE  IInv'
<1>0. tpc[r][w] = "encrecv" /\ UNCHANGED <<op, kpc, seal, peerKey, helpers>>
  BY DEF ReceiveThenDecrypt
<1>1. Polys(r, w) = TotalAt(op[r], w, Peer(r))
  BY <1>0, RoleFacts
<1>2. CASE count[r][w] < TotalAt(op[r], w, Peer(r))
  BY <1>0, <1>1, <1>2, ReceiveOneStep DEF ReceiveThenDecrypt
<1>3. CASE ~(count[r][w] < TotalAt(op[r], w, Peer(r)))
  BY <1>0, <1>1, <1>3, MoveToStep DEF ReceiveThenDecrypt
<1> QED
  BY <1>2, <1>3

LEMMA EvaluatorReceiveStep ==
  ASSUME IInv, NEW r \in Rank, NEW w \in Worker, EvaluatorReceive(r, w)
  PROVE  IInv'
<1>0. tpc[r][w] = "evalrecv" /\ UNCHANGED <<op, kpc, seal, peerKey, helpers>>
  BY DEF EvaluatorReceive
<1>1. Running(r, w).streams * Polys(r, w) = TotalAt(op[r], w, Peer(r))
  BY <1>0, RoleFacts
<1>2. CASE count[r][w] < TotalAt(op[r], w, Peer(r))
  BY <1>0, <1>1, <1>2, ReceiveOneStep DEF EvaluatorReceive
<1>3. CASE ~(count[r][w] < TotalAt(op[r], w, Peer(r)))
  BY <1>0, <1>1, <1>3, MoveToStep DEF EvaluatorReceive
<1> QED
  BY <1>2, <1>3

LEMMA MulThenResponseStep ==
  ASSUME IInv, NEW r \in Rank, NEW w \in Worker, MulThenResponse(r, w)
  PROVE  IInv'
<1>0. tpc[r][w] = "respond" /\ UNCHANGED <<op, kpc, seal, peerKey, helpers>>
  BY DEF MulThenResponse
<1>1. /\ Polys(r, w) = TotalAt(op[r], w, r) /\ PhaseOf(op[r], w, r) = "resp"
      /\ TotalAt(op[r], w, r) \in Nat
  BY <1>0, RoleFacts
<1>2. CASE count[r][w] < TotalAt(op[r], w, r)
  BY <1>0, <1>1, <1>2, SendBatchStep DEF MulThenResponse
<1>3. CASE ~(count[r][w] < TotalAt(op[r], w, r))
  BY <1>0, <1>1, <1>3, MoveToStep DEF MulThenResponse
<1> QED
  BY <1>2, <1>3

-----------------------------------------------------------------------------
(* The theorems.                                                           *)

LEMMA StutterStep ==
  ASSUME IInv, UNCHANGED vars
  PROVE  IInv'
<1>1. 0 \in Rank /\ \A s \in Rank : Stays(s)
  BY DEF vars, Stays, Rank
<1>2. TypeInv' /\ net' = net
  BY DEF IInv, TypeInv, vars
<1>3. ASSUME NEW r \in Rank PROVE IInv'
  <2>1. /\ KeysAt(r)' /\ \A w \in Worker : ThreadAt(r, w)'
        /\ \A l \in Link : Sent(r, l)' = Sent(r, l) /\ Taken(r, l)' = Taken(r, l)
    BY <1>1, StaysKeep
  <2>2. Stays(Peer(r))
    BY <1>1, PeerFacts
  <2> QED
    BY <1>2, <2>1, <2>2, QuietStep
<1> QED
  BY <1>1, <1>3

LEMMA NextStep ==
  ASSUME IInv, Next
  PROVE  IInv'
<1>1. ASSUME NEW r \in Rank, Step(r) PROVE IInv'
  <2>1. CASE LazyInitKeys(r)
    BY <2>1, LazyInitStep
  <2>2. CASE SendPk(r)
    BY <2>2, SendPkStep
  <2>3. CASE RecvPk(r)
    BY <2>3, RecvPkStep
  <2>4. CASE StartTasks(r)
    BY <2>4, StartTasksStep
  <2>5. CASE RunDeferred(r)
    BY <2>5, RunDeferredStep
  <2>6. CASE Join(r)
    BY <2>6, JoinStep
  <2>7. ASSUME NEW w \in Worker, EncryptThenSend(r, w) PROVE IInv'
    BY <2>7, EncryptThenSendStep
  <2>8. ASSUME NEW w \in Worker, ReceiveThenDecrypt(r, w) PROVE IInv'
    BY <2>8, ReceiveThenDecryptStep
  <2>9. ASSUME NEW w \in Worker, EvaluatorReceive(r, w) PROVE IInv'
    BY <2>9, EvaluatorReceiveStep
  <2>10. ASSUME NEW w \in Worker, MulThenResponse(r, w) PROVE IInv'
    BY <2>10, MulThenResponseStep
  <2> QED
    BY <1>1, <2>1, <2>2, <2>3, <2>4, <2>5, <2>6, <2>7, <2>8, <2>9, <2>10 DEF Step
<1>2. CASE UNCHANGED vars
  BY <1>2, StutterStep
<1> QED
  BY <1>1, <1>2 DEF Next, Done

\* The keys of a rank, the place of its threads and what its links hold are
\* related as IInv says, at every step of LazyInitKeys, of the exchange of the
\* public keys and of the tasks.
THEOREM Invariance == Spec => []IInv
<1>1. Init => IInv
  BY InitStep
<1>2. IInv /\ [Next]_vars => IInv'
  BY NextStep, StutterStep
<1> QED
  BY <1>1, <1>2, PTL DEF Spec

\* What the io_task of an evaluator, an encryptor that waits for its answers and
\* a rank that waits for the public key are about to take from their link is the
\* message they expect, whatever the program, the packing and the batches.
THEOREM MessagesAreExpected == Spec => []ReceivedAsExpected
<1>1. ASSUME IInv PROVE ReceivedAsExpected
  <2>1. ASSUME NEW r \in Rank, kpc[r] = "recvpk", net[r]["lctx"] # <<>>
        PROVE  Head(net[r]["lctx"]) = <<"pk">>
    BY <1>1, <2>1, KeyComesFirst DEF PublicKey
  <2>2. ASSUME NEW r \in Rank, NEW w \in Worker, tpc[r][w] = "evalrecv",
               net[r][Running(r, w).link] # <<>>,
               count[r][w] < Running(r, w).streams * Polys(r, w)
        PROVE  Head(net[r][Running(r, w).link]) = Message(r, w, "ct", count[r][w])
    <3>1. /\ Running(r, w) = TaskAt(op[r], w) /\ PhaseOf(op[r], w, Peer(r)) = "ct"
          /\ count[r][w] < TotalAt(op[r], w, Peer(r))
      BY <1>1, <2>2, RoleFacts
    <3>2. Head(net[r][TaskAt(op[r], w).link]) = Item(op[r], w, Peer(r), count[r][w])
      BY <1>1, <2>2, <3>1, HeadExpected
    <3>3. Message(r, w, PhaseOf(op[r], w, Peer(r)), count[r][w])
            = Item(op[r], w, Peer(r), count[r][w])
      BY MessageIs
    <3> QED
      BY <3>1, <3>2, <3>3
  <2>3. ASSUME NEW r \in Rank, NEW w \in Worker, tpc[r][w] = "encrecv",
               net[r][Running(r, w).link] # <<>>, count[r][w] < Polys(r, w)
        PROVE  Head(net[r][Running(r, w).link]) = Message(r, w, "resp", count[r][w])
    <3>1. /\ Running(r, w) = TaskAt(op[r], w) /\ PhaseOf(op[r], w, Peer(r)) = "resp"
          /\ count[r][w] < TotalAt(op[r], w, Peer(r))
      BY <1>1, <2>3, RoleFacts
    <3>2. Head(net[r][TaskAt(op[r], w).link]) = Item(op[r], w, Peer(r), count[r][w])
      BY <1>1, <2>3, <3>1, HeadExpected
    <3>3. Message(r, w, PhaseOf(op[r], w, Peer(r)), count[r][w])
            = Item(op[r], w, Peer(r), count[r][w])
      BY MessageIs
    <3> QED
      BY <3>1, <3>2, <3>3
  <2> QED
    BY <2>1, <2>2, <2>3 DEF ReceivedAsExpected
<1> QED
  BY <1>1, Invariance, PTL

\* While the tasks of a kernel run, the SEAL contexts and the modulus switch
\* helper of its ring are there and the peer's public key has arrived, so that
\* the two threads of SquareA and mulDirectly only read what LazyInitKeys set up.
THEOREM ContextsAreReady == Spec => []ContextsReady
<1>1. ASSUME IInv PROVE ContextsReady
  <2>1. ASSUME NEW r \in Rank, kpc[r] = "running"
        PROVE  /\ seal[r] >= WorkingContextSize(Kernel(r).bits)
               /\ Kernel(r).bits \in helpers[r]
               /\ peerKey[r]
    <3>1. KeysAt(r)
      BY <1>1 DEF IInv
    <3>2. seal[r] # 0
      BY <1>1, <2>1, KeysDone
    <3> QED
      BY <2>1, <3>1, <3>2 DEF KeysAt, KeyTaken
  <2> QED
    BY <2>1 DEF ContextsReady
<1> QED
  BY <1>1, Invariance, PTL

=============================================================================
