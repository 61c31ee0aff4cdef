-------------------------- MODULE OTDispatchProofs --------------------------
(***************************************************************************)
(* Proofs about OTDispatch: for every number of cores, of elements and of  *)
(* calls, the slices are a partition without an empty part, what a call    *)
(* returns is of every element once, in order, and the slices that hear    *)
(* each other work on the same elements in the same call.                  *)
(***************************************************************************)
EXTENDS OTDispatch, TLAPS

-----------------------------------------------------------------------------
(* Arithmetic.                                                             *)

LEMMA Division ==
  ASSUME NEW a \in Nat, NEW b \in Nat \ {0}
  PROVE  /\ a \div b \in Nat
         /\ b * (a \div b) <= a
         /\ a < b * (a \div b) + b
OBVIOUS

LEMMA Monotone ==
  ASSUME NEW a \in Nat, NEW b \in Nat, NEW c \in Nat, a <= b
  PROVE  a * c <= b * c
OBVIOUS

LEMMA Cancel ==
  ASSUME NEW a \in Nat, NEW b \in Nat, NEW c \in Nat \ {0}, c * a < c * b
  PROVE  a < b
OBVIOUS

LEMMA Unscaled ==
  ASSUME NEW a \in Nat, NEW c \in Nat \ {0}
  PROVE  (c * a) \div c = a
OBVIOUS

LEMMA CeilDivFacts ==
  ASSUME NEW a \in Nat \ {0}, NEW b \in Nat \ {0}
  PROVE  /\ CeilDiv(a, b) \in Nat \ {0}
         /\ a <= b * CeilDiv(a, b)
         /\ b * CeilDiv(a, b) <= a + b - 1
<1>1. a + b - 1 \in Nat
  OBVIOUS
<1>2. /\ CeilDiv(a, b) \in Nat
      /\ b * CeilDiv(a, b) <= a + b - 1
      /\ a + b - 1 < b * CeilDiv(a, b) + b
  BY <1>1, Division DEF CeilDiv
<1>3. b * CeilDiv(a, b) \in Nat
  BY <1>2
<1>4. a <= b * CeilDiv(a, b)
  BY <1>2, <1>3
<1>5. CeilDiv(a, b) # 0
  BY <1>4
<1> QED
  BY <1>2, <1>4, <1>5

-----------------------------------------------------------------------------
(* Slices.                                                                 *)

LEMMA ConstantFacts ==
  /\ Cores[0] \in Nat \ {0} /\ Cores[1] \in Nat \ {0}
  /\ MaxParallel \in Nat \ {0} /\ MinWork \in Nat \ {0} /\ MaxParallel - 1 <= MinWork
  /\ Program \in Seq(Call)
BY DispatchAssumption DEF DispatchAssumption, Rank

LEMMA InstancesFacts ==
  ASSUME NEW r \in Rank
  PROVE  /\ Instances(r) \in Nat \ {0}
         /\ Instances(r) <= MaxParallel
         /\ Instances(r) = Instances(0)
BY ConstantFacts DEF Instances, Least

\* All workers but one have less to do than there is.
LEMMA WorkloadFacts ==
  ASSUME NEW r \in Rank, NEW n \in Nat \ {0}
  PROVE  /\ Workers(r, n) \in Nat \ {0} /\ Workers(r, n) <= Instances(r)
         /\ Workload(r, n) \in Nat \ {0}
         /\ (Workers(r, n) - 1) * Workload(r, n) < n
<1> DEFINE m == Workers(r, n)
           l == Workload(r, n)
<1>1. /\ m \in Nat \ {0} /\ m <= Instances(r)
      /\ m <= CeilDiv(n, MinWork) /\ CeilDiv(n, MinWork) \in Nat
      /\ MinWork * CeilDiv(n, MinWork) <= n + MinWork - 1
  <2>1. MinWork \in Nat \ {0}
    BY ConstantFacts
  <2>2. /\ CeilDiv(n, MinWork) \in Nat \ {0}
        /\ MinWork * CeilDiv(n, MinWork) <= n + MinWork - 1
    BY <2>1, CeilDivFacts
  <2>3. Instances(r) \in Nat \ {0}
    BY InstancesFacts
  <2> QED
    BY <2>2, <2>3 DEF Workers, Least
<1>2. l \in Nat \ {0} /\ m * l <= n + m - 1
  BY <1>1, CeilDivFacts DEF Workload
<1> DEFINE k == m - 1
<1> HIDE DEF m, l, k
<1>3. k \in Nat /\ k + 1 = m /\ k <= MinWork /\ MinWork \in Nat \ {0}
  BY <1>1, InstancesFacts, ConstantFacts DEF k
<1>4. k * MinWork < n
  <2>1. m * MinWork <= CeilDiv(n, MinWork) * MinWork
    BY <1>1, <1>3, Monotone
  <2>2. m * MinWork = k * MinWork + MinWork
    BY <1>3
  <2>3. k * MinWork \in Nat /\ CeilDiv(n, MinWork) * MinWork = MinWork * CeilDiv(n, MinWork)
    BY <1>1, <1>3
  <2> QED
    BY <1>1, <1>3, <2>1, <2>2, <2>3
<1>5. k * k < n
  <2>1. k * k <= MinWork * k
    BY <1>3, Monotone
  <2>2. MinWork * k = k * MinWork /\ k * k \in Nat /\ k * MinWork \in Nat
    BY <1>3
  <2> QED
    BY <1>4, <2>1, <2>2
<1>6. m * (k * l) < m * n
  <2>1. k * (m * l) <= k * (n + k)
    BY <1>1, <1>2, <1>3
  <2>2. m * (k * l) = k * (m * l)
    BY <1>1, <1>2, <1>3
  <2>3. k * (n + k) = k * n + k * k
    BY <1>3
  <2>4. m * n = k * n + n
    BY <1>1, <1>3
  <2>5. k * n \in Nat /\ k * k \in Nat /\ k * (m * l) \in Nat
    BY <1>1, <1>2, <1>3
  <2> QED
    BY <1>5, <2>1, <2>2, <2>3, <2>4, <2>5
<1>7. k * l < n
  <2>1. k * l \in Nat
    BY <1>2, <1>3
  <2> QED
    BY <1>1, <1>6, <2>1, Cancel
<1> QED
  BY <1>1, <1>2, <1>7 DEF m, l, k

\* The slices are a partition of the elements, and none is empty.
LEMMA SlicesPartition ==
  ASSUME NEW r \in Rank, NEW n \in Nat \ {0}
  PROVE  /\ SliceBgn(r, n, 0) = 0
         /\ SliceEnd(r, n, Workers(r, n) - 1) = n
         /\ \A v \in 0 .. Workers(r, n) - 1 :
              /\ SliceBgn(r, n, v) \in Nat /\ SliceEnd(r, n, v) \in Nat
              /\ SliceBgn(r, n, v) < SliceEnd(r, n, v)
              /\ v > 0 => SliceBgn(r, n, v) = SliceEnd(r, n, v - 1)
<1> DEFINE m == Workers(r, n)
           l == Workload(r, n)
<1>1. m \in Nat \ {0} /\ l \in Nat \ {0} /\ (m - 1) * l < n
  BY WorkloadFacts
\* Before the last slice, min never cuts.
<1>2. \A v \in Nat : v + 1 < m => /\ v * l \in Nat /\ (v + 1) * l \in Nat
                                  /\ (v + 1) * l = v * l + l
                                  /\ SliceEnd(r, n, v) = (v + 1) * l
                                  /\ SliceBgn(r, n, v) = v * l
  <2> HIDE DEF m, l
  <2> SUFFICES ASSUME NEW v \in Nat, v + 1 < m
               PROVE  /\ v * l \in Nat /\ (v + 1) * l \in Nat
                      /\ (v + 1) * l = v * l + l
                      /\ SliceEnd(r, n, v) = (v + 1) * l
                      /\ SliceBgn(r, n, v) = v * l
    OBVIOUS
  <2>1. v + 1 \in Nat /\ m - 1 \in Nat /\ v + 1 <= m - 1
    BY <1>1
  <2>2. (v + 1) * l <= (m - 1) * l
    BY <1>1, <2>1, Monotone
  <2>3. v * l \in Nat /\ (v + 1) * l \in Nat /\ (m - 1) * l \in Nat /\ (v + 1) * l = v * l + l
    BY <1>1, <2>1
  <2>4. (v + 1) * l < n
    BY <1>1, <2>2, <2>3
  <2>5. SliceEnd(r, n, v) = (v + 1) * l
    BY <2>3, <2>4 DEF SliceEnd, Least, m, l
  <2>6. SliceBgn(r, n, v) = v * l
    BY DEF SliceBgn, m, l
  <2> QED
    BY <2>3, <2>5, <2>6
<1>3. SliceEnd(r, n, m - 1) = n /\ SliceBgn(r, n, m - 1) = IF m - 1 = 0 THEN 0 ELSE SliceEnd(r, n, m - 2)
  BY <1>1 DEF SliceEnd, SliceBgn
<1> HIDE DEF m, l
<1>4. SliceBgn(r, n, 0) = 0
  <2>1. CASE 0 + 1 < m
    BY <1>1, <1>2, <2>1
  <2>2. CASE m = 1
    BY <1>3, <2>2
  <2> QED
    BY <1>1, <2>1, <2>2
<1>5. \A v \in 0 .. m - 1 : v > 0 => SliceBgn(r, n, v) = SliceEnd(r, n, v - 1)
  <2> SUFFICES ASSUME NEW v \in 0 .. m - 1, v > 0
               PROVE  SliceBgn(r, n, v) = SliceEnd(r, n, v - 1)
    OBVIOUS
  <2>1. v \in Nat /\ v - 1 \in Nat /\ (v - 1) + 1 = v /\ (v - 1) + 1 < m
    BY <1>1
  <2>2. SliceEnd(r, n, v - 1) = ((v - 1) + 1) * l
    BY <1>2, <2>1
  <2>3. CASE v + 1 < m
    BY <1>2, <2>1, <2>2, <2>3
  <2>4. CASE v = m - 1
    <3>1. m - 2 = v - 1 /\ m - 1 # 0
      BY <1>1, <2>1, <2>4
    <3> QED
      BY <1>3, <2>4, <3>1
  <2> QED
    BY <1>1, <2>1, <2>3, <2>4
<1>6. \A v \in 0 .. m - 1 : /\ SliceBgn(r, n, v) \in Nat /\ SliceEnd(r, n, v) \in Nat
                           /\ SliceBgn(r, n, v) < SliceEnd(r, n, v)
  <2> TAKE v \in 0 .. m - 1
  <2>1. CASE v + 1 < m
    BY <1>1, <1>2, <2>1
  <2>2. CASE v = m - 1 /\ v = 0
    <3>1. SliceEnd(r, n, v) = n
      BY <1>3, <2>2
    <3> QED
      BY <1>4, <2>2, <3>1
  <2>3. CASE v = m - 1 /\ v # 0
    <3>1. m - 2 \in Nat /\ (m - 2) + 1 < m /\ (m - 2) + 1 = m - 1
      BY <1>1, <2>3
    <3>2. SliceBgn(r, n, v) = (m - 1) * l /\ (m - 1) * l \in Nat
      BY <1>2, <1>3, <2>3, <3>1
    <3> QED
      BY <1>1, <1>3, <2>3, <3>2
  <2> QED
    BY <1>1, <2>1, <2>2, <2>3
<1> QED
  BY <1>3, <1>4, <1>5, <1>6 DEF m

-----------------------------------------------------------------------------
(* The inductive invariant.                                                *)

\* Instances are made in order, the one of worker v on link v + 1.
Made(r) == IF pc[r] = "setup" THEN spawned[r] - 1 ELSE spawned[r]

InstInv(r) == \A v \in Worker(r) : inst[r][v] = IF v < Made(r) THEN v + 1 ELSE 0

\* Which slices can have begun, and which are done.
LastWorker(r) == NWorker(r) - 1

PhaseInv(r) ==
  /\ pc[r] = "init" => w[r] <= NWorker(r) /\ w[r] <= spawned[r]
  /\ pc[r] = "setup" => w[r] <= LastWorker(r) /\ spawned[r] = w[r] + 1
  /\ pc[r] \in {"init", "setup"} => \A v \in Worker(r) : task[r][v] = "none"
  /\ pc[r] \in {"launch", "own", "join", "return"} =>
       /\ NWorker(r) <= spawned[r]
       /\ \A v \in Worker(r) : task[r][v] # "none" => v < NWorker(r)
  /\ pc[r] \in {"launch", "join"} => w[r] <= LastWorker(r)
  /\ pc[r] = "own" => w[r] = LastWorker(r)
  /\ pc[r] = "join" =>
       \A v \in 0 .. LastWorker(r) : v < w[r] \/ v = LastWorker(r) => task[r][v] = "done"
  /\ pc[r] = "return" => \A v \in 0 .. LastWorker(r) : task[r][v] = "done"

OutsInv(r) == \A v \in Worker(r) : task[r][v] = "done" => outs[r][v] = About(r, v)

RankInv(r) ==
  /\ InstInv(r)
  /\ at[r] = 0 => \A v \in Worker(r) : task[r][v] = "none"
  /\ at[r] > 0 => PhaseInv(r) /\ OutsInv(r)

IInv == TypeOK /\ \A r \in Rank : RankInv(r)

-----------------------------------------------------------------------------
(* Facts about a call.                                                     *)

LEMMA WorkerFacts ==
  ASSUME NEW r \in Rank
  PROVE  /\ Worker(r) = Worker(0) /\ Worker(r) \subseteq Nat
         /\ \A v : v \in Worker(r) <=> v \in Nat /\ v < Instances(r)
<1>1. Instances(r) \in Nat \ {0} /\ Instances(r) = Instances(0)
  BY InstancesFacts
<1> QED
  BY <1>1 DEF Worker

LEMMA CallFacts ==
  ASSUME TypeOK, NEW r \in Rank, at[r] > 0
  PROVE  /\ Current(r) \in Call /\ Jobs(r) \in Nat \ {0} /\ Scale(r) \in Nat \ {0}
         /\ NWorker(r) \in Nat \ {0} /\ NWorker(r) <= Instances(r)
         /\ LastWorker(r) \in Nat /\ LastWorker(r) + 1 = NWorker(r)
         /\ 0 .. LastWorker(r) \subseteq Worker(r)
         /\ \A v \in Nat : v < NWorker(r) <=> v \in 0 .. LastWorker(r)
<1>1. at[r] \in 1 .. Len(Program)
  BY DEF TypeOK
<1>2. Current(r) \in Call
  BY <1>1, ConstantFacts DEF Current
<1>3. Jobs(r) \in Nat \ {0} /\ Scale(r) \in Nat \ {0}
  BY <1>2 DEF Call, Jobs, Scale
<1>4. NWorker(r) \in Nat \ {0} /\ NWorker(r) <= Instances(r)
  BY <1>3, WorkloadFacts DEF NWorker
<1>5. Instances(r) \in Nat \ {0}
  BY InstancesFacts
<1>6. LastWorker(r) \in Nat /\ LastWorker(r) + 1 = NWorker(r)
  BY <1>4 DEF LastWorker
<1>7. 0 .. LastWorker(r) \subseteq Worker(r)
  BY <1>4, <1>5, <1>6 DEF Worker
<1>8. \A v \in Nat : v < NWorker(r) <=> v \in 0 .. LastWorker(r)
  BY <1>4, <1>6
<1> QED
  BY <1>2, <1>3, <1>4, <1>6, <1>7, <1>8

\* Scaling to the batched input and back changes nothing.
LEMMA AboutFacts ==
  ASSUME TypeOK, NEW r \in Rank, at[r] > 0, NEW v \in Worker(r)
  PROVE  /\ About(r, v) \in Message
         /\ About(r, v) = [call |-> at[r], bgn |-> SliceBgn(r, Jobs(r), v),
                           end |-> SliceEnd(r, Jobs(r), v)]
<1>1. Jobs(r) \in Nat \ {0} /\ Scale(r) \in Nat \ {0} /\ v \in Nat /\ at[r] \in Nat
  BY CallFacts, WorkerFacts DEF TypeOK
<1>2. Workload(r, Jobs(r)) \in Nat
  BY <1>1, WorkloadFacts
<1>3. \A u \in Nat : SliceEnd(r, Jobs(r), u) \in Nat
  <2> TAKE u \in Nat
  <2>1. (u + 1) * Workload(r, Jobs(r)) \in Nat
    BY <1>2
  <2> QED
    BY <1>1, <2>1 DEF SliceEnd, Least
<1>4. SliceBgn(r, Jobs(r), v) \in Nat
  <2>1. v * Workload(r, Jobs(r)) \in Nat
    BY <1>1, <1>2
  <2>2. v # 0 => v - 1 \in Nat
    BY <1>1
  <2> QED
    BY <1>3, <2>1, <2>2 DEF SliceBgn
<1>5. /\ (Scale(r) * SliceBgn(r, Jobs(r), v)) \div Scale(r) = SliceBgn(r, Jobs(r), v)
      /\ (Scale(r) * SliceEnd(r, Jobs(r), v)) \div Scale(r) = SliceEnd(r, Jobs(r), v)
  BY <1>1, <1>3, <1>4, Unscaled
<1>6. About(r, v) = [call |-> at[r], bgn |-> SliceBgn(r, Jobs(r), v),
                     end |-> SliceEnd(r, Jobs(r), v)]
  BY <1>5 DEF About, Slice
<1> QED
  BY <1>1, <1>3, <1>4, <1>6 DEF Message

LEMMA UnsetType == Unset \in Message
BY DEF Unset, Message

ChanType == chan \in [1 .. MaxParallel -> [Rank -> Seq(Message)]]

LEMMA SendType ==
  ASSUME ChanType, NEW r \in Rank, NEW l \in 1 .. MaxParallel, NEW m \in Message, Send(r, l, m)
  PROVE  ChanType'
<1>1. Peer(r) \in Rank
  BY DEF Peer, Rank
<1>2. Append(chan[l][Peer(r)], m) \in Seq(Message)
  BY <1>1 DEF ChanType
<1> QED
  BY <1>1, <1>2 DEF ChanType, Send

LEMMA ConsumeType ==
  ASSUME ChanType, NEW r \in Rank, NEW l \in 1 .. MaxParallel, Arrived(r, l), Consume(r, l)
  PROVE  ChanType' /\ Head(chan[l][r]) \in Message
<1>1. chan[l][r] \in Seq(Message) /\ chan[l][r] # <<>>
  BY DEF ChanType, Arrived
<1>2. Tail(chan[l][r]) \in Seq(Message) /\ Head(chan[l][r]) \in Message
  BY <1>1
<1> QED
  BY <1>2 DEF ChanType, Consume

\* A step of a rank leaves the other alone.
LEMMA Frame ==
  ASSUME NEW s \in Rank, RankInv(s),
         pc'[s] = pc[s], at'[s] = at[s], w'[s] = w[s], inst'[s] = inst[s],
         spawned'[s] = spawned[s], task'[s] = task[s], outs'[s] = outs[s]
  PROVE  RankInv(s)'
<1>1. /\ Made(s)' = Made(s) /\ Current(s)' = Current(s) /\ Jobs(s)' = Jobs(s)
      /\ NWorker(s)' = NWorker(s) /\ Scale(s)' = Scale(s)
  BY DEF Made, Current, Jobs, NWorker, Scale
<1>2. LastWorker(s)' = LastWorker(s) /\ \A v : About(s, v)' = About(s, v)
  BY <1>1 DEF LastWorker, About, Slice
<1>3. InstInv(s)'
  BY <1>1 DEF RankInv, InstInv
<1>4. at[s] > 0 => PhaseInv(s)'
  BY <1>1, <1>2 DEF RankInv, PhaseInv
<1>5. at[s] > 0 => OutsInv(s)'
  BY <1>1, <1>2 DEF RankInv, OutsInv
<1> QED
  BY <1>3, <1>4, <1>5 DEF RankInv

Others(r) ==
  \A s \in Rank \ {r} :
    /\ pc'[s] = pc[s] /\ at'[s] = at[s] /\ w'[s] = w[s] /\ inst'[s] = inst[s]
    /\ spawned'[s] = spawned[s] /\ task'[s] = task[s] /\ outs'[s] = outs[s]

LEMMA Together ==
  ASSUME IInv, NEW r \in Rank, TypeOK', RankInv(r)', Others(r)
  PROVE  IInv'
<1> SUFFICES ASSUME NEW s \in Rank PROVE RankInv(s)'
  BY DEF IInv
<1>1. CASE s = r
  BY <1>1
<1>2. CASE s # r
  <2>1. RankInv(s)
    BY DEF IInv
  <2>2. /\ pc'[s] = pc[s] /\ at'[s] = at[s] /\ w'[s] = w[s] /\ inst'[s] = inst[s]
        /\ spawned'[s] = spawned[s] /\ task'[s] = task[s] /\ outs'[s] = outs[s]
    BY <1>2 DEF Others
  <2> QED
    BY <2>1, <2>2, Frame
<1> QED
  BY <1>1, <1>2

-----------------------------------------------------------------------------
(* One lemma per action.                                                   *)

\* The state of one slice changes.
TaskSet(r, u, x) == task' = [task EXCEPT ![r][u] = x]

\* What setting a slice comes to.
TaskIs(r, u, x) ==
  /\ task' \in [Rank -> [Worker(0) -> TaskState]]
  /\ task'[r] = [task[r] EXCEPT ![u] = x]
  /\ \A v \in Worker(r) : task'[r][v] = IF v = u THEN x ELSE task[r][v]

LEMMA TaskStep ==
  ASSUME TypeOK, NEW r \in Rank, NEW u \in Worker(r),
         NEW x \in TaskState,
         TaskSet(r, u, x)
  PROVE  TaskIs(r, u, x)
<1>1. task \in [Rank -> [Worker(0) -> TaskState]]
  BY DEF TypeOK
<1>2. Worker(r) = Worker(0)
  BY WorkerFacts
<1>3. task'[r] = [task[r] EXCEPT ![u] = x]
  BY <1>1 DEF TaskSet
<1>4. task[r] \in [Worker(0) -> TaskState]
  BY <1>1
<1> QED
  BY <1>1, <1>2, <1>3, <1>4 DEF TaskSet, TaskIs

LEMMA InitStep == Init => IInv
<1> SUFFICES ASSUME Init PROVE IInv
  OBVIOUS
<1>1. Instances(0) \in Nat \ {0} /\ Len(Program) \in Nat /\ MaxParallel \in Nat \ {0}
  BY InstancesFacts, ConstantFacts DEF Rank
<1>2. \A r \in Rank : Worker(r) = Worker(0)
  BY WorkerFacts
<1>3. TypeOK
  <2>1. inst \in [Rank -> [Worker(0) -> 0 .. Instances(0)]]
    BY <1>1, <1>2 DEF Init
  <2>2. task \in [Rank -> [Worker(0) -> TaskState]]
    BY <1>2 DEF Init, TaskState
  <2>3. got \in [Rank -> [Worker(0) -> Message]] /\ outs \in [Rank -> [Worker(0) -> Message]]
    BY <1>2, UnsetType DEF Init
  <2>4. chan \in [1 .. MaxParallel -> [Rank -> Seq(Message)]]
    BY DEF Init
  <2>5. /\ pc \in [Rank -> {"return", "init", "setup", "launch", "own", "join"}]
        /\ at \in [Rank -> 0 .. Len(Program)] /\ w \in [Rank -> Nat]
        /\ spawned \in [Rank -> 0 .. Instances(0)] /\ setup \in [Rank -> 0 .. 3]
    BY <1>1 DEF Init
  <2>6. \A r \in Rank : pc[r] = "return"
    BY DEF Init
  <2> QED
    BY <2>1, <2>2, <2>3, <2>4, <2>5, <2>6 DEF TypeOK
<1>4. \A r \in Rank : RankInv(r)
  <2> TAKE r \in Rank
  <2>1. at[r] = 0 /\ Made(r) = 0 /\ \A v \in Worker(r) : inst[r][v] = 0 /\ task[r][v] = "none"
    BY DEF Init, Made
  <2>2. \A v \in Worker(r) : ~(v < 0)
    BY WorkerFacts
  <2> QED
    BY <2>1, <2>2 DEF RankInv, InstInv
<1> QED
  BY <1>3, <1>4 DEF IInv

LEMMA StartCallStep ==
  ASSUME IInv, NEW r \in Rank, StartCall(r)
  PROVE  IInv'
<1> USE DEF StartCall
<1>1. TypeOK /\ RankInv(r)
  BY DEF IInv
<1>2. /\ at'[r] = at[r] + 1 /\ at[r] \in Nat /\ at'[r] \in 0 .. Len(Program)
      /\ at' \in [Rank -> 0 .. Len(Program)]
      /\ pc'[r] = "init" /\ pc[r] = "return" /\ w'[r] = 0
      /\ \A v \in Worker(r) : task'[r][v] = "none"
  BY <1>1, ConstantFacts DEF TypeOK
<1>3. Others(r)
  BY <1>1 DEF TypeOK, Others
<1>4. Worker(r) = Worker(0)
  BY WorkerFacts
<1>5. /\ task' \in [Rank -> [Worker(0) -> TaskState]]
      /\ got' \in [Rank -> [Worker(0) -> Message]] /\ outs' \in [Rank -> [Worker(0) -> Message]]
  BY <1>1, <1>4, UnsetType DEF TypeOK, TaskState
<1>6. TypeOK'
  <2>1. \A s \in Rank : at'[s] = 0 => pc'[s] = "return"
    BY <1>1, <1>2, <1>3 DEF TypeOK, Others
  <2>2. \A s \in Rank : pc'[s] \in {"setup", "launch", "own", "join"} => w'[s] < NWorker(s)'
    BY <1>1, <1>2, <1>3 DEF TypeOK, Others, NWorker, Jobs, Current
  <2> QED
    BY <1>1, <1>2, <1>5, <2>1, <2>2 DEF TypeOK
<1>7. NWorker(r)' \in Nat /\ spawned'[r] \in Nat /\ at'[r] > 0
  <2>1. at'[r] > 0
    BY <1>2
  <2>2. at'[r] \in 1 .. Len(Program)
    BY <1>2
  <2>3. Program[at'[r]].jobs \in Nat \ {0}
    <3>1. Program[at'[r]] \in Call
      BY <2>2, ConstantFacts
    <3> QED
      BY <3>1 DEF Call
  <2>4. NWorker(r)' \in Nat
    BY <2>3, WorkloadFacts DEF NWorker, Jobs, Current
  <2> QED
    BY <1>1, <2>1, <2>4, InstancesFacts DEF TypeOK, Rank
<1>8. RankInv(r)'
  <2>1. InstInv(r)'
    BY <1>1, <1>2 DEF RankInv, InstInv, Made
  <2>2. PhaseInv(r)' /\ OutsInv(r)'
    BY <1>2, <1>7 DEF PhaseInv, OutsInv
  <2> QED
    BY <1>7, <2>1, <2>2 DEF RankInv
<1> QED
  BY <1>3, <1>6, <1>8, Together

LEMMA LazyInitStep ==
  ASSUME IInv, NEW r \in Rank, LazyInit(r)
  PROVE  IInv'
<1> USE DEF LazyInit
<1>1. TypeOK /\ RankInv(r)
  BY DEF IInv
<1>2. pc[r] = "init" /\ at[r] > 0 /\ w[r] < NWorker(r) /\ at' = at /\ task' = task /\ inst' = inst
  BY <1>1 DEF TypeOK, ToInit
<1>3. /\ NWorker(r) \in Nat /\ NWorker(r) <= Instances(r) /\ LastWorker(r) + 1 = NWorker(r)
      /\ NWorker(r)' = NWorker(r) /\ LastWorker(r)' = LastWorker(r)
      /\ w[r] \in Nat /\ spawned[r] \in Nat /\ Instances(r) \in Nat /\ LastWorker(r) \in Nat
      /\ w[r] \in Worker(r)
  <2>1. NWorker(r)' = NWorker(r) /\ LastWorker(r)' = LastWorker(r)
    BY <1>2 DEF NWorker, LastWorker, Jobs, Current
  <2>2. w[r] \in Nat /\ spawned[r] \in Nat /\ Instances(r) \in Nat
    BY <1>1, InstancesFacts DEF TypeOK, Rank
  <2> QED
    BY <1>1, <1>2, <2>1, <2>2, CallFacts, WorkerFacts
<1>4. Others(r)
  BY <1>1 DEF TypeOK, Others
<1>5. PhaseInv(r) /\ InstInv(r) /\ OutsInv(r)
  BY <1>1, <1>2 DEF RankInv
<1>6. CASE Present(r)
  <2>1. w' = [w EXCEPT ![r] = @ + 1] /\ w'[r] = w[r] + 1 /\ pc' = pc /\ spawned' = spawned /\ setup' = setup
    BY <1>1, <1>6 DEF TypeOK
  <2>2. w[r] < spawned[r]
    BY <1>2, <1>3, <1>5, <1>6 DEF Present, InstInv, Made
  <2>3. TypeOK'
    <3>1. \A s \in Rank : pc'[s] \in {"setup", "launch", "own", "join"} => w'[s] < NWorker(s)'
      BY <1>1, <1>2, <1>4, <2>1 DEF TypeOK, Others, NWorker, Jobs, Current
    <3>2. w' \in [Rank -> Nat]
      BY <1>1, <1>3, <2>1 DEF TypeOK
    <3> QED
      BY <1>1, <1>2, <2>1, <3>1, <3>2 DEF TypeOK
  <2>4. RankInv(r)'
    <3>1. InstInv(r)'
      BY <1>2, <1>5, <2>1 DEF InstInv, Made
    <3>2. PhaseInv(r)'
      BY <1>2, <1>3, <1>5, <2>1, <2>2 DEF PhaseInv
    <3>3. OutsInv(r)'
      BY <1>2, <1>5 DEF OutsInv, PhaseInv
    <3> QED
      BY <1>2, <3>1, <3>2, <3>3 DEF RankInv
  <2> QED
    BY <1>4, <2>3, <2>4, Together
<1>7. CASE ~Present(r)
  <2>1. /\ spawned' = [spawned EXCEPT ![r] = @ + 1] /\ spawned'[r] = spawned[r] + 1
        /\ pc' = [pc EXCEPT ![r] = "setup"] /\ pc'[r] = "setup"
        /\ setup' = setup /\ w' = w
    BY <1>1, <1>7 DEF TypeOK
  <2>2. w[r] = spawned[r]
    <3>1. w[r] <= spawned[r]
      BY <1>2, <1>5 DEF PhaseInv
    <3>2. ~(w[r] < spawned[r])
      BY <1>2, <1>3, <1>5, <1>7 DEF Present, InstInv, Made
    <3> QED
      BY <1>3, <3>1, <3>2
  <2>3. spawned[r] + 1 <= Instances(r) /\ Instances(r) = Instances(0)
    BY <1>2, <1>3, <2>2, InstancesFacts
  <2>4. TypeOK'
    <3>1. \A s \in Rank : pc'[s] \in {"setup", "launch", "own", "join"} => w'[s] < NWorker(s)'
      BY <1>1, <1>2, <1>4, <2>1 DEF TypeOK, Others, NWorker, Jobs, Current
    <3>2. spawned' \in [Rank -> 0 .. Instances(0)]
      BY <1>1, <1>3, <2>1, <2>3 DEF TypeOK
    <3>3. pc' \in [Rank -> {"return", "init", "setup", "launch", "own", "join"}]
          /\ setup' \in [Rank -> 0 .. 3]
      BY <1>1, <2>1 DEF TypeOK
    <3>4. \A s \in Rank : at'[s] = 0 => pc'[s] = "return"
      BY <1>1, <1>2, <1>4, <2>1 DEF TypeOK, Others
    <3> QED
      BY <1>1, <1>2, <2>1, <3>1, <3>2, <3>3, <3>4 DEF TypeOK
  <2>5. RankInv(r)'
    <3>1. InstInv(r)'
      <4>1. Made(r)' = spawned[r] /\ Made(r) = spawned[r]
        BY <1>2, <1>3, <2>1 DEF Made
      <4> QED
        BY <1>2, <1>5, <4>1 DEF InstInv
    <3>2. PhaseInv(r)'
      BY <1>2, <1>3, <1>5, <2>1, <2>2 DEF PhaseInv
    <3>3. OutsInv(r)'
      BY <1>2, <1>5 DEF OutsInv, PhaseInv
    <3> QED
      BY <1>2, <3>1, <3>2, <3>3 DEF RankInv
  <2> QED
    BY <1>4, <2>4, <2>5, Together
<1> QED
  BY <1>6, <1>7

LEMMA SetupStepStep ==
  ASSUME IInv, NEW r \in Rank, SetupStep(r)
  PROVE  IInv'
<1> USE DEF SetupStep
<1>1. TypeOK /\ RankInv(r)
  BY DEF IInv
<1>2. /\ pc[r] = "setup" /\ at[r] > 0 /\ at' = at /\ task' = task /\ spawned' = spawned
      /\ got' = got /\ outs' = outs
  BY <1>1 DEF TypeOK
<1>3. /\ NWorker(r) \in Nat /\ NWorker(r) <= Instances(r) /\ LastWorker(r) + 1 = NWorker(r)
      /\ NWorker(r)' = NWorker(r) /\ LastWorker(r)' = LastWorker(r)
      /\ w[r] \in Nat /\ spawned[r] \in Nat /\ Instances(r) \in Nat /\ Instances(r) <= MaxParallel
      /\ Instances(r) = Instances(0) /\ spawned[r] <= Instances(r) /\ LastWorker(r) \in Nat
  <2>1. NWorker(r)' = NWorker(r) /\ LastWorker(r)' = LastWorker(r)
    BY <1>2 DEF NWorker, LastWorker, Jobs, Current
  <2>2. Instances(r) \in Nat /\ Instances(r) <= MaxParallel /\ Instances(r) = Instances(0)
    BY InstancesFacts
  <2>3. w[r] \in Nat /\ spawned[r] \in Nat /\ spawned[r] <= Instances(r)
    BY <1>1, <2>2 DEF TypeOK
  <2> QED
    BY <1>1, <1>2, <2>1, <2>2, <2>3, CallFacts
<1>4. Others(r)
  BY <1>1 DEF TypeOK, Others
<1>5. PhaseInv(r) /\ InstInv(r) /\ OutsInv(r)
  BY <1>1, <1>2 DEF RankInv
<1>6. spawned[r] = w[r] + 1 /\ w[r] <= LastWorker(r) /\ Made(r) = w[r]
  BY <1>2, <1>3, <1>5 DEF PhaseInv, Made
<1>7. chan' \in [1 .. MaxParallel -> [Rank -> Seq(Message)]]
  <2>1. spawned[r] \in 1 .. MaxParallel /\ ChanType
    BY SMTT(30), <1>1, <1>3, <1>6, ConstantFacts DEF TypeOK, ChanType
  <2>2. ChanType'
    BY <2>1, UnsetType, SendType, ConsumeType
  <2> QED
    BY <2>2 DEF ChanType
<1>8. setup' \in [Rank -> 0 .. 3]
  <2>1. \A k \in 0 .. 3 : (k + 1) % 4 \in 0 .. 3
    OBVIOUS
  <2> QED
    BY <1>1, <2>1 DEF TypeOK
<1>9. CASE setup[r] < 3
  <2>1. UNCHANGED <<pc, w, inst>>
    BY <1>9
  <2>3. TypeOK'
    BY <1>1, <1>2, <1>7, <1>8, <2>1 DEF TypeOK, NWorker, Jobs, Current
  <2>4. RankInv(r)'
    BY <1>1, <1>2, <2>1, Frame
  <2> QED
    BY <1>4, <2>3, <2>4, Together
<1>10. CASE ~(setup[r] < 3)
  <2>1. /\ inst' = [inst EXCEPT ![r][w[r]] = spawned[r]]
        /\ pc' = [pc EXCEPT ![r] = "init"] /\ w' = [w EXCEPT ![r] = @ + 1]
        /\ pc'[r] = "init" /\ w'[r] = w[r] + 1
    BY <1>1, <1>10 DEF TypeOK
  <2>2. inst'[r] = [inst[r] EXCEPT ![w[r]] = w[r] + 1]
    BY <1>1, <1>6, <2>1 DEF TypeOK
  <2>3. InstInv(r)'
    <3>1. Made(r)' = w[r] + 1
      BY <1>2, <1>3, <1>6, <2>1 DEF Made
    <3>2. \A v \in Worker(r) : inst'[r][v] = IF v = w[r] THEN v + 1 ELSE inst[r][v]
      BY <1>1, <2>2, WorkerFacts DEF TypeOK
    <3>3. \A v \in Worker(r) : (v < w[r] + 1) <=> (v < w[r] \/ v = w[r])
      BY <1>3, WorkerFacts
    <3>4. ~(w[r] < w[r])
      BY <1>3
    <3> QED
      BY <1>5, <1>6, <3>1, <3>2, <3>3, <3>4 DEF InstInv
  <2>4. PhaseInv(r)'
    BY <1>2, <1>3, <1>5, <1>6, <2>1 DEF PhaseInv
  <2>5. OutsInv(r)'
    BY <1>2, <1>5 DEF OutsInv, PhaseInv
  <2>6. RankInv(r)'
    BY <1>2, <2>3, <2>4, <2>5 DEF RankInv
  <2>7. TypeOK'
    <3>1. \A s \in Rank : pc'[s] \in {"setup", "launch", "own", "join"} => w'[s] < NWorker(s)'
      BY <1>1, <1>2, <1>4, <2>1 DEF TypeOK, Others, NWorker, Jobs, Current
    <3>2. /\ pc' \in [Rank -> {"return", "init", "setup", "launch", "own", "join"}]
          /\ w' \in [Rank -> Nat]
      BY <1>1, <1>3, <2>1 DEF TypeOK
    <3>3. inst' \in [Rank -> [Worker(0) -> 0 .. Instances(0)]]
      <4>1. spawned[r] \in 0 .. Instances(0)
        BY <1>1 DEF TypeOK
      <4> QED
        BY <1>1, <2>1, <4>1 DEF TypeOK
    <3>4. \A s \in Rank : at'[s] = 0 => pc'[s] = "return"
      BY <1>1, <1>2, <1>4, <2>1 DEF TypeOK, Others
    <3> QED
      BY <1>1, <1>2, <1>7, <1>8, <3>1, <3>2, <3>3, <3>4 DEF TypeOK
  <2> QED
    BY <1>4, <2>6, <2>7, Together
<1> QED
  BY <1>9, <1>10

LEMMA EndInitStep ==
  ASSUME IInv, NEW r \in Rank, EndInit(r)
  PROVE  IInv'
<1> USE DEF EndInit
<1>1. TypeOK /\ RankInv(r)
  BY DEF IInv
<1>2. /\ pc[r] = "init" /\ pc'[r] = "launch" /\ w'[r] = 0 /\ at[r] > 0 /\ w[r] = NWorker(r)
      /\ UNCHANGED <<at, inst, spawned, setup, task, got, outs, chan>>
  BY <1>1 DEF TypeOK, ToInit
<1>3. /\ NWorker(r)' = NWorker(r) /\ LastWorker(r)' = LastWorker(r)
      /\ NWorker(r) \in Nat \ {0} /\ LastWorker(r) \in Nat
  <2>1. NWorker(r)' = NWorker(r) /\ LastWorker(r)' = LastWorker(r)
    BY <1>2 DEF NWorker, LastWorker, Jobs, Current
  <2> QED
    BY <1>1, <1>2, <2>1, CallFacts
<1>4. Others(r)
  BY <1>1 DEF TypeOK, Others
<1>5. PhaseInv(r) /\ InstInv(r) /\ OutsInv(r)
  BY <1>1, <1>2 DEF RankInv
<1>6. TypeOK'
  <2>1. \A s \in Rank : pc'[s] \in {"setup", "launch", "own", "join"} => w'[s] < NWorker(s)'
    BY <1>1, <1>2, <1>3, <1>4 DEF TypeOK, Others, NWorker, Jobs, Current
  <2>2. \A s \in Rank : at'[s] = 0 => pc'[s] = "return"
    BY <1>1, <1>2, <1>4 DEF TypeOK, Others
  <2> QED
    BY <1>1, <1>2, <2>1, <2>2 DEF TypeOK
<1>7. RankInv(r)'
  <2>1. InstInv(r)'
    BY <1>2, <1>5 DEF InstInv, Made
  <2>2. PhaseInv(r)'
    BY <1>2, <1>3, <1>5 DEF PhaseInv
  <2>3. OutsInv(r)'
    BY <1>2, <1>5 DEF OutsInv, PhaseInv
  <2> QED
    BY <1>2, <2>1, <2>2, <2>3 DEF RankInv
<1> QED
  BY <1>4, <1>6, <1>7, Together

LEMMA LaunchStep ==
  ASSUME IInv, NEW r \in Rank, Launch(r)
  PROVE  IInv'
<1>1. TypeOK /\ RankInv(r)
  BY DEF IInv
<1>2. PICK how \in {"ready", "deferred"} : TaskSet(r, w[r], how)
  BY DEF Launch, TaskSet
<1>3. /\ pc[r] = "launch" /\ w'[r] = w[r] + 1 /\ at[r] > 0 /\ w[r] + 1 < NWorker(r)
      /\ w' = [w EXCEPT ![r] = @ + 1]
      /\ UNCHANGED <<pc, at, inst, spawned, setup, got, outs, chan>>
  BY <1>1 DEF Launch, TypeOK
<1>4. /\ NWorker(r)' = NWorker(r) /\ LastWorker(r)' = LastWorker(r)
      /\ NWorker(r) \in Nat \ {0} /\ LastWorker(r) \in Nat /\ LastWorker(r) + 1 = NWorker(r)
      /\ NWorker(r) <= Instances(r) /\ Instances(r) \in Nat /\ w[r] \in Nat /\ w[r] \in Worker(r)
  <2>1. NWorker(r)' = NWorker(r) /\ LastWorker(r)' = LastWorker(r)
    BY <1>3 DEF NWorker, LastWorker, Jobs, Current
  <2>2. w[r] \in Nat /\ Instances(r) \in Nat
    BY <1>1, InstancesFacts DEF TypeOK
  <2>3. NWorker(r) \in Nat \ {0} /\ NWorker(r) <= Instances(r) /\ LastWorker(r) \in Nat
        /\ LastWorker(r) + 1 = NWorker(r)
    BY <1>1, <1>3, CallFacts
  <2> QED
    BY <1>3, <2>1, <2>2, <2>3, WorkerFacts
<1>5. Others(r)
  BY <1>1, <1>2, <1>3 DEF TypeOK, Others, TaskSet
<1>6. PhaseInv(r) /\ InstInv(r) /\ OutsInv(r)
  BY <1>1, <1>3 DEF RankInv
<1>7. /\ task' \in [Rank -> [Worker(0) -> TaskState]]
      /\ \A v \in Worker(r) : task'[r][v] = IF v = w[r] THEN how ELSE task[r][v]
  <2>1. how \in TaskState
    BY DEF TaskState
  <2>2. TaskIs(r, w[r], how)
    BY <1>1, <1>2, <1>4, <2>1, TaskStep
  <2> QED
    BY <2>2 DEF TaskIs
<1>8. TypeOK'
  <2>1. \A s \in Rank : pc'[s] \in {"setup", "launch", "own", "join"} => w'[s] < NWorker(s)'
    BY <1>1, <1>3, <1>4, <1>5 DEF TypeOK, Others, NWorker, Jobs, Current
  <2>2. w' \in [Rank -> Nat]
    BY <1>1, <1>3, <1>4 DEF TypeOK
  <2> QED
    BY <1>1, <1>3, <1>7, <2>1, <2>2 DEF TypeOK
<1>9. RankInv(r)'
  <2>1. InstInv(r)'
    BY <1>3, <1>6 DEF InstInv, Made
  <2>2. PhaseInv(r)'
    BY <1>3, <1>4, <1>6, <1>7 DEF PhaseInv
  <2>3. OutsInv(r)'
    BY <1>3, <1>6, <1>7 DEF OutsInv, About, Slice, Jobs, Scale, Current
  <2> QED
    BY <1>3, <2>1, <2>2, <2>3 DEF RankInv
<1> QED
  BY <1>5, <1>8, <1>9, Together

LEMMA OwnSliceStep ==
  ASSUME IInv, NEW r \in Rank, OwnSlice(r)
  PROVE  IInv'
<1> USE DEF OwnSlice
<1>1. TypeOK /\ RankInv(r)
  BY DEF IInv
<1>2. /\ pc[r] = "launch" /\ pc'[r] = "own" /\ at[r] > 0 /\ w[r] + 1 = NWorker(r)
      /\ task' = [task EXCEPT ![r][w[r]] = "ready"]
      /\ UNCHANGED <<at, w, inst, spawned, setup, got, outs, chan>>
  BY <1>1 DEF TypeOK
<1>3. /\ NWorker(r)' = NWorker(r) /\ LastWorker(r)' = LastWorker(r)
      /\ NWorker(r) \in Nat \ {0} /\ w[r] = LastWorker(r) /\ w[r] \in Nat /\ w[r] \in Worker(r)
  <2>1. NWorker(r)' = NWorker(r) /\ LastWorker(r)' = LastWorker(r)
    BY <1>2 DEF NWorker, LastWorker, Jobs, Current
  <2>2. NWorker(r) \in Nat \ {0} /\ LastWorker(r) + 1 = NWorker(r) /\ LastWorker(r) \in Nat
        /\ 0 .. LastWorker(r) \subseteq Worker(r)
    BY <1>1, <1>2, CallFacts
  <2>3. w[r] = LastWorker(r)
    BY <1>1, <1>2, <2>2 DEF TypeOK
  <2> QED
    BY <2>1, <2>2, <2>3
<1>4. Others(r)
  BY <1>1 DEF TypeOK, Others
<1>5. PhaseInv(r) /\ InstInv(r) /\ OutsInv(r)
  BY <1>1, <1>2 DEF RankInv
<1>6. /\ task' \in [Rank -> [Worker(0) -> TaskState]]
      /\ \A v \in Worker(r) : task'[r][v] = IF v = w[r] THEN "ready" ELSE task[r][v]
  <2>1. "ready" \in TaskState /\ TaskSet(r, w[r], "ready")
    BY <1>2 DEF TaskState, TaskSet
  <2>2. TaskIs(r, w[r], "ready")
    BY <1>1, <1>3, <2>1, TaskStep
  <2> QED
    BY <2>2 DEF TaskIs
<1>7. TypeOK'
  <2>1. \A s \in Rank : pc'[s] \in {"setup", "launch", "own", "join"} => w'[s] < NWorker(s)'
    BY <1>1, <1>2, <1>3, <1>4 DEF TypeOK, Others, NWorker, Jobs, Current
  <2>2. \A s \in Rank : at'[s] = 0 => pc'[s] = "return"
    BY <1>1, <1>2, <1>4 DEF TypeOK, Others
  <2> QED
    BY <1>1, <1>2, <1>6, <2>1, <2>2 DEF TypeOK
<1>8. RankInv(r)'
  <2>1. InstInv(r)'
    BY <1>2, <1>5 DEF InstInv, Made
  <2>2. PhaseInv(r)'
    BY <1>2, <1>3, <1>5, <1>6 DEF PhaseInv
  <2>3. OutsInv(r)'
    BY <1>2, <1>5, <1>6 DEF OutsInv, About, Slice, Jobs, Scale, Current
  <2> QED
    BY <1>2, <2>1, <2>2, <2>3 DEF RankInv
<1> QED
  BY <1>4, <1>7, <1>8, Together

LEMMA EndOwnSliceStep ==
  ASSUME IInv, NEW r \in Rank, EndOwnSlice(r)
  PROVE  IInv'
<1> USE DEF EndOwnSlice
<1>1. TypeOK /\ RankInv(r)
  BY DEF IInv
<1>2. /\ pc[r] = "own" /\ pc'[r] = "join" /\ w'[r] = 0 /\ at[r] > 0 /\ task[r][w[r]] = "done"
      /\ UNCHANGED <<at, inst, spawned, setup, task, got, outs, chan>>
  BY <1>1 DEF TypeOK
<1>3. /\ NWorker(r)' = NWorker(r) /\ LastWorker(r)' = LastWorker(r)
      /\ NWorker(r) \in Nat \ {0} /\ LastWorker(r) \in Nat
  <2>1. NWorker(r)' = NWorker(r) /\ LastWorker(r)' = LastWorker(r)
    BY <1>2 DEF NWorker, LastWorker, Jobs, Current
  <2> QED
    BY <1>1, <1>2, <2>1, CallFacts
<1>4. Others(r)
  BY <1>1 DEF TypeOK, Others
<1>5. PhaseInv(r) /\ InstInv(r) /\ OutsInv(r)
  BY <1>1, <1>2 DEF RankInv
<1>6. TypeOK'
  <2>1. \A s \in Rank : pc'[s] \in {"setup", "launch", "own", "join"} => w'[s] < NWorker(s)'
    BY <1>1, <1>2, <1>3, <1>4 DEF TypeOK, Others, NWorker, Jobs, Current
  <2>2. \A s \in Rank : at'[s] = 0 => pc'[s] = "return"
    BY <1>1, <1>2, <1>4 DEF TypeOK, Others
  <2> QED
    BY <1>1, <1>2, <2>1, <2>2 DEF TypeOK
<1>7. RankInv(r)'
  <2>1. InstInv(r)'
    BY <1>2, <1>5 DEF InstInv, Made
  <2>2. PhaseInv(r)'
    BY <1>2, <1>3, <1>5 DEF PhaseInv
  <2>3. OutsInv(r)'
    BY <1>2, <1>5 DEF OutsInv, About, Slice, Jobs, Scale, Current
  <2> QED
    BY <1>2, <2>1, <2>2, <2>3 DEF RankInv
<1> QED
  BY <1>4, <1>6, <1>7, Together

LEMMA JoinStep ==
  ASSUME IInv, NEW r \in Rank, Join(r)
  PROVE  IInv'
<1>1. TypeOK /\ RankInv(r)
  BY DEF IInv
<1>2. /\ pc[r] = "join" /\ at[r] > 0 /\ w[r] + 1 < NWorker(r)
      /\ UNCHANGED <<pc, at, inst, spawned, setup, got, outs, chan>>
  BY <1>1 DEF Join, TypeOK
<1>3. /\ NWorker(r)' = NWorker(r) /\ LastWorker(r)' = LastWorker(r)
      /\ NWorker(r) \in Nat \ {0} /\ LastWorker(r) \in Nat /\ LastWorker(r) + 1 = NWorker(r)
      /\ w[r] \in Nat /\ w[r] \in Worker(r)
  <2>1. NWorker(r)' = NWorker(r) /\ LastWorker(r)' = LastWorker(r)
    BY <1>2 DEF NWorker, LastWorker, Jobs, Current
  <2>2. NWorker(r) \in Nat \ {0} /\ LastWorker(r) + 1 = NWorker(r) /\ LastWorker(r) \in Nat
        /\ 0 .. LastWorker(r) \subseteq Worker(r)
    BY <1>1, <1>2, CallFacts
  <2>3. w[r] \in 0 .. LastWorker(r)
    BY <1>1, <1>2, <2>2 DEF TypeOK
  <2> QED
    BY <2>1, <2>2, <2>3
<1>4. Others(r)
  BY <1>1, <1>2 DEF Join, TypeOK, Others
<1>5. PhaseInv(r) /\ InstInv(r) /\ OutsInv(r)
  BY <1>1, <1>2 DEF RankInv
<1>6. InstInv(r)'
  BY <1>2, <1>5 DEF InstInv, Made
<1>7. CASE task[r][w[r]] = "deferred" /\ TaskSet(r, w[r], "ready") /\ w' = w
  <2>1. /\ task' \in [Rank -> [Worker(0) -> TaskState]]
        /\ \A v \in Worker(r) : task'[r][v] = IF v = w[r] THEN "ready" ELSE task[r][v]
    <3>1. "ready" \in TaskState
      BY DEF TaskState
    <3>2. TaskIs(r, w[r], "ready")
      BY <1>1, <1>3, <1>7, <3>1, TaskStep
    <3> QED
      BY <3>2 DEF TaskIs
  <2>2. TypeOK'
    BY <1>1, <1>2, <1>7, <2>1 DEF TypeOK, NWorker, Jobs, Current
  <2>3. PhaseInv(r)'
    <3>1. 0 .. LastWorker(r) \subseteq Worker(r) /\ task[r][w[r]] # "done"
      BY <1>1, <1>2, <1>7, CallFacts
    <3> QED
      BY <1>2, <1>3, <1>5, <1>7, <2>1, <3>1 DEF PhaseInv
  <2>4. OutsInv(r)'
    BY <1>2, <1>5, <2>1 DEF OutsInv, About, Slice, Jobs, Scale, Current
  <2>5. RankInv(r)'
    BY <1>2, <1>6, <2>3, <2>4 DEF RankInv
  <2> QED
    BY <1>4, <2>2, <2>5, Together
<1>8. CASE task[r][w[r]] = "done" /\ w' = [w EXCEPT ![r] = @ + 1] /\ task' = task
  <2>1. w'[r] = w[r] + 1
    BY <1>1, <1>8 DEF TypeOK
  <2>2. TypeOK'
    <3>1. \A s \in Rank : pc'[s] \in {"setup", "launch", "own", "join"} => w'[s] < NWorker(s)'
      <4>1. \A s \in Rank : s # r => w'[s] = w[s]
        BY <1>1, <1>8 DEF TypeOK
      <4>2. \A s \in Rank : pc'[s] = pc[s] /\ NWorker(s)' = NWorker(s)
        BY <1>2 DEF NWorker, Jobs, Current
      <4> QED
        BY <1>1, <1>2, <2>1, <4>1, <4>2 DEF TypeOK
    <3>2. w' \in [Rank -> Nat]
      BY <1>1, <1>3, <1>8 DEF TypeOK
    <3> QED
      BY <1>1, <1>2, <1>8, <3>1, <3>2 DEF TypeOK
  <2>3. PhaseInv(r)'
    <3>1. \A v \in 0 .. LastWorker(r) : v < w[r] + 1 => v < w[r] \/ v = w[r]
      BY <1>3
    <3> QED
      BY <1>2, <1>3, <1>5, <1>8, <2>1, <3>1 DEF PhaseInv
  <2>4. OutsInv(r)'
    BY <1>2, <1>5, <1>8 DEF OutsInv, About, Slice, Jobs, Scale, Current
  <2>5. RankInv(r)'
    BY <1>2, <1>6, <2>3, <2>4 DEF RankInv
  <2> QED
    BY <1>4, <2>2, <2>5, Together
<1> QED
  BY <1>7, <1>8 DEF Join, Joined, TaskSet

LEMMA ReturnStep ==
  ASSUME IInv, NEW r \in Rank, Return(r)
  PROVE  IInv'
<1> USE DEF Return
<1>1. TypeOK /\ RankInv(r)
  BY DEF IInv
<1>2. /\ pc[r] = "join" /\ pc'[r] = "return" /\ at[r] > 0 /\ w[r] + 1 = NWorker(r)
      /\ UNCHANGED <<at, w, inst, spawned, setup, task, got, outs, chan>>
  BY <1>1 DEF TypeOK
<1>3. /\ NWorker(r)' = NWorker(r) /\ LastWorker(r)' = LastWorker(r)
      /\ LastWorker(r) \in Nat /\ w[r] = LastWorker(r)
  <2>1. NWorker(r)' = NWorker(r) /\ LastWorker(r)' = LastWorker(r)
    BY <1>2 DEF NWorker, LastWorker, Jobs, Current
  <2>2. NWorker(r) \in Nat \ {0} /\ LastWorker(r) + 1 = NWorker(r) /\ LastWorker(r) \in Nat
    BY <1>1, <1>2, CallFacts
  <2>3. w[r] \in Nat
    BY <1>1 DEF TypeOK
  <2> QED
    BY <1>2, <2>1, <2>2, <2>3
<1>4. Others(r)
  BY <1>1 DEF TypeOK, Others
<1>5. PhaseInv(r) /\ InstInv(r) /\ OutsInv(r)
  BY <1>1, <1>2 DEF RankInv
<1>6. TypeOK'
  <2>1. \A s \in Rank : pc'[s] \in {"setup", "launch", "own", "join"} => w'[s] < NWorker(s)'
    BY <1>1, <1>2, <1>4 DEF TypeOK, Others, NWorker, Jobs, Current
  <2>2. \A s \in Rank : at'[s] = 0 => pc'[s] = "return"
    BY <1>1, <1>2, <1>4 DEF TypeOK, Others
  <2> QED
    BY <1>1, <1>2, <2>1, <2>2 DEF TypeOK
<1>7. RankInv(r)'
  <2>1. InstInv(r)'
    BY <1>2, <1>5 DEF InstInv, Made
  <2>2. PhaseInv(r)'
    <3>1. \A v \in 0 .. LastWorker(r) : v < w[r] \/ v = LastWorker(r)
      BY <1>3
    <3> QED
      BY <1>2, <1>3, <1>5, <3>1 DEF PhaseInv
  <2>3. OutsInv(r)'
    BY <1>2, <1>5 DEF OutsInv, About, Slice, Jobs, Scale, Current
  <2> QED
    BY <1>2, <2>1, <2>2, <2>3 DEF RankInv
<1> QED
  BY <1>4, <1>6, <1>7, Together

\* A slice that runs has an instance, and its link is one of those there are.
LEMMA LinkFacts ==
  ASSUME IInv, NEW r \in Rank, NEW v \in Worker(r), task[r][v] # "none"
  PROVE  /\ at[r] > 0 /\ pc[r] \notin {"init", "setup"}
         /\ Link(r, v) = v + 1 /\ Link(r, v) \in 1 .. MaxParallel
<1>1. TypeOK /\ RankInv(r)
  BY DEF IInv
<1>2. at[r] > 0
  BY <1>1 DEF RankInv, TypeOK
<1>3. PhaseInv(r) /\ InstInv(r)
  BY <1>1, <1>2 DEF RankInv
<1>4. pc[r] \notin {"init", "setup"}
  BY <1>3 DEF PhaseInv
<1>5. pc[r] \in {"launch", "own", "join", "return"}
  BY <1>1, <1>4 DEF TypeOK
<1>6. NWorker(r) <= spawned[r] /\ v < NWorker(r)
  BY <1>3, <1>5 DEF PhaseInv
<1>7. /\ v \in Nat /\ v < Instances(r) /\ Instances(r) \in Nat /\ Instances(r) <= MaxParallel
      /\ NWorker(r) \in Nat /\ spawned[r] \in Nat /\ MaxParallel \in Nat
  BY SMTT(30), <1>1, <1>2, WorkerFacts, InstancesFacts, CallFacts, ConstantFacts DEF TypeOK
<1>8. v < Made(r)
  BY <1>4, <1>6, <1>7 DEF Made
<1>9. inst[r][v] = v + 1
  BY <1>3, <1>8 DEF InstInv
<1> QED
  BY <1>2, <1>4, <1>7, <1>9 DEF Link

\* The outputs of a slice are there when it is done.
OutsSet(r, u, x) == outs' = IF x = "done" THEN [outs EXCEPT ![r][u] = About(r, u)] ELSE outs

\* What a step of a slice does to the invariant: the slice goes on, or is done.
LEMMA SliceProgress ==
  ASSUME IInv, NEW r \in Rank, NEW v \in Worker(r), task[r][v] \in {"ready", "half"},
         UNCHANGED <<pc, at, w, inst, spawned, setup>>,
         ChanType', got' \in [Rank -> [Worker(0) -> Message]],
         NEW x \in TaskState, x # "none", TaskSet(r, v, x), OutsSet(r, v, x)
  PROVE  IInv'
<1>1. TypeOK /\ RankInv(r) /\ at[r] > 0
  BY LinkFacts DEF IInv
<1>3. /\ task' \in [Rank -> [Worker(0) -> TaskState]]
      /\ \A u \in Worker(r) : task'[r][u] = IF u = v THEN x ELSE task[r][u]
  <2>1. TaskIs(r, v, x)
    BY <1>1, TaskStep
  <2> QED
    BY <2>1 DEF TaskIs
<1>4. /\ outs' \in [Rank -> [Worker(0) -> Message]]
      /\ \A u \in Worker(r) : outs'[r][u] = IF u = v /\ x = "done" THEN About(r, v) ELSE outs[r][u]
  <2>1. About(r, v) \in Message /\ Worker(r) = Worker(0)
    BY <1>1, AboutFacts, WorkerFacts
  <2>2. outs \in [Rank -> [Worker(0) -> Message]]
    BY <1>1 DEF TypeOK
  <2>3. CASE x # "done"
    <3>1. outs' = outs
      BY <2>3 DEF OutsSet
    <3> QED
      BY <2>2, <2>3, <3>1
  <2>4. CASE x = "done"
    <3>1. outs' = [outs EXCEPT ![r][v] = About(r, v)]
      BY <2>4 DEF OutsSet
    <3>2. outs'[r] = [outs[r] EXCEPT ![v] = About(r, v)] /\ outs[r] \in [Worker(0) -> Message]
      BY <2>2, <3>1
    <3> QED
      BY <2>1, <2>2, <2>4, <3>1, <3>2
  <2> QED
    BY <2>3, <2>4
<1>5. Others(r)
  BY <1>1 DEF TypeOK, Others, TaskSet, OutsSet
<1>6. TypeOK'
  BY <1>1, <1>3, <1>4 DEF TypeOK, ChanType, NWorker, Jobs, Current
<1>7. RankInv(r)'
  <2>1. PhaseInv(r) /\ InstInv(r) /\ OutsInv(r)
    BY <1>1 DEF RankInv
  <2>2. /\ NWorker(r)' = NWorker(r) /\ LastWorker(r)' = LastWorker(r)
        /\ \A u : About(r, u)' = About(r, u)
    BY DEF NWorker, LastWorker, About, Slice, Jobs, Scale, Current
  <2>3. InstInv(r)'
    BY <2>1 DEF InstInv, Made
  <2>4. PhaseInv(r)'
    <3>1. 0 .. LastWorker(r) \subseteq Worker(r) /\ pc[r] \notin {"init", "setup"}
      BY <1>1, CallFacts, LinkFacts
    <3> QED
      BY <1>3, <2>1, <2>2, <3>1 DEF PhaseInv
  <2>5. OutsInv(r)'
    BY <1>3, <1>4, <2>1, <2>2 DEF OutsInv
  <2> QED
    BY <1>1, <2>3, <2>4, <2>5 DEF RankInv
<1> QED
  BY <1>5, <1>6, <1>7, Together

LEMMA SliceStepStep ==
  ASSUME IInv, NEW r \in Rank, NEW v \in Worker(r), SliceStep(r, v)
  PROVE  IInv'
<1>1. /\ task[r][v] \in {"ready", "half"}
      /\ UNCHANGED <<pc, at, w, inst, spawned, setup>>
      /\ \E x \in {"half", "done"} : TaskSet(r, v, x) /\ OutsSet(r, v, x)
  <2>1. ASSUME Finished(r, v) PROVE TaskSet(r, v, "done") /\ OutsSet(r, v, "done")
    BY <2>1 DEF Finished, TaskSet, OutsSet
  <2>2. ASSUME task' = [task EXCEPT ![r][v] = "half"], outs' = outs
        PROVE  TaskSet(r, v, "half") /\ OutsSet(r, v, "half")
    BY <2>2 DEF TaskSet, OutsSet
  <2> QED
    BY <2>1, <2>2 DEF SliceStep, SliceSpeak, SliceListen
<1>2. TypeOK /\ ChanType /\ at[r] > 0 /\ Link(r, v) \in 1 .. MaxParallel
  BY <1>1, LinkFacts DEF IInv, TypeOK, ChanType
<1> PICK x \in {"half", "done"} : TaskSet(r, v, x) /\ OutsSet(r, v, x)
  BY <1>1
<1>x. x \in TaskState /\ x # "none"
  BY DEF TaskState
<1>3. CASE SliceSpeak(r, v)
  <2>1. Send(r, Link(r, v), About(r, v)) /\ got' = got /\ About(r, v) \in Message
    BY <1>2, <1>3, AboutFacts DEF SliceSpeak
  <2>2. ChanType'
    BY <1>2, <2>1, SendType
  <2>3. got' \in [Rank -> [Worker(0) -> Message]]
    BY <1>2, <2>1 DEF TypeOK
  <2> QED
    BY <1>1, <1>x, <2>2, <2>3, SliceProgress
<1>4. CASE SliceListen(r, v)
  <2>1. /\ Arrived(r, Link(r, v)) /\ Consume(r, Link(r, v))
        /\ got' = [got EXCEPT ![r][v] = Head(chan[Link(r, v)][r])]
    BY <1>4 DEF SliceListen
  <2>2. ChanType' /\ Head(chan[Link(r, v)][r]) \in Message
    BY <1>2, <2>1, ConsumeType
  <2>3. got' \in [Rank -> [Worker(0) -> Message]]
    BY <1>2, <2>1, <2>2 DEF TypeOK
  <2> QED
    BY <1>1, <1>x, <2>2, <2>3, SliceProgress
<1> QED
  BY <1>3, <1>4 DEF SliceStep

LEMMA StutterStep == IInv /\ UNCHANGED vars => IInv'
<1> SUFFICES ASSUME IInv, UNCHANGED vars PROVE IInv'
  OBVIOUS
<1>1. UNCHANGED <<pc, at, w, inst, spawned, setup, task, got, outs, chan>>
  BY DEF vars
<1>2. TypeOK'
  BY <1>1 DEF IInv, TypeOK, NWorker, Jobs, Current
<1>3. \A s \in Rank : RankInv(s)'
  BY <1>1, Frame DEF IInv
<1> QED
  BY <1>2, <1>3 DEF IInv

-----------------------------------------------------------------------------
(* The theorems.                                                           *)

LEMMA NextStep == IInv /\ [Next]_vars => IInv'
<1> SUFFICES ASSUME IInv, [Next]_vars PROVE IInv'
  OBVIOUS
<1>1. ASSUME NEW r \in Rank, Caller(r) PROVE IInv'
  BY <1>1, StartCallStep, LazyInitStep, SetupStepStep, EndInitStep, LaunchStep,
     OwnSliceStep, EndOwnSliceStep, JoinStep, ReturnStep DEF Caller
<1>2. ASSUME NEW r \in Rank, NEW v \in Worker(r), SliceStep(r, v) PROVE IInv'
  BY <1>2, SliceStepStep
<1>3. CASE Done \/ UNCHANGED vars
  BY <1>3, StutterStep DEF Done
<1> QED
  BY <1>1, <1>2, <1>3 DEF Next

LEMMA Invariance == Spec => []IInv
<1> QED
  BY InitStep, NextStep, PTL DEF Spec

\* The type invariant: the worker of a loop exists, and a rank spawns no more
\* links than it has instances, however many calls it makes.
THEOREM TypeCorrect == Spec => []TypeOK
<1>1. IInv => TypeOK
  BY DEF IInv
<1> QED
  BY Invariance, <1>1, PTL

\* get never fails its check and never returns the instance of another slice.
THEOREM EveryInstanceReady == Spec => []InstancesReady
<1>1. IInv => InstancesReady
  <2> SUFFICES ASSUME IInv, NEW r \in Rank, NEW v \in Worker(r), task[r][v] # "none"
               PROVE  inst[r][v] # 0 /\ \A u \in Worker(r) \ {v} : inst[r][u] # inst[r][v]
    BY DEF InstancesReady
  <2>1. inst[r][v] = v + 1
    BY LinkFacts DEF Link
  <2>2. \A u \in Worker(r) : inst[r][u] = u + 1 \/ inst[r][u] = 0
    <3>1. InstInv(r)
      BY DEF IInv, RankInv
    <3> QED
      BY <3>1 DEF InstInv
  <2>3. \A u \in Worker(r) : u \in Nat
    BY WorkerFacts
  <2> QED
    BY <2>1, <2>2, <2>3
<1> QED
  BY Invariance, <1>1, PTL

\* What a dispatch returns is of every element once and in order, and no slice
\* was empty, for any number of elements, of cores and of instances, as long as
\* kMinWorkSize is not smaller than kMaxOTParallel - 1.
THEOREM EveryElementOnce == Spec => []OutputComplete
<1>1. IInv => OutputComplete
  <2> SUFFICES ASSUME IInv, NEW r \in Rank, pc[r] = "return", at[r] > 0
               PROVE  /\ outs[r][0].bgn = 0 /\ outs[r][NWorker(r) - 1].end = Jobs(r)
                      /\ \A v \in 0 .. NWorker(r) - 1 :
                           /\ outs[r][v].call = at[r] /\ outs[r][v].bgn < outs[r][v].end
                           /\ v > 0 => outs[r][v].bgn = outs[r][v - 1].end
    BY DEF OutputComplete
  <2>1. TypeOK /\ PhaseInv(r) /\ OutsInv(r)
    BY DEF IInv, RankInv
  <2>2. /\ Jobs(r) \in Nat \ {0} /\ LastWorker(r) = NWorker(r) - 1 /\ LastWorker(r) \in Nat
        /\ 0 .. LastWorker(r) \subseteq Worker(r)
    BY <2>1, CallFacts DEF LastWorker
  <2>3. \A v \in 0 .. LastWorker(r) :
          /\ outs[r][v].call = at[r] /\ outs[r][v].bgn = SliceBgn(r, Jobs(r), v)
          /\ outs[r][v].end = SliceEnd(r, Jobs(r), v)
    <3>1. \A v \in 0 .. LastWorker(r) :
            outs[r][v] = [call |-> at[r], bgn |-> SliceBgn(r, Jobs(r), v),
                          end |-> SliceEnd(r, Jobs(r), v)]
      BY <2>1, <2>2, AboutFacts DEF PhaseInv, OutsInv
    <3> SUFFICES ASSUME NEW v \in 0 .. LastWorker(r)
                 PROVE  /\ outs[r][v].call = at[r]
                        /\ outs[r][v].bgn = SliceBgn(r, Jobs(r), v)
                        /\ outs[r][v].end = SliceEnd(r, Jobs(r), v)
      OBVIOUS
    <3>2. outs[r][v] = [call |-> at[r], bgn |-> SliceBgn(r, Jobs(r), v),
                        end |-> SliceEnd(r, Jobs(r), v)]
      BY <3>1
    <3> QED
      BY <3>2
  <2>4. /\ SliceBgn(r, Jobs(r), 0) = 0
        /\ SliceEnd(r, Jobs(r), LastWorker(r)) = Jobs(r)
        /\ \A v \in 0 .. LastWorker(r) :
             /\ SliceBgn(r, Jobs(r), v) < SliceEnd(r, Jobs(r), v)
             /\ v > 0 => SliceBgn(r, Jobs(r), v) = SliceEnd(r, Jobs(r), v - 1)
    BY <2>2, SlicesPartition DEF NWorker
  <2>5. 0 \in 0 .. LastWorker(r) /\ LastWorker(r) \in 0 .. LastWorker(r)
        /\ \A v \in 0 .. LastWorker(r) : v > 0 => v - 1 \in 0 .. LastWorker(r)
    BY <2>2
  <2>6. outs[r][0].bgn = 0 /\ outs[r][LastWorker(r)].end = Jobs(r)
    BY <2>3, <2>4, <2>5
  <2>7. ASSUME NEW v \in 0 .. LastWorker(r)
        PROVE  /\ outs[r][v].call = at[r] /\ outs[r][v].bgn < outs[r][v].end
               /\ v > 0 => outs[r][v].bgn = outs[r][v - 1].end
    <3>1. outs[r][v].call = at[r] /\ outs[r][v].bgn < outs[r][v].end
      BY <2>3, <2>4
    <3>2. ASSUME v > 0 PROVE outs[r][v].bgn = outs[r][v - 1].end
      <4> DEFINE u == v - 1
      <4>1. u \in 0 .. LastWorker(r)
        BY <2>5, <3>2
      <4> HIDE DEF u
      <4>2. outs[r][u].end = SliceEnd(r, Jobs(r), u)
        BY <2>3, <4>1
      <4>3. outs[r][v].bgn = SliceBgn(r, Jobs(r), v)
        BY <2>3
      <4>4. SliceBgn(r, Jobs(r), v) = SliceEnd(r, Jobs(r), v - 1)
        BY <2>4, <3>2
      <4> QED
        BY <4>2, <4>3, <4>4 DEF u
    <3> QED
      BY <3>1, <3>2
  <2> QED
    BY <2>2, <2>6, <2>7
<1> QED
  BY Invariance, <1>1, PTL

-----------------------------------------------------------------------------
(* What is said on a link.  The ranks use link v + 1 for the two messages   *)
(* that each of them says in a setup, and then for one message each in the  *)
(* calls that have more than v workers.  These are the same calls at both   *)
(* ranks, and a rank says and hears its messages in the order of the calls. *)

\* The number of workers of call c is the same at both ranks.
Used(c) == Workers(0, Program[c].jobs)

\* What each rank says on the link of worker v: -1 and 0 are the setup.
Items(v) == {-1, 0} \cup {c \in 1 .. Len(Program) : v < Used(c)}

Item(v, i) ==
  IF i < 1 THEN Unset
  ELSE [call |-> i, bgn |-> SliceBgn(0, Program[i].jobs, v),
        end |-> SliceEnd(0, Program[i].jobs, v)]

\* The items that a rank has said, and heard, in a setup.
SetupSaid(r) ==
  IF r = 0 THEN (IF setup[r] < 2 THEN -1 ELSE IF setup[r] = 2 THEN 0 ELSE 1)
  ELSE IF setup[r] = 0 THEN -1 ELSE 0

SetupHeard(r) ==
  IF r = 0 THEN (IF setup[r] = 0 THEN -1 ELSE 0)
  ELSE (IF setup[r] < 2 THEN -1 ELSE IF setup[r] = 2 THEN 0 ELSE 1)

First(r) == Current(r).first = r

Spoken(r, v) == task[r][v] = "done" \/ (task[r][v] = "half" /\ First(r))
Heard(r, v) == task[r][v] = "done" \/ (task[r][v] = "half" /\ ~First(r))

\* Rank r has said, and heard, the items of link v + 1 below this.
SaidTo(r, v) ==
  IF v < Made(r) THEN (IF Spoken(r, v) THEN at[r] + 1 ELSE at[r])
  ELSE IF pc[r] = "setup" /\ v = w[r] THEN SetupSaid(r) ELSE -1

HeardTo(r, v) ==
  IF v < Made(r) THEN (IF Heard(r, v) THEN at[r] + 1 ELSE at[r])
  ELSE IF pc[r] = "setup" /\ v = w[r] THEN SetupHeard(r) ELSE -1

\* Link n holds, in order, the items from lo up to hi, and nothing is heard that
\* has not been said.
Holds(n, v, lo, hi) ==
  /\ \A i \in Items(v) : i < lo => i < hi
  /\ \E q :
       /\ \A k \in 1 .. Len(n) : q[k] \in Items(v) /\ lo <= q[k] /\ q[k] < hi
       /\ \A k \in 1 .. Len(n) : n[k] = Item(v, q[k])
       /\ \A j, k \in 1 .. Len(n) : j < k => q[j] < q[k]
       /\ \A i \in Items(v) : lo <= i /\ i < hi => \E k \in 1 .. Len(n) : q[k] = i

LinksInv ==
  \A r \in Rank : \A v \in Worker(0) :
    Holds(chan[v + 1][r], v, HeardTo(r, v), SaidTo(Peer(r), v))

\* The instances that the calls so far have needed are made, and a slice has not
\* begun before it is launched.
HistoryInv(r) ==
  /\ pc[r] # "setup" => setup[r] = 0
  /\ at[r] = 0 => spawned[r] = 0
  /\ \A c \in 1 .. at[r] - 1 : Used(c) <= Made(r)
  /\ pc[r] = "launch" => \A v \in Worker(r) : v >= w[r] => task[r][v] = "none"
  /\ \A v \in Worker(r) : got[r][v] # Unset => got[r][v] = About(r, v)

PairInv == LinksInv /\ \A r \in Rank : HistoryInv(r)

-----------------------------------------------------------------------------
(* Links.                                                                  *)

Same(v, a, b) == \A i \in Items(v) : i < a <=> i < b

LEMMA ItemsType ==
  ASSUME NEW v
  PROVE  Items(v) \subseteq Int /\ -1 \in Items(v) /\ 0 \in Items(v)
         /\ \A i \in Items(v) : i >= -1 /\ (i >= 1 <=> i \notin {-1, 0})
BY ConstantFacts DEF Items

LEMMA HoldsSame ==
  ASSUME NEW n, NEW v, NEW lo, NEW hi, NEW a, NEW b, Holds(n, v, lo, hi),
         lo \in Int, hi \in Int, a \in Int, b \in Int, Same(v, lo, a), Same(v, hi, b)
  PROVE  Holds(n, v, a, b)
<1>1. \A i \in Items(v) : (lo <= i <=> a <= i) /\ (i < hi <=> i < b) /\ (i < lo <=> i < a)
  BY ItemsType DEF Same
<1> QED
  BY <1>1 DEF Holds

LEMMA HoldsAppend ==
  ASSUME NEW n \in Seq(Message), NEW v, NEW lo \in Int, NEW hi \in Int, Holds(n, v, lo, hi),
         NEW i \in Items(v), Same(v, hi, i)
  PROVE  Holds(Append(n, Item(v, i)), v, lo, i + 1)
<1> DEFINE m == Item(v, i)
           l == Len(n)
           t == Append(n, m)
<1>1. l \in Nat /\ Len(t) = l + 1 /\ t[l + 1] = m /\ \A k \in 1 .. l : t[k] = n[k]
  OBVIOUS
<1>2. Items(v) \subseteq Int /\ i \in Int
  BY ItemsType
<1>3. \A j \in Items(v) : (j < hi <=> j < i) /\ (j < lo => j < hi)
  BY DEF Same, Holds
<1>4. lo <= i
  <2>1. ~(i < i)
    BY <1>2
  <2> QED
    BY <1>2, <1>3, <2>1
<1>5. PICK q : /\ \A k \in 1 .. l : q[k] \in Items(v) /\ lo <= q[k] /\ q[k] < hi
               /\ \A k \in 1 .. l : n[k] = Item(v, q[k])
               /\ \A j, k \in 1 .. l : j < k => q[j] < q[k]
               /\ \A j \in Items(v) : lo <= j /\ j < hi => \E k \in 1 .. l : q[k] = j
  BY DEF Holds
<1>6. PICK p : p = [k \in 1 .. l + 1 |-> IF k <= l THEN q[k] ELSE i]
  OBVIOUS
<1> HIDE DEF l, t, m
<1>7. /\ \A k \in 1 .. l : k \in 1 .. l + 1 /\ p[k] = q[k]
      /\ l + 1 \in 1 .. l + 1 /\ p[l + 1] = i
      /\ \A k \in 1 .. l + 1 : k \in 1 .. l \/ k = l + 1
  BY <1>1, <1>6
<1>8. \A k \in 1 .. l : q[k] < i /\ q[k] < i + 1
  BY <1>2, <1>3, <1>5
<1>9. \A k \in 1 .. Len(t) : /\ p[k] \in Items(v) /\ lo <= p[k] /\ p[k] < i + 1
                            /\ t[k] = Item(v, p[k])
  <2>1. \A k \in 1 .. l : p[k] \in Items(v) /\ lo <= p[k] /\ p[k] < i + 1 /\ t[k] = Item(v, p[k])
    BY <1>1, <1>5, <1>7, <1>8
  <2>2. p[l + 1] \in Items(v) /\ lo <= p[l + 1] /\ p[l + 1] < i + 1
        /\ t[l + 1] = Item(v, p[l + 1])
    BY <1>1, <1>2, <1>4, <1>7 DEF m
  <2> QED
    BY <1>1, <1>7, <2>1, <2>2
<1>10. \A j, k \in 1 .. Len(t) : j < k => p[j] < p[k]
  <2> SUFFICES ASSUME NEW j \in 1 .. Len(t), NEW k \in 1 .. Len(t), j < k PROVE p[j] < p[k]
    OBVIOUS
  <2>1. j \in 1 .. l /\ (k \in 1 .. l \/ k = l + 1)
    BY <1>1
  <2>2. CASE k \in 1 .. l
    BY <1>5, <1>7, <2>1, <2>2
  <2>3. CASE k = l + 1
    BY <1>7, <1>8, <2>1, <2>3
  <2> QED
    BY <2>1, <2>2, <2>3
<1>11. \A j \in Items(v) : lo <= j /\ j < i + 1 => \E k \in 1 .. Len(t) : p[k] = j
  <2> SUFFICES ASSUME NEW j \in Items(v), lo <= j, j < i + 1
               PROVE  \E k \in 1 .. l + 1 : p[k] = j
    BY <1>1
  <2>1. CASE j = i
    BY <1>7, <2>1
  <2>2. CASE j < i
    <3>1. PICK k \in 1 .. l : q[k] = j
      BY <1>3, <1>5, <2>2
    <3> QED
      BY <1>7, <3>1
  <2> QED
    BY <1>2, <2>1, <2>2
<1>12. \A j \in Items(v) : j < lo => j < i + 1
  BY <1>2, <1>4
<1> QED
  BY <1>9, <1>10, <1>11, <1>12 DEF Holds, t, m

LEMMA HoldsTail ==
  ASSUME NEW n \in Seq(Message), NEW v, NEW lo \in Int, NEW hi \in Int, Holds(n, v, lo, hi),
         NEW i \in Items(v), Same(v, lo, i), n # <<>>
  PROVE  Head(n) = Item(v, i) /\ Holds(Tail(n), v, i + 1, hi)
<1> DEFINE l == Len(n)
           t == Tail(n)
<1>1. l \in Nat \ {0} /\ Len(t) = l - 1 /\ Head(n) = n[1] /\ \A k \in 1 .. l - 1 : t[k] = n[k + 1]
  OBVIOUS
<1>2. Items(v) \subseteq Int /\ i \in Int
  BY ItemsType
<1>3. \A j \in Items(v) : (j < lo <=> j < i) /\ (j < lo => j < hi) /\ (lo <= j <=> i <= j)
  BY <1>2 DEF Same, Holds
<1>5. PICK q : /\ \A k \in 1 .. l : q[k] \in Items(v) /\ lo <= q[k] /\ q[k] < hi
               /\ \A k \in 1 .. l : n[k] = Item(v, q[k])
               /\ \A j, k \in 1 .. l : j < k => q[j] < q[k]
               /\ \A j \in Items(v) : lo <= j /\ j < hi => \E k \in 1 .. l : q[k] = j
  BY DEF Holds
<1>6. PICK p : p = [k \in 1 .. l - 1 |-> q[k + 1]]
  OBVIOUS
<1> HIDE DEF l, t
<1>7. 1 \in 1 .. l /\ \A k \in 1 .. l - 1 : k + 1 \in 1 .. l /\ p[k] = q[k + 1]
  BY <1>1, <1>6
<1>8. i < hi /\ lo <= i
  <2>1. q[1] \in Items(v) /\ i <= q[1] /\ q[1] < hi
    BY <1>3, <1>5, <1>7
  <2> QED
    BY <1>2, <1>3, <2>1
<1>9. q[1] = i
  <2>1. PICK k \in 1 .. l : q[k] = i
    BY <1>5, <1>8
  <2>2. q[1] \in Items(v) /\ i <= q[1]
    BY <1>3, <1>5, <1>7
  <2>3. 1 < k => q[1] < q[k]
    BY <1>5, <1>7
  <2> QED
    BY <1>1, <1>2, <2>1, <2>2, <2>3
<1>10. \A k \in 1 .. Len(t) : /\ p[k] \in Items(v) /\ i + 1 <= p[k] /\ p[k] < hi
                             /\ t[k] = Item(v, p[k])
  <2> TAKE k \in 1 .. Len(t)
  <2>1. k \in 1 .. l - 1 /\ 1 < k + 1
    BY <1>1
  <2>2. q[1] < q[k + 1] /\ q[k + 1] \in Items(v) /\ q[k + 1] < hi
    BY <1>5, <1>7, <2>1
  <2> QED
    BY <1>1, <1>2, <1>5, <1>7, <1>9, <2>1, <2>2
<1>11. \A j, k \in 1 .. Len(t) : j < k => p[j] < p[k]
  <2> SUFFICES ASSUME NEW j \in 1 .. Len(t), NEW k \in 1 .. Len(t), j < k PROVE p[j] < p[k]
    OBVIOUS
  <2>1. j \in 1 .. l - 1 /\ k \in 1 .. l - 1 /\ j + 1 < k + 1
    BY <1>1
  <2> QED
    BY <1>5, <1>7, <2>1
<1>12. \A j \in Items(v) : i + 1 <= j /\ j < hi => \E k \in 1 .. Len(t) : p[k] = j
  <2> SUFFICES ASSUME NEW j \in Items(v), i + 1 <= j, j < hi
               PROVE  \E k \in 1 .. l - 1 : p[k] = j
    BY <1>1
  <2>1. lo <= j
    BY <1>2, <1>3
  <2>2. PICK k \in 1 .. l : q[k] = j
    BY <1>5, <2>1
  <2>3. k # 1
    BY <1>2, <1>9, <2>2
  <2>4. k - 1 \in 1 .. l - 1 /\ (k - 1) + 1 = k
    BY <1>1, <2>3
  <2> QED
    BY <1>7, <2>2, <2>4
<1>13. \A j \in Items(v) : j < i + 1 => j < hi
  BY <1>2, <1>8
<1>14. Head(n) = Item(v, i)
  BY <1>1, <1>5, <1>7, <1>9
<1>15. Holds(t, v, i + 1, hi)
  BY <1>10, <1>11, <1>12, <1>13 DEF Holds
<1> QED
  BY <1>14, <1>15 DEF t

\* A rank neither says nor hears anything of instance v.
Rests(r, v) ==
  /\ Same(v, SaidTo(r, v), SaidTo(r, v)')
  /\ Same(v, HeardTo(r, v), HeardTo(r, v)')

LEMMA PositionType ==
  ASSUME TypeOK, NEW r \in Rank, NEW v
  PROVE  SaidTo(r, v) \in Int /\ HeardTo(r, v) \in Int
<1>1. at[r] \in Nat /\ setup[r] \in 0 .. 3
  BY DEF TypeOK
<1> QED
  BY <1>1 DEF SaidTo, HeardTo, SetupSaid, SetupHeard

LEMMA PositionTypeAfter ==
  ASSUME TypeOK', NEW r \in Rank, NEW v
  PROVE  SaidTo(r, v)' \in Int /\ HeardTo(r, v)' \in Int
<1>1. at'[r] \in Nat /\ setup'[r] \in 0 .. 3
  BY DEF TypeOK
<1> QED
  BY <1>1 DEF SaidTo, HeardTo, SetupSaid, SetupHeard

LEMMA PeerFacts ==
  ASSUME NEW r \in Rank
  PROVE  /\ Peer(r) \in Rank /\ Peer(r) # r /\ Peer(Peer(r)) = r
         /\ \A s \in Rank : s # r <=> s = Peer(r)
BY DEF Rank, Peer

LEMMA LinkType ==
  ASSUME TypeOK, NEW r \in Rank, NEW v \in Worker(0)
  PROVE  /\ v + 1 \in 1 .. MaxParallel /\ v \in Nat
         /\ chan \in [1 .. MaxParallel -> [Rank -> Seq(Message)]]
         /\ chan[v + 1] \in [Rank -> Seq(Message)] /\ chan[v + 1][r] \in Seq(Message)
<1>1. v \in Nat /\ v < Instances(0) /\ Instances(0) <= MaxParallel
      /\ Instances(0) \in Nat /\ MaxParallel \in Nat
  BY InstancesFacts, WorkerFacts, ConstantFacts DEF Rank
<1>2. v + 1 \in 1 .. MaxParallel
  BY <1>1
<1> QED
  BY <1>1, <1>2 DEF TypeOK

\* A link whose ends rest.
LEMMA LinkRests ==
  ASSUME TypeOK, TypeOK', LinksInv, NEW r \in Rank, NEW v \in Worker(0),
         chan'[v + 1][r] = chan[v + 1][r], Same(v, HeardTo(r, v), HeardTo(r, v)'),
         Same(v, SaidTo(Peer(r), v), SaidTo(Peer(r), v)')
  PROVE  Holds(chan'[v + 1][r], v, HeardTo(r, v)', SaidTo(Peer(r), v)')
<1>1. Holds(chan[v + 1][r], v, HeardTo(r, v), SaidTo(Peer(r), v))
  BY DEF LinksInv
<1>2. HeardTo(r, v) \in Int /\ SaidTo(Peer(r), v) \in Int
  BY PositionType, PeerFacts
<1>3. HeardTo(r, v)' \in Int /\ SaidTo(Peer(r), v)' \in Int
  BY PositionTypeAfter, PeerFacts
<1>4. PICK a, b : a = HeardTo(r, v)' /\ b = SaidTo(Peer(r), v)'
  OBVIOUS
<1>5. Holds(chan[v + 1][r], v, a, b)
  BY <1>1, <1>2, <1>3, <1>4, HoldsSame
<1> QED
  BY <1>4, <1>5

LEMMA LinksRest ==
  ASSUME TypeOK, TypeOK', LinksInv, chan' = chan,
         \A s \in Rank : \A v \in Worker(0) : Rests(s, v)
  PROVE  LinksInv'
<1> SUFFICES ASSUME NEW r \in Rank, NEW v \in Worker(0)
             PROVE  Holds(chan'[v + 1][r], v, HeardTo(r, v)', SaidTo(Peer(r), v)')
  BY DEF LinksInv
<1>1. Same(v, HeardTo(r, v), HeardTo(r, v)') /\ Same(v, SaidTo(Peer(r), v), SaidTo(Peer(r), v)')
  BY PeerFacts DEF Rests
<1> QED
  BY <1>1, LinkRests

\* Rank r says item i on the link of instance u.
LEMMA LinksSpeak ==
  ASSUME TypeOK, TypeOK', LinksInv, NEW r \in Rank, NEW u \in Worker(0), NEW i \in Items(u),
         Send(r, u + 1, Item(u, i)),
         \A s \in Rank : \A v \in Worker(0) : s # r \/ v # u => Rests(s, v),
         Same(u, HeardTo(r, u), HeardTo(r, u)'),
         Same(u, SaidTo(r, u), i), Same(u, i + 1, SaidTo(r, u)')
  PROVE  LinksInv'
<1> DEFINE p == Peer(r)
<1>1. p \in Rank /\ p # r /\ Peer(p) = r /\ \A s \in Rank : s # r => s = p
  BY PeerFacts
<1>2. /\ u + 1 \in 1 .. MaxParallel /\ chan \in [1 .. MaxParallel -> [Rank -> Seq(Message)]]
      /\ chan[u + 1] \in [Rank -> Seq(Message)] /\ chan[u + 1][p] \in Seq(Message)
  BY <1>1, LinkType
<1>3. chan'[u + 1][p] = Append(chan[u + 1][p], Item(u, i))
  BY <1>1, <1>2 DEF Send
<1>4. \A s \in Rank : \A v \in Worker(0) : s # p \/ v # u => chan'[v + 1][s] = chan[v + 1][s]
  <2> SUFFICES ASSUME NEW s \in Rank, NEW v \in Worker(0), s # p \/ v # u
               PROVE  chan'[v + 1][s] = chan[v + 1][s]
    OBVIOUS
  <2>1. v + 1 \in 1 .. MaxParallel /\ v \in Nat /\ u \in Nat
    BY LinkType
  <2>2. v # u => v + 1 # u + 1
    BY <2>1
  <2> QED
    BY <1>2, <2>1, <2>2 DEF Send
<1>5. Holds(chan'[u + 1][p], u, HeardTo(p, u)', SaidTo(r, u)')
  <2>1. Holds(chan[u + 1][p], u, HeardTo(p, u), SaidTo(r, u))
    BY <1>1 DEF LinksInv
  <2>2. HeardTo(p, u) \in Int /\ SaidTo(r, u) \in Int
    BY <1>1, PositionType
  <2>3. HeardTo(p, u)' \in Int /\ SaidTo(r, u)' \in Int
    BY <1>1, PositionTypeAfter
  <2>4. PICK a, b, c, d : a = HeardTo(p, u)' /\ b = SaidTo(r, u)' /\ c = chan[u + 1][p]
                          /\ d = Append(c, Item(u, i))
    OBVIOUS
  <2>5. Holds(d, u, HeardTo(p, u), i + 1)
    BY <1>2, <2>1, <2>2, <2>4, HoldsAppend
  <2>6. Same(u, HeardTo(p, u), a) /\ Same(u, i + 1, b)
    BY <1>1, <2>4 DEF Rests
  <2>7. i + 1 \in Int
    BY ItemsType
  <2>8. Holds(d, u, a, b)
    BY <2>2, <2>3, <2>4, <2>5, <2>6, <2>7, HoldsSame
  <2> QED
    BY <1>3, <2>4, <2>8
<1> SUFFICES ASSUME NEW s \in Rank, NEW v \in Worker(0)
             PROVE  Holds(chan'[v + 1][s], v, HeardTo(s, v)', SaidTo(Peer(s), v)')
  BY DEF LinksInv
<1>6. CASE s = p /\ v = u
  BY <1>1, <1>5, <1>6
<1>7. CASE s # p \/ v # u
  <2>1. Same(v, HeardTo(s, v), HeardTo(s, v)')
    BY <1>1 DEF Rests
  <2>2. Peer(s) \in Rank /\ (Peer(s) # r \/ v # u)
    BY <1>1, <1>7, PeerFacts
  <2>3. Same(v, SaidTo(Peer(s), v), SaidTo(Peer(s), v)')
    BY <2>2 DEF Rests
  <2> QED
    BY <1>4, <1>7, <2>1, <2>3, LinkRests
<1> QED
  BY <1>6, <1>7

\* Rank r hears item i on the link of instance u.
LEMMA LinksListen ==
  ASSUME TypeOK, TypeOK', LinksInv, NEW r \in Rank, NEW u \in Worker(0), NEW i \in Items(u),
         Arrived(r, u + 1), Consume(r, u + 1),
         \A s \in Rank : \A v \in Worker(0) : s # r \/ v # u => Rests(s, v),
         Same(u, SaidTo(r, u), SaidTo(r, u)'),
         Same(u, HeardTo(r, u), i), Same(u, i + 1, HeardTo(r, u)')
  PROVE  LinksInv'
<1> DEFINE p == Peer(r)
<1>1. p \in Rank /\ p # r /\ Peer(p) = r /\ \A s \in Rank : s # r => s = p
  BY PeerFacts
<1>2. /\ u + 1 \in 1 .. MaxParallel /\ chan \in [1 .. MaxParallel -> [Rank -> Seq(Message)]]
      /\ chan[u + 1] \in [Rank -> Seq(Message)] /\ chan[u + 1][r] \in Seq(Message)
  BY LinkType
<1>3. chan'[u + 1][r] = Tail(chan[u + 1][r])
  BY <1>1, <1>2 DEF Consume
<1>4. \A s \in Rank : \A v \in Worker(0) : s # r \/ v # u => chan'[v + 1][s] = chan[v + 1][s]
  <2> SUFFICES ASSUME NEW s \in Rank, NEW v \in Worker(0), s # r \/ v # u
               PROVE  chan'[v + 1][s] = chan[v + 1][s]
    OBVIOUS
  <2>1. v + 1 \in 1 .. MaxParallel /\ v \in Nat /\ u \in Nat
    BY LinkType
  <2>2. v # u => v + 1 # u + 1
    BY <2>1
  <2> QED
    BY <1>2, <2>1, <2>2 DEF Consume
<1>5. Holds(chan'[u + 1][r], u, HeardTo(r, u)', SaidTo(p, u)')
  <2>1. Holds(chan[u + 1][r], u, HeardTo(r, u), SaidTo(p, u)) /\ chan[u + 1][r] # <<>>
    BY <1>1 DEF LinksInv, Arrived
  <2>2. HeardTo(r, u) \in Int /\ SaidTo(p, u) \in Int
    BY <1>1, PositionType
  <2>3. HeardTo(r, u)' \in Int /\ SaidTo(p, u)' \in Int
    BY <1>1, PositionTypeAfter
  <2>4. PICK a, b, c, d : a = HeardTo(r, u)' /\ b = SaidTo(p, u)' /\ c = chan[u + 1][r]
                          /\ d = Tail(c)
    OBVIOUS
  <2>5. Holds(d, u, i + 1, SaidTo(p, u))
    BY <1>2, <2>1, <2>2, <2>4, HoldsTail
  <2>6. Same(u, SaidTo(p, u), b) /\ Same(u, i + 1, a)
    BY <1>1, <2>4 DEF Rests
  <2>7. i + 1 \in Int
    BY ItemsType
  <2>8. Holds(d, u, a, b)
    BY <2>2, <2>3, <2>4, <2>5, <2>6, <2>7, HoldsSame
  <2> QED
    BY <1>3, <2>4, <2>8
<1> SUFFICES ASSUME NEW s \in Rank, NEW v \in Worker(0)
             PROVE  Holds(chan'[v + 1][s], v, HeardTo(s, v)', SaidTo(Peer(s), v)')
  BY DEF LinksInv
<1>6. CASE s = r /\ v = u
  BY <1>1, <1>5, <1>6
<1>7. CASE s # r \/ v # u
  <2>1. Same(v, HeardTo(s, v), HeardTo(s, v)')
    BY <1>7 DEF Rests
  <2>2. Peer(s) \in Rank /\ (Peer(s) # r \/ v # u \/ Peer(s) = r)
    BY PeerFacts
  <2>3. Same(v, SaidTo(Peer(s), v), SaidTo(Peer(s), v)')
    <3>1. CASE Peer(s) = r /\ v = u
      BY <3>1
    <3>2. CASE Peer(s) # r \/ v # u
      BY <2>2, <3>2 DEF Rests
    <3> QED
      BY <3>1, <3>2
  <2> QED
    BY <1>4, <1>7, <2>1, <2>3, LinkRests
<1> QED
  BY <1>6, <1>7

\* The first message on the link is the one that rank r is to hear.
LEMMA Heading ==
  ASSUME TypeOK, LinksInv, NEW r \in Rank, NEW u \in Worker(0), NEW i \in Items(u),
         Arrived(r, u + 1), Same(u, HeardTo(r, u), i)
  PROVE  Head(chan[u + 1][r]) = Item(u, i)
<1>1. Peer(r) \in Rank /\ chan[u + 1][r] \in Seq(Message)
  BY PeerFacts, LinkType
<1>2. HeardTo(r, u) \in Int /\ SaidTo(Peer(r), u) \in Int
  BY <1>1, PositionType
<1>3. Holds(chan[u + 1][r], u, HeardTo(r, u), SaidTo(Peer(r), u)) /\ chan[u + 1][r] # <<>>
  BY DEF LinksInv, Arrived
<1>4. PICK n, lo, hi : n = chan[u + 1][r] /\ lo = HeardTo(r, u) /\ hi = SaidTo(Peer(r), u)
  OBVIOUS
<1>5. Head(n) = Item(u, i)
  BY <1>1, <1>2, <1>3, <1>4, HoldsTail
<1> QED
  BY <1>4, <1>5

-----------------------------------------------------------------------------
(* What an action does to the links, and to the history of its rank.       *)

Stays(s) ==
  /\ pc'[s] = pc[s] /\ at'[s] = at[s] /\ w'[s] = w[s] /\ spawned'[s] = spawned[s]
  /\ setup'[s] = setup[s] /\ task'[s] = task[s] /\ got'[s] = got[s]

LEMMA StaysKeep ==
  ASSUME NEW s \in Rank, HistoryInv(s), Stays(s)
  PROVE  HistoryInv(s)' /\ \A v : Rests(s, v)
<1>1. /\ pc'[s] = pc[s] /\ at'[s] = at[s] /\ w'[s] = w[s] /\ spawned'[s] = spawned[s]
      /\ setup'[s] = setup[s] /\ task'[s] = task[s] /\ got'[s] = got[s]
  BY DEF Stays
<1>2. /\ Made(s)' = Made(s) /\ Current(s)' = Current(s) /\ \A v : About(s, v)' = About(s, v)
  BY <1>1 DEF Made, Current, About, Slice, Scale, Jobs
<1>3. HistoryInv(s)'
  BY <1>1, <1>2 DEF HistoryInv
<1>4. \A v : SaidTo(s, v)' = SaidTo(s, v) /\ HeardTo(s, v)' = HeardTo(s, v)
  BY <1>1, <1>2 DEF SaidTo, HeardTo, SetupSaid, SetupHeard, Spoken, Heard, First
<1> QED
  BY <1>3, <1>4 DEF Rests, Same

LEMMA PairTogether ==
  ASSUME PairInv, NEW r \in Rank, \A s \in Rank \ {r} : Stays(s), HistoryInv(r)', LinksInv'
  PROVE  PairInv'
<1>1. ASSUME NEW s \in Rank PROVE HistoryInv(s)'
  <2>1. CASE s # r
    BY <2>1, StaysKeep DEF PairInv
  <2> QED
    BY <2>1
<1> QED
  BY <1>1 DEF PairInv

\* A rank that only its own positions could keep from resting.
LEMMA RestTogether ==
  ASSUME IInv, IInv', PairInv, NEW r \in Rank, \A s \in Rank \ {r} : Stays(s), HistoryInv(r)',
         chan' = chan, \A v \in Worker(0) : Rests(r, v)
  PROVE  PairInv'
<1>1. \A s \in Rank : \A v \in Worker(0) : Rests(s, v)
  BY StaysKeep DEF PairInv
<1>2. LinksInv'
  BY <1>1, LinksRest DEF IInv, PairInv
<1> QED
  BY <1>2, PairTogether

\* The calling thread works on, inside a call, without a word.
LEMMA QuietRests ==
  ASSUME NEW r \in Rank, at'[r] = at[r], Made(r)' = Made(r),
         pc[r] # "setup", pc'[r] = "setup" => setup'[r] = 0,
         \A v \in Worker(0) : task'[r][v] = task[r][v]
                              \/ (task[r][v] \notin {"half", "done"} /\
                                  task'[r][v] \notin {"half", "done"})
  PROVE  \A v \in Worker(0) : Rests(r, v)
<1> SUFFICES ASSUME NEW v \in Worker(0)
             PROVE  SaidTo(r, v)' = SaidTo(r, v) /\ HeardTo(r, v)' = HeardTo(r, v)
  BY DEF Rests, Same
<1>1. (Spoken(r, v)' <=> Spoken(r, v)) /\ (Heard(r, v)' <=> Heard(r, v))
  BY DEF Spoken, Heard, First, Current
<1>2. CASE v < Made(r)
  BY <1>1, <1>2 DEF SaidTo, HeardTo
<1>3. CASE ~(v < Made(r))
  <2>1. SaidTo(r, v) = -1 /\ HeardTo(r, v) = -1
    BY <1>3 DEF SaidTo, HeardTo
  <2>2. SaidTo(r, v)' = -1 /\ HeardTo(r, v)' = -1
    <3>1. CASE pc'[r] = "setup"
      <4>1. setup'[r] = 0
        BY <3>1
      <4>2. SetupSaid(r)' = -1 /\ SetupHeard(r)' = -1
        BY <4>1 DEF SetupSaid, SetupHeard
      <4> QED
        BY <1>3, <4>2 DEF SaidTo, HeardTo
    <3>2. CASE pc'[r] # "setup"
      BY <1>3, <3>2 DEF SaidTo, HeardTo
    <3> QED
      BY <3>1, <3>2
  <2> QED
    BY <2>1, <2>2
<1> QED
  BY <1>2, <1>3

\* The history of a rank whose call goes on.
LEMMA QuietHistory ==
  ASSUME NEW r \in Rank, HistoryInv(r), at'[r] = at[r], Made(r) <= Made(r)',
         Made(r) \in Nat, Made(r)' \in Nat, got'[r] = got[r],
         at[r] > 0, at[r] \in Nat, at[r] - 1 < Len(Program), Len(Program) \in Nat,
         pc'[r] # "setup" => setup'[r] = 0,
         pc'[r] = "launch" => \A v \in Worker(r) : v >= w'[r] => task'[r][v] = "none"
  PROVE  HistoryInv(r)'
<1>1. \A v : About(r, v)' = About(r, v)
  BY DEF About, Slice, Scale, Jobs, Current
<1>2. \A c \in 1 .. at[r] - 1 : Used(c) <= Made(r)'
  <2> SUFFICES ASSUME NEW c \in 1 .. at[r] - 1 PROVE Used(c) <= Made(r)'
    OBVIOUS
  <2>1. Used(c) \in Nat
    <3>1. Program[c] \in Call
      BY ConstantFacts
    <3>2. Program[c].jobs \in Nat \ {0}
      BY <3>1 DEF Call
    <3> QED
      BY <3>2, WorkloadFacts DEF Used, Rank
  <2>2. Used(c) <= Made(r)
    BY DEF HistoryInv
  <2> QED
    BY <2>1, <2>2
<1>3. ~(at'[r] = 0)
  OBVIOUS
<1> QED
  BY <1>1, <1>2, <1>3 DEF HistoryInv

LEMMA MadeType ==
  ASSUME IInv, NEW r \in Rank
  PROVE  /\ at[r] \in Nat /\ at[r] - 1 < Len(Program) /\ Len(Program) \in Nat
         /\ Made(r) \in Nat /\ spawned[r] \in Nat /\ w[r] \in Nat
         /\ pc[r] = "setup" => at[r] > 0 /\ Made(r) = w[r] /\ w[r] \in Worker(0)
                               /\ spawned[r] = w[r] + 1
<1>1. TypeOK /\ RankInv(r)
  BY DEF IInv
<1>2. /\ at[r] \in Nat /\ at[r] - 1 < Len(Program) /\ Len(Program) \in Nat
      /\ spawned[r] \in Nat /\ w[r] \in Nat
  BY SMTT(30), <1>1, ConstantFacts, InstancesFacts DEF TypeOK, Rank
<1>3. CASE pc[r] = "setup"
  <2>1. at[r] > 0
    BY <1>1, <1>2, <1>3 DEF TypeOK
  <2>2. spawned[r] = w[r] + 1
    BY <1>1, <1>3, <2>1 DEF RankInv, PhaseInv
  <2>3. w[r] < NWorker(r)
    BY <1>1, <1>3 DEF TypeOK
  <2>4. w[r] \in 0 .. LastWorker(r) /\ 0 .. LastWorker(r) \subseteq Worker(r)
    BY <1>1, <1>2, <2>1, <2>3, CallFacts
  <2> QED
    BY <1>2, <1>3, <2>1, <2>2, <2>4, WorkerFacts DEF Made
<1>4. CASE pc[r] # "setup"
  BY <1>2, <1>4 DEF Made
<1> QED
  BY <1>2, <1>3, <1>4

LEMMA MadeTypeAfter ==
  ASSUME IInv, NEW r \in Rank, spawned'[r] \in Nat, pc'[r] = "setup" => spawned'[r] >= 1
  PROVE  Made(r)' \in Nat
BY DEF Made

LEMMA QuietStep ==
  ASSUME IInv, IInv', PairInv, NEW r \in Rank, \A s \in Rank \ {r} : Stays(s),
         UNCHANGED <<at, setup, got, chan>>, at[r] > 0, pc[r] # "setup", Made(r)' = Made(r),
         \A v \in Worker(0) : task'[r][v] = task[r][v]
                              \/ (task[r][v] \notin {"half", "done"} /\
                                  task'[r][v] \notin {"half", "done"}),
         pc'[r] = "launch" => \A v \in Worker(r) : v >= w'[r] => task'[r][v] = "none"
  PROVE  PairInv'
<1>1. HistoryInv(r) /\ setup'[r] = 0
  BY DEF PairInv, HistoryInv
<1>2. HistoryInv(r)'
  <2>1. /\ at[r] \in Nat /\ at[r] - 1 < Len(Program) /\ Len(Program) \in Nat
        /\ Made(r) \in Nat /\ Made(r)' \in Nat /\ Made(r) <= Made(r)'
    BY MadeType
  <2> QED
    BY <1>1, <2>1, QuietHistory
<1>3. \A v \in Worker(0) : Rests(r, v)
  BY <1>1, QuietRests
<1> QED
  BY <1>2, <1>3, RestTogether

\* The state of one slice changes, and it has not begun.
LEMMA TaskQuiet ==
  ASSUME TypeOK, NEW r \in Rank, NEW u \in Worker(0), NEW x \in {"ready", "deferred"},
         task[r][u] \notin {"half", "done"}, TaskSet(r, u, x)
  PROVE  /\ \A v \in Worker(0) : task'[r][v] = IF v = u THEN x ELSE task[r][v]
         /\ \A v \in Worker(0) : task'[r][v] = task[r][v]
                              \/ (task[r][v] \notin {"half", "done"} /\
                                  task'[r][v] \notin {"half", "done"})
         /\ \A s \in Rank \ {r} : task'[s] = task[s]
<1>1. x \in TaskState /\ Worker(r) = Worker(0)
  BY WorkerFacts DEF TaskState
<1>2. TaskIs(r, u, x)
  BY <1>1, TaskStep
<1>3. \A v \in Worker(0) : task'[r][v] = IF v = u THEN x ELSE task[r][v]
  BY <1>1, <1>2 DEF TaskIs
<1>4. \A s \in Rank \ {r} : task'[s] = task[s]
  BY DEF TypeOK, TaskSet
<1> QED
  BY <1>3, <1>4

LEMMA LaunchPairs ==
  ASSUME IInv, IInv', PairInv, NEW r \in Rank, Launch(r)
  PROVE  PairInv'
<1>1. TypeOK /\ RankInv(r) /\ HistoryInv(r) /\ Worker(r) = Worker(0)
  BY WorkerFacts DEF IInv, PairInv
<1>2. /\ pc[r] = "launch" /\ w' = [w EXCEPT ![r] = @ + 1] /\ w[r] + 1 < NWorker(r)
      /\ UNCHANGED <<pc, at, inst, spawned, setup, got, outs, chan>>
  BY DEF Launch
<1>3. PICK how \in {"ready", "deferred"} : TaskSet(r, w[r], how)
  BY DEF Launch, TaskSet
<1>4. at[r] > 0 /\ w[r] \in Nat /\ w'[r] = w[r] + 1
  BY <1>1, <1>2 DEF TypeOK
<1>5. w[r] \in Worker(0)
  <2>1. NWorker(r) \in Nat /\ w[r] < NWorker(r) /\ NWorker(r) <= Instances(r) /\ Instances(r) \in Nat
    BY <1>1, <1>2, <1>4, CallFacts, InstancesFacts
  <2> QED
    BY <1>1, <1>4, <2>1, WorkerFacts
<1>6. task[r][w[r]] = "none"
  BY <1>1, <1>2, <1>4, <1>5 DEF HistoryInv
<1>7. /\ \A v \in Worker(0) : task'[r][v] = IF v = w[r] THEN how ELSE task[r][v]
      /\ \A v \in Worker(0) : task'[r][v] = task[r][v]
                              \/ (task[r][v] \notin {"half", "done"} /\
                                  task'[r][v] \notin {"half", "done"})
      /\ \A s \in Rank \ {r} : task'[s] = task[s]
  BY <1>1, <1>3, <1>5, <1>6, TaskQuiet
<1>8. \A v \in Worker(r) : v >= w'[r] => task'[r][v] = "none"
  <2> SUFFICES ASSUME NEW v \in Worker(0), v >= w[r] + 1 PROVE task'[r][v] = "none"
    BY <1>1, <1>4
  <2>1. v >= w[r] /\ v # w[r]
    BY <1>4, WorkerFacts DEF Rank
  <2> QED
    BY <1>1, <1>2, <1>7, <2>1 DEF HistoryInv
<1>9. \A s \in Rank \ {r} : Stays(s)
  BY <1>1, <1>2, <1>7 DEF Stays, TypeOK
<1>10. Made(r)' = Made(r)
  BY <1>2 DEF Made
<1> QED
  BY <1>2, <1>4, <1>7, <1>8, <1>9, <1>10, QuietStep

LEMMA OwnSlicePairs ==
  ASSUME IInv, IInv', PairInv, NEW r \in Rank, OwnSlice(r)
  PROVE  PairInv'
<1>1. TypeOK /\ RankInv(r) /\ HistoryInv(r) /\ Worker(r) = Worker(0)
  BY WorkerFacts DEF IInv, PairInv
<1>2. /\ pc[r] = "launch" /\ pc' = [pc EXCEPT ![r] = "own"] /\ w[r] + 1 = NWorker(r)
      /\ TaskSet(r, w[r], "ready")
      /\ UNCHANGED <<at, w, inst, spawned, setup, got, outs, chan>>
  BY DEF OwnSlice, TaskSet
<1>4. at[r] > 0 /\ w[r] \in Nat /\ pc'[r] = "own"
  BY <1>1, <1>2 DEF TypeOK
<1>5. w[r] \in Worker(0)
  <2>1. NWorker(r) \in Nat /\ w[r] < NWorker(r) /\ NWorker(r) <= Instances(r) /\ Instances(r) \in Nat
    BY <1>1, <1>2, <1>4, CallFacts, InstancesFacts
  <2> QED
    BY <1>1, <1>4, <2>1, WorkerFacts
<1>6. task[r][w[r]] = "none"
  BY <1>1, <1>2, <1>4, <1>5 DEF HistoryInv
<1>7. /\ \A v \in Worker(0) : task'[r][v] = task[r][v]
                              \/ (task[r][v] \notin {"half", "done"} /\
                                  task'[r][v] \notin {"half", "done"})
      /\ \A s \in Rank \ {r} : task'[s] = task[s]
  BY <1>1, <1>2, <1>5, <1>6, TaskQuiet
<1>9. \A s \in Rank \ {r} : Stays(s)
  BY <1>1, <1>2, <1>7 DEF Stays, TypeOK
<1>10. Made(r)' = Made(r)
  BY <1>2, <1>4 DEF Made
<1> QED
  BY <1>2, <1>4, <1>7, <1>9, <1>10, QuietStep

LEMMA JoinPairs ==
  ASSUME IInv, IInv', PairInv, NEW r \in Rank, Join(r)
  PROVE  PairInv'
<1>1. TypeOK /\ RankInv(r) /\ HistoryInv(r) /\ Worker(r) = Worker(0)
  BY WorkerFacts DEF IInv, PairInv
<1>2. /\ pc[r] = "join" /\ w[r] + 1 < NWorker(r)
      /\ UNCHANGED <<pc, at, inst, spawned, setup, got, outs, chan>>
  BY DEF Join
<1>4. at[r] > 0 /\ w[r] \in Nat
  BY <1>1, <1>2 DEF TypeOK
<1>5. w[r] \in Worker(0)
  <2>1. NWorker(r) \in Nat /\ w[r] < NWorker(r) /\ NWorker(r) <= Instances(r) /\ Instances(r) \in Nat
    BY <1>1, <1>2, <1>4, CallFacts, InstancesFacts
  <2> QED
    BY <1>1, <1>4, <2>1, WorkerFacts
<1>7. /\ \A v \in Worker(0) : task'[r][v] = task[r][v]
                              \/ (task[r][v] \notin {"half", "done"} /\
                                  task'[r][v] \notin {"half", "done"})
      /\ \A s \in Rank \ {r} : task'[s] = task[s] /\ w'[s] = w[s]
  <2>1. CASE /\ task[r][w[r]] = "deferred" /\ TaskSet(r, w[r], "ready") /\ w' = w
    BY <1>1, <1>5, <2>1, TaskQuiet
  <2>2. CASE task' = task /\ w' = [w EXCEPT ![r] = @ + 1]
    BY <1>1, <2>2 DEF TypeOK
  <2> QED
    BY <2>1, <2>2 DEF Join, TaskSet
<1>9. \A s \in Rank \ {r} : Stays(s)
  BY <1>1, <1>2, <1>7 DEF Stays, TypeOK
<1>10. Made(r)' = Made(r)
  BY <1>2 DEF Made
<1> QED
  BY <1>2, <1>4, <1>7, <1>9, <1>10, QuietStep

\* The ends of the phases of a call.
LEMMA PhasePairs ==
  ASSUME IInv, IInv', PairInv, NEW r \in Rank, EndInit(r) \/ EndOwnSlice(r) \/ Return(r)
  PROVE  PairInv'
<1>1. TypeOK /\ RankInv(r) /\ HistoryInv(r) /\ Worker(r) = Worker(0)
  BY WorkerFacts DEF IInv, PairInv
<1>2. /\ pc[r] \in {"init", "own", "join"} /\ pc'[r] \in {"launch", "join", "return"}
      /\ pc'[r] = "launch" => pc[r] = "init"
      /\ UNCHANGED <<at, inst, spawned, setup, task, got, outs, chan>>
      /\ \A s \in Rank \ {r} : pc'[s] = pc[s] /\ w'[s] = w[s]
  BY <1>1 DEF EndInit, EndOwnSlice, Return, TypeOK
<1>3. at[r] > 0
  BY <1>1, <1>2 DEF TypeOK
<1>4. pc'[r] = "launch" => \A v \in Worker(r) : task'[r][v] = "none"
  BY <1>1, <1>2, <1>3 DEF RankInv, PhaseInv
<1>5. \A s \in Rank \ {r} : Stays(s)
  BY <1>2 DEF Stays
<1>6. Made(r)' = Made(r)
  BY <1>2 DEF Made
<1> QED
  BY <1>2, <1>3, <1>4, <1>5, <1>6, QuietStep

LEMMA LazyInitPairs ==
  ASSUME IInv, IInv', PairInv, NEW r \in Rank, LazyInit(r)
  PROVE  PairInv'
<1>1. TypeOK /\ RankInv(r) /\ HistoryInv(r) /\ Worker(r) = Worker(0)
  BY WorkerFacts DEF IInv, PairInv
<1>2. /\ pc[r] = "init" /\ pc'[r] \in {"init", "setup"} /\ spawned[r] \in Nat
      /\ pc'[r] = "init" => spawned'[r] = spawned[r]
      /\ pc'[r] = "setup" => spawned'[r] = spawned[r] + 1
      /\ UNCHANGED <<at, inst, setup, task, got, outs, chan>>
      /\ \A s \in Rank \ {r} : pc'[s] = pc[s] /\ w'[s] = w[s] /\ spawned'[s] = spawned[s]
  BY <1>1, MadeType DEF LazyInit, TypeOK
<1>3. at[r] > 0
  BY <1>1, <1>2 DEF TypeOK
<1>5. \A s \in Rank \ {r} : Stays(s)
  BY <1>2 DEF Stays
<1>6. Made(r)' = Made(r)
  BY <1>2 DEF Made
<1> QED
  BY <1>2, <1>3, <1>5, <1>6, QuietStep

\* The ranks cut their inputs alike.
LEMMA RankFree ==
  ASSUME TypeOK, NEW r \in Rank, at[r] > 0
  PROVE  /\ NWorker(r) = Used(at[r]) /\ at[r] \in 1 .. Len(Program)
         /\ \A v \in Worker(r) : About(r, v) = Item(v, at[r])
         /\ \A v \in Worker(r) : v < NWorker(r) <=> at[r] \in Items(v)
<1>1. Instances(r) = Instances(0)
  BY InstancesFacts
<1>2. \A n : Workers(r, n) = Workers(0, n)
  BY <1>1 DEF Workers
<1>3. \A n : Workload(r, n) = Workload(0, n)
  BY <1>2 DEF Workload
<1>4. \A n, v : SliceEnd(r, n, v) = SliceEnd(0, n, v)
  BY <1>2, <1>3 DEF SliceEnd
<1>5. \A n, v : SliceBgn(r, n, v) = SliceBgn(0, n, v)
  BY <1>2, <1>3, <1>4 DEF SliceBgn
<1>6. at[r] \in 1 .. Len(Program)
  BY DEF TypeOK
<1>7. NWorker(r) = Used(at[r])
  BY <1>2 DEF NWorker, Used, Jobs, Current
<1>8. \A v \in Worker(r) : About(r, v) = Item(v, at[r])
  <2> TAKE v \in Worker(r)
  <2>1. About(r, v) = [call |-> at[r], bgn |-> SliceBgn(0, Jobs(r), v),
                       end |-> SliceEnd(0, Jobs(r), v)]
    BY <1>4, <1>5, AboutFacts
  <2>2. ~(at[r] < 1)
    BY <1>6
  <2> QED
    BY <2>1, <2>2 DEF Item, Jobs, Current
<1>9. \A v \in Worker(r) : v < NWorker(r) <=> at[r] \in Items(v)
  BY <1>6, <1>7 DEF Items
<1> QED
  BY <1>6, <1>7, <1>8, <1>9

\* When a call returns, its slices have said and heard everything.
LEMMA StartCallRests ==
  ASSUME IInv, PairInv, NEW r \in Rank, StartCall(r)
  PROVE  \A v \in Worker(0) : Rests(r, v)
<1> SUFFICES ASSUME NEW v \in Worker(0) PROVE Rests(r, v)
  OBVIOUS
<1>1. TypeOK /\ RankInv(r) /\ HistoryInv(r) /\ Worker(r) = Worker(0) /\ v \in Worker(r)
  BY WorkerFacts DEF IInv, PairInv
<1>2. /\ pc[r] = "return" /\ at'[r] = at[r] + 1 /\ pc'[r] = "init" /\ spawned'[r] = spawned[r]
      /\ \A u \in Worker(0) : task'[r][u] = "none"
  BY <1>1 DEF StartCall, TypeOK
<1>3. Made(r)' = Made(r)
  BY <1>2 DEF Made
<1>4. at[r] \in Nat /\ Made(r) \in Nat /\ v \in Nat
  BY <1>1, MadeType, WorkerFacts
<1>5. CASE ~(v < Made(r))
  BY <1>2, <1>3, <1>5 DEF Rests, Same, SaidTo, HeardTo
<1>6. CASE v < Made(r)
  <2>1. ~Spoken(r, v)' /\ ~Heard(r, v)'
    BY <1>2 DEF Spoken, Heard
  <2>2. SaidTo(r, v)' = at[r] + 1 /\ HeardTo(r, v)' = at[r] + 1
    BY <1>2, <1>3, <1>6, <2>1 DEF SaidTo, HeardTo
  <2>3. at[r] > 0
    <3>1. at[r] = 0 => Made(r) = 0
      BY <1>1, <1>2 DEF HistoryInv, Made
    <3> QED
      BY <1>4, <1>6, <3>1
  <2>4. PhaseInv(r) /\ NWorker(r) \in Nat /\ LastWorker(r) \in Nat
        /\ (v < NWorker(r) <=> v \in 0 .. LastWorker(r))
    BY <1>1, <1>4, <2>3, CallFacts DEF RankInv
  <2>5. CASE v < NWorker(r)
    <3>1. task[r][v] = "done"
      BY <1>2, <2>4, <2>5 DEF PhaseInv
    <3>2. SaidTo(r, v) = at[r] + 1 /\ HeardTo(r, v) = at[r] + 1
      BY <1>6, <3>1 DEF SaidTo, HeardTo, Spoken, Heard
    <3> QED
      BY <2>2, <3>2 DEF Rests, Same
  <2>6. CASE ~(v < NWorker(r))
    <3>1. task[r][v] = "none"
      BY <1>1, <1>2, <2>4, <2>6 DEF PhaseInv
    <3>2. SaidTo(r, v) = at[r] /\ HeardTo(r, v) = at[r]
      BY <1>6, <3>1 DEF SaidTo, HeardTo, Spoken, Heard
    <3>3. at[r] \notin Items(v)
      BY <1>1, <2>3, <2>6, RankFree
    <3>4. \A i \in Items(v) : i < at[r] <=> i < at[r] + 1
      <4> TAKE i \in Items(v)
      <4>1. i \in Int /\ i # at[r]
        BY <3>3, ItemsType
      <4> QED
        BY <1>4, <4>1
    <3> QED
      BY <2>2, <3>2, <3>4 DEF Rests, Same
  <2> QED
    BY <2>5, <2>6
<1> QED
  BY <1>5, <1>6

LEMMA StartCallPairs ==
  ASSUME IInv, IInv', PairInv, NEW r \in Rank, StartCall(r)
  PROVE  PairInv'
<1>1. TypeOK /\ RankInv(r) /\ HistoryInv(r) /\ Worker(r) = Worker(0)
  BY WorkerFacts DEF IInv, PairInv
<1>2. /\ pc[r] = "return" /\ at'[r] = at[r] + 1 /\ pc'[r] = "init"
      /\ \A u \in Worker(r) : got'[r][u] = Unset
      /\ UNCHANGED <<inst, spawned, setup, chan>>
      /\ \A s \in Rank \ {r} : /\ pc'[s] = pc[s] /\ w'[s] = w[s] /\ at'[s] = at[s]
                               /\ task'[s] = task[s] /\ got'[s] = got[s]
  BY <1>1 DEF StartCall, TypeOK
<1>3. \A s \in Rank \ {r} : Stays(s)
  BY <1>2 DEF Stays
<1>4. Made(r)' = Made(r) /\ Made(r) = spawned[r] /\ at[r] \in Nat /\ Made(r) \in Nat
  BY <1>2, MadeType DEF Made
<1>5. HistoryInv(r)'
  <2>1. setup'[r] = 0 /\ at'[r] > 0
    BY <1>1, <1>2, <1>4 DEF HistoryInv
  <2>2. \A c \in 1 .. at'[r] - 1 : Used(c) <= Made(r)'
    <3> SUFFICES ASSUME NEW c \in 1 .. at'[r] - 1 PROVE Used(c) <= Made(r)
      BY <1>4
    <3>1. c \in 1 .. at[r]
      BY <1>2, <1>4
    <3>2. CASE c < at[r]
      <4>1. c \in 1 .. at[r] - 1
        BY <1>4, <3>1, <3>2
      <4> QED
        BY <1>1, <4>1 DEF HistoryInv
    <3>3. CASE c = at[r]
      <4>1. NWorker(r) <= spawned[r] /\ NWorker(r) = Used(at[r])
        BY <1>1, <1>2, <1>4, <3>1, <3>3, RankFree DEF RankInv, PhaseInv
      <4> QED
        BY <1>4, <3>3, <4>1
    <3> QED
      BY <1>4, <3>1, <3>2, <3>3
  <2>3. ~(at'[r] = 0)
    BY <1>2, <1>4
  <2> QED
    BY <1>2, <2>1, <2>2, <2>3 DEF HistoryInv
<1>6. \A v \in Worker(0) : Rests(r, v)
  BY StartCallRests
<1> QED
  BY <1>2, <1>3, <1>5, <1>6, RestTogether

LEMMA PairInit == Init => PairInv
<1> SUFFICES ASSUME Init PROVE PairInv
  OBVIOUS
<1>1. IInv
  BY InitStep
<1>2. \A r \in Rank : /\ pc[r] = "return" /\ at[r] = 0 /\ spawned[r] = 0 /\ setup[r] = 0
                      /\ \A v \in Worker(r) : got[r][v] = Unset
  BY DEF Init
<1>3. \A r \in Rank : HistoryInv(r)
  <2> TAKE r \in Rank
  <2>1. \A c \in 1 .. at[r] - 1 : FALSE
    BY <1>2
  <2> QED
    BY <1>2, <2>1 DEF HistoryInv
<1>4. LinksInv
  <2> SUFFICES ASSUME NEW r \in Rank, NEW v \in Worker(0)
               PROVE  Holds(chan[v + 1][r], v, HeardTo(r, v), SaidTo(Peer(r), v))
    BY DEF LinksInv
  <2>1. \A s \in Rank : SaidTo(s, v) = -1 /\ HeardTo(s, v) = -1
    <3> TAKE s \in Rank
    <3>1. Made(s) = 0 /\ ~(v < 0)
      BY <1>2, WorkerFacts DEF Made, Rank
    <3> QED
      BY <1>2, <3>1 DEF SaidTo, HeardTo
  <2>2. Peer(r) \in Rank
    BY PeerFacts
  <2>3. chan[v + 1][r] = <<>>
    <3>1. v + 1 \in 1 .. MaxParallel
      BY <1>1, LinkType DEF IInv
    <3> QED
      BY <3>1 DEF Init
  <2>4. Holds(<<>>, v, -1, -1)
    <3>1. \A i \in Items(v) : ~(-1 <= i /\ i < -1)
      BY ItemsType
    <3> QED
      BY <3>1 DEF Holds
  <2> QED
    BY <2>1, <2>2, <2>3, <2>4
<1> QED
  BY <1>3, <1>4 DEF PairInv

\* No call so far has had an instance that is only being made.
LEMMA FreshInstance ==
  ASSUME IInv, PairInv, NEW r \in Rank, pc[r] = "setup"
  PROVE  /\ Same(w[r], at[r], 1) /\ Same(w[r], 1, at[r])
         /\ task[r][w[r]] = "none" /\ w[r] \in Worker(0)
<1>1. /\ at[r] \in Nat /\ at[r] > 0 /\ Made(r) = w[r] /\ w[r] \in Worker(0) /\ w[r] \in Nat
      /\ at[r] - 1 < Len(Program) /\ Len(Program) \in Nat /\ HistoryInv(r)
  BY MadeType DEF PairInv
<1>2. \A i \in Items(w[r]) : i < at[r] <=> i < 1
  <2> TAKE i \in Items(w[r])
  <2>1. i \in Int
    BY ItemsType
  <2>2. ASSUME i < at[r], ~(i < 1) PROVE FALSE
    <3>1. i \in 1 .. Len(Program) /\ w[r] < Used(i)
      BY <2>1, <2>2 DEF Items
    <3>2. Used(i) <= Made(r)
      BY <1>1, <2>1, <2>2 DEF HistoryInv
    <3>3. Used(i) \in Nat
      <4>1. Program[i] \in Call
        BY <3>1, ConstantFacts
      <4>2. Program[i].jobs \in Nat \ {0}
        BY <4>1 DEF Call
      <4> QED
        BY <4>2, WorkloadFacts DEF Used, Rank
    <3> QED
      BY <1>1, <3>1, <3>2, <3>3
  <2> QED
    BY <1>1, <2>1, <2>2
<1>3. task[r][w[r]] = "none"
  <2>1. RankInv(r) /\ Worker(r) = Worker(0)
    BY WorkerFacts DEF IInv
  <2> QED
    BY <1>1, <2>1 DEF RankInv, PhaseInv
<1> QED
  BY <1>1, <1>2, <1>3 DEF Same

SetupItem(r) == IF setup[r] < 2 THEN -1 ELSE 0

\* What a half-step of a setup does to the positions of its rank.
LEMMA SetupPositions ==
  ASSUME IInv, PairInv, NEW r \in Rank, SetupStep(r), NEW u, u = w[r]
  PROVE  /\ \A v \in Worker(0) \ {u} : Rests(r, v)
         /\ Speaks(r) => /\ Same(u, HeardTo(r, u), HeardTo(r, u)')
                         /\ Same(u, SaidTo(r, u), SetupItem(r))
                         /\ Same(u, SetupItem(r) + 1, SaidTo(r, u)')
         /\ ~Speaks(r) => /\ Same(u, SaidTo(r, u), SaidTo(r, u)')
                          /\ Same(u, HeardTo(r, u), SetupItem(r))
                          /\ Same(u, SetupItem(r) + 1, HeardTo(r, u)')
<1>1. TypeOK /\ pc[r] = "setup" /\ UNCHANGED <<at, spawned, task, got, outs>>
  BY DEF IInv, SetupStep
<1>2. /\ Made(r) = w[r] /\ spawned[r] = w[r] + 1 /\ w[r] \in Nat /\ w[r] \in Worker(0)
      /\ Worker(0) \subseteq Nat
  BY <1>1, MadeType, WorkerFacts DEF Rank
<1>3. Same(u, at[r], 1) /\ Same(u, 1, at[r]) /\ task[r][u] = "none"
  BY <1>1, FreshInstance
<1>4. SaidTo(r, u) = SetupSaid(r) /\ HeardTo(r, u) = SetupHeard(r)
  BY <1>1, <1>2 DEF SaidTo, HeardTo
<1>5. setup[r] \in {0, 1, 2, 3} /\ setup'[r] = (setup[r] + 1) % 4
  <2>1. setup[r] \in 0 .. 3
    BY <1>1 DEF TypeOK
  <2>2. setup'[r] = (setup[r] + 1) % 4
    BY <1>1 DEF SetupStep, TypeOK
  <2> QED
    BY <2>1, <2>2
<1>r. r \in {0, 1} /\ 0 # 1
  BY DEF Rank
<1>6. CASE setup[r] < 3
  <2>1. pc' = pc /\ w' = w /\ setup'[r] = setup[r] + 1
    BY <1>5, <1>6 DEF SetupStep
  <2>2. Made(r)' = Made(r)
    BY <1>1, <2>1 DEF Made
  <2>3. SaidTo(r, u)' = SetupSaid(r)' /\ HeardTo(r, u)' = SetupHeard(r)'
    BY <1>1, <1>2, <2>1, <2>2 DEF SaidTo, HeardTo
  <2>4. \A v \in Worker(0) \ {u} : Rests(r, v)
    <3> TAKE v \in Worker(0) \ {u}
    <3>1. SaidTo(r, v)' = SaidTo(r, v) /\ HeardTo(r, v)' = HeardTo(r, v)
      BY <1>1, <2>1, <2>2 DEF SaidTo, HeardTo, Spoken, Heard, First, Current
    <3> QED
      BY <3>1 DEF Rests, Same
  <2>5. Speaks(r) => /\ SetupHeard(r)' = SetupHeard(r) /\ SetupSaid(r) = SetupItem(r)
                     /\ SetupSaid(r)' = SetupItem(r) + 1
    BY <1>5, <1>6, <1>r, <2>1 DEF Speaks, SetupHeard, SetupSaid, SetupItem
  <2>6. ~Speaks(r) => /\ SetupSaid(r)' = SetupSaid(r) /\ SetupHeard(r) = SetupItem(r)
                      /\ SetupHeard(r)' = SetupItem(r) + 1
    BY <1>5, <1>6, <1>r, <2>1 DEF Speaks, SetupHeard, SetupSaid, SetupItem
  <2> QED
    BY <1>4, <2>3, <2>4, <2>5, <2>6 DEF Same
<1>7. CASE ~(setup[r] < 3)
  <2>1. setup[r] = 3 /\ pc'[r] = "init"
    BY <1>1, <1>5, <1>7 DEF SetupStep, TypeOK
  <2>2. Made(r)' = w[r] + 1
    BY <1>1, <1>2, <2>1 DEF Made
  <2>3. SaidTo(r, u)' = at[r] /\ HeardTo(r, u)' = at[r]
    <3>1. u < w[r] + 1
      BY <1>2
    <3>2. ~Spoken(r, u)' /\ ~Heard(r, u)'
      BY <1>1, <1>3 DEF Spoken, Heard
    <3> QED
      BY <1>1, <2>2, <3>1, <3>2 DEF SaidTo, HeardTo
  <2>4. \A v \in Worker(0) \ {u} : Rests(r, v)
    <3> TAKE v \in Worker(0) \ {u}
    <3>1. v < w[r] + 1 <=> v < w[r]
      BY <1>2
    <3>2. SaidTo(r, v)' = SaidTo(r, v) /\ HeardTo(r, v)' = HeardTo(r, v)
      BY <1>1, <1>2, <2>1, <2>2, <3>1 DEF SaidTo, HeardTo, Spoken, Heard, First, Current
    <3> QED
      BY <3>2 DEF Rests, Same
  <2>5. Speaks(r) => SetupHeard(r) = 1 /\ SetupSaid(r) = SetupItem(r) /\ SetupItem(r) + 1 = 1
    BY <1>r, <2>1 DEF Speaks, SetupHeard, SetupSaid, SetupItem
  <2>6. ~Speaks(r) => SetupSaid(r) = 1 /\ SetupHeard(r) = SetupItem(r) /\ SetupItem(r) + 1 = 1
    BY <1>r, <2>1 DEF Speaks, SetupHeard, SetupSaid, SetupItem
  <2>7. \A a : Same(u, a, a)
    BY DEF Same
  <2> QED
    BY <1>3, <1>4, <2>3, <2>4, <2>5, <2>6, <2>7
<1> QED
  BY <1>6, <1>7

LEMMA SetupPairs ==
  ASSUME IInv, IInv', PairInv, NEW r \in Rank, SetupStep(r)
  PROVE  PairInv'
<1>1. TypeOK /\ TypeOK' /\ LinksInv /\ HistoryInv(r) /\ Worker(r) = Worker(0)
  BY WorkerFacts DEF IInv, PairInv
<1>2. /\ pc[r] = "setup" /\ UNCHANGED <<at, spawned, task, got, outs>>
      /\ \A s \in Rank \ {r} : pc'[s] = pc[s] /\ w'[s] = w[s] /\ setup'[s] = setup[s]
  BY <1>1 DEF SetupStep, TypeOK
<1>3. \A s \in Rank \ {r} : Stays(s)
  BY <1>2 DEF Stays
<1> PICK u, i : u = w[r] /\ i = SetupItem(r)
  OBVIOUS
<1>4. u \in Worker(0) /\ spawned[r] = u + 1 /\ Made(r) = u /\ u \in Nat /\ at[r] > 0
  BY <1>2, MadeType
<1>5. i \in Items(u) /\ Item(u, i) = Unset
  BY ItemsType DEF SetupItem, Item
<1>6. \A s \in Rank : \A v \in Worker(0) : s # r \/ v # u => Rests(s, v)
  BY <1>3, StaysKeep, SetupPositions DEF PairInv
<1>7. LinksInv'
  <2>1. CASE Speaks(r)
    <3>1. Send(r, u + 1, Item(u, i))
      BY <1>4, <1>5, <2>1 DEF SetupStep
    <3>2. /\ Same(u, HeardTo(r, u), HeardTo(r, u)') /\ Same(u, SaidTo(r, u), i)
          /\ Same(u, i + 1, SaidTo(r, u)')
      BY <2>1, SetupPositions
    <3> QED
      BY <1>1, <1>4, <1>5, <1>6, <3>1, <3>2, LinksSpeak
  <2>2. CASE ~Speaks(r)
    <3>1. Arrived(r, u + 1) /\ Consume(r, u + 1)
      BY <1>4, <2>2 DEF SetupStep
    <3>2. /\ Same(u, SaidTo(r, u), SaidTo(r, u)') /\ Same(u, HeardTo(r, u), i)
          /\ Same(u, i + 1, HeardTo(r, u)')
      BY <2>2, SetupPositions
    <3> QED
      BY <1>1, <1>4, <1>5, <1>6, <3>1, <3>2, LinksListen
  <2> QED
    BY <2>1, <2>2
<1>8. HistoryInv(r)'
  <2>1. pc'[r] \in {"setup", "init"} /\ (pc'[r] # "setup" => setup'[r] = 0)
    <3>1. CASE setup[r] < 3
      BY <1>2, <3>1 DEF SetupStep
    <3>2. CASE ~(setup[r] < 3)
      <4>1. setup[r] = 3
        <5>1. setup[r] \in 0 .. 3
          BY <1>1 DEF TypeOK
        <5> QED
          BY <3>2, <5>1
      <4>2. (3 + 1) % 4 = 0
        OBVIOUS
      <4> QED
        BY <1>1, <4>1, <4>2 DEF SetupStep, TypeOK
    <3> QED
      BY <3>1, <3>2
  <2>2. Made(r)' \in Nat /\ Made(r) <= Made(r)'
    <3>1. Made(r)' = spawned[r] - 1 \/ Made(r)' = spawned[r]
      BY <1>2 DEF Made
    <3> QED
      BY <1>4, <3>1
  <2>3. at[r] \in Nat /\ at[r] - 1 < Len(Program) /\ Len(Program) \in Nat /\ Made(r) \in Nat
    BY MadeType
  <2> QED
    BY <1>1, <1>2, <1>4, <2>1, <2>2, <2>3, QuietHistory
<1> QED
  BY <1>3, <1>7, <1>8, PairTogether

\* A slice that has begun and is not done is at its message of the call.
LEMMA SlicePlace ==
  ASSUME IInv, PairInv, NEW r \in Rank, NEW v \in Worker(0), task[r][v] \in {"ready", "half"}
  PROVE  /\ at[r] > 0 /\ pc[r] \notin {"init", "setup"} /\ v < Made(r)
         /\ Link(r, v) = v + 1 /\ at[r] \in Items(v) /\ About(r, v) = Item(v, at[r])
         /\ pc[r] = "launch" => ~(v >= w[r])
<1>1. TypeOK /\ RankInv(r) /\ HistoryInv(r) /\ Worker(r) = Worker(0) /\ v \in Worker(r)
  BY WorkerFacts DEF IInv, PairInv
<1>2. at[r] > 0 /\ pc[r] \notin {"init", "setup"} /\ Link(r, v) = v + 1
  BY <1>1, LinkFacts
<1>3. v < Made(r)
  <2>1. InstInv(r) /\ v + 1 # 0
    BY <1>1, WorkerFacts DEF RankInv
  <2> QED
    BY <1>1, <1>2, <2>1 DEF InstInv, Link
<1>4. v < NWorker(r)
  <2>1. PhaseInv(r) /\ pc[r] \in {"launch", "own", "join", "return"}
    BY <1>1, <1>2 DEF RankInv, TypeOK
  <2> QED
    BY <1>1, <2>1 DEF PhaseInv
<1> QED
  BY <1>1, <1>2, <1>3, <1>4, RankFree DEF HistoryInv

\* What a step of a slice does to the positions of its rank.
LEMMA SlicePositions ==
  ASSUME IInv, PairInv, NEW r \in Rank, NEW u \in Worker(0), SliceStep(r, u)
  PROVE  /\ \A v \in Worker(0) \ {u} : Rests(r, v)
         /\ SliceSpeak(r, u) => /\ HeardTo(r, u)' = HeardTo(r, u)
                                /\ SaidTo(r, u) = at[r] /\ SaidTo(r, u)' = at[r] + 1
         /\ SliceListen(r, u) => /\ SaidTo(r, u)' = SaidTo(r, u)
                                 /\ HeardTo(r, u) = at[r] /\ HeardTo(r, u)' = at[r] + 1
<1>1. TypeOK /\ Worker(r) = Worker(0)
  BY WorkerFacts DEF IInv
<1>2. /\ task[r][u] \in {"ready", "half"} /\ UNCHANGED <<pc, at, w, inst, spawned, setup>>
  BY DEF SliceStep, SliceSpeak, SliceListen
<1>3. /\ SliceSpeak(r, u) => /\ task[r][u] = "ready" <=> First(r)
                             /\ TaskSet(r, u, IF First(r) THEN "half" ELSE "done")
      /\ SliceListen(r, u) => /\ task[r][u] = "half" <=> First(r)
                              /\ TaskSet(r, u, IF First(r) THEN "done" ELSE "half")
  BY DEF SliceSpeak, SliceListen, First, TaskSet, Finished
<1>4. PICK x \in {"half", "done"} :
        /\ TaskSet(r, u, x)
        /\ SliceSpeak(r, u) => x = IF First(r) THEN "half" ELSE "done"
        /\ SliceListen(r, u) => x = IF First(r) THEN "done" ELSE "half"
  <2>1. CASE SliceSpeak(r, u) /\ ~SliceListen(r, u)
    BY <1>3, <2>1
  <2>2. CASE SliceListen(r, u) /\ ~SliceSpeak(r, u)
    BY <1>3, <2>2
  <2>3. CASE SliceListen(r, u) /\ SliceSpeak(r, u)
    BY <1>2, <1>3, <2>3
  <2> QED
    BY <2>1, <2>2, <2>3 DEF SliceStep
<1>5. \A v \in Worker(0) : task'[r][v] = IF v = u THEN x ELSE task[r][v]
  <2>1. x \in TaskState
    BY DEF TaskState
  <2>2. TaskIs(r, u, x)
    BY <1>1, <1>4, <2>1, TaskStep
  <2> QED
    BY <1>1, <2>2 DEF TaskIs
<1>6. Made(r)' = Made(r) /\ (First(r)' <=> First(r)) /\ u < Made(r)
  BY <1>2, SlicePlace DEF Made, First, Current
<1>7. \A v \in Worker(0) \ {u} : Rests(r, v)
  <2> TAKE v \in Worker(0) \ {u}
  <2>1. SaidTo(r, v)' = SaidTo(r, v) /\ HeardTo(r, v)' = HeardTo(r, v)
    BY <1>2, <1>5, <1>6 DEF SaidTo, HeardTo, Spoken, Heard, SetupSaid, SetupHeard
  <2> QED
    BY <2>1 DEF Rests, Same
<1>8. /\ SaidTo(r, u) = IF Spoken(r, u) THEN at[r] + 1 ELSE at[r]
      /\ HeardTo(r, u) = IF Heard(r, u) THEN at[r] + 1 ELSE at[r]
      /\ SaidTo(r, u)' = IF Spoken(r, u)' THEN at[r] + 1 ELSE at[r]
      /\ HeardTo(r, u)' = IF Heard(r, u)' THEN at[r] + 1 ELSE at[r]
  BY <1>2, <1>6 DEF SaidTo, HeardTo
<1>9. /\ Spoken(r, u) <=> task[r][u] = "half" /\ First(r)
      /\ Heard(r, u) <=> task[r][u] = "half" /\ ~First(r)
      /\ Spoken(r, u)' <=> x = "done" \/ First(r)
      /\ Heard(r, u)' <=> x = "done" \/ ~First(r)
  BY <1>2, <1>4, <1>5, <1>6 DEF Spoken, Heard
<1>10. SliceSpeak(r, u) => /\ ~Spoken(r, u) /\ Spoken(r, u)'
                           /\ Heard(r, u)' <=> Heard(r, u)
  BY <1>2, <1>3, <1>4, <1>9
<1>11. SliceListen(r, u) => /\ ~Heard(r, u) /\ Heard(r, u)'
                            /\ Spoken(r, u)' <=> Spoken(r, u)
  BY <1>2, <1>3, <1>4, <1>9
<1> QED
  BY <1>7, <1>8, <1>10, <1>11

LEMMA SlicePairs ==
  ASSUME IInv, IInv', PairInv, NEW r \in Rank, NEW u \in Worker(0), SliceStep(r, u)
  PROVE  PairInv'
<1>1. TypeOK /\ TypeOK' /\ LinksInv /\ HistoryInv(r) /\ Worker(r) = Worker(0)
  BY WorkerFacts DEF IInv, PairInv
<1>2. /\ task[r][u] \in {"ready", "half"} /\ UNCHANGED <<pc, at, w, inst, spawned, setup>>
  BY DEF SliceStep, SliceSpeak, SliceListen
<1>3. PICK i : i = at[r]
  OBVIOUS
<1>4. /\ at[r] > 0 /\ pc[r] \notin {"init", "setup"} /\ Link(r, u) = u + 1
      /\ i \in Items(u) /\ About(r, u) = Item(u, i)
      /\ pc[r] = "launch" => ~(u >= w[r])
  BY <1>2, <1>3, SlicePlace
<1>5. /\ \A s \in Rank \ {r} : task'[s] = task[s] /\ got'[s] = got[s]
      /\ \A v \in Worker(0) \ {u} : task'[r][v] = task[r][v] /\ got'[r][v] = got[r][v]
  BY SMTT(30), <1>1 DEF SliceStep, SliceSpeak, SliceListen, Finished, TypeOK
<1>6. \A s \in Rank \ {r} : Stays(s)
  BY <1>2, <1>5 DEF Stays
<1>7. \A s \in Rank : \A v \in Worker(0) : s # r \/ v # u => Rests(s, v)
  BY <1>6, StaysKeep, SlicePositions DEF PairInv
<1>8. \A a : Same(u, a, a)
  BY DEF Same
<1>9. CASE SliceSpeak(r, u)
  <2>1. Send(r, u + 1, Item(u, i)) /\ got' = got
    BY <1>4, <1>9 DEF SliceSpeak
  <2>2. /\ Same(u, HeardTo(r, u), HeardTo(r, u)') /\ Same(u, SaidTo(r, u), i)
        /\ Same(u, i + 1, SaidTo(r, u)')
    <3>1. HeardTo(r, u)' = HeardTo(r, u) /\ SaidTo(r, u) = i /\ SaidTo(r, u)' = i + 1
      BY <1>3, <1>9, SlicePositions DEF SliceStep
    <3> QED
      BY <1>8, <3>1
  <2>3. LinksInv'
    BY <1>1, <1>4, <1>7, <2>1, <2>2, LinksSpeak
  <2>4. \A v \in Worker(r) : got'[r][v] # Unset => got'[r][v] = About(r, v)
    BY <1>1, <2>1 DEF HistoryInv
  <2>5. HistoryInv(r)'
    <3>1. \A v : About(r, v)' = About(r, v)
      BY <1>2 DEF About, Slice, Scale, Jobs, Current
    <3>2. Made(r)' = Made(r)
      BY <1>2 DEF Made
    <3>3. pc[r] = "launch" => \A v \in Worker(r) : v >= w[r] => task'[r][v] = "none"
      BY <1>1, <1>4, <1>5 DEF HistoryInv
    <3> QED
      BY <1>1, <1>2, <2>4, <3>1, <3>2, <3>3 DEF HistoryInv
  <2> QED
    BY <1>6, <2>3, <2>5, PairTogether
<1>10. CASE SliceListen(r, u)
  <2>1. /\ Arrived(r, u + 1) /\ Consume(r, u + 1)
        /\ got' = [got EXCEPT ![r][u] = Head(chan[u + 1][r])]
    BY <1>4, <1>10 DEF SliceListen
  <2>2. /\ Same(u, SaidTo(r, u), SaidTo(r, u)') /\ Same(u, HeardTo(r, u), i)
        /\ Same(u, i + 1, HeardTo(r, u)')
    <3>1. SaidTo(r, u)' = SaidTo(r, u) /\ HeardTo(r, u) = i /\ HeardTo(r, u)' = i + 1
      BY <1>3, <1>10, SlicePositions DEF SliceStep
    <3> QED
      BY <1>8, <3>1
  <2>3. LinksInv'
    BY <1>1, <1>4, <1>7, <2>1, <2>2, LinksListen
  <2>4. \A v \in Worker(r) : got'[r][v] # Unset => got'[r][v] = About(r, v)
    <3>1. Head(chan[u + 1][r]) = About(r, u)
      BY <1>1, <1>4, <2>1, <2>2, Heading
    <3>2. got'[r][u] = About(r, u)
      BY <1>1, <2>1, <3>1 DEF TypeOK
    <3> QED
      BY <1>1, <1>5, <3>2 DEF HistoryInv
  <2>5. HistoryInv(r)'
    <3>1. \A v : About(r, v)' = About(r, v)
      BY <1>2 DEF About, Slice, Scale, Jobs, Current
    <3>2. Made(r)' = Made(r)
      BY <1>2 DEF Made
    <3>3. pc[r] = "launch" => \A v \in Worker(r) : v >= w[r] => task'[r][v] = "none"
      BY <1>1, <1>4, <1>5 DEF HistoryInv
    <3> QED
      BY <1>1, <1>2, <2>4, <3>1, <3>2, <3>3 DEF HistoryInv
  <2> QED
    BY <1>6, <2>3, <2>5, PairTogether
<1> QED
  BY <1>9, <1>10 DEF SliceStep

LEMMA PairStep ==
  ASSUME IInv, PairInv, [Next]_vars
  PROVE  PairInv'
<1>0. IInv'
  BY NextStep
<1>1. ASSUME NEW r \in Rank, Caller(r) PROVE PairInv'
  BY <1>0, <1>1, StartCallPairs, LazyInitPairs, SetupPairs, PhasePairs, LaunchPairs,
     OwnSlicePairs, JoinPairs DEF Caller
<1>2. ASSUME NEW r \in Rank, NEW v \in Worker(r), SliceStep(r, v) PROVE PairInv'
  BY <1>0, <1>2, SlicePairs, WorkerFacts
<1>3. CASE Done \/ UNCHANGED vars
  <2>1. UNCHANGED vars
    BY <1>3 DEF Done
  <2>2. chan' = chan /\ \A s \in Rank : Stays(s)
    BY <2>1 DEF vars, Stays
  <2>3. \A s \in Rank : HistoryInv(s)' /\ \A v \in Worker(0) : Rests(s, v)
    BY <2>2, StaysKeep DEF PairInv
  <2>4. LinksInv'
    BY <1>0, <2>2, <2>3, LinksRest DEF IInv, PairInv
  <2> QED
    BY <2>3, <2>4 DEF PairInv
<1> QED
  BY <1>1, <1>2, <1>3 DEF Next

\* A slice hears what the peer says about the same elements in the same call: the
\* links keep apart the slices, and the order of the calls keeps apart the calls.
THEOREM EverySlicePaired == Spec => []SlicesPaired
<1>1. Init => IInv /\ PairInv
  BY InitStep, PairInit
<1>2. (IInv /\ PairInv) /\ [Next]_vars => (IInv /\ PairInv)'
  BY NextStep, PairStep
<1>3. IInv /\ PairInv => SlicesPaired
  BY DEF PairInv, HistoryInv, SlicesPaired
<1> QED
  BY <1>1, <1>2, <1>3, PTL DEF Spec

=============================================================================
