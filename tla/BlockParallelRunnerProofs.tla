--------------------- MODULE BlockParallelRunnerProofs ---------------------
(***************************************************************************)
(* Proofs about BlockParallelRunner for every block, number of parties and *)
(* number of worker threads.  The invariant is built in two layers: the    *)
(* control part (which worker is where) and, on top of it, the data part   *)
(* (what is in the scope).                                                 *)
(***************************************************************************)
EXTENDS BlockParallelRunner, TLAPS

\* The facts about the constants that the control part needs.
LEMMA ConstantFacts ==
  NumOps \in Nat /\ MaxSpurious \in Nat /\ NoThread \notin Thread /\ Thread # {}
  BY BlockAssumption, ThreadAssumption DEF BlockAssumption, ThreadAssumption

ControlInv == TypeOK /\ MainInv /\ TaskInv /\ MutexInv

\* The initial state satisfies the control part.
LEMMA ControlInit == Init => ControlInv
  BY ConstantFacts
  DEF Init, ControlInv, TypeOK, MainInv, TaskInv, MutexInv, Op, MainPc, WorkerPc

\* Every step of the main thread of a party preserves the control part.
LEMMA ControlMain ==
  ASSUME ControlInv, NEW p \in Party, Main(p)
  PROVE  ControlInv'
<1> USE ConstantFacts
<1> USE DEF ControlInv, Op, MainPc, WorkerPc
<1>1. CASE Fork(p)
  <2>a. forked[p] \in Nat /\ enqueued[p] \in Nat
    BY DEF TypeOK
  <2>b. forked[p] = enqueued[p] /\ enqueued[p] < NumOps
    BY <1>1 DEF Fork, MainInv
  <2>1. forked[p] + 1 \in 0 .. NumOps
    BY <2>a, <2>b
  <2>2. TypeOK'
    BY <1>1, <2>1 DEF Fork, TypeOK, ForkedLink
  <2>3. MainInv'
    <3>1. \A q \in Party :
            /\ forked[q] \in Nat /\ enqueued[q] \in Nat /\ popped[q] \in Nat
            /\ mainPc'[q] = IF q = p THEN "gather" ELSE mainPc[q]
            /\ forked'[q] = IF q = p THEN forked[p] + 1 ELSE forked[q]
            /\ enqueued'[q] = IF q = p THEN enqueued[p] ELSE enqueued[q]
      BY <1>1 DEF Fork, TypeOK
    <3>2. mainPc[p] = "fork" /\ UNCHANGED <<popped, pc>>
      BY <1>1 DEF Fork
    <3> QED BY <3>1, <3>2 DEF MainInv
  <2>4. TaskInv' /\ MutexInv'
    <3>1. UNCHANGED <<pc, task, popped, mutex>>
      BY <1>1 DEF Fork
    <3> QED BY <3>1 DEF TaskInv, MutexInv
  <2> QED BY <2>2, <2>3, <2>4
<1>2. CASE Enqueue(p)
  <2>1. enqueued[p] + 1 \in 0 .. NumOps
    BY <1>2 DEF Enqueue, TypeOK, MainInv
  <2>2. TypeOK'
    BY <1>2, <2>1 DEF Enqueue, TypeOK
  <2>3. MainInv'
    <3>1. \A q \in Party :
            /\ forked[q] \in Nat /\ enqueued[q] \in Nat /\ popped[q] \in Nat
            /\ mainPc'[q] = IF q = p THEN "fork" ELSE mainPc[q]
            /\ forked'[q] = IF q = p THEN forked[p] ELSE forked[q]
            /\ enqueued'[q] = IF q = p THEN enqueued[p] + 1 ELSE enqueued[q]
      BY <1>2 DEF Enqueue, TypeOK
    <3>2. mainPc[p] = "gather" /\ UNCHANGED <<popped, pc>>
      BY <1>2 DEF Enqueue
    <3> QED BY <3>1, <3>2 DEF MainInv
  <2>4. TaskInv' /\ MutexInv'
    <3>1. UNCHANGED <<pc, task, popped, mutex>>
      BY <1>2 DEF Enqueue
    <3> QED BY <3>1 DEF TaskInv, MutexInv
  <2> QED BY <2>2, <2>3, <2>4
<1>3. CASE StartThreads(p)
  <2>1. TypeOK'
    BY <1>3 DEF StartThreads, TypeOK
  <2>2. MainInv'
    BY <1>3 DEF StartThreads, TypeOK, MainInv
  <2>3. TaskInv'
    BY <1>3 DEF StartThreads, TypeOK, MainInv, TaskInv
  <2>4. MutexInv'
    BY <1>3 DEF StartThreads, TypeOK, MainInv, MutexInv
  <2> QED BY <2>1, <2>2, <2>3, <2>4
<1>4. CASE Return(p)
  <2>1. TypeOK'
    BY <1>4 DEF Return, TypeOK
  <2>2. MainInv' /\ TaskInv' /\ MutexInv'
    BY <1>4 DEF Return, TypeOK, MainInv, TaskInv, MutexInv
  <2> QED BY <2>1, <2>2
<1> QED BY <1>1, <1>2, <1>3, <1>4 DEF Main

\* Writing one entry of a doubly indexed function changes that entry only.
LEMMA SetEntry ==
  ASSUME NEW A, NEW B, NEW S, NEW f \in [A -> [B -> S]],
         NEW a \in A, NEW b \in B, NEW v \in S
  PROVE  /\ [f EXCEPT ![a][b] = v] \in [A -> [B -> S]]
         /\ \A x \in A, y \in B :
              [f EXCEPT ![a][b] = v][x][y] = IF x = a /\ y = b THEN v ELSE f[x][y]
  OBVIOUS

\* A worker that moves from one point of its task to another preserves the
\* control part, provided it gains or drops the event mutex as it should.
LEMMA MoveWorker ==
  ASSUME ControlInv, NEW p \in Party, NEW t \in Thread, NEW x \in WorkerPc,
         pc[p][t] # "unborn", x # "unborn",
         pc[p][t] \in {"idle", "exit"} <=> x \in {"idle", "exit"},
         x = "exit" => popped[p] = NumOps,
         pc' = [pc EXCEPT ![p][t] = x],
         UNCHANGED <<mainPc, forked, enqueued, popped, task>>,
         \A q \in Party : q # p => mutex'[q] = mutex[q],
         \A u \in Thread : u # t => (mutex'[p] = u <=> mutex[p] = u),
         mutex'[p] = t <=> x \in {"check", "unready"}
  PROVE  MainInv' /\ TaskInv' /\ MutexInv'
<1>1. pc \in [Party -> [Thread -> WorkerPc]]
  BY DEF ControlInv, TypeOK
<1>2. \A q \in Party, u \in Thread :
        pc'[q][u] = IF q = p /\ u = t THEN x ELSE pc[q][u]
  BY <1>1, SetEntry
<1>3. MainInv'
  BY <1>2 DEF MainInv, ControlInv
<1>4. TaskInv'
  <2> SUFFICES ASSUME NEW q \in Party, NEW u \in Thread
               PROVE  /\ pc'[q][u] \in {"unborn", "idle", "exit"} <=> task[q][u] = 0
                      /\ pc'[q][u] = "exit" => popped[q] = NumOps
    BY DEF TaskInv, ControlInv
  <2> QED BY <1>2 DEF TaskInv, ControlInv
<1>5. MutexInv'
  <2> SUFFICES ASSUME NEW q \in Party, NEW u \in Thread
               PROVE  mutex'[q] = u <=> pc'[q][u] \in {"check", "unready"}
    BY DEF MutexInv
  <2>1. mutex[q] = u <=> pc[q][u] \in {"check", "unready"}
    BY DEF MutexInv, ControlInv
  <2>2. CASE q = p /\ u = t
    BY <2>2, <1>2
  <2>3. CASE q = p /\ u # t
    BY <2>3, <1>2, <2>1
  <2>4. CASE q # p
    BY <2>4, <1>2, <2>1
  <2> QED BY <2>2, <2>3, <2>4
<1> QED BY <1>3, <1>4, <1>5

\* Every step of a worker thread preserves the control part.
LEMMA ControlWorker ==
  ASSUME ControlInv, NEW p \in Party, NEW t \in Thread,
         Worker(p, t) \/ SpuriousWakeup(p, t)
  PROVE  ControlInv'
<1> USE ConstantFacts
<1> USE DEF ControlInv, Op, MainPc, WorkerPc
<1>1. CASE PopTask(p, t)
  <2>a. /\ popped[p] \in Nat /\ popped[p] < enqueued[p] /\ enqueued[p] \in 0 .. NumOps
        /\ pc[p][t] = "idle" /\ task[p][t] = 0
    BY <1>1 DEF PopTask, TypeOK, TaskInv
  <2>1. popped[p] + 1 \in 1 .. NumOps
    BY <2>a
  <2>b. PICK x \in {"kernel", "lock"} : pc' = [pc EXCEPT ![p][t] = x]
    BY <1>1 DEF PopTask
  <2>c. \A q \in Party, u \in Thread :
          /\ pc'[q][u] = IF q = p /\ u = t THEN x ELSE pc[q][u]
          /\ task'[q][u] = IF q = p /\ u = t THEN popped[p] + 1 ELSE task[q][u]
    <3>1. pc \in [Party -> [Thread -> WorkerPc]] /\ task \in [Party -> [Thread -> Nat]]
      BY DEF TypeOK
    <3>2. task' = [task EXCEPT ![p][t] = popped[p] + 1] /\ popped[p] + 1 \in Nat
      BY <1>1, <2>1 DEF PopTask
    <3> HIDE DEF WorkerPc
    <3>3. x \in WorkerPc
      BY DEF WorkerPc
    <3>4. \A q \in Party, u \in Thread :
            pc'[q][u] = IF q = p /\ u = t THEN x ELSE pc[q][u]
      BY SMTT(30), <2>b, <3>1, <3>3, SetEntry
    <3>5. \A q \in Party, u \in Thread :
            task'[q][u] = IF q = p /\ u = t THEN popped[p] + 1 ELSE task[q][u]
      BY SMTT(30), <3>1, <3>2, SetEntry
    <3> QED BY <3>4, <3>5
  <2>d. \A q \in Party : popped'[q] = IF q = p THEN popped[p] + 1 ELSE popped[q]
    BY <1>1 DEF PopTask, TypeOK
  <2>e. UNCHANGED <<mainPc, forked, enqueued, mutex>>
    BY <1>1 DEF PopTask
  <2>2. TypeOK'
    <3>1. UNCHANGED <<mainPc, forked, enqueued, chan, symbols, mutex, sent, spurious>>
      BY <1>1 DEF PopTask
    <3>2. popped' = [popped EXCEPT ![p] = popped[p] + 1]
          /\ task' = [task EXCEPT ![p][t] = popped[p] + 1]
      BY <1>1 DEF PopTask
    <3>3. popped' \in [Party -> 0 .. NumOps]
      BY <2>1, <3>2 DEF TypeOK
    <3>4. task' \in [Party -> [Thread -> Op \cup {0}]]
      BY <2>1, <3>2 DEF TypeOK
    <3>5. pc' \in [Party -> [Thread -> WorkerPc]]
      BY <2>b DEF TypeOK
    <3> QED BY <3>1, <3>3, <3>4, <3>5 DEF TypeOK
  <2>3. MainInv'
    BY <1>1 DEF PopTask, TypeOK, MainInv
  <2>4. TaskInv'
    <3> SUFFICES ASSUME NEW q \in Party, NEW u \in Thread
                 PROVE  /\ pc'[q][u] \in {"unborn", "idle", "exit"} <=> task'[q][u] = 0
                        /\ task'[q][u] <= popped'[q]
                        /\ \A v \in Thread : v # u /\ task'[q][u] # 0 =>
                              task'[q][v] # task'[q][u]
                        /\ pc'[q][u] = "exit" => popped'[q] = NumOps
      BY DEF TaskInv
    <3>a. \A v \in Thread : task[q][v] \in Nat /\ task[q][v] <= popped[q]
      BY DEF TypeOK, TaskInv
    <3>b. popped[q] \in Nat
      BY DEF TypeOK
    <3>1. pc'[q][u] \in {"unborn", "idle", "exit"} <=> task'[q][u] = 0
      BY <2>a, <2>c, <2>1 DEF TaskInv
    <3>2. task'[q][u] <= popped'[q]
      BY <2>c, <2>d, <3>a, <3>b
    <3>3. \A v \in Thread : v # u /\ task'[q][u] # 0 => task'[q][v] # task'[q][u]
      <4>1. CASE q = p
        BY <4>1, <2>a, <2>c, <3>a DEF TaskInv
      <4>2. CASE q # p
        BY <4>2, <2>c DEF TaskInv
      <4> QED BY <4>1, <4>2
    <3>4. pc'[q][u] = "exit" => popped'[q] = NumOps
      <4>1. pc[q][u] = "exit" => popped[q] = NumOps
        BY DEF TaskInv
      <4>2. popped[p] # NumOps
        BY <2>a
      <4> QED BY <4>1, <4>2, <2>c, <2>d
    <3> QED BY <3>1, <3>2, <3>3, <3>4
  <2>5. MutexInv'
    BY <2>a, <2>c, <2>e DEF MutexInv
  <2> QED BY <2>2, <2>3, <2>4, <2>5
<1>2. CASE Exit(p, t)
  <2>1. TypeOK'
    BY <1>2 DEF Exit, TypeOK
  <2>2. popped[p] = NumOps
    <3>1. pc[p][t] # "unborn" /\ popped[p] = enqueued[p]
      BY <1>2 DEF Exit
    <3> QED BY <3>1 DEF MainInv
  <2>3. mutex[p] # t
    BY <1>2 DEF Exit, MutexInv
  <2>4. MainInv' /\ TaskInv' /\ MutexInv'
    BY <1>2, <2>2, <2>3, MoveWorker DEF Exit
  <2> QED BY <2>1, <2>4
<1>3. CASE LockEvent(p, t)
  <2>1. TypeOK'
    BY <1>3 DEF LockEvent, TypeOK
  <2>2. \A q \in Party : mutex'[q] = IF q = p THEN t ELSE mutex[q]
    BY <1>3 DEF LockEvent, TypeOK
  <2>3. MainInv' /\ TaskInv' /\ MutexInv'
    <3>1. \A u \in Thread : u # t => (mutex'[p] = u <=> mutex[p] = u)
      BY <1>3, <2>2 DEF LockEvent
    <3>3. /\ pc[p][t] = "lock"
          /\ pc' = [pc EXCEPT ![p][t] = "check"]
          /\ UNCHANGED <<mainPc, forked, enqueued, popped, task>>
      BY <1>3 DEF LockEvent
    <3>4. \A q \in Party : q # p => mutex'[q] = mutex[q]
      BY <2>2
    <3>5. mutex'[p] = t <=> "check" \in {"check", "unready"}
      BY <2>2
    <3>6. "check" \in WorkerPc
      OBVIOUS
    <3> HIDE DEF ControlInv
    <3> QED BY <3>1, <3>3, <3>4, <3>5, <3>6, MoveWorker
  <2> QED BY <2>1, <2>3
<1>4. CASE CheckReady(p, t)
  <2>1. mutex[p] = t /\ pc[p][t] = "check"
    BY <1>4 DEF CheckReady, MutexInv
  <2>2. CASE Ready(p, task[p][t])
    <3>1. TypeOK'
      <4>1. /\ pc' = [pc EXCEPT ![p][t] = "kernel"]
            /\ mutex' = [mutex EXCEPT ![p] = NoThread]
            /\ UNCHANGED <<mainPc, forked, enqueued, popped, chan, symbols, task,
                           sent, spurious>>
        BY <1>4, <2>2 DEF CheckReady
      <4> QED BY <4>1 DEF TypeOK
    <3>2. \A q \in Party : mutex'[q] = IF q = p THEN NoThread ELSE mutex[q]
      BY <1>4, <2>2 DEF CheckReady, TypeOK
    <3>3. MainInv' /\ TaskInv' /\ MutexInv'
      BY <1>4, <2>1, <2>2, <3>2, MoveWorker DEF CheckReady
    <3> QED BY <3>1, <3>3
  <2>3. CASE ~Ready(p, task[p][t])
    <3>1. TypeOK'
      <4>1. /\ pc' = [pc EXCEPT ![p][t] = "unready"]
            /\ mutex' = mutex
            /\ UNCHANGED <<mainPc, forked, enqueued, popped, chan, symbols, task,
                           sent, spurious>>
        BY <1>4, <2>3 DEF CheckReady
      <4> QED BY <4>1 DEF TypeOK
    <3>2. MainInv' /\ TaskInv' /\ MutexInv'
      BY <1>4, <2>1, <2>3, MoveWorker DEF CheckReady
    <3> QED BY <3>1, <3>2
  <2> QED BY <2>2, <2>3
<1>5. CASE Sleep(p, t)
  <2>1. TypeOK'
    BY <1>5 DEF Sleep, TypeOK
  <2>2. \A q \in Party : mutex'[q] = IF q = p THEN NoThread ELSE mutex[q]
    BY <1>5 DEF Sleep, TypeOK
  <2>3. mutex[p] = t
    BY <1>5 DEF Sleep, MutexInv
  <2>4. MainInv' /\ TaskInv' /\ MutexInv'
    <3>1. \A u \in Thread : u # t => (mutex'[p] = u <=> mutex[p] = u)
      BY <2>2, <2>3
    <3>3. /\ pc[p][t] = "unready"
          /\ pc' = [pc EXCEPT ![p][t] = "asleep"]
          /\ UNCHANGED <<mainPc, forked, enqueued, popped, task>>
      BY <1>5 DEF Sleep
    <3>4. \A q \in Party : q # p => mutex'[q] = mutex[q]
      BY <2>2
    <3>5. mutex'[p] = t <=> "asleep" \in {"check", "unready"}
      BY <2>2
    <3>6. "asleep" \in WorkerPc
      OBVIOUS
    <3> HIDE DEF ControlInv
    <3> QED BY <3>1, <3>3, <3>4, <3>5, <3>6, MoveWorker
  <2> QED BY <2>1, <2>4
<1>6. CASE SpuriousWakeup(p, t)
  <2>1. TypeOK'
    BY SMTT(30), <1>6 DEF SpuriousWakeup, TypeOK
  <2>2. mutex[p] # t
    BY <1>6 DEF SpuriousWakeup, MutexInv
  <2>3. MainInv' /\ TaskInv' /\ MutexInv'
    BY <1>6, <2>2, MoveWorker DEF SpuriousWakeup
  <2> QED BY <2>1, <2>3
<1>7. CASE StartKernel(p, t)
  <2>a. pc[p][t] = "kernel" /\ task[p][t] \in Op
    <3>1. pc[p][t] = "kernel" /\ task[p][t] \in Op \cup {0}
      BY <1>7 DEF StartKernel, TypeOK
    <3>2. task[p][t] # 0
      BY <3>1 DEF TaskInv
    <3> QED BY <3>1, <3>2
  <2>b. PICK x \in {"running", "terminated"} : pc' = [pc EXCEPT ![p][t] = x]
    BY <1>7 DEF StartKernel
  <2>c. sent' \in [Party -> SUBSET ((0 .. NumOps) \X Op)]
    <3>1. chan[p][task[p][t]] \in 0 .. NumOps
      BY <2>a DEF TypeOK
    <3>2. <<chan[p][task[p][t]], task[p][t]>> \in (0 .. NumOps) \X Op
      BY <3>1, <2>a
    <3>3. CASE sent' = sent
      BY <3>3 DEF TypeOK
    <3>4. CASE sent' = [sent EXCEPT ![p] = @ \cup {<<chan[p][task[p][t]], task[p][t]>>}]
      BY <3>2, <3>4 DEF TypeOK
    <3>5. sent' = sent \/ sent' = [sent EXCEPT ![p] = @]
           \/ sent' = [sent EXCEPT ![p] = @ \cup {<<chan[p][task[p][t]], task[p][t]>>}]
      BY <1>7 DEF StartKernel
    <3>6. [sent EXCEPT ![p] = @] = sent
      BY DEF TypeOK
    <3> QED BY <3>3, <3>4, <3>5, <3>6
  <2>d. UNCHANGED <<mainPc, forked, enqueued, popped, chan, symbols, task, mutex, spurious>>
    BY <1>7 DEF StartKernel
  <2>1. TypeOK'
    BY <2>b, <2>c, <2>d DEF TypeOK
  <2>2. mutex[p] # t
    BY <2>a DEF MutexInv
  <2>3. MainInv' /\ TaskInv' /\ MutexInv'
    BY <2>a, <2>b, <2>d, <2>2, MoveWorker
  <2> QED BY <2>1, <2>3
<1>8. CASE FinishKernel(p, t)
  <2>1. TypeOK'
    BY <1>8 DEF FinishKernel, TypeOK, ScopeAfter, HasResult
  <2>2. MainInv' /\ TaskInv' /\ MutexInv'
    <3>1. mutex[p] # t
      BY <1>8 DEF FinishKernel, MutexInv
    <3> QED BY <1>8, <3>1, MoveWorker DEF FinishKernel
  <2> QED BY <2>1, <2>2
<1>9. CASE Notify(p, t)
  <2>1. TypeOK'
    BY <1>9 DEF Notify, TypeOK
  <2>2. MainInv'
    BY <1>9 DEF Notify, TypeOK, MainInv
  <2>a. \A q \in Party, u \in Thread :
          /\ task'[q][u] = IF q = p /\ u = t THEN 0 ELSE task[q][u]
          /\ pc'[q][u] = IF q # p THEN pc[q][u]
                         ELSE IF u = t THEN "idle"
                         ELSE IF pc[q][u] = "asleep" THEN "lock" ELSE pc[q][u]
    BY <1>9 DEF Notify, TypeOK
  <2>3. TaskInv'
    <3>1. popped' = popped /\ \A q \in Party : popped[q] \in Nat
      BY <1>9 DEF Notify, TypeOK
    <3> QED BY <2>a, <3>1 DEF TaskInv
  <2>4. MutexInv'
    BY <1>9 DEF Notify, TypeOK, MutexInv
  <2> QED BY <2>1, <2>2, <2>3, <2>4
<1> QED BY <1>1, <1>2, <1>3, <1>4, <1>5, <1>6, <1>7, <1>8, <1>9 DEF Worker

\* The control part is preserved by every step.
LEMMA ControlStep == ControlInv /\ [Next]_vars => ControlInv'
<1> SUFFICES ASSUME ControlInv, [Next]_vars PROVE ControlInv'
  OBVIOUS
<1>1. CASE UNCHANGED vars
  BY <1>1 DEF vars, ControlInv, TypeOK, MainInv, TaskInv, MutexInv
<1>2. CASE Done
  BY <1>2 DEF Done, vars, ControlInv, TypeOK, MainInv, TaskInv, MutexInv
<1> QED BY <1>1, <1>2, ControlMain, ControlWorker DEF Next

\* Every variable keeps its type (TypeOK): in particular no task is taken from
\* an empty queue and no fork goes past the end of the block.
THEOREM TypeCorrect == Spec => []TypeOK
<1>1. ControlInv => TypeOK
  BY DEF ControlInv
<1> QED BY <1>1, ControlInit, ControlStep, PTL DEF Spec

-----------------------------------------------------------------------------
(* The data part.                                                          *)

\* What the assumptions on the block say of the dependencies.
LEMMA DepsFacts ==
  ASSUME NEW o \in Op
  PROVE  /\ Deps[o] \subseteq HasResult
         /\ LookedUp(o) \subseteq Deps[o] \cup {0}
         /\ Operands[o] = {} => Deps[o] = {}
         /\ Operands[o] # {} =>
              Deps[o] = (Operands[o] \ {0}) \cup ExtraDependencies(o)
<1>1. /\ Operands[o] \subseteq HasResult \cup {0}
      /\ Captured[o] \subseteq HasResult
      /\ Operands[o] = {} => Captured[o] = {}
  BY BlockAssumption DEF BlockAssumption
<1>2. SideEffectDeps(o) \subseteq HasResult
  BY BlockAssumption DEF BlockAssumption, SideEffectDeps, HasResult
<1>3. Deps[o] = IF Operands[o] = {} THEN {}
                ELSE (Operands[o] \ {0}) \cup ExtraDependencies(o)
  BY DEF Deps
<1>4. CASE Operands[o] = {}
  BY <1>1, <1>3, <1>4 DEF LookedUp
<1>5. CASE Operands[o] # {}
  BY <1>1, <1>2, <1>3, <1>5 DEF LookedUp, ExtraDependencies
<1> QED BY <1>4, <1>5

\* A task that is ready has all its dependencies in the scope.
LEMMA ReadyDeps ==
  ASSUME NEW p \in Party, NEW o \in Op, Ready(p, o), Operands[o] # {}
  PROVE  Deps[o] \subseteq symbols[p]
  BY DepsFacts DEF Ready

\* Only the end of a kernel completes an operation, its own.
LEMMA CompletedFinish ==
  ASSUME ControlInv, NEW p \in Party, NEW t \in Thread, FinishKernel(p, t)
  PROVE  /\ task[p][t] \in Op
         /\ task[p][t] \notin Completed(p)
         /\ \A q \in Party : Completed(q)' = IF q = p
                                           THEN Completed(p) \cup {task[p][t]}
                                           ELSE Completed(q)
<1>1. pc[p][t] = "running" /\ popped' = popped /\ task' = task
  BY DEF FinishKernel
<1>2. task[p][t] \in Op
  <2>1. task[p][t] \in Op \cup {0}
    BY DEF ControlInv, TypeOK
  <2>2. task[p][t] # 0
    BY <1>1 DEF ControlInv, TaskInv
  <2> QED BY <2>1, <2>2
<1>3. task[p][t] \notin Completed(p)
  BY <1>1 DEF Completed
<1>4. \A q \in Party, u \in Thread :
        pc'[q][u] = IF q = p /\ u = t THEN "notify" ELSE pc[q][u]
  <2>1. pc \in [Party -> [Thread -> WorkerPc]] /\ "notify" \in WorkerPc
    BY DEF ControlInv, TypeOK, WorkerPc
  <2>2. pc' = [pc EXCEPT ![p][t] = "notify"]
    BY DEF FinishKernel
  <2> QED BY <2>1, <2>2, SetEntry
<1>5. \A u \in Thread : u # t => task[p][u] # task[p][t]
  BY <1>2 DEF ControlInv, TaskInv, Op
<1>6. task[p][t] <= popped[p]
  BY DEF ControlInv, TaskInv
<1>7. \A q \in Party, o \in Op :
        o \in Completed(q)' <=> o \in Completed(q) \/ (q = p /\ o = task[p][t])
  <2> SUFFICES ASSUME NEW q \in Party, NEW o \in Op
               PROVE  (o <= popped[q] /\ \A u \in Thread :
                         task[q][u] = o => pc'[q][u] = "notify")
                      <=> (o <= popped[q] /\ \A u \in Thread :
                             task[q][u] = o => pc[q][u] = "notify")
                          \/ (q = p /\ o = task[p][t])
    BY <1>1 DEF Completed
  <2>1. CASE q # p
    BY <2>1, <1>4
  <2>2. CASE q = p /\ o = task[p][t]
    BY <2>2, <1>4, <1>5, <1>6
  <2>3. CASE q = p /\ o # task[p][t]
    BY <2>3, <1>4
  <2> QED BY <2>1, <2>2, <2>3
<1>8. \A q \in Party : Completed(q) \subseteq Op /\ Completed(q)' \subseteq Op
  BY DEF Completed
<1> QED BY <1>2, <1>3, <1>7, <1>8

\* Every other step leaves the completed operations alone.
LEMMA CompletedSame ==
  ASSUME ControlInv, ControlInv', [Next]_vars,
         \A p \in Party, t \in Thread : ~FinishKernel(p, t)
  PROVE  \A q \in Party : Completed(q)' = Completed(q)
<1> SUFFICES ASSUME NEW q \in Party, NEW o \in Op
             PROVE  o \in Completed(q)' <=> o \in Completed(q)
  BY DEF Completed
<1>1. \A p \in Party, t \in Thread : task[p][t] # 0 <=> pc[p][t] \notin {"unborn", "idle", "exit"}
  BY DEF ControlInv, TaskInv
<1>t. pc \in [Party -> [Thread -> WorkerPc]] /\ task \in [Party -> [Thread -> Op \cup {0}]]
      /\ popped \in [Party -> 0 .. NumOps] /\ 0 \notin Op
  BY DEF ControlInv, TypeOK, Op
<1>2. CASE popped' = popped /\ task' = task
           /\ \A p \in Party, t \in Thread :
                pc'[p][t] = "notify" /\ task[p][t] # 0 <=> pc[p][t] = "notify" /\ task[p][t] # 0
  BY <1>2, <1>t DEF Completed
<1>3. ASSUME NEW p \in Party, NEW t \in Thread, PopTask(p, t)
      PROVE  o \in Completed(q)' <=> o \in Completed(q)
  <2>1. PICK x \in {"kernel", "lock"} : pc' = [pc EXCEPT ![p][t] = x]
    BY <1>3 DEF PopTask
  <2>2. x \in WorkerPc
    BY DEF WorkerPc
  <2>3. \A r \in Party, u \in Thread :
          pc'[r][u] = IF r = p /\ u = t THEN x ELSE pc[r][u]
    BY <2>1, <2>2, <1>t, SetEntry
  <2>4. popped[p] + 1 \in Op
    BY <1>3, <1>t, ConstantFacts DEF PopTask, ControlInv, TypeOK, Op
  <2>5. \A r \in Party, u \in Thread :
          task'[r][u] = IF r = p /\ u = t THEN popped[p] + 1 ELSE task[r][u]
    <3>1. task' = [task EXCEPT ![p][t] = popped[p] + 1]
      BY <1>3 DEF PopTask
    <3> QED BY <3>1, <2>4, <1>t, SetEntry
  <2>6. pc[p][t] = "idle" /\ task[p][t] = 0
    BY <1>3, <1>1 DEF PopTask
  <2>7. popped' = [popped EXCEPT ![p] = popped[p] + 1]
    BY <1>3 DEF PopTask
  <2>8. CASE q # p
    BY <2>8, <2>3, <2>5, <2>7, <1>t DEF Completed
  <2>9. CASE q = p
    <3>1. popped'[p] = popped[p] + 1 /\ popped[p] \in Nat /\ o \in Nat
      BY <2>7, <1>t DEF Op
    <3>2. CASE o = popped[p] + 1
      BY <3>1, <3>2, <2>3, <2>5, <2>9 DEF Completed
    <3>3. CASE o # popped[p] + 1
      <4>1. o <= popped'[p] <=> o <= popped[p]
        BY <3>1, <3>3
      <4>2. \A u \in Thread : (task'[p][u] = o => pc'[p][u] = "notify")
                             <=> (task[p][u] = o => pc[p][u] = "notify")
        BY <3>3, <2>3, <2>5, <2>6, <1>t
      <4> QED BY <4>1, <4>2, <2>9 DEF Completed
    <3> QED BY <3>2, <3>3
  <2> QED BY <2>8, <2>9
<1>4. ASSUME NEW p \in Party, NEW t \in Thread, Notify(p, t)
      PROVE  o \in Completed(q)' <=> o \in Completed(q)
  <2>1. \A r \in Party, u \in Thread :
          /\ task'[r][u] = IF r = p /\ u = t THEN 0 ELSE task[r][u]
          /\ r # p \/ u # t => (pc'[r][u] = "notify" <=> pc[r][u] = "notify")
    BY <1>4, <1>t DEF Notify
  <2>2. pc[p][t] = "notify" /\ popped' = popped
    BY <1>4 DEF Notify
  <2> QED BY <2>1, <2>2, <1>t DEF Completed
<1>5. ASSUME UNCHANGED <<popped, task, pc>>
      PROVE  o \in Completed(q)' <=> o \in Completed(q)
  BY <1>5, <1>2
<1>6. ASSUME NEW p \in Party, NEW t \in Thread, NEW x \in WorkerPc,
             popped' = popped, task' = task, pc' = [pc EXCEPT ![p][t] = x],
             x # "notify", pc[p][t] # "notify"
      PROVE  o \in Completed(q)' <=> o \in Completed(q)
  <2>1. \A r \in Party, u \in Thread :
          pc'[r][u] = IF r = p /\ u = t THEN x ELSE pc[r][u]
    BY <1>6, <1>t, SetEntry
  <2> QED BY <1>6, <2>1, <1>2
<1>7. ASSUME NEW p \in Party, StartThreads(p)
      PROVE  o \in Completed(q)' <=> o \in Completed(q)
  <2>1. \A t \in Thread : pc[p][t] = "unborn"
    BY <1>7 DEF StartThreads, ControlInv, MainInv
  <2>2. \A r \in Party, u \in Thread :
          pc'[r][u] = IF r = p THEN "idle" ELSE pc[r][u]
    BY <1>7, <1>t DEF StartThreads
  <2> QED BY <1>2, <1>7, <2>1, <2>2 DEF StartThreads
<1>8. CASE \E p \in Party : Main(p)
  <2> SUFFICES ASSUME NEW p \in Party, Main(p)
               PROVE  o \in Completed(q)' <=> o \in Completed(q)
    BY <1>8
  <2>1. CASE Fork(p) \/ Enqueue(p) \/ Return(p)
    BY <2>1, <1>5 DEF Fork, Enqueue, Return
  <2> QED BY <2>1, <1>7 DEF Main
<1>9. CASE \E p \in Party, t \in Thread : Worker(p, t) \/ SpuriousWakeup(p, t)
  <2> SUFFICES ASSUME NEW p \in Party, NEW t \in Thread,
                      Worker(p, t) \/ SpuriousWakeup(p, t)
               PROVE  o \in Completed(q)' <=> o \in Completed(q)
    BY <1>9
  <2>w. \A x \in {"exit", "check", "kernel", "unready", "asleep", "lock", "running",
                  "terminated"} : x \in WorkerPc /\ x # "notify"
    BY DEF WorkerPc
  <2>1. CASE Exit(p, t)
    BY <2>1, <2>w, <1>6 DEF Exit
  <2>2. CASE LockEvent(p, t)
    BY <2>2, <2>w, <1>6 DEF LockEvent
  <2>3. CASE CheckReady(p, t)
    BY <2>3, <2>w, <1>6 DEF CheckReady
  <2>4. CASE Sleep(p, t)
    BY <2>4, <2>w, <1>6 DEF Sleep
  <2>5. CASE SpuriousWakeup(p, t)
    BY <2>5, <2>w, <1>6 DEF SpuriousWakeup
  <2>6. CASE StartKernel(p, t)
    BY <2>6, <2>w, <1>6 DEF StartKernel
  <2> QED BY <2>1, <2>2, <2>3, <2>4, <2>5, <2>6, <1>3, <1>4 DEF Worker
<1> QED BY <1>5, <1>8, <1>9 DEF Next, Done, vars

\* ScopeInv, one step.
LEMMA ScopeStep == ControlInv /\ ControlInv' /\ ScopeInv /\ [Next]_vars => ScopeInv'
<1> SUFFICES ASSUME ControlInv, ControlInv', ScopeInv, [Next]_vars PROVE ScopeInv'
  OBVIOUS
<1>t. symbols \in [Party -> SUBSET (Op \cup {0})]
  BY DEF ControlInv, TypeOK
<1>1. CASE \E p \in Party, t \in Thread : FinishKernel(p, t)
  <2> PICK p \in Party, t \in Thread : FinishKernel(p, t)
    BY <1>1
  <2>1. \A q \in Party : symbols'[q] = IF q = p THEN ScopeAfter(symbols[p], task[p][t])
                                       ELSE symbols[q]
    BY <1>t DEF FinishKernel
  <2>2. \A q \in Party : symbols[q] = {0} \cup (Completed(q) \cap HasResult)
    BY DEF ScopeInv
  <2>3. \A q \in Party : Completed(q)' = IF q = p THEN Completed(p) \cup {task[p][t]}
                                        ELSE Completed(q)
    BY CompletedFinish
  <2>4. \A q \in Party : symbols'[q] = {0} \cup (Completed(q)' \cap HasResult)
    BY <2>1, <2>2, <2>3 DEF ScopeAfter
  <2> QED BY <2>4 DEF ScopeInv
<1>2. CASE ~\E p \in Party, t \in Thread : FinishKernel(p, t)
  <2>1. \A q \in Party : Completed(q)' = Completed(q)
    BY <1>2, CompletedSame
  <2>2. symbols' = symbols
    BY <1>2 DEF Next, vars, Main, Worker, Done, Fork, Enqueue, StartThreads, Return,
       PopTask, Exit, LockEvent, CheckReady, Sleep, SpuriousWakeup, StartKernel, Notify
  <2> QED BY <2>1, <2>2 DEF ScopeInv
<1> QED BY <1>1, <1>2


\* Under do_parallel nothing leaves the scope, whatever step is taken.
LEMMA ScopeGrows ==
  ASSUME ControlInv, [Next]_vars, NEW q \in Party
  PROVE  symbols[q] \subseteq symbols'[q]
<1>t. symbols \in [Party -> SUBSET (Op \cup {0})]
  BY DEF ControlInv, TypeOK
<1>1. ASSUME NEW p \in Party, NEW t \in Thread, FinishKernel(p, t)
      PROVE  symbols[q] \subseteq symbols'[q]
  BY <1>1, <1>t DEF FinishKernel, ScopeAfter
<1>2. CASE ~\E p \in Party, t \in Thread : FinishKernel(p, t)
  BY <1>2 DEF Next, vars, Main, Worker, Done, Fork, Enqueue, StartThreads, Return,
     PopTask, Exit, LockEvent, CheckReady, Sleep, SpuriousWakeup, StartKernel, Notify
<1> QED BY <1>1, <1>2

DataInv == ScopeInv /\ KernelInv /\ CompletedInv /\ LinkInv /\ NoLookupFailure

\* KernelInv, one step: a task passes the wait when it is ready or when it has
\* no operands, and the scope only grows afterwards.
LEMMA KernelStep ==
  ASSUME ControlInv, ControlInv', KernelInv, [Next]_vars
  PROVE  KernelInv'
<1>t. pc \in [Party -> [Thread -> WorkerPc]] /\ task \in [Party -> [Thread -> Op \cup {0}]]
      /\ popped \in [Party -> 0 .. NumOps] /\ 0 \notin Op
  BY DEF ControlInv, TypeOK, Op
<1> SUFFICES ASSUME NEW q \in Party, NEW u \in Thread,
                    pc'[q][u] \in {"kernel", "running", "notify"}
             PROVE  Deps[task'[q][u]] \subseteq symbols'[q]
  BY DEF KernelInv
<1>g. symbols[q] \subseteq symbols'[q]
  BY ScopeGrows
<1>1. ASSUME pc[q][u] \in {"kernel", "running", "notify"}, task'[q][u] = task[q][u]
      PROVE  Deps[task'[q][u]] \subseteq symbols'[q]
  BY <1>1, <1>g DEF KernelInv
<1>2. ASSUME NEW p \in Party, NEW t \in Thread, NEW x \in WorkerPc,
             task' = task, pc' = [pc EXCEPT ![p][t] = x],
             x \in {"kernel", "running", "notify"} =>
               Deps[task[p][t]] \subseteq symbols[p]
      PROVE  Deps[task'[q][u]] \subseteq symbols'[q]
  <2>1. pc'[q][u] = IF q = p /\ u = t THEN x ELSE pc[q][u]
    BY <1>2, <1>t, SetEntry
  <2> QED BY <1>1, <1>2, <1>g, <2>1
<1>3. CASE UNCHANGED <<pc, task>>
  BY <1>1, <1>3
<1>4. CASE \E p \in Party : StartThreads(p)
  <2> PICK p \in Party : StartThreads(p)
    BY <1>4
  <2>1. pc'[q][u] = IF q = p THEN "idle" ELSE pc[q][u]
    BY <1>t DEF StartThreads
  <2> QED BY <1>1, <2>1 DEF StartThreads
<1>5. CASE \E p \in Party : Main(p)
  BY <1>3, <1>4, <1>5 DEF Main, Fork, Enqueue, Return
<1>6. CASE \E p \in Party, t \in Thread : Worker(p, t) \/ SpuriousWakeup(p, t)
  <2> PICK p \in Party, t \in Thread : Worker(p, t) \/ SpuriousWakeup(p, t)
    BY <1>6
  <2>w. \A x \in {"exit", "check", "kernel", "unready", "asleep", "lock", "running",
                  "notify", "terminated"} : x \in WorkerPc
    BY DEF WorkerPc
  <2>d. pc[p][t] \notin {"unborn", "idle", "exit"} => task[p][t] \in Op
    BY <1>t DEF ControlInv, TaskInv
  <2>1. CASE PopTask(p, t)
    <3>1. PICK x \in {"kernel", "lock"} :
            /\ pc' = [pc EXCEPT ![p][t] = x]
            /\ x = "kernel" => Operands[popped[p] + 1] = {}
      BY <2>1 DEF PopTask
    <3>2. pc'[q][u] = IF q = p /\ u = t THEN x ELSE pc[q][u]
      BY SMTT(30), <3>1, <2>w, <1>t, SetEntry
    <3>3. popped[p] + 1 \in Op
      BY <2>1, <1>t, ConstantFacts DEF PopTask, ControlInv, TypeOK, Op
    <3>4. task'[q][u] = IF q = p /\ u = t THEN popped[p] + 1 ELSE task[q][u]
      <4>1. task' = [task EXCEPT ![p][t] = popped[p] + 1]
        BY <2>1 DEF PopTask
      <4> QED BY <4>1, <3>3, <1>t, SetEntry
    <3>5. CASE q = p /\ u = t
      BY <3>1, <3>2, <3>3, <3>4, <3>5, DepsFacts
    <3>6. CASE ~(q = p /\ u = t)
      BY <3>2, <3>4, <3>6, <1>1
    <3> QED BY <3>5, <3>6
  <2>2. CASE Exit(p, t)
    BY <2>2, <2>w, <1>2 DEF Exit
  <2>3. CASE LockEvent(p, t)
    BY <2>3, <2>w, <1>2 DEF LockEvent
  <2>4. CASE CheckReady(p, t)
    <3>1. CASE Ready(p, task[p][t])
      <4>1. task[p][t] \in Op
        BY <2>4, <2>d DEF CheckReady
      <4>2. Deps[task[p][t]] \subseteq symbols[p]
        BY <3>1, <4>1, DepsFacts, ReadyDeps
      <4> QED BY <2>4, <2>w, <3>1, <4>2, <1>2 DEF CheckReady
    <3>2. CASE ~Ready(p, task[p][t])
      BY <2>4, <2>w, <3>2, <1>2 DEF CheckReady
    <3> QED BY <3>1, <3>2
  <2>5. CASE Sleep(p, t)
    BY <2>5, <2>w, <1>2 DEF Sleep
  <2>6. CASE SpuriousWakeup(p, t)
    BY <2>6, <2>w, <1>2 DEF SpuriousWakeup
  <2>7. CASE StartKernel(p, t)
    <3>1. Deps[task[p][t]] \subseteq symbols[p]
      BY <2>7 DEF StartKernel, KernelInv
    <3> QED BY <2>7, <2>w, <3>1, <1>2 DEF StartKernel
  <2>8. CASE FinishKernel(p, t)
    <3>1. Deps[task[p][t]] \subseteq symbols[p]
      BY <2>8 DEF FinishKernel, KernelInv
    <3> QED BY <2>8, <2>w, <3>1, <1>2 DEF FinishKernel
  <2>9. CASE Notify(p, t)
    <3>1. /\ task'[q][u] = IF q = p /\ u = t THEN 0 ELSE task[q][u]
          /\ pc'[q][u] = IF q # p THEN pc[q][u]
                         ELSE IF u = t THEN "idle"
                         ELSE IF pc[q][u] = "asleep" THEN "lock" ELSE pc[q][u]
      BY <2>9, <1>t DEF Notify
    <3> QED BY <3>1, <1>1
  <2> QED BY <2>1, <2>2, <2>3, <2>4, <2>5, <2>6, <2>7, <2>8, <2>9 DEF Worker
<1> QED BY <1>3, <1>5, <1>6 DEF Next, Done, vars

\* CompletedInv, one step.
LEMMA CompletedStep ==
  ASSUME ControlInv, ControlInv', KernelInv, CompletedInv, [Next]_vars
  PROVE  CompletedInv'
<1> SUFFICES ASSUME NEW q \in Party, NEW o \in Completed(q)'
             PROVE  Deps[o] \subseteq symbols'[q]
  BY DEF CompletedInv
<1>g. symbols[q] \subseteq symbols'[q]
  BY ScopeGrows
<1>1. ASSUME NEW p \in Party, NEW t \in Thread, FinishKernel(p, t)
      PROVE  Deps[o] \subseteq symbols'[q]
  <2>1. Deps[task[p][t]] \subseteq symbols[p]
    BY <1>1 DEF FinishKernel, KernelInv
  <2>2. o \in IF q = p THEN Completed(p) \cup {task[p][t]} ELSE Completed(q)
    BY <1>1, CompletedFinish
  <2> QED BY <1>g, <2>1, <2>2 DEF CompletedInv
<1>2. CASE ~\E p \in Party, t \in Thread : FinishKernel(p, t)
  BY <1>2, <1>g, CompletedSame DEF CompletedInv
<1> QED BY <1>1, <1>2


\* LinkInv, one step: forks are counted in program order, and a worker runs an
\* operation that was forked.
LEMMA LinkStep ==
  ASSUME ControlInv, ControlInv', KernelInv, LinkInv, [Next]_vars
  PROVE  LinkInv'
<1>t. /\ chan \in [Party -> [Op -> 0 .. NumOps]]
      /\ forked \in [Party -> 0 .. NumOps] /\ enqueued \in [Party -> 0 .. NumOps]
      /\ popped \in [Party -> 0 .. NumOps]
      /\ sent \in [Party -> SUBSET ((0 .. NumOps) \X Op)]
      /\ task \in [Party -> [Thread -> Op \cup {0}]]
  BY DEF ControlInv, TypeOK
<1>g. \A q \in Party : symbols[q] \subseteq symbols'[q]
  BY ScopeGrows
<1>1. ASSUME UNCHANGED <<chan, forked, sent>>
      PROVE  LinkInv'
  BY <1>1, <1>g DEF LinkInv
<1>2. ASSUME NEW p \in Party, Fork(p)
      PROVE  LinkInv'
  <2>1. forked[p] = enqueued[p] /\ enqueued[p] + 1 \in Op
    BY <1>2, <1>t, ConstantFacts DEF Fork, ControlInv, MainInv, Op
  <2>2. \A q \in Party : forked'[q] = IF q = p THEN enqueued[p] + 1 ELSE forked[q]
    BY <1>2, <1>t, <2>1 DEF Fork
  <2>3. \A q \in Party, o \in Op :
          chan'[q][o] = IF q = p /\ o = enqueued[p] + 1 THEN enqueued[p] + 1
                        ELSE chan[q][o]
    <3>1. chan' = [chan EXCEPT ![p][enqueued[p] + 1] = enqueued[p] + 1]
      BY <1>2, <2>1 DEF Fork, ForkedLink
    <3>2. enqueued[p] + 1 \in 0 .. NumOps
      BY <2>1 DEF Op
    <3> QED BY <3>1, <3>2, <2>1, <1>t, SetEntry
  <2>4. \A q \in Party, o \in Op : chan'[q][o] = IF o <= forked'[q] THEN o ELSE 0
    <3> SUFFICES ASSUME NEW q \in Party, NEW o \in Op
                 PROVE  chan'[q][o] = IF o <= forked'[q] THEN o ELSE 0
      OBVIOUS
    <3>1. chan[q][o] = IF o <= forked[q] THEN o ELSE 0
      BY DEF LinkInv
    <3>2. o \in Nat /\ enqueued[p] \in Nat
      BY <1>t DEF Op
    <3> QED BY <2>1, <2>2, <2>3, <3>1, <3>2
  <2>5. sent' = sent
    BY <1>2 DEF Fork
  <2> QED BY <2>4, <2>5, <1>g DEF LinkInv
<1>3. ASSUME NEW p \in Party, NEW t \in Thread, StartKernel(p, t)
      PROVE  LinkInv'
  <2> DEFINE o == task[p][t]
  <2>1. pc[p][t] = "kernel" /\ UNCHANGED <<chan, forked>>
    BY <1>3 DEF StartKernel
  <2>2. o \in Op /\ o <= popped[p]
    <3>1. o # 0 /\ o <= popped[p]
      BY <2>1 DEF ControlInv, TaskInv
    <3> QED BY <3>1, <1>t
  <2>3. o <= forked[p]
    <3>1. /\ popped[p] <= enqueued[p]
          /\ forked[p] = enqueued[p] \/ forked[p] = enqueued[p] + 1
      BY DEF ControlInv, MainInv
    <3>2. popped[p] \in Nat /\ enqueued[p] \in Nat /\ o \in Nat
      BY <1>t, <2>2 DEF Op
    <3> HIDE DEF o
    <3> QED BY <2>2, <3>1, <3>2
  <2>4. chan[p][o] = o
    BY <2>2, <2>3 DEF LinkInv
  <2>5. Deps[o] \subseteq symbols[p]
    BY <2>1 DEF KernelInv
  <2>6. \A q \in Party : \A m \in sent'[q] :
          m \in sent[q] \/ (q = p /\ m = <<chan[p][o], o>>)
    BY <1>3, <1>t DEF StartKernel
  <2>7. \A q \in Party : \A m \in sent'[q] :
          m[1] = m[2] /\ Deps[m[2]] \subseteq symbols'[q]
    BY <2>4, <2>5, <2>6, <1>g DEF LinkInv
  <2> QED BY <2>1, <2>7 DEF LinkInv
<1>4. CASE \E p \in Party : Main(p)
  BY <1>1, <1>2, <1>4 DEF Main, Enqueue, StartThreads, Return
<1>5. CASE \E p \in Party, t \in Thread : Worker(p, t) \/ SpuriousWakeup(p, t)
  BY <1>1, <1>3, <1>5 DEF Worker, PopTask, Exit, LockEvent, CheckReady, Sleep,
     SpuriousWakeup, FinishKernel, Notify
<1> QED BY <1>1, <1>4, <1>5 DEF Next, Done, vars

\* NoLookupFailure, one step: a kernel finds its operands and captures, and
\* once all workers have exited every operation is complete.
LEMMA LookupStep ==
  ASSUME ControlInv, ControlInv', ScopeInv, KernelInv, NoLookupFailure, [Next]_vars
  PROVE  NoLookupFailure'
<1>t. /\ pc \in [Party -> [Thread -> WorkerPc]] /\ task \in [Party -> [Thread -> Op \cup {0}]]
      /\ mainPc \in [Party -> MainPc] /\ popped \in [Party -> 0 .. NumOps] /\ 0 \notin Op
  BY DEF ControlInv, TypeOK, Op
<1> SUFFICES ASSUME NEW q \in Party, NEW u \in Thread
             PROVE  mainPc'[q] # "thrown" /\ pc'[q][u] # "terminated"
  BY ConstantFacts DEF NoLookupFailure
<1>0. mainPc[q] # "thrown" /\ pc[q][u] # "terminated"
  BY DEF NoLookupFailure
<1>1. ASSUME NEW p \in Party, Return(p)
      PROVE  mainPc'[q] # "thrown" /\ pc'[q][u] # "terminated"
  <2>1. \A t \in Thread : pc[p][t] = "exit" /\ task[p][t] = 0
    BY <1>1 DEF Return, ControlInv, TaskInv
  <2>2. popped[p] = NumOps
    BY <2>1, ConstantFacts DEF ControlInv, TaskInv
  <2>3. Completed(p) = Op
    BY <2>1, <2>2, <1>t DEF Completed, Op
  <2>4. Returned \subseteq symbols[p]
    BY <2>3, BlockAssumption DEF ScopeInv, BlockAssumption, HasResult
  <2>5. mainPc' = [mainPc EXCEPT ![p] = "returned"] /\ pc' = pc
    BY <1>1, <2>4 DEF Return
  <2> QED BY <2>5, <1>0, <1>t
<1>2. ASSUME NEW p \in Party, Fork(p) \/ Enqueue(p) \/ StartThreads(p)
      PROVE  mainPc'[q] # "thrown" /\ pc'[q][u] # "terminated"
  BY <1>2, <1>0, <1>t DEF Fork, Enqueue, StartThreads
<1>3. ASSUME NEW p \in Party, NEW t \in Thread, NEW x \in WorkerPc \ {"terminated"},
             pc' = [pc EXCEPT ![p][t] = x], mainPc' = mainPc
      PROVE  mainPc'[q] # "thrown" /\ pc'[q][u] # "terminated"
  <2>1. pc'[q][u] = IF q = p /\ u = t THEN x ELSE pc[q][u]
    BY <1>3, <1>t, SetEntry
  <2> QED BY <1>0, <1>3, <2>1
<1>4. CASE \E p \in Party, t \in Thread : Worker(p, t) \/ SpuriousWakeup(p, t)
  <2> PICK p \in Party, t \in Thread : Worker(p, t) \/ SpuriousWakeup(p, t)
    BY <1>4
  <2>w. \A x \in {"exit", "check", "kernel", "unready", "asleep", "lock", "running",
                  "notify"} : x \in WorkerPc \ {"terminated"}
    BY DEF WorkerPc
  <2>1. CASE PopTask(p, t)
    BY <2>1, <2>w, <1>3 DEF PopTask
  <2>2. CASE Exit(p, t) \/ LockEvent(p, t) \/ Sleep(p, t) \/ SpuriousWakeup(p, t)
    BY <2>2, <2>w, <1>3 DEF Exit, LockEvent, Sleep, SpuriousWakeup
  <2>3. CASE CheckReady(p, t)
    BY <2>3, <2>w, <1>3 DEF CheckReady
  <2>4. CASE StartKernel(p, t)
    <3>1. pc[p][t] = "kernel"
      BY <2>4 DEF StartKernel
    <3>2. task[p][t] \in Op
      <4>1. task[p][t] # 0
        BY <3>1 DEF ControlInv, TaskInv
      <4> QED BY <4>1, <1>t
    <3>3. LookedUp(task[p][t]) \subseteq symbols[p]
      BY <3>1, <3>2, DepsFacts DEF KernelInv, ScopeInv
    <3> QED BY <2>4, <3>3, <2>w, <1>3 DEF StartKernel
  <2>5. CASE FinishKernel(p, t)
    BY <2>5, <2>w, <1>3 DEF FinishKernel
  <2>6. CASE Notify(p, t)
    BY <2>6, <1>0, <1>t DEF Notify
  <2> QED BY <2>1, <2>2, <2>3, <2>4, <2>5, <2>6 DEF Worker
<1>5. CASE UNCHANGED <<mainPc, pc>>
  BY <1>0, <1>5
<1> QED BY <1>1, <1>2, <1>4, <1>5 DEF Next, Main, Done, vars

\* The invariant holds initially.
LEMMA DataInit == Init => DataInv
<1> SUFFICES ASSUME Init PROVE DataInv
  OBVIOUS
<1>1. \A p \in Party : Completed(p) = {}
  BY ConstantFacts DEF Init, Completed, Op
<1>2. ScopeInv /\ CompletedInv
  BY <1>1 DEF Init, ScopeInv, CompletedInv
<1>3. KernelInv /\ NoLookupFailure
  BY DEF Init, KernelInv, NoLookupFailure
<1>4. LinkInv
  BY ConstantFacts DEF Init, LinkInv, Op
<1> QED BY <1>2, <1>3, <1>4 DEF DataInv

\* Both layers together are an invariant of the specification.
LEMMA Invariance == Spec => [](ControlInv /\ DataInv)
<1>1. Init => ControlInv /\ DataInv
  BY ControlInit, DataInit
<1>2. ControlInv /\ DataInv /\ [Next]_vars => ControlInv' /\ DataInv'
  BY ControlStep, ScopeStep, KernelStep, CompletedStep, LinkStep, LookupStep DEF DataInv
<1> QED BY <1>1, <1>2, PTL DEF Spec

\* No kernel and no terminator looks up a missing value (NoLookupFailure), for
\* every block and every number of workers.
THEOREM LookupsSucceed == Spec => []NoLookupFailure
<1>1. ControlInv /\ DataInv => NoLookupFailure
  BY DEF DataInv
<1> QED BY <1>1, Invariance, PTL

\* Kernels of different parties meet on a link exactly when they run the same
\* operation (ChannelPairing), however each party schedules its workers.
THEOREM LinksPaired == Spec => []ChannelPairing
<1>1. ControlInv /\ DataInv => ChannelPairing
  BY DEF DataInv, LinkInv, ChannelPairing
<1> QED BY <1>1, Invariance, PTL

\* Operations complete after the side effects before them (SideEffectOrder).
THEOREM EffectsOrdered == Spec => []SideEffectOrder
<1>1. ASSUME ControlInv, DataInv PROVE SideEffectOrder
  <2> SUFFICES ASSUME NEW p \in Party, NEW o \in Completed(p), Operands[o] # {}
               PROVE  SideEffectDeps(o) \subseteq Completed(p)
    BY DEF SideEffectOrder
  <2>1. o \in Op
    BY DEF Completed
  <2>2. SideEffectDeps(o) \subseteq Deps[o]
    BY <2>1, DepsFacts DEF ExtraDependencies
  <2>3. Deps[o] \subseteq symbols[p] /\ Deps[o] \subseteq HasResult
    BY <1>1, <2>1, DepsFacts DEF DataInv, CompletedInv
  <2>4. symbols[p] = {0} \cup (Completed(p) \cap HasResult) /\ 0 \notin HasResult
    BY <1>1 DEF DataInv, ScopeInv, HasResult, Op
  <2> QED BY <2>2, <2>3, <2>4
<1> QED BY <1>1, Invariance, PTL


-----------------------------------------------------------------------------
(* Wake-ups.                                                               *)

\* A worker stays about to notify until it notifies, with the mutex free.
LEMMA NotifierStays ==
  ASSUME ControlInv, [Next]_vars, NEW p \in Party, NEW u \in Thread,
         pc[p][u] = "notify", ~Notify(p, u),
         \A w \in Thread : w # u => ~Notify(p, w)
  PROVE  pc'[p][u] = "notify"
<1>t. pc \in [Party -> [Thread -> WorkerPc]]
  BY DEF ControlInv, TypeOK
<1>1. ASSUME NEW q \in Party, NEW w \in Thread, NEW x \in WorkerPc,
             pc' = [pc EXCEPT ![q][w] = x], x = "notify" \/ pc[q][w] # "notify"
      PROVE  pc'[p][u] = "notify"
  <2>1. pc'[p][u] = IF p = q /\ u = w THEN x ELSE pc[p][u]
    BY <1>1, <1>t, SetEntry
  <2> QED BY <1>1, <2>1
<1>2. ASSUME NEW q \in Party, Main(q)
      PROVE  pc'[p][u] = "notify"
  <2>1. StartThreads(q) => \A w \in Thread : pc[q][w] = "unborn"
    BY DEF StartThreads, ControlInv, MainInv
  <2> QED BY <1>2, <2>1, <1>t DEF Main, Fork, Enqueue, StartThreads, Return
<1>3. ASSUME NEW q \in Party, NEW w \in Thread, Worker(q, w) \/ SpuriousWakeup(q, w)
      PROVE  pc'[p][u] = "notify"
  <2>w. \A x \in {"exit", "check", "kernel", "unready", "asleep", "lock", "running",
                  "notify", "terminated"} : x \in WorkerPc
    BY DEF WorkerPc
  <2>1. CASE PopTask(q, w)
    BY <2>1, <2>w, <1>1 DEF PopTask
  <2>2. CASE Exit(q, w) \/ LockEvent(q, w) \/ Sleep(q, w) \/ SpuriousWakeup(q, w)
    BY <2>2, <2>w, <1>1 DEF Exit, LockEvent, Sleep, SpuriousWakeup
  <2>3. CASE CheckReady(q, w)
    BY <2>3, <2>w, <1>1 DEF CheckReady
  <2>4. CASE StartKernel(q, w)
    BY <2>4, <2>w, <1>1 DEF StartKernel
  <2>5. CASE FinishKernel(q, w)
    BY <2>5, <2>w, <1>1 DEF FinishKernel
  <2>6. CASE Notify(q, w)
    <3>1. q # p
      BY <2>6
    <3> QED BY <2>6, <3>1, <1>t DEF Notify
  <2> QED BY <1>3, <2>1, <2>2, <2>3, <2>4, <2>5, <2>6 DEF Worker
<1> QED BY <1>2, <1>3 DEF Next, Done, vars

\* WakeupInv, one step.
LEMMA WakeupStep ==
  ASSUME ControlInv, WakeupInv, [Next]_vars
  PROVE  WakeupInv'
<1>t. /\ pc \in [Party -> [Thread -> WorkerPc]] /\ symbols \in [Party -> SUBSET (Op \cup {0})]
      /\ task \in [Party -> [Thread -> Op \cup {0}]]
  BY DEF ControlInv, TypeOK
<1> SUFFICES ASSUME NEW p \in Party, NEW t \in Thread,
                    pc'[p][t] \in {"unready", "asleep"}, Ready(p, task[p][t])'
             PROVE  \E u \in Thread : pc'[p][u] = "notify"
  BY DEF WakeupInv
<1>1. ASSUME NEW w \in Thread, Notify(p, w)
      PROVE  FALSE
  <2>1. mutex[p] = NoThread
    BY <1>1 DEF Notify
  <2>2. pc[p][t] # "unready"
    BY <2>1, ConstantFacts DEF ControlInv, MutexInv
  <2>3. pc'[p][t] = IF t = w THEN "idle" ELSE IF pc[p][t] = "asleep" THEN "lock" ELSE pc[p][t]
    BY <1>1, <1>t DEF Notify
  <2> QED BY <2>2, <2>3
<1>2. ASSUME NEW w \in Thread, FinishKernel(p, w)
      PROVE  \E u \in Thread : pc'[p][u] = "notify"
  BY <1>2, <1>t DEF FinishKernel
<1>3. ASSUME \A w \in Thread : ~FinishKernel(p, w)
      PROVE  symbols'[p] = symbols[p]
  <2>1. ASSUME NEW q \in Party, NEW w \in Thread, FinishKernel(q, w)
        PROVE  symbols'[p] = symbols[p]
    BY <2>1, <1>3, <1>t DEF FinishKernel
  <2>2. CASE ~\E q \in Party, w \in Thread : FinishKernel(q, w)
    BY <2>2 DEF Next, vars, Main, Worker, Done, Fork, Enqueue, StartThreads, Return,
       PopTask, Exit, LockEvent, CheckReady, Sleep, SpuriousWakeup, StartKernel, Notify
  <2> QED BY <2>1, <2>2
<1>4. ASSUME pc[p][t] \in {"unready", "asleep"}, task'[p][t] = task[p][t],
             symbols'[p] = symbols[p]
      PROVE  \E u \in Thread : pc'[p][u] = "notify"
  <2>1. Ready(p, task[p][t])
    BY <1>4 DEF Ready
  <2>2. PICK u \in Thread : pc[p][u] = "notify"
    BY <1>4, <2>1 DEF WakeupInv
  <2> QED BY <2>2, <1>1, NotifierStays
<1>5. ASSUME NEW q \in Party, NEW w \in Thread, NEW x \in WorkerPc,
             pc' = [pc EXCEPT ![q][w] = x], task' = task, symbols'[p] = symbols[p],
             x \in {"unready", "asleep"} =>
               pc[q][w] \in {"unready", "asleep"} \/ ~Ready(q, task[q][w])
      PROVE  \E u \in Thread : pc'[p][u] = "notify"
  <2>1. pc'[p][t] = IF p = q /\ t = w THEN x ELSE pc[p][t]
    BY <1>5, <1>t, SetEntry
  <2>2. Ready(p, task[p][t])
    BY <1>5 DEF Ready
  <2>3. pc[p][t] \in {"unready", "asleep"}
    BY <1>5, <2>1, <2>2
  <2> QED BY <1>4, <1>5, <2>3
<1>6. ASSUME NEW q \in Party, Main(q), symbols'[p] = symbols[p]
      PROVE  \E u \in Thread : pc'[p][u] = "notify"
  <2>1. pc'[p][t] \in {pc[p][t], "idle"} /\ task' = task
    BY <1>6, <1>t DEF Main, Fork, Enqueue, StartThreads, Return
  <2> QED BY <1>4, <1>6, <2>1
<1>7. ASSUME NEW q \in Party, NEW w \in Thread, Worker(q, w) \/ SpuriousWakeup(q, w),
             \A v \in Thread : ~FinishKernel(p, v)
      PROVE  \E u \in Thread : pc'[p][u] = "notify"
  <2>w. \A x \in {"exit", "check", "kernel", "unready", "asleep", "lock", "running",
                  "notify", "terminated"} : x \in WorkerPc
    BY DEF WorkerPc
  <2>s. symbols'[p] = symbols[p]
    BY <1>7, <1>3
  <2>1. CASE PopTask(q, w)
    <3>1. pc'[p][t] \in {pc[p][t], "kernel", "lock"}
      BY <2>1, <1>t DEF PopTask
    <3>2. pc[p][t] \in {"unready", "asleep"} => task'[p][t] = task[p][t]
      BY <2>1, <1>t DEF PopTask
    <3> QED BY <1>4, <2>s, <3>1, <3>2
  <2>2. CASE Exit(q, w) \/ LockEvent(q, w) \/ Sleep(q, w) \/ SpuriousWakeup(q, w)
    BY <2>2, <2>w, <2>s, <1>5 DEF Exit, LockEvent, Sleep, SpuriousWakeup
  <2>3. CASE CheckReady(q, w)
    <3>1. CASE Ready(q, task[q][w])
      BY <2>3, <2>w, <2>s, <3>1, <1>5 DEF CheckReady
    <3>2. CASE ~Ready(q, task[q][w])
      BY <2>3, <2>w, <2>s, <3>2, <1>5 DEF CheckReady
    <3> QED BY <3>1, <3>2
  <2>4. CASE StartKernel(q, w)
    BY <2>4, <2>w, <2>s, <1>5 DEF StartKernel
  <2>5. CASE FinishKernel(q, w)
    BY <2>5, <2>w, <2>s, <1>5 DEF FinishKernel
  <2>6. CASE Notify(q, w)
    <3>1. q # p
      BY <2>6, <1>1
    <3>2. pc'[p][t] = pc[p][t] /\ task'[p][t] = task[p][t]
      BY <2>6, <3>1, <1>t DEF Notify
    <3> QED BY <1>4, <2>s, <3>2
  <2> QED BY <1>7, <2>1, <2>2, <2>3, <2>4, <2>5, <2>6 DEF Worker
<1>8. CASE UNCHANGED vars
  BY <1>4, <1>8 DEF vars
<1>9. CASE \E w \in Thread : FinishKernel(p, w)
  BY <1>2, <1>9
<1> QED BY <1>3, <1>6, <1>7, <1>8, <1>9 DEF Next, Done

\* A worker never sleeps on a ready task with nobody left to wake it
\* (NoLostWakeup).
THEOREM WakeupsDelivered == Spec => []NoLostWakeup
<1>1. Init => WakeupInv
  BY DEF Init, WakeupInv
<1>2. ControlInv /\ WakeupInv /\ [Next]_vars => WakeupInv'
  BY WakeupStep
<1>3. WakeupInv => NoLostWakeup
  BY DEF WakeupInv, NoLostWakeup
<1> QED BY <1>1, <1>2, <1>3, ControlInit, ControlStep, PTL DEF Spec

-----------------------------------------------------------------------------
(* Refinement.                                                             *)

\* Every step of the runner is a step of the dataflow graph or leaves it alone.
LEMMA DataflowStep ==
  ASSUME ControlInv, ControlInv', DataInv, [Next]_vars
  PROVE  [Dataflow!Next]_[p \in Party |-> Completed(p)]
<1> DEFINE done == [p \in Party |-> Completed(p)]
<1>1. ASSUME NEW p \in Party, NEW t \in Thread, FinishKernel(p, t)
      PROVE  Dataflow!Complete(p, task[p][t])
  <2> DEFINE o == task[p][t]
  <2>1. o \in Op /\ o \notin Completed(p)
    BY <1>1, CompletedFinish
  <2>2. done' = [done EXCEPT ![p] = @ \cup {o}]
    BY <1>1, CompletedFinish
  <2>s. \A q \in Party : symbols[q] = {0} \cup (Completed(q) \cap HasResult)
    BY DEF DataInv, ScopeInv
  <2>d. Deps[o] \subseteq HasResult /\ 0 \notin HasResult
    BY <2>1, DepsFacts DEF HasResult, Op
  <2>3. Deps[o] \subseteq symbols[p]
    BY <1>1 DEF FinishKernel, DataInv, KernelInv
  <2>4. ASSUME NEW q \in Party, o \in Interactive
        PROVE  Deps[o] \subseteq symbols[q]
    <3>1. PICK m \in sent[q] : m[1] = chan[p][o]
      BY <1>1, <2>4 DEF FinishKernel
    <3>2. m[1] = m[2] /\ Deps[m[2]] \subseteq symbols[q]
      BY DEF DataInv, LinkInv
    <3>3. m[2] \in Op
      BY DEF ControlInv, TypeOK
    <3>4. chan[p][o] = o
      <4>1. chan[p][o] = o \/ chan[p][o] = 0
        BY <2>1 DEF DataInv, LinkInv
      <4>2. m[2] # 0
        BY <3>3 DEF Op
      <4> QED BY <3>1, <3>2, <4>1, <4>2
    <3> QED BY <3>1, <3>2, <3>4
  <2>5. \A q \in Dataflow!Peers(p, o) : q \in Party /\ Deps[o] \subseteq symbols[q]
    BY <2>3, <2>4 DEF Dataflow!Peers
  <2>6. \A q \in Dataflow!Peers(p, o) : Deps[o] \subseteq done[q]
    BY <2>5, <2>s, <2>d
  <2> QED BY <2>1, <2>2, <2>6 DEF Dataflow!Complete
<1>2. ASSUME NEW p \in Party, NEW t \in Thread, FinishKernel(p, t)
      PROVE  Dataflow!Next
  BY <1>1, <1>2, CompletedFinish DEF Dataflow!Next
<1>3. CASE ~\E p \in Party, t \in Thread : FinishKernel(p, t)
  BY <1>3, CompletedSame
<1> QED BY <1>2, <1>3

\* The runner implements the dataflow graph (RefinesDataflow): whatever the
\* workers do, an operation completes once, after what it waits for, and a
\* joint operation only when that is complete at every party.
THEOREM RunnerImplementsDataflow == Spec => RefinesDataflow
<1>1. Init => Dataflow!Init
  <2> SUFFICES ASSUME Init PROVE Dataflow!Init
    OBVIOUS
  <2>1. \A p \in Party : Completed(p) = {}
    BY ConstantFacts DEF Init, Completed, Op
  <2> QED BY <2>1 DEF Dataflow!Init
<1>2. ControlInv /\ ControlInv' /\ DataInv /\ [Next]_vars
        => [Dataflow!Next]_[p \in Party |-> Completed(p)]
  BY DataflowStep
<1> QED BY <1>1, <1>2, Invariance, PTL DEF Spec, RefinesDataflow, Dataflow!Spec

=============================================================================
