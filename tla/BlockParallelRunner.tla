------------------------ MODULE BlockParallelRunner ------------------------
(***************************************************************************)
(* The inter-op parallel executor of libspu/device/executor.cc, run by     *)
(* every party of a computation on the same block of operations.           *)
(*                                                                         *)
(* One party: its main thread forks one SPUContext per operation, in       *)
(* program order, and queues one OpExecTask each; it then starts the       *)
(* worker threads, joins them and looks up the returned values.  A worker  *)
(* pops a task, waits on the shared condition variable until the task is   *)
(* ready, runs the kernel and notifies the others.                         *)
(*                                                                         *)
(* Operations are the numbers 1..NumOps in program order.  Value o is the  *)
(* result of operation o and value 0 stands for all the block arguments.   *)
(* FIFO order makes the queue an interval of operations: the operations    *)
(* popped[p]+1 .. enqueued[p] are in it.                                   *)
(***************************************************************************)
EXTENDS Naturals, FiniteSets

CONSTANTS
  Party,        \* the parties, each running the same block
  Thread,       \* the worker threads of one party (opts.concurrency of them)
  NumOps,       \* number of operations of the block, terminator excluded
  Operands,     \* Operands[o]: the values among the operands of o
  Captured,     \* Captured[o]: the values of this block that regions of o use
  SideEffect,   \* operations whose has_side_effect attribute is true
  DbgPrint,     \* custom calls to DBG_PRINT
  FreeOp,       \* pphlo.free operations
  Interactive,  \* operations whose kernel exchanges messages with the peers
  Returned,     \* operands of the block's terminator
  MaxSpurious,  \* bound on the spurious wake-ups of one party
  NoThread      \* not a thread: the event mutex is free

Op == 1 .. NumOps

\* A pphlo.free and a debug print have no result; every other operation of
\* the block is given one (a multi-result operation adds all at once).
HasResult == Op \ (FreeOp \cup DbgPrint)

\* The shape of a block: SSA order, and operations with regions have operands.
ASSUME BlockAssumption ==
  /\ NumOps \in Nat
  /\ Operands \in [Op -> SUBSET (HasResult \cup {0})]
  /\ Captured \in [Op -> SUBSET HasResult]
  /\ \A o \in Op : \A v \in Operands[o] \cup Captured[o] : v < o
  /\ \A o \in Op : Operands[o] = {} => Captured[o] = {}
  /\ SideEffect \subseteq Op /\ DbgPrint \subseteq Op /\ FreeOp \subseteq Op
  /\ FreeOp \cap SideEffect = {}
  /\ Interactive \subseteq Op
  /\ Returned \subseteq HasResult \cup {0}

\* populateRuntimeConfig gives the concurrency a non-zero default.
ASSUME ThreadAssumption ==
  /\ Thread # {}
  /\ NoThread \notin Thread
  /\ MaxSpurious \in Nat

VARIABLES
  mainPc,    \* mainPc[p]: where BlockParallelRunner::run of party p is
  forked,    \* forked[p]: contexts party p has spawned
  enqueued,  \* enqueued[p]: tasks pushed by the main thread
  popped,    \* popped[p]: tasks popped by the workers
  chan,      \* chan[p][o]: the link the forked context of o talks on, 0 if none
  symbols,   \* symbols[p]: keys of the block's SymbolScope
  pc,        \* pc[p][t]: where worker t of party p is
  task,      \* task[p][t]: the operation worker t holds, 0 if none
  mutex,     \* mutex[p]: owner of SymbolTableEvent::mutex
  sent,      \* sent[p]: <<link, operation>> of every kernel message p sent
  spurious   \* spurious[p]: spurious wake-ups so far

vars == <<mainPc, forked, enqueued, popped, chan, symbols, pc, task, mutex,
          sent, spurious>>

-----------------------------------------------------------------------------
(* Dependencies of a task.                                                 *)

\* run() collects the results of the side-effecting operations met so far,
\* debug prints excluded, before it queues the next operation.
SideEffectDeps(o) ==
  {e \in SideEffect \ DbgPrint : e < o}

\* The OpExecTask constructor adds the captured values.
ExtraDependencies(o) ==
  SideEffectDeps(o) \cup Captured[o]

\* Mutant: only the operands are waited for.
ReadyOperandsOnly(p, o) == Operands[o] \subseteq symbols[p]

\* OpExecTask::ready
Ready(p, o) ==
  /\ Operands[o] \subseteq symbols[p]
  /\ ExtraDependencies(o) \subseteq symbols[p]

\* What runKernel looks up: the operands and, in nested regions, the captures.
LookedUp(o) == Operands[o] \cup Captured[o]

\* Mutant: a FreeOp removes its operands although other tasks may need them.
ScopeAfterFreed(scope, o) ==
  IF o \in HasResult THEN scope \cup {o}
  ELSE IF o \in FreeOp THEN scope \ Operands[o] ELSE scope

\* What runKernel leaves in the scope.  Under do_parallel a FreeOp returns
\* without removing its operand.
ScopeAfter(scope, o) ==
  IF o \in HasResult THEN scope \cup {o} ELSE scope

\* Mutant: every task talks on the one link of the parent context.
ForkedLinkShared(n) == 1

\* The link id that Spawn gives to the n-th fork of a party.
ForkedLink(n) == n

-----------------------------------------------------------------------------
Init ==
  /\ mainPc = [p \in Party |-> "fork"]
  /\ forked = [p \in Party |-> 0]
  /\ enqueued = [p \in Party |-> 0]
  /\ popped = [p \in Party |-> 0]
  /\ chan = [p \in Party |-> [o \in Op |-> 0]]
  /\ symbols = [p \in Party |-> {0}]
  /\ pc = [p \in Party |-> [t \in Thread |-> "unborn"]]
  /\ task = [p \in Party |-> [t \in Thread |-> 0]]
  /\ mutex = [p \in Party |-> NoThread]
  /\ sent = [p \in Party |-> {}]
  /\ spurious = [p \in Party |-> 0]

(* The main thread. *)

\* sctx_->fork(): spawn a link, then enter the AllGather of the SPUContext
\* constructor on it.
Fork(p) ==
  /\ mainPc[p] = "fork"
  /\ enqueued[p] < NumOps
  /\ forked' = [forked EXCEPT ![p] = @ + 1]
  /\ chan' = [chan EXCEPT ![p][enqueued[p] + 1] = ForkedLink(forked[p] + 1)]
  /\ mainPc' = [mainPc EXCEPT ![p] = "gather"]
  /\ UNCHANGED <<enqueued, popped, symbols, pc, task, mutex, sent, spurious>>

\* The AllGather returns once every party has entered it; the task is queued.
Enqueue(p) ==
  /\ mainPc[p] = "gather"
  /\ \A q \in Party : forked[q] >= forked[p]
  /\ enqueued' = [enqueued EXCEPT ![p] = @ + 1]
  /\ mainPc' = [mainPc EXCEPT ![p] = "fork"]
  /\ UNCHANGED <<forked, popped, chan, symbols, pc, task, mutex, sent, spurious>>

\* All tasks are queued: start the workers and join them.
StartThreads(p) ==
  /\ mainPc[p] = "fork"
  /\ enqueued[p] = NumOps
  /\ mainPc' = [mainPc EXCEPT ![p] = "join"]
  /\ pc' = [pc EXCEPT ![p] = [t \in Thread |-> "idle"]]
  /\ UNCHANGED <<forked, enqueued, popped, chan, symbols, task, mutex, sent,
                 spurious>>

\* The workers are joined; the terminator's operands are looked up.
Return(p) ==
  /\ mainPc[p] = "join"
  /\ \A t \in Thread : pc[p][t] = "exit"
  /\ mainPc' = [mainPc EXCEPT ![p] =
                  IF Returned \subseteq symbols[p] THEN "returned" ELSE "thrown"]
  /\ UNCHANGED <<forked, enqueued, popped, chan, symbols, pc, task, mutex, sent,
                 spurious>>

(* A worker thread: run_task and OpExecTask::run. *)

\* Mutant: a task is taken without looking whether the queue is empty.
PopTaskUnchecked(p, t) ==
  /\ pc[p][t] = "idle"
  /\ popped' = [popped EXCEPT ![p] = @ + 1]
  /\ task' = [task EXCEPT ![p][t] = popped[p] + 1]
  /\ pc' = [pc EXCEPT ![p][t] = "lock"]
  /\ UNCHANGED <<mainPc, forked, enqueued, chan, symbols, mutex, sent, spurious>>

\* Under queue_mtx_: take the front task.  A task without operands skips the wait.
PopTask(p, t) ==
  /\ pc[p][t] = "idle"
  /\ popped[p] < enqueued[p]
  /\ popped' = [popped EXCEPT ![p] = @ + 1]
  /\ task' = [task EXCEPT ![p][t] = popped[p] + 1]
  /\ pc' = [pc EXCEPT ![p][t] =
              IF Operands[popped[p] + 1] = {} THEN "kernel" ELSE "lock"]
  /\ UNCHANGED <<mainPc, forked, enqueued, chan, symbols, mutex, sent, spurious>>

\* Under queue_mtx_: the queue is empty, the thread function returns.
Exit(p, t) ==
  /\ pc[p][t] = "idle"
  /\ popped[p] = enqueued[p]
  /\ pc' = [pc EXCEPT ![p][t] = "exit"]
  /\ UNCHANGED <<mainPc, forked, enqueued, popped, chan, symbols, task, mutex,
                 sent, spurious>>

\* Lock the event mutex, at the start of the wait or after a wake-up.
LockEvent(p, t) ==
  /\ pc[p][t] = "lock"
  /\ mutex[p] = NoThread
  /\ mutex' = [mutex EXCEPT ![p] = t]
  /\ pc' = [pc EXCEPT ![p][t] = "check"]
  /\ UNCHANGED <<mainPc, forked, enqueued, popped, chan, symbols, task, sent,
                 spurious>>

\* cv.wait evaluates ready(); when it holds the lock is dropped.
CheckReady(p, t) ==
  /\ pc[p][t] = "check"
  /\ IF Ready(p, task[p][t])
     THEN /\ pc' = [pc EXCEPT ![p][t] = "kernel"]
          /\ mutex' = [mutex EXCEPT ![p] = NoThread]
     ELSE /\ pc' = [pc EXCEPT ![p][t] = "unready"]
          /\ UNCHANGED mutex
  /\ UNCHANGED <<mainPc, forked, enqueued, popped, chan, symbols, task, sent,
                 spurious>>

\* cv.wait releases the mutex and blocks in one step.
Sleep(p, t) ==
  /\ pc[p][t] = "unready"
  /\ mutex' = [mutex EXCEPT ![p] = NoThread]
  /\ pc' = [pc EXCEPT ![p][t] = "asleep"]
  /\ UNCHANGED <<mainPc, forked, enqueued, popped, chan, symbols, task, sent,
                 spurious>>

\* A condition variable may wake up without a notification.
SpuriousWakeup(p, t) ==
  /\ pc[p][t] = "asleep"
  /\ spurious[p] < MaxSpurious
  /\ spurious' = [spurious EXCEPT ![p] = @ + 1]
  /\ pc' = [pc EXCEPT ![p][t] = "lock"]
  /\ UNCHANGED <<mainPc, forked, enqueued, popped, chan, symbols, task, mutex, sent>>

\* runKernel: look the inputs up and send the first message on the task's own
\* link.  A failed lookup throws out of the thread function.
StartKernel(p, t) ==
  LET o == task[p][t] IN
  /\ pc[p][t] = "kernel"
  /\ IF LookedUp(o) \subseteq symbols[p]
     THEN /\ pc' = [pc EXCEPT ![p][t] = "running"]
          /\ sent' = [sent EXCEPT ![p] =
                        IF o \in Interactive THEN @ \cup {<<chan[p][o], o>>} ELSE @]
     ELSE /\ pc' = [pc EXCEPT ![p][t] = "terminated"]
          /\ UNCHANGED sent
  /\ UNCHANGED <<mainPc, forked, enqueued, popped, chan, symbols, task, mutex,
                 spurious>>

\* The kernel has its peers' messages: it adds its results to the scope.
FinishKernel(p, t) ==
  LET o == task[p][t] IN
  /\ pc[p][t] = "running"
  /\ o \in Interactive =>
       \A q \in Party : \E m \in sent[q] : m[1] = chan[p][o]
  /\ symbols' = [symbols EXCEPT ![p] = ScopeAfter(@, o)]
  /\ pc' = [pc EXCEPT ![p][t] = "notify"]
  /\ UNCHANGED <<mainPc, forked, enqueued, popped, chan, task, mutex, sent, spurious>>

\* Mutant: notify_all without the event mutex.
NotifyUnlocked(p, t) ==
  /\ pc[p][t] = "notify"
  /\ pc' = [pc EXCEPT ![p] =
              [u \in Thread |-> IF u = t THEN "idle"
                                ELSE IF pc[p][u] = "asleep" THEN "lock"
                                ELSE pc[p][u]]]
  /\ task' = [task EXCEPT ![p][t] = 0]
  /\ UNCHANGED <<mainPc, forked, enqueued, popped, chan, symbols, mutex, sent,
                 spurious>>

\* Lock the event mutex, notify_all, unlock, go back for the next task.
Notify(p, t) ==
  /\ pc[p][t] = "notify"
  /\ mutex[p] = NoThread
  /\ pc' = [pc EXCEPT ![p] =
              [u \in Thread |-> IF u = t THEN "idle"
                                ELSE IF pc[p][u] = "asleep" THEN "lock"
                                ELSE pc[p][u]]]
  /\ task' = [task EXCEPT ![p][t] = 0]
  /\ UNCHANGED <<mainPc, forked, enqueued, popped, chan, symbols, mutex, sent,
                 spurious>>

Worker(p, t) ==
  \/ PopTask(p, t)
  \/ Exit(p, t)
  \/ LockEvent(p, t)
  \/ CheckReady(p, t)
  \/ Sleep(p, t)
  \/ StartKernel(p, t)
  \/ FinishKernel(p, t)
  \/ Notify(p, t)

Main(p) == Fork(p) \/ Enqueue(p) \/ StartThreads(p) \/ Return(p)

\* Every party has returned.
Done ==
  /\ \A p \in Party : mainPc[p] = "returned"
  /\ UNCHANGED vars

Next ==
  \/ \E p \in Party : Main(p)
  \/ \E p \in Party, t \in Thread : Worker(p, t) \/ SpuriousWakeup(p, t)
  \/ Done

Spec == Init /\ [][Next]_vars

\* The operating system runs every runnable thread; nothing is assumed of the
\* order in which a mutex is granted.
Fairness ==
  /\ \A p \in Party : WF_vars(Main(p))
  /\ \A p \in Party, t \in Thread : WF_vars(Worker(p, t))

FairSpec == Spec /\ Fairness

-----------------------------------------------------------------------------
(* Properties.                                                             *)

MainPc == {"fork", "gather", "join", "returned", "thrown"}
WorkerPc == {"unborn", "idle", "lock", "check", "unready", "asleep", "kernel",
             "running", "notify", "exit", "terminated"}

\* Every variable has its type.
TypeOK ==
  /\ mainPc \in [Party -> MainPc]
  /\ forked \in [Party -> 0 .. NumOps]
  /\ enqueued \in [Party -> 0 .. NumOps]
  /\ popped \in [Party -> 0 .. NumOps]
  /\ chan \in [Party -> [Op -> 0 .. NumOps]]
  /\ symbols \in [Party -> SUBSET (Op \cup {0})]
  /\ pc \in [Party -> [Thread -> WorkerPc]]
  /\ task \in [Party -> [Thread -> Op \cup {0}]]
  /\ mutex \in [Party -> Thread \cup {NoThread}]
  /\ sent \in [Party -> SUBSET ((0 .. NumOps) \X Op)]
  /\ spurious \in [Party -> 0 .. MaxSpurious]

\* Operation o of party p has been run: its task is off the queue and no worker
\* holds it before the point where its results are in the scope.
Completed(p) ==
  {o \in Op : /\ o <= popped[p]
              /\ \A t \in Thread : task[p][t] = o => pc[p][t] = "notify"}

\* No kernel ever looks up a value that is not in the scope, and neither does
\* the terminator, whatever order the workers take: such a lookup throws out
\* of the thread function and ends the process (SymbolScope::lookupValue).
NoLookupFailure ==
  \A p \in Party :
    /\ mainPc[p] # "thrown"
    /\ \A t \in Thread : pc[p][t] # "terminated"

\* Side effects happen in program order: an operation with operands completes
\* only after every earlier side-effecting operation that has a result.
SideEffectOrder ==
  \A p \in Party : \A o \in Completed(p) :
    Operands[o] # {} => SideEffectDeps(o) \subseteq Completed(p)

\* Kernels of different parties that talk on one link run the same operation,
\* and the same operation is run on one link everywhere, although every party
\* schedules its operations by itself.
ChannelPairing ==
  \A p, q \in Party : \A m \in sent[p], n \in sent[q] :
    (m[1] = n[1]) <=> (m[2] = n[2])

\* A worker sleeps on the condition variable with its task ready only while
\* another worker is about to notify: no wake-up is lost.
NoLostWakeup ==
  \A p \in Party, t \in Thread :
    pc[p][t] = "asleep" /\ Ready(p, task[p][t]) =>
      \E u \in Thread : pc[p][u] = "notify"

\* The operations an operation waits for.  The one without operands is not
\* made to wait for anything (OpExecTask::run skips cv.wait).
Deps == [o \in Op |-> IF Operands[o] = {} THEN {}
                      ELSE (Operands[o] \ {0}) \cup ExtraDependencies(o)]

Dataflow == INSTANCE DataflowBlock
              WITH Joint <- Interactive, done <- [p \in Party |-> Completed(p)]

\* The runner evaluates the block as a dataflow graph.
RefinesDataflow == Dataflow!Spec

\* ... and every operation that may complete does.
RefinesFairDataflow == Dataflow!FairSpec

-----------------------------------------------------------------------------
(* The inductive invariant behind the safety properties, part by part.     *)

\* The main thread: contexts are forked and tasks queued in program order,
\* and no worker exists before all of them are queued.
MainInv ==
  \A p \in Party :
    /\ popped[p] <= enqueued[p]
    /\ forked[p] = IF mainPc[p] = "gather" THEN enqueued[p] + 1 ELSE enqueued[p]
    /\ mainPc[p] \in {"fork", "gather"} =>
         popped[p] = 0 /\ \A t \in Thread : pc[p][t] = "unborn"
    /\ mainPc[p] \notin {"fork", "gather"} =>
         enqueued[p] = NumOps /\ \A t \in Thread : pc[p][t] # "unborn"

\* A worker that is between two tasks holds none, no task is held twice.
TaskInv ==
  \A p \in Party, t \in Thread :
    /\ pc[p][t] \in {"unborn", "idle", "exit"} <=> task[p][t] = 0
    /\ task[p][t] <= popped[p]
    /\ \A u \in Thread : u # t /\ task[p][t] # 0 => task[p][u] # task[p][t]
    /\ pc[p][t] = "exit" => popped[p] = NumOps

\* The event mutex is held by the worker that evaluates ready().
MutexInv ==
  \A p \in Party, t \in Thread :
    mutex[p] = t <=> pc[p][t] \in {"check", "unready"}

\* The scope holds the block arguments and the results of what completed.
ScopeInv ==
  \A p \in Party : symbols[p] = {0} \cup (Completed(p) \cap HasResult)

\* Once past the wait, a task finds everything it depends on in the scope.
KernelInv ==
  \A p \in Party, t \in Thread :
    pc[p][t] \in {"kernel", "running", "notify"} =>
      Deps[task[p][t]] \subseteq symbols[p]

\* So does every operation that completed.
CompletedInv ==
  \A p \in Party : \A o \in Completed(p) : Deps[o] \subseteq symbols[p]

\* The n-th fork is the context of operation n, at every party.
LinkInv ==
  \A p \in Party :
    /\ \A o \in Op : chan[p][o] = IF o <= forked[p] THEN o ELSE 0
    /\ \A m \in sent[p] : m[1] = m[2] /\ Deps[m[2]] \subseteq symbols[p]

\* A worker that found its task unready goes to sleep holding the mutex, so a
\* result that arrives in between is notified only after it sleeps.
WakeupInv ==
  \A p \in Party, t \in Thread :
    pc[p][t] \in {"unready", "asleep"} /\ Ready(p, task[p][t]) =>
      \E u \in Thread : pc[p][u] = "notify"

IndInv ==
  /\ TypeOK /\ MainInv /\ TaskInv /\ MutexInv /\ ScopeInv /\ KernelInv
  /\ CompletedInv /\ LinkInv /\ WakeupInv /\ NoLookupFailure

-----------------------------------------------------------------------------
\* Every party returns: no deadlock between the workers of one party, nor
\* between parties whose workers wait for each other's messages.
Termination == <>(\A p \in Party : mainPc[p] = "returned")

=============================================================================
