----------------------------- MODULE OTDispatch -----------------------------
(***************************************************************************)
(* How an operation on many elements is spread over the OT instances of    *)
(* the Cheetah protocol (libspu/mpc/cheetah/tiled_dispatch.cc and          *)
(* CheetahOTState in state.h), at both ranks.                              *)
(*                                                                         *)
(* Every rank cuts its input into slices and runs the operation on each,   *)
(* the last one on the calling thread and the others through std::async    *)
(* without a policy: on a thread of their own, or on the calling thread    *)
(* when it waits for them.  A slice uses an OT instance of its own, which  *)
(* has a link of its own, so that the slices of the ranks meet.            *)
(*                                                                         *)
(* What an operation says on its link is one message each way.  Elements   *)
(* are numbered from 0, workers too.                                       *)
(***************************************************************************)
EXTENDS Integers, Sequences

CONSTANTS
  Cores,        \* the number of cores of each rank
  MaxParallel,  \* kMaxOTParallel
  MinWork,      \* kMinWorkSize
  Program       \* the calls every rank makes, in order

Rank == {0, 1}
Peer(r) == 1 - r

\* jobs: number of slices' elements, the same at both ranks.  batcher: the ranks
\* whose input has batch elements for each.  first: the rank that speaks first.
Call == [jobs : Nat \ {0}, batch : Nat \ {0}, batcher : SUBSET Rank, first : Rank]

ASSUME DispatchAssumption ==
  /\ Cores \in [Rank -> Nat \ {0}] /\ MaxParallel \in Nat \ {0}
  /\ MinWork \in Nat \ {0} /\ MaxParallel - 1 <= MinWork
  /\ Program \in Seq(Call)

VARIABLES
  pc,      \* where the calling thread is
  at,      \* the call it is in
  w,       \* the worker its loop is at
  inst,    \* basic_ot_prot_: the link of every instance, 0 while there is none
  spawned, \* number of links spawned
  setup,   \* half-steps of the constructor of BasicOTProtocols
  task,    \* the slice of every worker
  got,     \* what the peer said to it
  outs,    \* outs: the elements it worked on, from and up to
  chan     \* the messages to each rank on each link

vars == <<pc, at, w, inst, spawned, setup, task, got, outs, chan>>

-----------------------------------------------------------------------------
(* Slices.                                                                 *)

Least(a, b) == IF a < b THEN a ELSE b
CeilDiv(a, b) == (a + b - 1) \div b

\* Mutant: the ranks do not agree on the number of instances.
InstancesOwn(r) == Least(Cores[r], MaxParallel)

\* The AllGather in the constructor of SPUContext takes the least of the ranks.
Instances(r) == Least(Least(Cores[0], Cores[1]), MaxParallel)

Worker(r) == 0 .. Instances(r) - 1

\* Mutant: a worker for every element.
WorkersGreedy(r, n) == Least(Instances(r), n)

Workers(r, n) == Least(Instances(r), CeilDiv(n, MinWork))

Workload(r, n) == CeilDiv(n, Workers(r, n))

\* The end of slice v, and the beginning: the last one takes what is left.
SliceEnd(r, n, v) ==
  IF v + 1 < Workers(r, n) THEN Least(n, (v + 1) * Workload(r, n)) ELSE n

SliceBgn(r, n, v) ==
  IF v + 1 < Workers(r, n) THEN v * Workload(r, n)
  ELSE IF v = 0 THEN 0 ELSE SliceEnd(r, n, v - 1)

Current(r) == Program[at[r]]
Jobs(r) == Current(r).jobs
NWorker(r) == Workers(r, Jobs(r))

\* How many elements of its input a rank has for each job.
Scale(r) == IF r \in Current(r).batcher THEN Current(r).batch ELSE 1

\* The slice of the input that worker v of rank r gets.
Slice(r, v) ==
  [bgn |-> Scale(r) * SliceBgn(r, Jobs(r), v), end |-> Scale(r) * SliceEnd(r, Jobs(r), v)]

\* What it is about.
About(r, v) == [call |-> at[r],
                bgn |-> Slice(r, v).bgn \div Scale(r), end |-> Slice(r, v).end \div Scale(r)]

TaskState == {"none", "deferred", "ready", "half", "done"}

Unset == [call |-> 0, bgn |-> 0, end |-> 0]
Message == [call : Nat, bgn : Nat, end : Nat]

-----------------------------------------------------------------------------
(* Links.                                                                  *)

Send(r, l, m) == chan' = [chan EXCEPT ![l][Peer(r)] = Append(@, m)]

Arrived(r, l) == chan[l][r] # <<>>

Consume(r, l) == chan' = [chan EXCEPT ![l][r] = Tail(@)]

Init ==
  /\ pc = [r \in Rank |-> "return"]
  /\ at = [r \in Rank |-> 0] /\ w = [r \in Rank |-> 0]
  /\ inst = [r \in Rank |-> [v \in Worker(r) |-> 0]]
  /\ spawned = [r \in Rank |-> 0] /\ setup = [r \in Rank |-> 0]
  /\ task = [r \in Rank |-> [v \in Worker(r) |-> "none"]]
  /\ got = [r \in Rank |-> [v \in Worker(r) |-> Unset]]
  /\ outs = [r \in Rank |-> [v \in Worker(r) |-> Unset]]
  /\ chan = [l \in 1 .. MaxParallel |-> [r \in Rank |-> <<>>]]

-----------------------------------------------------------------------------
(* The calling thread.                                                     *)

StartCall(r) ==
  /\ pc[r] = "return" /\ at[r] < Len(Program)
  /\ at' = [at EXCEPT ![r] = @ + 1]
  /\ pc' = [pc EXCEPT ![r] = "init"] /\ w' = [w EXCEPT ![r] = 0]
  /\ task' = [task EXCEPT ![r] = [v \in Worker(r) |-> "none"]]
  /\ got' = [got EXCEPT ![r] = [v \in Worker(r) |-> Unset]]
  /\ outs' = [outs EXCEPT ![r] = [v \in Worker(r) |-> Unset]]
  /\ UNCHANGED <<inst, spawned, setup, chan>>

\* Mutant: the instance of the calling thread itself is forgotten.
ToInitOthers(r) == NWorker(r) - 1

ToInit(r) == NWorker(r)

\* Mutant: LazyInit does not look whether the instance is there.
PresentNever(r) == FALSE

Present(r) == inst[r][w[r]] # 0

\* LazyInit of instance w: nothing, or a link and the setup of both roles on it.
LazyInit(r) ==
  /\ pc[r] = "init" /\ w[r] < ToInit(r)
  /\ IF Present(r)
     THEN w' = [w EXCEPT ![r] = @ + 1] /\ UNCHANGED <<pc, spawned>>
     ELSE /\ spawned' = [spawned EXCEPT ![r] = @ + 1]
          /\ pc' = [pc EXCEPT ![r] = "setup"] /\ UNCHANGED w
  /\ UNCHANGED <<at, inst, setup, task, got, outs, chan>>

\* Rank 0 sets its sender up before its receiver, rank 1 the other way round.  Of
\* the two ends of a setup the receiver speaks first (OneTimeSetup is yacl's).
Speaks(r) == setup[r] \in (IF r = 0 THEN {1, 2} ELSE {0, 3})

SetupStep(r) ==
  /\ pc[r] = "setup"
  /\ IF Speaks(r) THEN Send(r, spawned[r], Unset)
     ELSE Arrived(r, spawned[r]) /\ Consume(r, spawned[r])
  /\ setup' = [setup EXCEPT ![r] = (@ + 1) % 4]
  /\ IF setup[r] < 3 THEN UNCHANGED <<pc, w, inst>>
     ELSE /\ inst' = [inst EXCEPT ![r][w[r]] = spawned[r]]
          /\ pc' = [pc EXCEPT ![r] = "init"] /\ w' = [w EXCEPT ![r] = @ + 1]
  /\ UNCHANGED <<at, spawned, task, got, outs>>

EndInit(r) ==
  /\ pc[r] = "init" /\ w[r] = ToInit(r)
  /\ pc' = [pc EXCEPT ![r] = "launch"] /\ w' = [w EXCEPT ![r] = 0]
  /\ UNCHANGED <<at, inst, spawned, setup, task, got, outs, chan>>

\* std::async without a policy may start the slice, or put it off until f.get().
Launch(r) ==
  /\ pc[r] = "launch" /\ w[r] + 1 < NWorker(r)
  /\ \E how \in {"ready", "deferred"} : task' = [task EXCEPT ![r][w[r]] = how]
  /\ w' = [w EXCEPT ![r] = @ + 1]
  /\ UNCHANGED <<pc, at, inst, spawned, setup, got, outs, chan>>

\* The calling thread takes the last slice.
OwnSlice(r) ==
  /\ pc[r] = "launch" /\ w[r] + 1 = NWorker(r)
  /\ task' = [task EXCEPT ![r][w[r]] = "ready"]
  /\ pc' = [pc EXCEPT ![r] = "own"]
  /\ UNCHANGED <<at, w, inst, spawned, setup, got, outs, chan>>

EndOwnSlice(r) ==
  /\ pc[r] = "own" /\ task[r][w[r]] = "done"
  /\ pc' = [pc EXCEPT ![r] = "join"] /\ w' = [w EXCEPT ![r] = 0]
  /\ UNCHANGED <<at, inst, spawned, setup, task, got, outs, chan>>

Joined(r) == task[r][w[r]] = "done"

\* f.get(), in order.
Join(r) ==
  /\ pc[r] = "join" /\ w[r] + 1 < NWorker(r)
  /\ \/ /\ task[r][w[r]] = "deferred"
        /\ task' = [task EXCEPT ![r][w[r]] = "ready"] /\ UNCHANGED w
     \/ Joined(r) /\ w' = [w EXCEPT ![r] = @ + 1] /\ UNCHANGED task
  /\ UNCHANGED <<pc, at, inst, spawned, setup, got, outs, chan>>

Return(r) ==
  /\ pc[r] = "join" /\ w[r] + 1 = NWorker(r)
  /\ pc' = [pc EXCEPT ![r] = "return"]
  /\ UNCHANGED <<at, w, inst, spawned, setup, task, got, outs, chan>>

Caller(r) ==
  \/ StartCall(r) \/ LazyInit(r) \/ SetupStep(r) \/ EndInit(r) \/ Launch(r)
  \/ OwnSlice(r) \/ EndOwnSlice(r) \/ Join(r) \/ Return(r)

-----------------------------------------------------------------------------
(* The slices.                                                             *)

\* Mutant: every slice uses the first instance.
LinkFirst(r, v) == inst[r][0]

Link(r, v) == inst[r][v]

Finished(r, v) ==
  /\ task' = [task EXCEPT ![r][v] = "done"]
  /\ outs' = [outs EXCEPT ![r][v] = About(r, v)]

SliceSpeak(r, v) ==
  LET first == Current(r).first = r
  IN  /\ task[r][v] \in {"ready", "half"} /\ (task[r][v] = "ready" <=> first)
      /\ Send(r, Link(r, v), About(r, v))
      /\ IF first THEN task' = [task EXCEPT ![r][v] = "half"] /\ UNCHANGED outs
         ELSE Finished(r, v)
      /\ UNCHANGED <<pc, at, w, inst, spawned, setup, got>>

SliceListen(r, v) ==
  LET first == Current(r).first = r
  IN  /\ task[r][v] \in {"ready", "half"} /\ (task[r][v] = "half" <=> first)
      /\ Arrived(r, Link(r, v)) /\ Consume(r, Link(r, v))
      /\ got' = [got EXCEPT ![r][v] = Head(chan[Link(r, v)][r])]
      /\ IF first THEN Finished(r, v)
         ELSE task' = [task EXCEPT ![r][v] = "half"] /\ UNCHANGED outs
      /\ UNCHANGED <<pc, at, w, inst, spawned, setup>>

SliceStep(r, v) == SliceSpeak(r, v) \/ SliceListen(r, v)

AllReturned == \A r \in Rank : pc[r] = "return" /\ at[r] = Len(Program)

Done == AllReturned /\ UNCHANGED vars

Next ==
  \/ Done
  \/ \E r \in Rank : Caller(r) \/ \E v \in Worker(r) : SliceStep(r, v)

Spec == Init /\ [][Next]_vars

\* Every thread gets to run.
FairSpec ==
  /\ Spec
  /\ \A r \in Rank :
       WF_vars(Caller(r)) /\ \A v \in Worker(r) : WF_vars(SliceStep(r, v))

-----------------------------------------------------------------------------
(* Properties.                                                             *)

TypeOK ==
  /\ pc \in [Rank -> {"return", "init", "setup", "launch", "own", "join"}]
  /\ at \in [Rank -> 0 .. Len(Program)]
  /\ \A r \in Rank : at[r] = 0 => pc[r] = "return"
  /\ w \in [Rank -> Nat]
  /\ \A r \in Rank : pc[r] \in {"setup", "launch", "own", "join"} => w[r] < NWorker(r)
  /\ inst \in [Rank -> [Worker(0) -> 0 .. Instances(0)]]
  /\ spawned \in [Rank -> 0 .. Instances(0)] /\ setup \in [Rank -> 0 .. 3]
  /\ task \in [Rank -> [Worker(0) -> TaskState]]
  /\ got \in [Rank -> [Worker(0) -> Message]] /\ outs \in [Rank -> [Worker(0) -> Message]]
  /\ chan \in [1 .. MaxParallel -> [Rank -> Seq(Message)]]

\* SPU_ENFORCE(basic_ot_prot_[idx], "call LazyInit first"): whichever thread asks
\* for its instance, it is there, and no other slice shares its link.
InstancesReady ==
  \A r \in Rank : \A v \in Worker(r) :
    task[r][v] # "none" =>
      /\ inst[r][v] # 0
      /\ \A u \in Worker(r) \ {v} : inst[r][u] # inst[r][v]

\* A slice hears what the peer says about the same elements in the same call,
\* wherever and in whatever order the slices of either rank run.
SlicesPaired ==
  \A r \in Rank : \A v \in Worker(r) : got[r][v] # Unset => got[r][v] = About(r, v)

\* The outputs that a call concatenates are of this call, none is empty, and
\* together they are of every element, once and in order.
OutputComplete ==
  \A r \in Rank : pc[r] = "return" /\ at[r] > 0 =>
    /\ outs[r][0].bgn = 0 /\ outs[r][NWorker(r) - 1].end = Jobs(r)
    /\ \A v \in 0 .. NWorker(r) - 1 :
         /\ outs[r][v].call = at[r] /\ outs[r][v].bgn < outs[r][v].end
         /\ v > 0 => outs[r][v].bgn = outs[r][v - 1].end

\* Every call of every rank returns.
Termination == <>AllReturned

=============================================================================
