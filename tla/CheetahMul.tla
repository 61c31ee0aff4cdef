----------------------------- MODULE CheetahMul -----------------------------
(***************************************************************************)
(* The two-party homomorphic multiplication of                             *)
(* libspu/mpc/cheetah/arith/cheetah_mul.cc, driven by the kernels of       *)
(* cheetah/arithmetic.cc and by the Beaver cache of cheetah/state.cc.      *)
(*                                                                         *)
(* Both ranks run the same program of kernels.  A kernel is one or two     *)
(* multiplication tasks: the main thread runs one on one link while a      *)
(* std::async thread runs the other on the duplicated link.  In a task one *)
(* rank encrypts and sends ciphertexts, the other one (the evaluator)      *)
(* multiplies and answers.  Ciphertexts are identified by what they are    *)
(* about; encryption, encoding and arithmetic are left out.                *)
(***************************************************************************)
EXTENDS Integers, Sequences, SequencesExt

CONSTANTS
  Program,   \* sequence of kernels [kind, bits, n], owner too for "mulav"
  Slots,     \* kPolyDegree: the elements packed in one ciphertext
  Batch,     \* kCtAsyncParallel: ciphertexts sent per blocking Send
  Window     \* throttle window: unconsumed messages a blocking Send allows

Rank == {0, 1}
Worker == {"main", "sub"}
Link == {"lctx", "duplx"}

\* The products that reach MulOLE and MulShare; empty operands return before.
Kernels ==
  [kind : {"beaver", "square", "direct"}, bits : {32, 64, 128}, n : Nat \ {0}]
    \cup [kind : {"mulav"}, bits : {32, 64, 128}, n : Nat \ {0}, owner : Rank]

ASSUME ProgramAssumption ==
  /\ Slots \in Nat \ {0} /\ Batch \in Nat \ {0} /\ Window \in Nat \ {0}
  /\ Program \in Seq(Kernels)
  /\ \A i \in 1 .. Len(Program) :
       Program[i].kind = "direct" => Program[i].n >= 2 * Slots

CeilDiv(a, b) == (a + b - 1) \div b

\* TotalCRTBitLen / small_crt_prime_len_ without the one-bit-error option: the
\* SEAL contexts (one per CRT prime) a ring of so many bits works with.
WorkingContextSize(bits) ==
  LET nprimes == CeilDiv(bits + bits + 32, 45) IN
  IF nprimes > 7 THEN 7 ELSE nprimes

-----------------------------------------------------------------------------
(* The tasks a kernel is made of.                                          *)

Task(link, streams, evaluator, n) ==
  [link |-> link, streams |-> streams, evaluator |-> evaluator, n |-> n]

NoTask == Task("lctx", 0, 0, 0)

\* Mutant: the second half does not go to the duplicated link.
SubTaskOneLink(k) ==
  CASE k.kind = "square" ->
         Task("lctx", 1, 0, IF k.n <= Slots THEN k.n ELSE k.n \div 2)
    [] k.kind = "direct" -> Task("lctx", 2, 0, k.n - k.n \div 2)
    [] OTHER -> NoTask

\* What the std::async thread runs: SquareA and MulAA::mulDirectly.
SubTask(k) ==
  CASE k.kind = "square" ->
         Task("lctx", 1, 0, IF k.n <= Slots THEN k.n ELSE k.n \div 2)
    [] k.kind = "direct" -> Task("duplx", 2, 0, k.n - k.n \div 2)
    [] OTHER -> NoTask

\* What the calling thread runs itself.
MainTask(k) ==
  CASE k.kind = "beaver" -> Task("lctx", 1, 0, CeilDiv(2 * k.n, Slots) * Slots)
    [] k.kind = "mulav" -> Task("lctx", 1, 1 - k.owner, k.n)
    [] k.kind = "square" ->
         IF k.n <= Slots THEN NoTask ELSE Task("duplx", 1, 1, k.n - k.n \div 2)
    [] k.kind = "direct" -> Task("lctx", 2, 1, k.n \div 2)

TaskOf(k, w) == IF w = "main" THEN MainTask(k) ELSE SubTask(k)

\* Ciphertexts of one array of n elements.
NumPolys(bits, n) == WorkingContextSize(bits) * CeilDiv(n, Slots)

VARIABLES
  op,        \* op[r]: the kernel rank r is at
  kpc,       \* kpc[r]: LazyInitKeys, key exchange, task start, running
  seal,      \* seal[r]: number of SEAL contexts (and of CRT primes)
  peerKey,   \* peerKey[r]: has the public key of the peer
  helpers,   \* helpers[r]: ring sizes with a ModulusSwitchHelper
  tpc,       \* tpc[r][w]: where the task of thread w is
  count,     \* count[r][w]: messages of the current phase done
  net        \* net[r][l]: messages on link l that r has not consumed

vars == <<op, kpc, seal, peerKey, helpers, tpc, count, net>>

Peer(r) == 1 - r
Kernel(r) == Program[op[r]]
Running(r, w) == TaskOf(Kernel(r), w)

Init ==
  /\ op = [r \in Rank |-> 1]
  /\ kpc = [r \in Rank |-> "lazyinit"]
  /\ seal = [r \in Rank |-> 0]
  /\ peerKey = [r \in Rank |-> FALSE]
  /\ helpers = [r \in Rank |-> {}]
  /\ tpc = [r \in Rank |-> [w \in Worker |-> "none"]]
  /\ count = [r \in Rank |-> [w \in Worker |-> 0]]
  /\ net = [r \in Rank |-> [l \in Link |-> <<>>]]

-----------------------------------------------------------------------------
(* LazyInitKeys: LazyExpandSEALContexts and LazyInitModSwitchHelper.       *)

\* Mutant: a ring that needs more contexts than there are does not expand them.
LazyInitKeysOnce(r) ==
  /\ op[r] <= Len(Program)
  /\ kpc[r] = "lazyinit"
  /\ IF seal[r] = 0
     THEN /\ kpc' = [kpc EXCEPT ![r] = IF r = 1 THEN "sendpk" ELSE "recvpk"]
          /\ UNCHANGED <<seal, helpers>>
     ELSE /\ helpers' = [helpers EXCEPT ![r] = @ \cup {Kernel(r).bits}]
          /\ kpc' = [kpc EXCEPT ![r] = "start"]
          /\ UNCHANGED seal
  /\ UNCHANGED <<op, peerKey, tpc, count, net>>

\* Enough contexts: only the helper may be missing.  Otherwise the first
\* context comes with the exchange of the public keys, and the later ones copy
\* the keys of the first.
LazyInitKeys(r) ==
  /\ op[r] <= Len(Program)
  /\ kpc[r] = "lazyinit"
  /\ IF seal[r] = 0
     THEN /\ kpc' = [kpc EXCEPT ![r] = IF r = 1 THEN "sendpk" ELSE "recvpk"]
          /\ UNCHANGED <<seal, helpers>>
     ELSE LET need == WorkingContextSize(Kernel(r).bits) IN
          /\ seal' = [seal EXCEPT ![r] = IF @ < need THEN need ELSE @]
          /\ helpers' = [helpers EXCEPT ![r] = @ \cup {Kernel(r).bits}]
          /\ kpc' = [kpc EXCEPT ![r] = "start"]
  /\ UNCHANGED <<op, peerKey, tpc, count, net>>

\* After the exchange the remaining contexts are expanded locally.
ExpandAll(r) ==
  /\ seal' = [seal EXCEPT ![r] = WorkingContextSize(Kernel(r).bits)]
  /\ helpers' = [helpers EXCEPT ![r] = @ \cup {Kernel(r).bits}]
  /\ kpc' = [kpc EXCEPT ![r] = "start"]

\* Mutant: both ranks receive before they send.
SendPkLast(r) ==
  /\ kpc[r] = "sendpk" /\ peerKey[r]
  /\ Len(net[Peer(r)]["lctx"]) < Window
  /\ net' = [net EXCEPT ![Peer(r)]["lctx"] = Append(@, <<"pk">>)]
  /\ ExpandAll(r)
  /\ UNCHANGED <<op, peerKey, tpc, count>>

\* Rank 1 sends its key first, rank 0 after it has received.
SendPk(r) ==
  /\ kpc[r] = "sendpk"
  /\ Len(net[Peer(r)]["lctx"]) < Window
  /\ net' = [net EXCEPT ![Peer(r)]["lctx"] = Append(@, <<"pk">>)]
  /\ IF peerKey[r]
     THEN ExpandAll(r)
     ELSE kpc' = [kpc EXCEPT ![r] = "recvpk"] /\ UNCHANGED <<seal, helpers>>
  /\ UNCHANGED <<op, peerKey, tpc, count>>

RecvPk(r) ==
  /\ kpc[r] = "recvpk"
  /\ net[r]["lctx"] # <<>>
  /\ net' = [net EXCEPT ![r]["lctx"] = Tail(@)]
  /\ peerKey' = [peerKey EXCEPT ![r] = Head(net[r]["lctx"]) = <<"pk">>]
  /\ IF r = 1
     THEN ExpandAll(r)
     ELSE kpc' = [kpc EXCEPT ![r] = "sendpk"] /\ UNCHANGED <<seal, helpers>>
  /\ UNCHANGED <<op, tpc, count>>

-----------------------------------------------------------------------------
(* A kernel starts its tasks and joins them.                               *)

FirstPhase(r, t) ==
  IF t.n = 0 THEN "finished"
  ELSE IF t.evaluator = r THEN "evalrecv" ELSE "encsend"

\* mulDirectly asks for std::launch::async; SquareA leaves the policy open, and
\* a deferred subtask runs only when the main thread calls get().
StartTasks(r) ==
  /\ kpc[r] = "start"
  /\ kpc' = [kpc EXCEPT ![r] = "running"]
  /\ \E policy \in IF Kernel(r).kind = "square" THEN {"async", "deferred"}
                   ELSE {"async"} :
       tpc' = [tpc EXCEPT ![r] = [w \in Worker |->
                 IF w = "sub" /\ policy = "deferred" THEN "deferred"
                 ELSE FirstPhase(r, TaskOf(Kernel(r), w))]]
  /\ count' = [count EXCEPT ![r] = [w \in Worker |-> 0]]
  /\ UNCHANGED <<op, seal, peerKey, helpers, net>>

\* subtask.get() on a deferred task.
RunDeferred(r) ==
  /\ tpc[r]["main"] = "finished" /\ tpc[r]["sub"] = "deferred"
  /\ tpc' = [tpc EXCEPT ![r]["sub"] = FirstPhase(r, SubTask(Kernel(r)))]
  /\ UNCHANGED <<op, kpc, seal, peerKey, helpers, count, net>>

\* Both halves are there: the kernel returns, the program goes on.
Join(r) ==
  /\ kpc[r] = "running"
  /\ \A w \in Worker : tpc[r][w] = "finished"
  /\ op' = [op EXCEPT ![r] = @ + 1]
  /\ kpc' = [kpc EXCEPT ![r] = "lazyinit"]
  /\ tpc' = [tpc EXCEPT ![r] = [w \in Worker |-> "none"]]
  /\ UNCHANGED <<seal, peerKey, helpers, count, net>>

-----------------------------------------------------------------------------
(* One task: MulOLE (one stream of ciphertexts) or MulShare (two).         *)

Polys(r, w) == NumPolys(Kernel(r).bits, Running(r, w).n)

\* Message number i of a phase of a task: the kernel, the half of its input,
\* ciphertext or answer, position in the stream, context it is encrypted in.
Message(r, w, phase, i) ==
  LET p == Polys(r, w) IN
  <<phase, op[r], w, i, (i % p) \div CeilDiv(Running(r, w).n, Slots)>>

\* The blocking Send of a batch, then its SendAsync's.
SendBatch(r, w, phase, total) ==
  LET l == Running(r, w).link
      m == IF total - count[r][w] < Batch THEN total - count[r][w] ELSE Batch
  IN  /\ Len(net[Peer(r)][l]) < Window
      /\ net' = [net EXCEPT ![Peer(r)][l] =
                   @ \o [j \in 1 .. m |-> Message(r, w, phase, count[r][w] + j - 1)]]
      /\ count' = [count EXCEPT ![r][w] = @ + m]

ReceiveOne(r, w) ==
  LET l == Running(r, w).link IN
  /\ net[r][l] # <<>>
  /\ net' = [net EXCEPT ![r][l] = Tail(@)]
  /\ count' = [count EXCEPT ![r][w] = @ + 1]

MoveTo(r, w, next) ==
  /\ tpc' = [tpc EXCEPT ![r][w] = next]
  /\ count' = [count EXCEPT ![r][w] = 0]
  /\ UNCHANGED net

\* EncryptArrayThenSend, once for MulOLE and twice for MulShare; the batches of
\* one array do not run over into the next.
EncryptThenSend(r, w) ==
  LET p == Polys(r, w)
      total == Running(r, w).streams * p
      array == (count[r][w] \div p + 1) * p
  IN  /\ tpc[r][w] = "encsend"
      /\ IF count[r][w] < total
         THEN SendBatch(r, w, "ct", array) /\ UNCHANGED tpc
         ELSE MoveTo(r, w, "encrecv")
      /\ UNCHANGED <<op, kpc, seal, peerKey, helpers>>

\* The encryptor collects the answers and decrypts them (DecryptArray).
ReceiveThenDecrypt(r, w) ==
  /\ tpc[r][w] = "encrecv"
  /\ IF count[r][w] < Polys(r, w)
     THEN ReceiveOne(r, w) /\ UNCHANGED tpc
     ELSE MoveTo(r, w, "finished")
  /\ UNCHANGED <<op, kpc, seal, peerKey, helpers>>

\* The io_task of the evaluator.
EvaluatorReceive(r, w) ==
  /\ tpc[r][w] = "evalrecv"
  /\ IF count[r][w] < Running(r, w).streams * Polys(r, w)
     THEN ReceiveOne(r, w) /\ UNCHANGED tpc
     ELSE MoveTo(r, w, "respond")
  /\ UNCHANGED <<op, kpc, seal, peerKey, helpers>>

\* MulThenResponse or FMAThenResponse.
MulThenResponse(r, w) ==
  /\ tpc[r][w] = "respond"
  /\ IF count[r][w] < Polys(r, w)
     THEN SendBatch(r, w, "resp", Polys(r, w)) /\ UNCHANGED tpc
     ELSE MoveTo(r, w, "finished")
  /\ UNCHANGED <<op, kpc, seal, peerKey, helpers>>

Step(r) ==
  \/ LazyInitKeys(r) \/ SendPk(r) \/ RecvPk(r)
  \/ StartTasks(r) \/ RunDeferred(r) \/ Join(r)
  \/ \E w \in Worker :
       \/ EncryptThenSend(r, w) \/ ReceiveThenDecrypt(r, w)
       \/ EvaluatorReceive(r, w) \/ MulThenResponse(r, w)

Done ==
  /\ \A r \in Rank : op[r] > Len(Program)
  /\ UNCHANGED vars

Next == (\E r \in Rank : Step(r)) \/ Done

Spec == Init /\ [][Next]_vars

\* Every thread of a rank is run by the operating system.
FairSpec ==
  /\ Spec
  /\ \A r \in Rank :
       /\ WF_vars(LazyInitKeys(r) \/ SendPk(r) \/ RecvPk(r)
                  \/ StartTasks(r) \/ RunDeferred(r) \/ Join(r))
       /\ \A w \in Worker : WF_vars(EncryptThenSend(r, w) \/ ReceiveThenDecrypt(r, w)
                                    \/ EvaluatorReceive(r, w) \/ MulThenResponse(r, w))

-----------------------------------------------------------------------------
(* Properties.                                                             *)

\* What a thread is about to take from its link is the message it expects: the
\* same kernel, the same half of the input, the next ciphertext of the stream,
\* encrypted in the context it will be decrypted in.  Two threads share the
\* keys, and messages carry no tag that is checked on reception.
ReceivedAsExpected ==
  \A r \in Rank :
    /\ kpc[r] = "recvpk" /\ net[r]["lctx"] # <<>> => Head(net[r]["lctx"]) = <<"pk">>
    /\ \A w \in Worker :
         LET queue == net[r][Running(r, w).link] IN
         /\ /\ tpc[r][w] = "evalrecv" /\ queue # <<>>
            /\ count[r][w] < Running(r, w).streams * Polys(r, w)
            => Head(queue) = Message(r, w, "ct", count[r][w])
         /\ /\ tpc[r][w] = "encrecv" /\ queue # <<>>
            /\ count[r][w] < Polys(r, w)
            => Head(queue) = Message(r, w, "resp", count[r][w])

\* While tasks run, the shared SEAL contexts and helpers cover the ring of the
\* kernel, so that neither thread expands them under the other, and the two
\* ranks agree on how many primes a ciphertext array has.
ContextsReady ==
  \A r \in Rank : kpc[r] = "running" =>
    /\ seal[r] >= WorkingContextSize(Kernel(r).bits)
    /\ Kernel(r).bits \in helpers[r]
    /\ peerKey[r]

\* The program ends: no rank waits for a message that is never sent.
Termination == <>(\A r \in Rank : op[r] > Len(Program))

=============================================================================
