------------------------------ MODULE FerretIO ------------------------------
(***************************************************************************)
(* The byte streams of an OT instance (BufferedIO and the Send*/Recv*      *)
(* operations of YaclFerretOt, libspu/mpc/cheetah/ot/yacl/ferret.cc).      *)
(*                                                                         *)
(* Both ranks run the same operations, now one being the sender, now the   *)
(* other.  An operation first gets its correlations, which may extend the  *)
(* OT buffer (a message each way), then the flips of the choices (one      *)
(* message to the sender), and last the masked inputs: a stream of bytes   *)
(* that the sender writes, and the receiver reads, one batch at a time.    *)
(* All of it goes over one link, and no message says what it is.           *)
(***************************************************************************)
EXTENDS Naturals, Sequences

CONSTANTS
  BufferSize,  \* SEND_BUFFER_SIZE, in bytes
  Batches,     \* what an operation writes: its bytes up to the end of each batch
  MaxOps       \* bound on the number of operations of the program

Rank == {0, 1}
Peer(r) == 1 - r

\* flips: the receiver chooses.  Random choices come with no payload.
Operation ==
  {q \in [sender : Rank, extends : BOOLEAN, flips : BOOLEAN, ends : Batches \cup {<<>>}] :
     q.flips \/ q.ends = <<>>}

ASSUME StreamAssumption ==
  /\ BufferSize \in Nat \ {0} /\ MaxOps \in Nat
  /\ Batches \subseteq Seq(Nat \ {0})
  /\ \A e \in Batches : \A i, j \in 1 .. Len(e) : i < j => e[i] < e[j]

VARIABLES
  program,  \* the operations so far, as far as a rank has got
  done,     \* done[r]: how many of them r has finished
  pc,       \* where r is in its operation
  batch,    \* the batch r is at
  offset,   \* the bytes of the operation written or read before
  wbuf,     \* send_buffer_ up to send_buffer_used_, of r's sender
  rbuf,     \* recv_buffer_ from recv_buffer_used_, of r's receiver
  net       \* net[r]: messages on their way to r

vars == <<program, done, pc, batch, offset, wbuf, rbuf, net>>

Current(r) == program[done[r] + 1]
Sends(r) == Current(r).sender = r

\* The bytes of an operation up to the end of its b-th batch.
End(q, b) == IF b = 0 THEN 0 ELSE q.ends[b]

\* The bytes of r's batch still to be written or read.
Todo(r) == End(Current(r), batch[r]) - offset[r]

\* The bytes of an operation from offset o on, n of them.
Bytes(op, o, n) == [i \in 1 .. n |-> <<op, o + i>>]

Flips(op) == [kind |-> "flips", op |-> op, bytes |-> <<>>]
Extension(op) == [kind |-> "extension", op |-> op, bytes |-> <<>>]
Data(op, b) == [kind |-> "data", op |-> op, bytes |-> b]

-----------------------------------------------------------------------------
Post(r, m) == net' = [net EXCEPT ![Peer(r)] = Append(@, m)]

Arrived(r) == net[r] # <<>>

Consume(r) == net' = [net EXCEPT ![r] = Tail(@)]

\* Mutant: an empty buffer is sent as well.
FlushAlways(r, b) == Post(r, Data(done[r] + 1, b))

\* flush
Flush(r, b) == IF b = <<>> THEN UNCHANGED net ELSE Post(r, Data(done[r] + 1, b))

Init ==
  /\ program = <<>>
  /\ done = [r \in Rank |-> 0] /\ pc = [r \in Rank |-> "idle"]
  /\ batch = [r \in Rank |-> 0] /\ offset = [r \in Rank |-> 0]
  /\ wbuf = [r \in Rank |-> <<>>] /\ rbuf = [r \in Rank |-> <<>>]
  /\ net = [r \in Rank |-> <<>>]

\* The program calls the next operation, at the rank that gets there first.
Call(r) ==
  /\ pc[r] = "idle" /\ done[r] < MaxOps
  /\ IF done[r] < Len(program) THEN UNCHANGED program
     ELSE \E q \in Operation : program' = Append(program, q)
  /\ pc' = [pc EXCEPT ![r] = IF program'[done[r] + 1].extends THEN "extend" ELSE "choose"]
  /\ batch' = [batch EXCEPT ![r] = 0] /\ offset' = [offset EXCEPT ![r] = 0]
  /\ UNCHANGED <<done, wbuf, rbuf, net>>

\* rcot runs out of correlations at both ranks at the same time.
Extend(r) ==
  /\ pc[r] = "extend"
  /\ Post(r, Extension(done[r] + 1))
  /\ pc' = [pc EXCEPT ![r] = "extended"]
  /\ UNCHANGED <<program, done, batch, offset, wbuf, rbuf>>

Extended(r) ==
  /\ pc[r] = "extended" /\ Arrived(r)
  /\ Consume(r)
  /\ pc' = [pc EXCEPT ![r] = "choose"]
  /\ UNCHANGED <<program, done, batch, offset, wbuf, rbuf>>

\* send_cot waits for the flips, recv_cot sends them; the random-choice
\* operations do neither.
Choose(r) ==
  /\ pc[r] = "choose"
  /\ IF ~Current(r).flips THEN UNCHANGED net
     ELSE IF Sends(r) THEN Arrived(r) /\ Consume(r)
     ELSE Post(r, Flips(done[r] + 1))
  /\ pc' = [pc EXCEPT ![r] = "stream"]
  /\ UNCHANGED <<program, done, batch, offset, wbuf, rbuf>>

\* The loop over the batches calls send_data or recv_data.
NextBatch(r) ==
  /\ pc[r] = "stream" /\ Todo(r) = 0 /\ batch[r] < Len(Current(r).ends)
  /\ batch' = [batch EXCEPT ![r] = @ + 1]
  /\ UNCHANGED <<program, done, pc, offset, wbuf, rbuf, net>>

\* Mutant: a batch that just fills the buffer does not flush it.
FillsLate(r) == BufferSize - Len(wbuf[r]) < Todo(r)

Fills(r) == BufferSize - Len(wbuf[r]) <= Todo(r)

\* One level of send_data: fill the buffer and flush it, or store the rest.
SendData(r) ==
  LET n == IF Fills(r) THEN BufferSize - Len(wbuf[r]) ELSE Todo(r)
      b == wbuf[r] \o Bytes(done[r] + 1, offset[r], n)
  IN  /\ pc[r] = "stream" /\ Sends(r) /\ Todo(r) > 0
      /\ IF Fills(r) THEN Flush(r, b) /\ wbuf' = [wbuf EXCEPT ![r] = <<>>]
         ELSE UNCHANGED net /\ wbuf' = [wbuf EXCEPT ![r] = b]
      /\ offset' = [offset EXCEPT ![r] = @ + n]
      /\ UNCHANGED <<program, done, pc, batch, rbuf>>

\* Mutant: a buffer that holds just the batch is filled again first.
SufficesMore(r) == Len(rbuf[r]) > Todo(r)

Suffices(r) == Len(rbuf[r]) >= Todo(r)

\* Mutant: fill_recv without copying what is left in the buffer.
UnreadDropped(r) == 0

\* How much of the batch is taken from the buffer before the next fill_recv.
Unread(r) == Len(rbuf[r])

\* One level of recv_data.  Its send buffer is always empty: the object of a
\* receiver never sends.
RecvData(r) ==
  /\ pc[r] = "stream" /\ ~Sends(r) /\ Todo(r) > 0
  /\ IF Suffices(r)
     THEN /\ rbuf' = [rbuf EXCEPT ![r] = SubSeq(@, Todo(r) + 1, Len(@))]
          /\ offset' = [offset EXCEPT ![r] = @ + Todo(r)]
          /\ UNCHANGED net
     ELSE /\ Arrived(r) /\ Consume(r)
          /\ rbuf' = [rbuf EXCEPT ![r] = Head(net[r]).bytes]
          /\ offset' = [offset EXCEPT ![r] = @ + Unread(r)]
  /\ UNCHANGED <<program, done, pc, batch, wbuf>>

\* Mutant: the sender returns with bytes in its buffer.
LastFlushNone(r) == UNCHANGED <<wbuf, net>>

\* The flush that ends every Send operation.
LastFlush(r) == Flush(r, wbuf[r]) /\ wbuf' = [wbuf EXCEPT ![r] = <<>>]

Return(r) ==
  /\ pc[r] = "stream" /\ Todo(r) = 0 /\ batch[r] = Len(Current(r).ends)
  /\ IF Sends(r) THEN LastFlush(r) ELSE UNCHANGED <<wbuf, net>>
  /\ pc' = [pc EXCEPT ![r] = "idle"] /\ done' = [done EXCEPT ![r] = @ + 1]
  /\ UNCHANGED <<program, batch, offset, rbuf>>

Step(r) ==
  \/ Call(r) \/ Extend(r) \/ Extended(r) \/ Choose(r)
  \/ NextBatch(r) \/ SendData(r) \/ RecvData(r) \/ Return(r)

AllDone == \A r \in Rank : done[r] = MaxOps

Done == AllDone /\ UNCHANGED vars

Next == (\E r \in Rank : Step(r)) \/ Done

Spec == Init /\ [][Next]_vars

\* Both ranks run.
FairSpec == Spec /\ \A r \in Rank : WF_vars(Step(r))

-----------------------------------------------------------------------------
(* Properties.                                                             *)

\* The buffers never hold a full send buffer between two calls.
TypeOK ==
  /\ program \in Seq(Operation)
  /\ \A r \in Rank :
       /\ done[r] \in 0 .. MaxOps
       /\ pc[r] \in {"idle", "extend", "extended", "choose", "stream"}
       /\ pc[r] # "idle" => done[r] < Len(program) /\ batch[r] <= Len(Current(r).ends)
       /\ offset[r] \in Nat /\ pc[r] = "stream" => offset[r] <= End(Current(r), batch[r])
       /\ Len(wbuf[r]) < BufferSize /\ Len(rbuf[r]) <= BufferSize

\* Whatever kind of message the step r is at takes from the link, and of
\* whichever operation: it is the one that the step waits for.
MessagesExpected ==
  \A r \in Rank : Arrived(r) /\ pc[r] # "idle" =>
    LET m == Head(net[r]) IN
    /\ pc[r] = "extended" => m = Extension(done[r] + 1)
    /\ pc[r] = "choose" /\ Sends(r) /\ Current(r).flips => m = Flips(done[r] + 1)
    /\ pc[r] = "stream" /\ ~Sends(r) /\ ~Suffices(r) =>
         m.kind = "data" /\ m.op = done[r] + 1

\* The bytes a receiver reads are those the sender wrote, none missing and in
\* order, however the batches fall across the buffers: its buffer starts at the
\* offset of the receiver, the first message goes on where the buffer ends, and
\* each message where the one before it does.
BytesInOrder ==
  \A r \in Rank : pc[r] = "stream" /\ ~Sends(r) =>
    LET op == done[r] + 1
        b(i) == net[r][i].bytes
        Before(i) == IF i = 1 THEN offset[r] + Len(rbuf[r]) ELSE b(i - 1)[Len(b(i - 1))][2]
    IN  /\ rbuf[r] = Bytes(op, offset[r], Len(rbuf[r]))
        /\ \A i \in 1 .. Len(net[r]) : net[r][i].op = op =>
             b(i) # <<>> /\ b(i) = Bytes(op, Before(i), Len(b(i)))

\* Nothing of an operation outlives it: a rank that is done with it leaves no
\* byte in its buffers nor in the messages to it.
StreamsDrained ==
  \A r \in Rank :
    /\ pc[r] \notin {"stream"} => wbuf[r] = <<>> /\ rbuf[r] = <<>>
    /\ \A i \in 1 .. Len(net[r]) : net[r][i].op > done[r]

\* Every operation of the program returns at both ranks.
Termination == <>AllDone

=============================================================================
