---------------------------- MODULE OTPairProofs ----------------------------
(***************************************************************************)
(* Proofs about OTPair: for every program of OTs and every size of an      *)
(* extension, of the reserve and of the requests, the two endpoints        *)
(* consume the same correlations for the same purpose, and every message   *)
(* is read by the step it was meant for.                                   *)
(*                                                                         *)
(* The endpoints share no state, and either of them may be ahead.  But an  *)
(* endpoint has no choice: what it does next follows from its state and    *)
(* the program.  So there is one run of an endpoint on which both are: the *)
(* one behind will come to where the other one is, and what it consumes,   *)
(* sends and waits for until then, the other one has consumed, sent and    *)
(* waited for before.                                                      *)
(***************************************************************************)
EXTENDS OTPair, SequenceTheorems, TLAPS

-----------------------------------------------------------------------------
(* An endpoint.                                                            *)

\* A point of a run of an endpoint: its variables, the messages that a receiver
\* at this point has sent, and those that a sender at this point has read.
At(done, pc, busy, need, off, data, inplace, buf, used, upper, ext, spent, sent, got) ==
  [done |-> done, pc |-> pc, busy |-> busy, need |-> need, off |-> off, data |-> data,
   inplace |-> inplace, buf |-> buf, used |-> used, upper |-> upper, ext |-> ext,
   spent |-> spent, sent |-> sent, got |-> got]

Point(x) ==
  x = At(x.done, x.pc, x.busy, x.need, x.off, x.data, x.inplace, x.buf, x.used, x.upper,
         x.ext, x.spent, x.sent, x.got)

Sender(sent, got) ==
  At(sdone, spc, sbusy, sneed, soff, sdata, sinplace, sbuf, sused, supper, sext, sspent,
     sent, got)

Receiver(sent, got) ==
  At(rdone, rpc, rbusy, rneed, roff, rdata, rinplace, rbuf, rused, rupper, rext, rspent,
     sent, got)

Ext(g) == <<"ext", g>>
Flip(k) == <<"flip", k>>

\* The steps of an endpoint, from x to y, when the program is qs.
StartsSetup(x, y) ==
  /\ x.pc = "setup" /\ ~x.busy
  /\ y = At(x.done, x.pc, TRUE, x.need, x.off, x.data, x.inplace, x.buf, x.used, x.upper,
            x.ext + 1, x.spent, Append(x.sent, Ext(x.ext + 1)), x.got)

EndsSetup(x, y) ==
  /\ x.pc = "setup" /\ x.busy
  /\ y = At(x.done, "idle", FALSE, x.need, x.off, x.data, x.inplace, S!Batch(x.ext, PreN),
            Reserve, PreN, x.ext, x.spent, x.sent, Append(x.got, Ext(x.ext)))

StartsFrom(x, y, seeds) ==
  y = At(x.done, x.pc, TRUE, x.need, x.off, x.data, x.inplace, x.buf, x.used, x.upper,
         x.ext + 1, Append(x.spent, seeds), Append(x.sent, Ext(x.ext + 1)), x.got)

StartsInplace(x, y) ==
  /\ x.pc = "loop" /\ ~x.busy /\ x.need >= N
  /\ StartsFrom(x, y, IF x.inplace THEN S!Slice(x.data, x.off, Reserve)
                                   ELSE S!Slice(x.buf, 0, Reserve))

EndsInplace(x, y) ==
  /\ x.pc = "loop" /\ x.busy
  /\ y = At(x.done, x.pc, FALSE, x.need - (N - Reserve), x.off + (N - Reserve),
            S!Copied(x.data, x.off, S!Batch(x.ext, N), 0, N), TRUE, x.buf, x.used, x.upper,
            x.ext, x.spent, x.sent, Append(x.got, Ext(x.ext)))

StartsBootstrap(x, y) ==
  /\ x.pc \in {"bootstrap", "again"} /\ ~x.busy
  /\ StartsFrom(x, y, S!Slice(x.buf, 0, Reserve))

Worst(x) == x.pc = "bootstrap" /\ x.need > N - Reserve

EndsBootstrap(x, y) ==
  LET n == IF Worst(x) THEN N - Reserve ELSE x.need
      fresh == S!Batch(x.ext, N)
  IN  /\ x.pc \in {"bootstrap", "again"} /\ x.busy
      /\ y = At(x.done, IF Worst(x) THEN "again" ELSE "return", FALSE, x.need - n, x.off + n,
                S!Copied(x.data, x.off, fresh, Reserve, n), x.inplace, fresh,
                IF Worst(x) THEN Reserve ELSE Reserve + n, N,
                x.ext, x.spent, x.sent, Append(x.got, Ext(x.ext)))

Calls(x, y, qs) ==
  /\ x.pc = "idle" /\ x.done < Len(qs)
  /\ y = At(x.done, "loop", x.busy, qs[x.done + 1].n, 0, <<>>, FALSE, x.buf, x.used, x.upper,
            x.ext, x.spent, x.sent, x.got)

Takes(x, y) ==
  LET left == x.upper - x.used
      n == IF left < x.need THEN left ELSE x.need
      seeds == [i \in 1 .. N |-> IF i <= Reserve THEN x.data[x.off + i] ELSE x.buf[i]]
  IN  /\ x.pc = "loop" /\ ~x.busy /\ ~(x.need >= N)
      /\ y = At(x.done, IF n < x.need THEN "bootstrap" ELSE "return", x.busy, x.need - n,
                x.off + n, S!Copied(x.data, x.off, x.buf, x.used, n), FALSE,
                IF x.inplace THEN seeds ELSE x.buf, x.used + n, x.upper,
                x.ext, x.spent, x.sent, x.got)

\* A chosen OT ends with the flips: the receiver sends them, the sender waits.
Told(s, x, qs) == IF qs[x.done + 1].cot THEN Append(s, Flip(x.done + 1)) ELSE s

Returns(x, y, qs) ==
  /\ x.pc = "return" /\ x.done < Len(qs)
  /\ y = At(x.done + 1, "idle", x.busy, x.need, 0, <<>>, x.inplace, x.buf, x.used, x.upper,
            x.ext, Append(x.spent, S!Slice(x.data, 0, x.off)),
            Told(x.sent, x, qs), Told(x.got, x, qs))

StepOf(x, y, qs) ==
  \/ StartsSetup(x, y) \/ EndsSetup(x, y) \/ StartsInplace(x, y) \/ EndsInplace(x, y)
  \/ StartsBootstrap(x, y) \/ EndsBootstrap(x, y)
  \/ Calls(x, y, qs) \/ Takes(x, y) \/ Returns(x, y, qs)

-----------------------------------------------------------------------------
(* The inductive invariant.                                                *)

IsSeq(s) == \E T : s \in Seq(T)

Prefix(s, t) == Len(s) <= Len(t) /\ \A k \in 1 .. Len(s) : s[k] = t[k]

\* At every point what is sent and not read is the message of the extension
\* that is under way, if there is one.
PointInv(x, qs) ==
  /\ Point(x)
  /\ x.done \in Nat /\ x.ext \in Nat /\ x.busy \in BOOLEAN
  /\ IsSeq(x.spent) /\ IsSeq(x.sent) /\ IsSeq(x.got)
  /\ x.pc \in {"setup", "idle", "loop", "bootstrap", "again", "return"}
  /\ x.busy => x.pc \notin {"idle", "return"} /\ x.ext >= 1
  /\ x.pc \notin {"setup", "idle"} => x.done < Len(qs)
  /\ x.sent = IF x.busy THEN Append(x.got, Ext(x.ext)) ELSE x.got

Grows(x, y) == Prefix(x.spent, y.spent) /\ Prefix(x.sent, y.sent)

\* The first L points of a run.
IsRun(f, L, qs) ==
  /\ L \in Nat
  /\ \A k \in 1 .. L : PointInv(f[k], qs)
  /\ \A k \in 1 .. L : k + 1 \in 1 .. L => StepOf(f[k], f[k + 1], qs)
  /\ \A k, l \in 1 .. L : k <= l => Grows(f[k], f[l])

\* Link n carries what of sent is not in got.
Carries(n, sent, got) ==
  /\ Len(sent) = Len(got) + Len(n)
  /\ \A k \in 1 .. Len(n) : n[k] = sent[Len(got) + k]

\* The sender is at point i of the run, the receiver at point j.
Meet(f, L, i, j) ==
  /\ IsRun(f, L, requests)
  /\ i \in 1 .. L /\ f[i] = Sender(f[i].sent, f[i].got)
  /\ j \in 1 .. L /\ f[j] = Receiver(f[j].sent, f[j].got)
  /\ Carries(toS, f[j].sent, f[i].got)

\* The extensions the receiver has ended; it waits for the message of the next.
Ended == IF rbusy THEN rext - 1 ELSE rext

ToRInv ==
  /\ Len(toR) = sext - Ended
  /\ \A k \in 1 .. Len(toR) : toR[k] = Ext(Ended + k)

IInv ==
  /\ IsSeq(requests) /\ IsSeq(toS) /\ IsSeq(toR)
  /\ ToRInv
  /\ \E f, L, i, j : Meet(f, L, i, j)

-----------------------------------------------------------------------------
(* Sequences.                                                              *)

LEMMA EmptyIsSeq == IsSeq(<<>>) /\ Len(<<>>) = 0
<1>1. <<>> \in Seq({})
  OBVIOUS
<1> QED
  BY <1>1 DEF IsSeq

LEMMA AppendIsSeq ==
  ASSUME NEW s, NEW e, IsSeq(s)
  PROVE  /\ IsSeq(Append(s, e)) /\ Len(s) \in Nat /\ Len(Append(s, e)) = Len(s) + 1
         /\ \A k \in 1 .. Len(s) : Append(s, e)[k] = s[k]
         /\ Append(s, e)[Len(s) + 1] = e
         /\ Prefix(s, Append(s, e))
<1>1. PICK T : s \in Seq(T)
  BY DEF IsSeq
<1> DEFINE U == T \cup {e}
<1>2. s \in Seq(U) /\ e \in U
  BY <1>1
<1> HIDE DEF U
<1>3. /\ Append(s, e) \in Seq(U) /\ Len(s) \in Nat /\ Len(Append(s, e)) = Len(s) + 1
      /\ \A k \in 1 .. Len(s) : Append(s, e)[k] = s[k]
      /\ Append(s, e)[Len(s) + 1] = e
  BY <1>2, AppendProperties, LenProperties
<1> QED
  BY <1>3 DEF IsSeq, Prefix

LEMMA TailIsSeq ==
  ASSUME NEW s, IsSeq(s), s # <<>>
  PROVE  /\ IsSeq(Tail(s)) /\ Len(s) \in Nat \ {0} /\ Len(Tail(s)) = Len(s) - 1
         /\ Head(s) = s[1]
         /\ \A k \in 1 .. Len(s) - 1 : Tail(s)[k] = s[k + 1]
<1>1. PICK T : s \in Seq(T)
  BY DEF IsSeq
<1>2. /\ Tail(s) \in Seq(T) /\ Len(s) \in Nat /\ Len(s) # 0 /\ Len(Tail(s)) = Len(s) - 1
      /\ Head(s) = s[1]
      /\ \A k \in 1 .. Len(s) - 1 : Tail(s)[k] = s[k + 1]
  BY <1>1, HeadTailProperties, EmptySeq, LenProperties
<1> QED
  BY <1>2 DEF IsSeq

LEMMA PrefixFacts ==
  ASSUME NEW s, IsSeq(s)
  PROVE  Len(s) \in Nat /\ Prefix(s, s)
<1>1. Len(s) \in Nat
  BY LenProperties DEF IsSeq
<1> QED
  BY <1>1 DEF Prefix

LEMMA PrefixTransitive ==
  ASSUME NEW s, NEW t, NEW u, IsSeq(s), IsSeq(t), IsSeq(u), Prefix(s, t), Prefix(t, u)
  PROVE  Prefix(s, u)
<1>1. Len(s) \in Nat /\ Len(t) \in Nat /\ Len(u) \in Nat
  BY PrefixFacts
<1> QED
  BY <1>1 DEF Prefix

-----------------------------------------------------------------------------
(* Runs of an endpoint.                                                    *)

\* An endpoint has no choice.
LEMMA OneStep ==
  ASSUME NEW x, NEW y, NEW z, NEW qs, StepOf(x, y, qs), StepOf(x, z, qs)
  PROVE  y = z
<1>1. \A w : /\ StartsSetup(x, w) => x.pc = "setup" /\ ~x.busy
             /\ EndsSetup(x, w) => x.pc = "setup" /\ x.busy
             /\ StartsInplace(x, w) => x.pc = "loop" /\ ~x.busy /\ x.need >= N
             /\ EndsInplace(x, w) => x.pc = "loop" /\ x.busy
             /\ StartsBootstrap(x, w) => x.pc \in {"bootstrap", "again"} /\ ~x.busy
             /\ EndsBootstrap(x, w) => x.pc \in {"bootstrap", "again"} /\ x.busy
             /\ Calls(x, w, qs) => x.pc = "idle"
             /\ Takes(x, w) => x.pc = "loop" /\ ~x.busy /\ ~(x.need >= N)
             /\ Returns(x, w, qs) => x.pc = "return"
  BY DEF StartsSetup, EndsSetup, StartsInplace, EndsInplace, StartsBootstrap,
         EndsBootstrap, Calls, Takes, Returns
<1>2. StartsSetup(x, y) /\ StartsSetup(x, z) => y = z
  BY DEF StartsSetup
<1>3. EndsSetup(x, y) /\ EndsSetup(x, z) => y = z
  BY DEF EndsSetup
<1>4. StartsInplace(x, y) /\ StartsInplace(x, z) => y = z
  BY DEF StartsInplace, StartsFrom
<1>5. EndsInplace(x, y) /\ EndsInplace(x, z) => y = z
  BY DEF EndsInplace
<1>6. StartsBootstrap(x, y) /\ StartsBootstrap(x, z) => y = z
  BY DEF StartsBootstrap, StartsFrom
<1>7. EndsBootstrap(x, y) /\ EndsBootstrap(x, z) => y = z
  BY DEF EndsBootstrap
<1>8. Calls(x, y, qs) /\ Calls(x, z, qs) => y = z
  BY DEF Calls
<1>9. Takes(x, y) /\ Takes(x, z) => y = z
  BY DEF Takes
<1>10. Returns(x, y, qs) /\ Returns(x, z, qs) => y = z
  BY DEF Returns
<1> QED
  BY <1>1, <1>2, <1>3, <1>4, <1>5, <1>6, <1>7, <1>8, <1>9, <1>10 DEF StepOf

LEMMA StartsKeep ==
  ASSUME NEW x, NEW y, NEW qs, PointInv(x, qs), x.pc \notin {"idle", "return"}, ~x.busy,
         \/ StartsSetup(x, y)
         \/ \E seeds : StartsFrom(x, y, seeds)
  PROVE  PointInv(y, qs) /\ Grows(x, y)
<1>1. /\ x.ext \in Nat /\ x.done \in Nat /\ IsSeq(x.spent) /\ IsSeq(x.sent) /\ IsSeq(x.got)
      /\ x.sent = x.got /\ Point(x)
  BY DEF PointInv
<1>2. /\ Point(y) /\ y.busy = TRUE /\ y.got = x.got /\ y.pc = x.pc /\ y.done = x.done
      /\ y.ext = x.ext + 1 /\ y.sent = Append(x.sent, Ext(x.ext + 1))
      /\ y.spent = x.spent \/ \E seeds : y.spent = Append(x.spent, seeds)
  <2>1. CASE StartsSetup(x, y)
    BY <2>1 DEF StartsSetup, Point, At
  <2>2. ASSUME NEW seeds, StartsFrom(x, y, seeds)
        PROVE  /\ Point(y) /\ y.busy = TRUE /\ y.got = x.got /\ y.pc = x.pc
               /\ y.done = x.done /\ y.ext = x.ext + 1
               /\ y.sent = Append(x.sent, Ext(x.ext + 1)) /\ y.spent = Append(x.spent, seeds)
    BY <2>2 DEF StartsFrom, Point, At
  <2> QED
    BY <2>1, <2>2
<1>3. /\ IsSeq(y.spent) /\ Prefix(x.spent, y.spent)
      /\ IsSeq(y.sent) /\ Prefix(x.sent, y.sent)
  <2>1. IsSeq(y.sent) /\ Prefix(x.sent, y.sent)
    BY <1>1, <1>2, AppendIsSeq
  <2>2. CASE y.spent = x.spent
    BY <1>1, <2>1, <2>2, PrefixFacts
  <2>3. ASSUME NEW seeds, y.spent = Append(x.spent, seeds)
        PROVE  IsSeq(y.spent) /\ Prefix(x.spent, y.spent)
    BY <1>1, <2>3, AppendIsSeq
  <2> QED
    BY <1>2, <2>1, <2>2, <2>3
<1>5. y.sent = Append(y.got, Ext(y.ext)) /\ y.ext \in Nat /\ y.ext >= 1
  BY <1>1, <1>2
<1>6. /\ y.pc \in {"setup", "idle", "loop", "bootstrap", "again", "return"}
      /\ y.pc \notin {"idle", "return"}
      /\ y.pc \notin {"setup", "idle"} => y.done < Len(qs)
  BY <1>2 DEF PointInv
<1> QED
  BY <1>1, <1>2, <1>3, <1>5, <1>6 DEF PointInv, Grows

LEMMA EndsKeep ==
  ASSUME NEW x, NEW y, NEW qs, PointInv(x, qs), x.busy,
         EndsSetup(x, y) \/ EndsInplace(x, y) \/ EndsBootstrap(x, y)
  PROVE  PointInv(y, qs) /\ Grows(x, y)
<1>1. /\ x.ext \in Nat /\ x.done \in Nat /\ IsSeq(x.spent) /\ IsSeq(x.sent) /\ IsSeq(x.got)
      /\ x.sent = Append(x.got, Ext(x.ext)) /\ Point(x)
      /\ x.pc # "setup" => x.done < Len(qs)
  BY DEF PointInv
<1>2. /\ Point(y) /\ y.busy = FALSE /\ y.ext = x.ext /\ y.done = x.done /\ y.spent = x.spent
      /\ y.sent = x.sent /\ y.got = Append(x.got, Ext(x.ext))
      /\ y.pc \in {"setup", "idle", "loop", "bootstrap", "again", "return"}
      /\ y.pc # "idle" => x.pc # "setup"
  BY <1>1 DEF EndsSetup, EndsInplace, EndsBootstrap, Point, At
<1>3. IsSeq(y.got) /\ Prefix(x.spent, y.spent) /\ Prefix(x.sent, y.sent)
  BY <1>1, <1>2, AppendIsSeq, PrefixFacts
<1> QED
  BY <1>1, <1>2, <1>3 DEF PointInv, Grows

LEMMA QuietKeep ==
  ASSUME NEW x, NEW y, NEW qs, PointInv(x, qs), Calls(x, y, qs) \/ Takes(x, y)
  PROVE  PointInv(y, qs) /\ Grows(x, y)
<1>1. /\ x.ext \in Nat /\ x.done \in Nat /\ IsSeq(x.spent) /\ IsSeq(x.sent) /\ IsSeq(x.got)
      /\ Point(x) /\ x.busy \in BOOLEAN
      /\ x.pc \notin {"setup", "idle"} => x.done < Len(qs)
      /\ x.busy => x.pc # "idle"
      /\ ~x.busy => x.sent = x.got
  BY DEF PointInv
<1>2. /\ Point(y) /\ y.busy = x.busy /\ ~x.busy /\ y.ext = x.ext /\ y.done = x.done
      /\ y.spent = x.spent /\ y.sent = x.sent /\ y.got = x.got
      /\ y.pc \in {"loop", "bootstrap", "return"} /\ x.done < Len(qs)
  BY <1>1 DEF Calls, Takes, Point, At
<1>3. Prefix(x.spent, y.spent) /\ Prefix(x.sent, y.sent)
  BY <1>1, <1>2, PrefixFacts
<1> QED
  BY <1>1, <1>2, <1>3 DEF PointInv, Grows

LEMMA ReturnsKeep ==
  ASSUME NEW x, NEW y, NEW qs, PointInv(x, qs), Returns(x, y, qs)
  PROVE  PointInv(y, qs) /\ Grows(x, y)
<1>1. /\ x.ext \in Nat /\ x.done \in Nat /\ IsSeq(x.spent) /\ IsSeq(x.sent) /\ IsSeq(x.got)
      /\ Point(x) /\ x.busy = FALSE /\ x.sent = x.got
  BY DEF PointInv, Returns
<1>2. /\ Point(y) /\ y.busy = FALSE /\ y.ext = x.ext /\ y.done = x.done + 1 /\ y.pc = "idle"
      /\ y.spent = Append(x.spent, S!Slice(x.data, 0, x.off))
      /\ y.sent = Told(x.sent, x, qs) /\ y.got = Told(x.got, x, qs)
  BY <1>1 DEF Returns, Point, At
<1>3. /\ IsSeq(y.sent) /\ IsSeq(y.got) /\ Prefix(x.sent, y.sent)
  BY <1>1, <1>2, AppendIsSeq, PrefixFacts DEF Told
<1>4. IsSeq(y.spent) /\ Prefix(x.spent, y.spent)
  BY <1>1, <1>2, AppendIsSeq
<1>5. y.sent = y.got /\ y.done \in Nat
  BY <1>1, <1>2 DEF Told
<1> QED
  BY <1>1, <1>2, <1>3, <1>4, <1>5 DEF PointInv, Grows

LEMMA StepKeeps ==
  ASSUME NEW x, NEW y, NEW qs, PointInv(x, qs), StepOf(x, y, qs)
  PROVE  PointInv(y, qs) /\ Grows(x, y)
<1>1. CASE StartsSetup(x, y)
  BY <1>1, StartsKeep DEF StartsSetup
<1>2. CASE StartsInplace(x, y) \/ StartsBootstrap(x, y)
  BY <1>2, StartsKeep DEF StartsInplace, StartsBootstrap
<1>3. CASE EndsSetup(x, y) \/ EndsInplace(x, y) \/ EndsBootstrap(x, y)
  <2>1. x.busy
    BY <1>3 DEF EndsSetup, EndsInplace, EndsBootstrap
  <2> QED
    BY <1>3, <2>1, EndsKeep
<1>4. CASE Calls(x, y, qs) \/ Takes(x, y)
  BY <1>4, QuietKeep
<1>5. CASE Returns(x, y, qs)
  BY <1>5, ReturnsKeep
<1> QED
  BY <1>1, <1>2, <1>3, <1>4, <1>5 DEF StepOf

\* A point that follows one of the run is on the run, or on a longer one.
LEMMA OnTheRun ==
  ASSUME NEW f, NEW L, NEW qs, IsRun(f, L, qs), NEW i \in 1 .. L, NEW y, StepOf(f[i], y, qs)
  PROVE  \E g, M : /\ IsRun(g, M, qs) /\ i + 1 \in 1 .. M /\ g[i + 1] = y
                   /\ L <= M /\ \A k \in 1 .. L : g[k] = f[k]
<1>0. L \in Nat /\ i \in Nat /\ PointInv(f[i], qs)
  BY DEF IsRun
<1>1. CASE i < L
  <2>1. i + 1 \in 1 .. L
    BY <1>0, <1>1
  <2>2. f[i + 1] = y
    BY <2>1, OneStep DEF IsRun
  <2> QED
    BY <1>0, <2>1, <2>2
<1>2. CASE i = L
  <2> DEFINE M == L + 1
             g == [k \in 1 .. M |-> IF k <= L THEN f[k] ELSE y]
  <2>1. /\ M \in Nat /\ i + 1 = M /\ M \in 1 .. M /\ L <= M
        /\ \A k \in 1 .. M : k \in 1 .. L \/ k = M
        /\ \A k \in 1 .. L : k \in 1 .. M /\ k <= L
    BY <1>0, <1>2
  <2>2. g[M] = y /\ \A k \in 1 .. L : g[k] = f[k]
    BY <1>0, <2>1
  <2> HIDE DEF M, g
  <2>3. PointInv(y, qs) /\ Grows(f[L], y)
    BY <1>0, <1>2, StepKeeps
  <2>4. \A k \in 1 .. M : PointInv(g[k], qs)
    BY <2>1, <2>2, <2>3 DEF IsRun
  <2>5. ASSUME NEW k \in 1 .. M, k + 1 \in 1 .. M
        PROVE  StepOf(g[k], g[k + 1], qs)
    <3>1. CASE k = L
      BY <1>2, <2>1, <2>2, <3>1
    <3>2. CASE k # L
      <4>1. k \in 1 .. L /\ k + 1 \in 1 .. L
        BY <1>0, <1>2, <2>1, <2>5, <3>2
      <4> QED
        BY <2>2, <4>1 DEF IsRun
    <3> QED
      BY <3>1, <3>2
  <2>6. ASSUME NEW k \in 1 .. M, NEW l \in 1 .. M, k <= l
        PROVE  Grows(g[k], g[l])
    <3>1. CASE l \in 1 .. L
      <4>1. k \in 1 .. L
        BY <1>0, <2>1, <2>6, <3>1
      <4> QED
        BY <2>2, <2>6, <3>1, <4>1 DEF IsRun
    <3>2. CASE k = M /\ l = M
      BY <2>2, <2>3, <3>2, PrefixFacts DEF Grows, PointInv
    <3>3. CASE k \in 1 .. L /\ l = M
      <4>1. L \in 1 .. L /\ k <= L
        BY <1>0, <1>2, <3>3
      <4>2. Grows(f[k], f[L]) /\ PointInv(f[k], qs) /\ PointInv(f[L], qs)
        BY <3>3, <4>1 DEF IsRun
      <4>3. Grows(f[k], y)
        BY <2>3, <4>2, PrefixTransitive DEF Grows, PointInv
      <4> QED
        BY <2>2, <3>3, <4>3
    <3> QED
      BY <2>1, <3>1, <3>2, <3>3
  <2>7. IsRun(g, M, qs)
    BY <2>1, <2>4, <2>5, <2>6 DEF IsRun
  <2> QED
    BY <2>1, <2>2, <2>7
<1> QED
  BY <1>0, <1>1, <1>2

\* The program may go on.
LEMMA LongerProgram ==
  ASSUME NEW f, NEW L, NEW qs, NEW q, IsSeq(qs), IsRun(f, L, qs)
  PROVE  IsRun(f, L, Append(qs, q))
<1> DEFINE ps == Append(qs, q)
<1>1. Len(qs) \in Nat /\ Len(ps) = Len(qs) + 1 /\ \A k \in 1 .. Len(qs) : ps[k] = qs[k]
  BY AppendIsSeq
<1> HIDE DEF ps
<1>2. ASSUME NEW k \in 1 .. L
      PROVE  PointInv(f[k], ps)
  BY <1>1 DEF IsRun, PointInv
<1>3. ASSUME NEW k \in 1 .. L, k + 1 \in 1 .. L
      PROVE  StepOf(f[k], f[k + 1], ps)
  <2> DEFINE x == f[k]
             y == f[k + 1]
  <2>1. StepOf(x, y, qs) /\ x.done \in Nat
    BY <1>3 DEF IsRun, PointInv
  <2> HIDE DEF x, y
  <2>2. x.done < Len(qs) => x.done + 1 \in 1 .. Len(qs) /\ x.done < Len(ps)
    BY <1>1, <2>1
  <2>3. Calls(x, y, qs) => Calls(x, y, ps)
    BY <1>1, <2>2 DEF Calls
  <2>4. Returns(x, y, qs) => Returns(x, y, ps)
    BY <1>1, <2>2 DEF Returns, Told
  <2>5. StepOf(x, y, ps)
    BY <2>1, <2>3, <2>4 DEF StepOf
  <2> QED
    BY <2>5 DEF x, y
<1>4. IsRun(f, L, ps)
  BY <1>2, <1>3 DEF IsRun
<1> QED
  BY <1>4 DEF ps

-----------------------------------------------------------------------------
(* The two endpoints on the run.                                           *)

\* The operators of the buffer are the same at both endpoints.
LEMMA SameArrays ==
  /\ \A g, n : R!Batch(g, n) = S!Batch(g, n)
  /\ \A a, i, n : R!Slice(a, i, n) = S!Slice(a, i, n)
  /\ \A d, o, a, i, n : R!Copied(d, o, a, i, n) = S!Copied(d, o, a, i, n)
BY DEF R!Batch, S!Batch, R!Slice, S!Slice, R!Copied, S!Copied, R!Unset, S!Unset

LEMMA ProgramGrows ==
  ASSUME IsSeq(requests), Next
  PROVE  /\ IsSeq(requests')
         /\ requests' = requests \/ \E q : requests' = Append(requests, q)
         /\ SCall => sdone < Len(requests') \/ sdone \notin Nat
         /\ RCall => rdone < Len(requests') \/ rdone \notin Nat
<1>1. requests' = requests \/ \E q : requests' = Append(requests, q)
  BY DEF Next, SStep, RStep, SCall, SStart, SEnd, STake, SReturn,
         RCall, RStart, REnd, RTake, RReturn, Done, vars, NextRequest
<1>2. IsSeq(requests')
  <2>1. CASE requests' = requests
    BY <2>1 DEF IsSeq
  <2>2. CASE \E q : requests' = Append(requests, q)
    <3>1. PICK q : requests' = Append(requests, q)
      BY <2>2
    <3>2. IsSeq(Append(requests, q))
      BY AppendIsSeq
    <3> QED
      BY <3>1, <3>2 DEF IsSeq
  <2> QED
    BY <1>1, <2>1, <2>2
<1>3. ASSUME NEW done \in Nat, NextRequest(done)
      PROVE  done < Len(requests')
  BY <1>3, AppendIsSeq DEF NextRequest
<1> QED
  BY <1>1, <1>2, <1>3 DEF SCall, RCall

\* A step of the sender, which may read a message.
LEMMA SenderStep ==
  ASSUME NEW x, x = Sender(x.sent, x.got), PointInv(x, requests'), SStep,
         SCall => sdone < Len(requests')
  PROVE  \E w : /\ StepOf(x, Sender(w.sent, w.got)', requests')
                /\ \/ w.got = x.got /\ toS' = toS
                   \/ toS # <<>> /\ toS' = Tail(toS) /\ \E m : w.got = Append(x.got, m)
<1> DEFINE y(s, t) == Sender(s, t)'
           Moved(t) == \/ t = x.got /\ toS' = toS
                       \/ toS # <<>> /\ toS' = Tail(toS) /\ \E m : t = Append(x.got, m)
<1>0. ASSUME NEW s, NEW t, StepOf(x, y(s, t), requests'), Moved(t)
      PROVE  \E w : /\ StepOf(x, Sender(w.sent, w.got)', requests')
                    /\ \/ w.got = x.got /\ toS' = toS
                       \/ toS # <<>> /\ toS' = Tail(toS) /\ \E m : w.got = Append(x.got, m)
  <2> DEFINE w == [sent |-> s, got |-> t]
  <2>1. w.sent = s /\ w.got = t
    OBVIOUS
  <2> QED
    BY <1>0, <2>1
<1>1. /\ x.done = sdone /\ x.pc = spc /\ x.busy = sbusy /\ x.need = sneed /\ x.off = soff
      /\ x.data = sdata /\ x.inplace = sinplace /\ x.buf = sbuf /\ x.used = sused
      /\ x.upper = supper /\ x.ext = sext /\ x.spent = sspent
  BY DEF Sender, At
<1> HIDE DEF y, Moved
<1>2. CASE SCall
  <2>1. Calls(x, y(x.sent, x.got), requests')
    BY <1>1, <1>2 DEF SCall, S!Call, Calls, Sender, y
  <2> QED
    BY <1>0, <1>2, <2>1 DEF SCall, StepOf, Moved
<1>3. CASE SStart
  <2> DEFINE s == Append(x.sent, Ext(x.ext + 1))
  <2>0. Moved(x.got)
    BY <1>3 DEF SStart, Moved
  <2>1. CASE S!StartSetup
    <3>1. StartsSetup(x, y(s, x.got))
      BY <1>1, <1>3, <2>1 DEF SStart, S!StartSetup, StartsSetup, Sender, y
    <3> QED
      BY <1>0, <2>0, <3>1 DEF StepOf
  <2>2. CASE S!StartInplace
    <3>1. StartsInplace(x, y(s, x.got))
      BY <1>1, <1>3, <2>2 DEF SStart, S!StartInplace, S!StartExtension, S!LongRequest,
                        StartsInplace, StartsFrom, Sender, y
    <3> QED
      BY <1>0, <2>0, <3>1 DEF StepOf
  <2>3. CASE S!StartBootstrap
    <3>1. StartsBootstrap(x, y(s, x.got))
      BY <1>1, <1>3, <2>3 DEF SStart, S!StartBootstrap, S!StartExtension,
                        StartsBootstrap, StartsFrom, Sender, y
    <3> QED
      BY <1>0, <2>0, <3>1 DEF StepOf
  <2> QED
    BY <1>3, <2>1, <2>2, <2>3 DEF SStart, S!Start
<1>4. CASE SEnd
  <2> DEFINE t == Append(x.got, Ext(x.ext))
  <2>0. Moved(t)
    BY <1>4 DEF SEnd, Moved
  <2>1. CASE S!EndSetup
    <3>1. EndsSetup(x, y(x.sent, t))
      BY <1>1, <1>4, <2>1 DEF SEnd, S!EndSetup, EndsSetup, Sender, y
    <3> QED
      BY <1>0, <2>0, <3>1 DEF StepOf
  <2>2. CASE S!EndInplace
    <3>1. EndsInplace(x, y(x.sent, t))
      BY <1>1, <1>4, <2>2 DEF SEnd, S!EndInplace, EndsInplace, Sender, y
    <3> QED
      BY <1>0, <2>0, <3>1 DEF StepOf
  <2>3. CASE S!EndBootstrap
    <3>1. EndsBootstrap(x, y(x.sent, t))
      BY <1>1, <1>4, <2>3 DEF SEnd, S!EndBootstrap, S!WorstCase, EndsBootstrap, Worst, Sender, y
    <3> QED
      BY <1>0, <2>0, <3>1 DEF StepOf
  <2> QED
    BY <1>4, <2>1, <2>2, <2>3 DEF SEnd, S!End
<1>5. CASE STake
  <2>1. Takes(x, y(x.sent, x.got))
    BY <1>1, <1>5 DEF STake, S!Take, S!Remain, S!LongRequest, S!SavedSeeds, Takes, Sender, y
  <2> QED
    BY <1>0, <1>5, <2>1 DEF STake, StepOf, Moved
<1>6. CASE SReturn
  <2>0. PICK s, t : s = Told(x.sent, x, requests) /\ t = Told(x.got, x, requests)
    OBVIOUS
  <2>1. Returns(x, y(s, t), requests')
    BY <1>1, <1>6, <2>0 DEF SReturn, S!Return, Returns, Told, Sender, PointInv, y
  <2>2. Moved(t)
    BY <1>1, <1>6, <2>0 DEF SReturn, SWaits, Told, Moved
  <2> QED
    BY <1>0, <2>1, <2>2 DEF StepOf
<1> QED
  BY <1>2, <1>3, <1>4, <1>5, <1>6 DEF SStep

\* A step of the receiver, which may send one.
LEMMA ReceiverStep ==
  ASSUME NEW x, x = Receiver(x.sent, x.got), PointInv(x, requests'), RStep,
         RCall => rdone < Len(requests')
  PROVE  \E w : /\ StepOf(x, Receiver(w.sent, w.got)', requests')
                /\ \/ w.sent = x.sent /\ toS' = toS
                   \/ \E m : w.sent = Append(x.sent, m) /\ toS' = Append(toS, m)
<1> DEFINE y(s, t) == Receiver(s, t)'
           Moved(s) == \/ s = x.sent /\ toS' = toS
                       \/ \E m : s = Append(x.sent, m) /\ toS' = Append(toS, m)
<1>0. ASSUME NEW s, NEW t, StepOf(x, y(s, t), requests'), Moved(s)
      PROVE  \E w : /\ StepOf(x, Receiver(w.sent, w.got)', requests')
                    /\ \/ w.sent = x.sent /\ toS' = toS
                       \/ \E m : w.sent = Append(x.sent, m) /\ toS' = Append(toS, m)
  <2> DEFINE w == [sent |-> s, got |-> t]
  <2>1. w.sent = s /\ w.got = t
    OBVIOUS
  <2> QED
    BY <1>0, <2>1
<1>1. /\ x.done = rdone /\ x.pc = rpc /\ x.busy = rbusy /\ x.need = rneed /\ x.off = roff
      /\ x.data = rdata /\ x.inplace = rinplace /\ x.buf = rbuf /\ x.used = rused
      /\ x.upper = rupper /\ x.ext = rext /\ x.spent = rspent
  BY DEF Receiver, At
<1> HIDE DEF y, Moved
<1>2. CASE RCall
  <2>1. Calls(x, y(x.sent, x.got), requests')
    BY <1>1, <1>2 DEF RCall, RLength, R!Call, Calls, Receiver, y
  <2> QED
    BY <1>0, <1>2, <2>1 DEF RCall, StepOf, Moved
<1>3. CASE RStart
  <2> DEFINE s == Append(x.sent, Ext(x.ext + 1))
  <2>0. Moved(s)
    BY <1>1, <1>3 DEF RStart, R!Start, R!StartSetup, R!StartInplace, R!StartBootstrap,
                R!StartExtension, Ext, Moved
  <2>1. CASE R!StartSetup
    <3>1. StartsSetup(x, y(s, x.got))
      BY <1>1, <1>3, <2>1 DEF RStart, R!StartSetup, StartsSetup, Receiver, y
    <3> QED
      BY <1>0, <2>0, <3>1 DEF StepOf
  <2>2. CASE R!StartInplace
    <3>1. StartsInplace(x, y(s, x.got))
      BY <1>1, <1>3, <2>2, SameArrays
         DEF RStart, R!StartInplace, R!StartExtension, R!LongRequest,
             StartsInplace, StartsFrom, Receiver, y
    <3> QED
      BY <1>0, <2>0, <3>1 DEF StepOf
  <2>3. CASE R!StartBootstrap
    <3>1. StartsBootstrap(x, y(s, x.got))
      BY <1>1, <1>3, <2>3, SameArrays
         DEF RStart, R!StartBootstrap, R!StartExtension, StartsBootstrap, StartsFrom, Receiver, y
    <3> QED
      BY <1>0, <2>0, <3>1 DEF StepOf
  <2> QED
    BY <1>3, <2>1, <2>2, <2>3 DEF RStart, R!Start
<1>4. CASE REnd
  <2> DEFINE t == Append(x.got, Ext(x.ext))
  <2>0. Moved(x.sent)
    BY <1>4 DEF REnd, Moved
  <2>1. CASE R!EndSetup
    <3>1. EndsSetup(x, y(x.sent, t))
      BY <1>1, <1>4, <2>1, SameArrays DEF REnd, R!EndSetup, EndsSetup, Receiver, y
    <3> QED
      BY <1>0, <2>0, <3>1 DEF StepOf
  <2>2. CASE R!EndInplace
    <3>1. EndsInplace(x, y(x.sent, t))
      BY <1>1, <1>4, <2>2, SameArrays DEF REnd, R!EndInplace, EndsInplace, Receiver, y
    <3> QED
      BY <1>0, <2>0, <3>1 DEF StepOf
  <2>3. CASE R!EndBootstrap
    <3>1. EndsBootstrap(x, y(x.sent, t))
      BY <1>1, <1>4, <2>3, SameArrays
         DEF REnd, R!EndBootstrap, R!WorstCase, EndsBootstrap, Worst, Receiver, y
    <3> QED
      BY <1>0, <2>0, <3>1 DEF StepOf
  <2> QED
    BY <1>4, <2>1, <2>2, <2>3 DEF REnd, R!End
<1>5. CASE RTake
  <2>1. Takes(x, y(x.sent, x.got))
    BY <1>1, <1>5, SameArrays
       DEF RTake, R!Take, R!Remain, R!LongRequest, R!SavedSeeds, Takes, Receiver, y
  <2> QED
    BY <1>0, <1>5, <2>1 DEF RTake, StepOf, Moved
<1>6. CASE RReturn
  <2>0. PICK s, t : s = Told(x.sent, x, requests) /\ t = Told(x.got, x, requests)
    OBVIOUS
  <2>1. Returns(x, y(s, t), requests')
    BY <1>1, <1>6, <2>0, SameArrays DEF RReturn, R!Return, Returns, Told, Receiver, PointInv, y
  <2>2. Moved(s)
    BY <1>1, <1>6, <2>0 DEF RReturn, RFlips, Told, Flip, Moved
  <2> QED
    BY <1>0, <2>1, <2>2 DEF StepOf
<1> QED
  BY <1>2, <1>3, <1>4, <1>5, <1>6 DEF RStep

-----------------------------------------------------------------------------
(* Every step keeps the invariant.                                         *)

LEMMA Shown ==
  ASSUME NEW u, NEW v
  PROVE  /\ Sender(u, v).sent = u /\ Sender(u, v).got = v
         /\ Receiver(u, v).sent = u /\ Receiver(u, v).got = v
         /\ Sender(u, v)'.sent = u /\ Sender(u, v)'.got = v
         /\ Receiver(u, v)'.sent = u /\ Receiver(u, v)'.got = v
BY DEF Sender, Receiver, At

\* The run up to now is one of the program that may have grown.
LEMMA RunGoesOn ==
  ASSUME IsSeq(requests), Next, NEW f, NEW L, IsRun(f, L, requests)
  PROVE  IsRun(f, L, requests')
BY ProgramGrows, LongerProgram

LEMMA LinkTail ==
  ASSUME NEW n, NEW u, NEW v, NEW m, IsSeq(n), IsSeq(u), IsSeq(v), n # <<>>, Carries(n, u, v)
  PROVE  Carries(Tail(n), u, Append(v, m)) /\ IsSeq(Tail(n))
<1> DEFINE t == Tail(n)
           w == Append(v, m)
<1>1. /\ IsSeq(t) /\ Len(n) \in Nat \ {0} /\ Len(t) = Len(n) - 1
      /\ \A k \in 1 .. Len(n) - 1 : t[k] = n[k + 1]
  BY TailIsSeq
<1>2. Len(v) \in Nat /\ Len(w) = Len(v) + 1 /\ Len(u) \in Nat
  BY AppendIsSeq, PrefixFacts
<1>3. Len(u) = Len(v) + Len(n) /\ \A k \in 1 .. Len(n) : n[k] = u[Len(v) + k]
  BY DEF Carries
<1> HIDE DEF t, w
<1>4. Len(u) = Len(w) + Len(t)
  BY <1>1, <1>2, <1>3
<1>5. \A k \in 1 .. Len(t) : t[k] = u[Len(w) + k]
  <2> TAKE k \in 1 .. Len(t)
  <2>1. k \in 1 .. Len(n) - 1 /\ k + 1 \in 1 .. Len(n) /\ Len(v) + (k + 1) = Len(w) + k
    BY <1>1, <1>2
  <2> QED
    BY <1>1, <1>3, <2>1
<1> QED
  BY <1>1, <1>4, <1>5 DEF Carries, t, w

LEMMA LinkAppend ==
  ASSUME NEW n, NEW u, NEW v, NEW m, IsSeq(n), IsSeq(u), IsSeq(v), Carries(n, u, v)
  PROVE  Carries(Append(n, m), Append(u, m), v) /\ IsSeq(Append(n, m))
<1> DEFINE t == Append(n, m)
           w == Append(u, m)
<1>1. /\ IsSeq(t) /\ Len(n) \in Nat /\ Len(t) = Len(n) + 1 /\ t[Len(n) + 1] = m
      /\ \A k \in 1 .. Len(n) : t[k] = n[k]
  BY AppendIsSeq
<1>2. /\ Len(u) \in Nat /\ Len(w) = Len(u) + 1 /\ w[Len(u) + 1] = m /\ Len(v) \in Nat
      /\ \A k \in 1 .. Len(u) : w[k] = u[k]
  BY AppendIsSeq, PrefixFacts
<1>3. Len(u) = Len(v) + Len(n) /\ \A k \in 1 .. Len(n) : n[k] = u[Len(v) + k]
  BY DEF Carries
<1> HIDE DEF t, w
<1>4. Len(w) = Len(v) + Len(t)
  BY <1>1, <1>2, <1>3
<1>5. \A k \in 1 .. Len(t) : t[k] = w[Len(v) + k]
  <2> TAKE k \in 1 .. Len(t)
  <2>1. CASE k = Len(n) + 1
    <3>1. Len(v) + k = Len(u) + 1
      BY <1>1, <1>2, <1>3, <2>1
    <3> QED
      BY <1>1, <1>2, <2>1, <3>1
  <2>2. CASE k # Len(n) + 1
    <3>1. k \in 1 .. Len(n) /\ Len(v) + k \in 1 .. Len(u)
      BY <1>1, <1>2, <1>3, <2>2
    <3> QED
      BY <1>1, <1>2, <1>3, <3>1
  <2> QED
    BY <2>1, <2>2
<1> QED
  BY <1>1, <1>4, <1>5 DEF Carries, t, w

LEMMA SenderMoves ==
  ASSUME IInv, SStep
  PROVE  IsSeq(toS') /\ \E f, L, i, j : Meet(f, L, i, j)'
<1>0. Next /\ IsSeq(requests) /\ IsSeq(toS)
  BY DEF Next, IInv
<1>1. PICK f, L, i, j : Meet(f, L, i, j)
  BY DEF IInv
<1>2. /\ IsRun(f, L, requests') /\ i \in 1 .. L /\ j \in 1 .. L
      /\ f[i] = Sender(f[i].sent, f[i].got) /\ f[j] = Receiver(f[j].sent, f[j].got)
      /\ Carries(toS, f[j].sent, f[i].got)
  BY <1>0, <1>1, RunGoesOn DEF Meet
<1>3. PointInv(f[i], requests') /\ PointInv(f[j], requests')
  BY <1>2 DEF IsRun
<1>4. SCall => sdone < Len(requests')
  <2>1. f[i].done = sdone /\ f[i].done \in Nat
    BY <1>2, <1>3 DEF Sender, At, PointInv
  <2> QED
    BY <1>0, <2>1, ProgramGrows
<1>5. PICK w : /\ StepOf(f[i], Sender(w.sent, w.got)', requests')
               /\ \/ w.got = f[i].got /\ toS' = toS
                  \/ toS # <<>> /\ toS' = Tail(toS) /\ \E m : w.got = Append(f[i].got, m)
  BY <1>2, <1>3, <1>4, SenderStep
<1>6. PICK g, M : /\ IsRun(g, M, requests') /\ i + 1 \in 1 .. M
                  /\ g[i + 1] = Sender(w.sent, w.got)'
                  /\ L <= M /\ \A k \in 1 .. L : g[k] = f[k]
  <2>1. PICK z : z = Sender(w.sent, w.got)'
    OBVIOUS
  <2>2. StepOf(f[i], z, requests')
    BY <1>5, <2>1
  <2>3. \E g, M : /\ IsRun(g, M, requests') /\ i + 1 \in 1 .. M /\ g[i + 1] = z
                  /\ L <= M /\ \A k \in 1 .. L : g[k] = f[k]
    BY <1>2, <2>2, OnTheRun
  <2> QED
    BY <2>1, <2>3
<1>7. j \in 1 .. M /\ g[j] = f[j]
  <2>1. L \in Nat /\ M \in Nat
    BY <1>2, <1>6 DEF IsRun
  <2> QED
    BY <1>2, <1>6, <2>1
<1>8. f[j] = Receiver(f[j].sent, f[j].got)'
  <2>1. receiver' = receiver
    BY DEF SStep, SCall, SStart, SEnd, STake, SReturn
  <2> QED
    BY <1>2, <2>1 DEF Receiver, receiver
<1>9. IsSeq(toS') /\ Carries(toS', f[j].sent, w.got)
  BY <1>0, <1>2, <1>3, <1>5, LinkTail DEF PointInv
<1>10. g[i + 1] = Sender(g[i + 1].sent, g[i + 1].got)' /\ g[i + 1].got = w.got
  BY <1>6, Shown
<1>11. Meet(g, M, i + 1, j)'
  BY <1>6, <1>7, <1>8, <1>9, <1>10 DEF Meet
<1> QED
  BY <1>9, <1>11

LEMMA ReceiverMoves ==
  ASSUME IInv, RStep
  PROVE  IsSeq(toS') /\ \E f, L, i, j : Meet(f, L, i, j)'
<1>0. Next /\ IsSeq(requests) /\ IsSeq(toS)
  BY DEF Next, IInv
<1>1. PICK f, L, i, j : Meet(f, L, i, j)
  BY DEF IInv
<1>2. /\ IsRun(f, L, requests') /\ i \in 1 .. L /\ j \in 1 .. L
      /\ f[i] = Sender(f[i].sent, f[i].got) /\ f[j] = Receiver(f[j].sent, f[j].got)
      /\ Carries(toS, f[j].sent, f[i].got)
  BY <1>0, <1>1, RunGoesOn DEF Meet
<1>3. PointInv(f[i], requests') /\ PointInv(f[j], requests')
  BY <1>2 DEF IsRun
<1>4. RCall => rdone < Len(requests')
  <2>1. f[j].done = rdone /\ f[j].done \in Nat
    BY <1>2, <1>3 DEF Receiver, At, PointInv
  <2> QED
    BY <1>0, <2>1, ProgramGrows
<1>5. PICK w : /\ StepOf(f[j], Receiver(w.sent, w.got)', requests')
               /\ \/ w.sent = f[j].sent /\ toS' = toS
                  \/ \E m : w.sent = Append(f[j].sent, m) /\ toS' = Append(toS, m)
  BY <1>2, <1>3, <1>4, ReceiverStep
<1>6. PICK g, M : /\ IsRun(g, M, requests') /\ j + 1 \in 1 .. M
                  /\ g[j + 1] = Receiver(w.sent, w.got)'
                  /\ L <= M /\ \A k \in 1 .. L : g[k] = f[k]
  <2>1. PICK z : z = Receiver(w.sent, w.got)'
    OBVIOUS
  <2>2. StepOf(f[j], z, requests')
    BY <1>5, <2>1
  <2>3. \E g, M : /\ IsRun(g, M, requests') /\ j + 1 \in 1 .. M /\ g[j + 1] = z
                  /\ L <= M /\ \A k \in 1 .. L : g[k] = f[k]
    BY <1>2, <2>2, OnTheRun
  <2> QED
    BY <2>1, <2>3
<1>7. i \in 1 .. M /\ g[i] = f[i]
  <2>1. L \in Nat /\ M \in Nat
    BY <1>2, <1>6 DEF IsRun
  <2> QED
    BY <1>2, <1>6, <2>1
<1>8. f[i] = Sender(f[i].sent, f[i].got)'
  <2>1. sender' = sender
    BY DEF RStep, RCall, RStart, REnd, RTake, RReturn
  <2> QED
    BY <1>2, <2>1 DEF Sender, sender
<1>9. IsSeq(toS') /\ Carries(toS', w.sent, f[i].got)
  <2>1. IsSeq(f[j].sent) /\ IsSeq(f[i].got)
    BY <1>3 DEF PointInv
  <2>2. ASSUME NEW m, w.sent = Append(f[j].sent, m), toS' = Append(toS, m)
        PROVE  IsSeq(toS') /\ Carries(toS', w.sent, f[i].got)
    BY <1>0, <1>2, <2>1, <2>2, LinkAppend
  <2> QED
    BY <1>0, <1>2, <1>5, <2>2
<1>10. g[j + 1] = Receiver(g[j + 1].sent, g[j + 1].got)' /\ g[j + 1].sent = w.sent
  BY <1>6, Shown
<1>11. Meet(g, M, i, j + 1)'
  BY <1>6, <1>7, <1>8, <1>9, <1>10 DEF Meet
<1> QED
  BY <1>9, <1>11

\* Where the endpoints are, as points of the run.
LEMMA Places ==
  ASSUME IInv
  PROVE  /\ sext \in Nat /\ rext \in Nat /\ sbusy \in BOOLEAN /\ rbusy \in BOOLEAN
         /\ rbusy => rext >= 1
         /\ Ended \in Nat /\ Len(toR) \in Nat /\ IsSeq(toR) /\ ToRInv
<1>1. PICK f, L, i, j : Meet(f, L, i, j)
  BY DEF IInv
<1>2. /\ PointInv(f[i], requests) /\ PointInv(f[j], requests)
      /\ f[i] = Sender(f[i].sent, f[i].got) /\ f[j] = Receiver(f[j].sent, f[j].got)
  BY <1>1 DEF Meet, IsRun
<1>3. f[i].ext = sext /\ f[i].busy = sbusy /\ f[j].ext = rext /\ f[j].busy = rbusy
  BY <1>2 DEF Sender, Receiver, At
<1>4. /\ sext \in Nat /\ rext \in Nat /\ sbusy \in BOOLEAN /\ rbusy \in BOOLEAN
      /\ rbusy => rext >= 1
  BY <1>2, <1>3 DEF PointInv
<1> QED
  BY <1>4, PrefixFacts DEF IInv, Ended

\* The extensions of the sender and those of the receiver on the link between.
LEMMA ExtensionsStep ==
  ASSUME IInv, SStep \/ RStep
  PROVE  IsSeq(toR') /\ ToRInv'
<1>0. /\ sext \in Nat /\ rext \in Nat /\ rbusy \in BOOLEAN
      /\ rbusy => rext >= 1
      /\ Ended \in Nat /\ Len(toR) \in Nat /\ IsSeq(toR)
      /\ Len(toR) = sext - Ended /\ \A k \in 1 .. Len(toR) : toR[k] = Ext(Ended + k)
  BY Places DEF ToRInv
<1> DEFINE e == Ended
           l == Len(toR)
<1>a. e \in Nat /\ l \in Nat /\ sext \in Nat /\ l = sext - e
  BY <1>0
<1>b. rext \in Nat /\ rbusy \in BOOLEAN /\ (rbusy => rext >= 1)
  BY <1>0
<1>1. CASE SStart
  <2> DEFINE t == Append(toR, Ext(sext + 1))
  <2>1. sext' = sext + 1 /\ Ended' = Ended /\ toR' = t
    BY <1>1 DEF SStart, S!Start, S!StartSetup, S!StartInplace, S!StartBootstrap,
                S!StartExtension, receiver, Ended, Ext
  <2>2. /\ IsSeq(t) /\ Len(t) = Len(toR) + 1 /\ t[Len(toR) + 1] = Ext(sext + 1)
        /\ \A k \in 1 .. Len(toR) : t[k] = toR[k]
    BY <1>0, AppendIsSeq
  <2> HIDE DEF t
  <2>3. Len(t) = (sext + 1) - Ended
    <3>1. Len(t) = l + 1
      BY <2>2
    <3> HIDE DEF l, e
    <3>2. Len(t) = (sext + 1) - e
      BY <1>a, <3>1
    <3> QED
      BY <3>2 DEF e
  <2>4. \A k \in 1 .. Len(t) : t[k] = Ext(Ended + k)
    <3> TAKE k \in 1 .. Len(t)
    <3>1. CASE k = Len(toR) + 1
      <4>1. Ended + k = sext + 1
        <5>1. k = l + 1
          BY <3>1
        <5> HIDE DEF l, e
        <5>2. e + k = sext + 1
          BY <1>a, <5>1
        <5> QED
          BY <5>2 DEF e
      <4> QED
        BY <2>2, <3>1, <4>1
    <3>2. CASE k # Len(toR) + 1
      <4>1. k \in 1 .. Len(toR)
        BY <1>0, <2>2, <3>2
      <4> QED
        BY <1>0, <2>2, <4>1
    <3> QED
      BY <3>1, <3>2
  <2>5. Len(toR') = sext' - Ended' /\ \A k \in 1 .. Len(toR') : toR'[k] = Ext(Ended' + k)
    <3> HIDE DEF l, e
    <3>1. PICK u, s, d : u = toR' /\ s = sext' /\ d = Ended'
      OBVIOUS
    <3>2. u = t /\ s = sext + 1 /\ d = Ended
      BY <2>1, <3>1
    <3>3. Len(u) = s - d /\ \A k \in 1 .. Len(u) : u[k] = Ext(d + k)
      BY <2>3, <2>4, <3>2
    <3> QED
      BY <3>1, <3>3
  <2> QED
    BY <2>1, <2>2, <2>5 DEF ToRInv
<1>2. CASE REnd
  <2> DEFINE t == Tail(toR)
  <2>1. sext' = sext /\ rbusy /\ rbusy' = FALSE /\ rext' = rext /\ toR' = t /\ toR # <<>>
    BY <1>2 DEF REnd, R!End, R!EndSetup, R!EndInplace, R!EndBootstrap, sender
  <2>2. Ended' = Ended + 1
    BY <1>b, <2>1 DEF Ended
  <2>3. /\ IsSeq(t) /\ Len(t) = Len(toR) - 1
        /\ \A k \in 1 .. Len(toR) - 1 : t[k] = toR[k + 1]
    BY <1>0, <2>1, TailIsSeq
  <2> HIDE DEF t
  <2>4. Len(t) = sext - (Ended + 1)
    <3>1. Len(t) = l - 1
      BY <2>3
    <3> HIDE DEF l, e
    <3>2. Len(t) = sext - (e + 1)
      BY <1>a, <3>1
    <3> QED
      BY <3>2 DEF e
  <2>5. \A k \in 1 .. Len(t) : t[k] = Ext(Ended + 1 + k)
    <3> TAKE k \in 1 .. Len(t)
    <3>1. k \in 1 .. Len(toR) - 1 /\ k + 1 \in 1 .. Len(toR) /\ Ended + (k + 1) = Ended + 1 + k
      BY <1>0, <2>3
    <3> QED
      BY <1>0, <2>3, <3>1
  <2> QED
    BY <2>1, <2>2, <2>3, <2>4, <2>5 DEF ToRInv
<1>3. CASE RStart
  <2>1. /\ sext' = sext /\ ~rbusy /\ rbusy' = TRUE /\ rext' = rext + 1 /\ toR' = toR
    BY <1>3 DEF RStart, R!Start, R!StartSetup, R!StartInplace, R!StartBootstrap,
                R!StartExtension, sender
  <2>2. Ended' = Ended
    BY <1>0, <2>1 DEF Ended
  <2> QED
    BY <1>0, <2>1, <2>2 DEF ToRInv
<1>4. CASE SCall \/ SEnd \/ STake \/ SReturn \/ RCall \/ RTake \/ RReturn
  <2>1. sext' = sext /\ rext' = rext /\ rbusy' = rbusy /\ toR' = toR
    <3>1. CASE SCall \/ STake \/ SReturn
      BY <3>1 DEF SCall, STake, SReturn, S!Call, S!Take, S!Return, receiver
    <3>2. CASE SEnd
      BY <3>2 DEF SEnd, S!End, S!EndSetup, S!EndInplace, S!EndBootstrap, receiver
    <3>3. CASE RCall \/ RTake \/ RReturn
      BY <3>3 DEF RCall, RTake, RReturn, R!Call, R!Take, R!Return, sender
    <3> QED
      BY <1>4, <3>1, <3>2, <3>3
  <2>2. Ended' = Ended
    BY <2>1 DEF Ended
  <2> QED
    BY <1>0, <2>1, <2>2 DEF ToRInv
<1> QED
  BY <1>1, <1>2, <1>3, <1>4 DEF SStep, RStep

LEMMA InitStep == Init => IInv
<1> SUFFICES ASSUME Init PROVE IInv
  OBVIOUS
<1>1. IsSeq(requests) /\ IsSeq(toS) /\ IsSeq(toR) /\ Len(<<>>) = 0 /\ IsSeq(<<>>)
  BY EmptyIsSeq DEF Init
<1>2. ToRInv
  <2>1. toR = <<>> /\ sext = 0 /\ rext = 0 /\ rbusy = FALSE
    BY DEF Init, S!Init, R!Init
  <2>2. Ended = 0
    BY <2>1 DEF Ended
  <2>3. Len(toR) = 0
    BY <1>1, <2>1
  <2> QED
    BY <2>1, <2>2, <2>3 DEF ToRInv
<1>3. \E f, L, i, j : Meet(f, L, i, j)
  <2> DEFINE x == Sender(<<>>, <<>>)
  <2>1. PICK f : f = [k \in 1 .. 1 |-> x]
    OBVIOUS
  <2>2. x = Receiver(<<>>, <<>>)
    BY SameArrays DEF Init, Sender, Receiver, S!Init, R!Init
  <2>3. Point(x)
    BY DEF Point, Sender, At
  <2>4. /\ x.done = 0 /\ x.ext = 0 /\ x.busy = FALSE /\ x.pc = "setup" /\ x.spent = <<>>
        /\ x.sent = <<>> /\ x.got = <<>>
    BY DEF Init, Sender, At, S!Init
  <2>5. x = Sender(x.sent, x.got) /\ x = Receiver(x.sent, x.got)
    BY <2>2, <2>4
  <2> HIDE DEF x
  <2>6. PointInv(x, requests)
    <3>1. x.sent = IF x.busy THEN Append(x.got, Ext(x.ext)) ELSE x.got
      BY <2>4
    <3>2. IsSeq(x.spent) /\ IsSeq(x.sent) /\ IsSeq(x.got)
      BY <1>1, <2>4
    <3>3. x.busy \in BOOLEAN /\ ~x.busy
      BY <2>4, Zenon
    <3>4. /\ x.done \in Nat /\ x.ext \in Nat
          /\ x.pc \in {"setup", "idle", "loop", "bootstrap", "again", "return"}
          /\ ~(x.pc \notin {"setup", "idle"})
      BY <2>4
    <3> QED
      BY <2>3, <3>1, <3>2, <3>3, <3>4 DEF PointInv
  <2>7. f[1] = x /\ \A k \in 1 .. 1 : k = 1 /\ f[k] = x
    BY <2>1
  <2>8. Grows(x, x)
    BY <1>1, <2>4, PrefixFacts DEF Grows
  <2>9. IsRun(f, 1, requests)
    BY <2>6, <2>7, <2>8 DEF IsRun
  <2>10. Carries(toS, x.sent, x.got)
    BY <1>1, <2>4 DEF Carries, Init
  <2>11. Meet(f, 1, 1, 1)
    BY <2>5, <2>7, <2>9, <2>10 DEF Meet
  <2> QED
    BY <2>11
<1> QED
  BY <1>1, <1>2, <1>3 DEF IInv

LEMMA StutterStep == IInv /\ UNCHANGED vars => IInv'
<1> SUFFICES ASSUME IInv, UNCHANGED vars PROVE IInv'
  OBVIOUS
<1>1. /\ requests' = requests /\ toS' = toS /\ toR' = toR /\ sext' = sext /\ rext' = rext
      /\ rbusy' = rbusy
  BY DEF vars, sender, receiver
<1>2. \A u, v : Sender(u, v)' = Sender(u, v) /\ Receiver(u, v)' = Receiver(u, v)
  BY DEF vars, sender, receiver, Sender, Receiver
<1>3. PICK f, L, i, j : Meet(f, L, i, j)
  BY DEF IInv
<1>4. Meet(f, L, i, j)'
  BY <1>1, <1>2, <1>3 DEF Meet
<1> QED
  BY <1>1, <1>4 DEF IInv, ToRInv, Ended

LEMMA NextStep == IInv /\ [Next]_vars => IInv'
<1>1. ASSUME IInv, SStep \/ RStep
      PROVE  IInv'
  <2>1. IsSeq(requests')
    <3>1. Next /\ IsSeq(requests)
      BY <1>1 DEF IInv, Next
    <3> QED
      BY <3>1, ProgramGrows
  <2>2. IsSeq(toR') /\ ToRInv'
    BY <1>1, ExtensionsStep
  <2>3. IsSeq(toS') /\ \E f, L, i, j : Meet(f, L, i, j)'
    BY <1>1, SenderMoves, ReceiverMoves
  <2> QED
    BY <2>1, <2>2, <2>3 DEF IInv
<1> QED
  BY <1>1, StutterStep DEF Next, Done

\* Both endpoints are on one run of an endpoint, and the links carry what the
\* one has sent there and the other has not read.
THEOREM Invariance == Spec => []IInv
<1> QED
  BY InitStep, NextStep, PTL DEF Spec

-----------------------------------------------------------------------------
(* The properties.                                                         *)

\* The endpoints consume the same correlations, in the same order, whichever of
\* them is ahead.
THEOREM SameOTs == Spec => []OTsAligned
<1>1. IInv => OTsAligned
  <2> SUFFICES ASSUME IInv, NEW k \in 1 .. Len(sspent), k <= Len(rspent)
               PROVE  sspent[k] = rspent[k]
    BY DEF OTsAligned
  <2>1. PICK f, L, i, j : Meet(f, L, i, j)
    BY DEF IInv
  <2>2. /\ L \in Nat /\ i \in 1 .. L /\ j \in 1 .. L
        /\ PointInv(f[i], requests) /\ PointInv(f[j], requests)
        /\ f[i] = Sender(f[i].sent, f[i].got) /\ f[j] = Receiver(f[j].sent, f[j].got)
    BY <2>1 DEF Meet, IsRun
  <2>3. f[i].spent = sspent /\ f[j].spent = rspent
    BY <2>2 DEF Sender, Receiver, At
  <2>4. IsSeq(rspent)
    BY <2>2, <2>3 DEF PointInv
  <2>5. k \in 1 .. Len(rspent)
    BY <2>4, PrefixFacts
  <2>6. i <= j \/ j <= i
    BY <2>2
  <2>7. Prefix(sspent, rspent) \/ Prefix(rspent, sspent)
    BY <2>1, <2>2, <2>3, <2>6 DEF Meet, IsRun, Grows
  <2> QED
    BY <2>5, <2>7 DEF Prefix
<1> QED
  BY <1>1, Invariance, PTL

\* When the sender waits for m, the first message it has not read yet, and w is
\* on the same run as what the receiver has sent, the link starts with m.
LEMMA HeadIs ==
  ASSUME NEW n, NEW sent, NEW got, NEW m, NEW w,
         IsSeq(n), IsSeq(sent), IsSeq(got), n # <<>>, Carries(n, sent, got),
         w = Append(got, m), Prefix(w, sent) \/ Prefix(sent, w)
  PROVE  Head(n) = m
<1>1. /\ Len(n) \in Nat \ {0} /\ Head(n) = n[1]
  BY TailIsSeq
<1>2. /\ Len(got) \in Nat /\ Len(w) = Len(got) + 1 /\ w[Len(got) + 1] = m
  BY AppendIsSeq
<1>3. Len(sent) = Len(got) + Len(n) /\ n[1] = sent[Len(got) + 1] /\ Len(sent) \in Nat
  BY <1>1, PrefixFacts DEF Carries
<1>4. Len(got) + 1 \in 1 .. Len(w) /\ Len(got) + 1 \in 1 .. Len(sent)
  BY <1>1, <1>2, <1>3
<1>5. sent[Len(got) + 1] = w[Len(got) + 1]
  BY <1>4 DEF Prefix
<1> QED
  BY <1>1, <1>2, <1>3, <1>5

\* Every message is read by the step it was meant for: that of an extension by
\* the end of the extension, that of flips by the return of the chosen OT.
THEOREM MessagesAreExpected == Spec => []MessagesExpected
<1>1. IInv => (rbusy /\ toR # <<>> => Head(toR) = Ext(rext))
  <2> SUFFICES ASSUME IInv, rbusy, toR # <<>> PROVE Head(toR) = Ext(rext)
    OBVIOUS
  <2>1. rext \in Nat /\ rext >= 1 /\ Ended \in Nat /\ IsSeq(toR) /\ ToRInv
    BY Places
  <2>2. Len(toR) \in Nat \ {0} /\ Head(toR) = toR[1]
    BY <2>1, TailIsSeq
  <2>3. toR[1] = Ext(Ended + 1)
    BY <2>1, <2>2 DEF ToRInv
  <2>4. Ended + 1 = rext
    BY <2>1 DEF Ended
  <2> QED
    BY <2>2, <2>3, <2>4
<1>2. ASSUME IInv, toS # <<>>
      PROVE  /\ sbusy => Head(toS) = Ext(sext)
             /\ spc = "return" /\ requests[sdone + 1].cot => Head(toS) = Flip(sdone + 1)
  <2>1. PICK f, L, i, j : Meet(f, L, i, j)
    BY <1>2 DEF IInv
  <2>2. /\ L \in Nat /\ i \in 1 .. L /\ j \in 1 .. L
        /\ PointInv(f[i], requests) /\ PointInv(f[j], requests)
        /\ f[i] = Sender(f[i].sent, f[i].got) /\ Carries(toS, f[j].sent, f[i].got)
    BY <2>1 DEF Meet, IsRun
  <2>3. /\ f[i].done = sdone /\ f[i].pc = spc /\ f[i].busy = sbusy /\ f[i].ext = sext
    BY <2>2 DEF Sender, At
  <2>4. IsSeq(toS) /\ IsSeq(f[j].sent) /\ IsSeq(f[i].got) /\ IsSeq(f[i].sent)
    BY <1>2, <2>2 DEF PointInv, IInv
  <2>5. \A k, l \in 1 .. L : k <= l => Prefix(f[k].sent, f[l].sent)
    BY <2>1 DEF Meet, IsRun, Grows
  <2>6. ASSUME sbusy PROVE Head(toS) = Ext(sext)
    <3>1. f[i].sent = Append(f[i].got, Ext(sext))
      BY <2>2, <2>3, <2>6 DEF PointInv
    <3>2. i <= j \/ j <= i
      BY <2>2
    <3>3. Prefix(f[i].sent, f[j].sent) \/ Prefix(f[j].sent, f[i].sent)
      BY <2>2, <2>5, <3>2
    <3> QED
      BY <1>2, <2>2, <2>4, <3>1, <3>3, HeadIs
  <2>7. ASSUME spc = "return", requests[sdone + 1].cot
        PROVE  Head(toS) = Flip(sdone + 1)
    <3>1. f[i].sent = f[i].got
      BY <2>2, <2>3, <2>7 DEF PointInv
    <3>2. i < j
      <4>1. SUFFICES ASSUME j <= i PROVE FALSE
        BY <2>2
      <4>2. Len(f[j].sent) <= Len(f[i].got)
        BY <2>2, <2>5, <3>1, <4>1 DEF Prefix
      <4>3. Len(f[j].sent) = Len(f[i].got) + Len(toS)
        BY <2>2 DEF Carries
      <4>4. Len(toS) \in Nat \ {0} /\ Len(f[i].got) \in Nat
        BY <1>2, <2>4, TailIsSeq, PrefixFacts
      <4> QED
        BY <4>2, <4>3, <4>4
    <3>3. i + 1 \in 1 .. L /\ i + 1 <= j
      BY <2>2, <3>2
    <3>4. StepOf(f[i], f[i + 1], requests)
      BY <2>1, <2>2, <3>3 DEF Meet, IsRun
    <3>5. Returns(f[i], f[i + 1], requests)
      <4>1. f[i].pc = "return"
        BY <2>3, <2>7
      <4> QED
        BY <3>4, <4>1 DEF StepOf, StartsSetup, EndsSetup, StartsInplace, EndsInplace,
             StartsBootstrap, EndsBootstrap, Calls, Takes
    <3>6. f[i + 1].sent = Append(f[i].got, Flip(sdone + 1))
      <4>1. f[i + 1].sent = Told(f[i].sent, f[i], requests)
        BY <3>5 DEF Returns, At
      <4> QED
        BY <2>3, <2>7, <3>1, <4>1 DEF Told
    <3>7. Prefix(f[i + 1].sent, f[j].sent)
      BY <2>2, <2>5, <3>3
    <3> QED
      BY <1>2, <2>2, <2>4, <3>6, <3>7, HeadIs
  <2> QED
    BY <2>6, <2>7
<1>3. IInv => MessagesExpected
  BY <1>1, <1>2 DEF MessagesExpected, Ext, Flip
<1> QED
  BY <1>3, Invariance, PTL

=============================================================================
