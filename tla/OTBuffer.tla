------------------------------ MODULE OTBuffer ------------------------------
(***************************************************************************)
(* One endpoint of YaclFerretOTeAdapter                                    *)
(* (libspu/mpc/cheetah/ot/yacl/yacl_ote_adapter.cc): the buffer of         *)
(* correlated OTs behind every OT of the Cheetah protocol.                 *)
(*                                                                         *)
(* An extension turns Reserve correlations into N new ones; Reserve of     *)
(* those are kept back for the next extension.  Correlation p of extension *)
(* g is <<g, p>>: what the two endpoints hold for it fits together, and it *)
(* may be consumed once, as an output or as a seed.  The extension itself  *)
(* is yacl's: here it starts, and ends when the peer has played its part.  *)
(***************************************************************************)
EXTENDS Integers, Sequences

CONSTANTS
  N,        \* lpn_param_.n
  PreN,     \* pre_lpn_param_.n
  Reserve,  \* reserve_num_
  Sizes,    \* the lengths rcot is called with
  MaxSpent  \* bound on the length of the history

ASSUME BufferAssumption ==
  /\ N \in Nat /\ PreN \in Nat /\ Reserve \in Nat \ {0}
  /\ Reserve <= PreN /\ PreN <= N
  /\ 2 * Reserve <= N
  /\ Sizes \subseteq Nat \ {0}
  /\ MaxSpent \in Nat

VARIABLES
  pc,        \* where rcot is
  busy,      \* an extension is under way
  need,      \* require_num
  off,       \* data_offset
  data,      \* the array rcot fills
  inplace,   \* bootstrap_inplace_counter # 0
  buf,       \* ot_buff_
  used,      \* buff_used_num_
  upper,     \* buff_upper_bound_
  ext,       \* number of extensions started, the one of OneTimeSetup included
  spent      \* history: what was consumed, as seeds or by the caller, in order

vars == <<pc, busy, need, off, data, inplace, buf, used, upper, ext, spent>>

OT == Nat \X Nat
Unset == <<0, 0>>
Batch(g, n) == [i \in 1 .. N |-> IF i <= n THEN <<g, i>> ELSE Unset]

\* The n entries of array a from position i on.
Slice(a, i, n) == [k \in 1 .. n |-> a[i + k]]

\* Array d with the n entries of a from position i on copied behind position o.
Copied(d, o, a, i, n) == [k \in 1 .. o + n |-> IF k <= o THEN d[k] ELSE a[i + (k - o)]]

Init ==
  /\ pc = "setup" /\ busy = FALSE
  /\ need = 0 /\ off = 0 /\ data = <<>> /\ inplace = FALSE
  /\ buf = Batch(0, 0) /\ used = 0 /\ upper = 0
  /\ ext = 0 /\ spent = <<>>

-----------------------------------------------------------------------------
(* Extensions.  Each starts with Reserve correlations and ends with N.     *)

\* The seeds are copied out of array a, from position i on.
StartExtension(a, i) ==
  /\ ~busy /\ busy' = TRUE
  /\ ext' = ext + 1
  /\ spent' = Append(spent, Slice(a, i, Reserve))
  /\ UNCHANGED <<pc, need, off, data, inplace, buf, used, upper>>

\* OneTimeSetup: SoftSpoken makes the seeds of the first extension.
StartSetup ==
  /\ pc = "setup" /\ ~busy
  /\ busy' = TRUE
  /\ ext' = ext + 1
  /\ UNCHANGED <<pc, need, off, data, inplace, buf, used, upper, spent>>

EndSetup ==
  /\ pc = "setup" /\ busy
  /\ buf' = Batch(ext, PreN)
  /\ used' = Reserve /\ upper' = PreN
  /\ pc' = "idle" /\ busy' = FALSE
  /\ UNCHANGED <<need, off, data, inplace, ext, spent>>

\* Mutant: the loop goes on while anything is needed.
LongRequestAny == need > 0

LongRequest == need >= N

\* A request of N or more extends into the caller's array, from the seeds in
\* the buffer and then from the last ones of the previous round.
StartInplace ==
  /\ pc = "loop" /\ LongRequest
  /\ IF inplace THEN StartExtension(data, off) ELSE StartExtension(buf, 0)

EndInplace ==
  /\ pc = "loop" /\ busy
  /\ data' = Copied(data, off, Batch(ext, N), 0, N)
  /\ off' = off + (N - Reserve)
  /\ need' = need - (N - Reserve)
  /\ inplace' = TRUE /\ busy' = FALSE
  /\ UNCHANGED <<pc, buf, used, upper, ext, spent>>

\* Bootstrap takes its seeds from the front of the buffer.
StartBootstrap == pc \in {"bootstrap", "again"} /\ StartExtension(buf, 0)

\* The request is longer than what one extension leaves.
WorstCase == pc = "bootstrap" /\ need > N - Reserve

EndBootstrap ==
  LET n == IF WorstCase THEN N - Reserve ELSE need
      fresh == Batch(ext, N)
  IN  /\ pc \in {"bootstrap", "again"} /\ busy
      /\ buf' = fresh /\ upper' = N
      /\ data' = Copied(data, off, fresh, Reserve, n)
      /\ off' = off + n /\ need' = need - n
      /\ used' = IF WorstCase THEN Reserve ELSE Reserve + n
      /\ pc' = IF WorstCase THEN "again" ELSE "return"
      /\ busy' = FALSE
      /\ UNCHANGED <<inplace, ext, spent>>

-----------------------------------------------------------------------------
(* The rest of rcot.                                                       *)

Call(n) ==
  /\ pc = "idle"
  /\ need' = n /\ off' = 0 /\ data' = <<>> /\ inplace' = FALSE
  /\ pc' = "loop"
  /\ UNCHANGED <<busy, buf, used, upper, ext, spent>>

\* Mutant: the seeds that the loop left in the caller's array are not saved.
SavedSeedsLost == buf

\* After the loop its last correlations become the seeds in the buffer.
SavedSeeds ==
  IF inplace THEN [i \in 1 .. N |-> IF i <= Reserve THEN data[off + i] ELSE buf[i]]
  ELSE buf

\* Mutant: the buffer of the setup is taken to be as full as any other.
RemainFull == N - used

Remain == upper - used

\* The rest of the request, as far as the buffer goes (it has not changed since
\* remain_num was read at the start of rcot).
Take ==
  LET n == IF Remain < need THEN Remain ELSE need
  IN  /\ pc = "loop" /\ ~busy /\ ~LongRequest
      /\ buf' = SavedSeeds
      /\ data' = Copied(data, off, buf, used, n)
      /\ used' = used + n /\ off' = off + n /\ need' = need - n
      /\ pc' = IF n < need THEN "bootstrap" ELSE "return"
      /\ inplace' = FALSE
      /\ UNCHANGED <<busy, upper, ext, spent>>

\* The caller has its correlations.
Return ==
  /\ pc = "return"
  /\ spent' = Append(spent, Slice(data, 0, off))
  /\ pc' = "idle" /\ data' = <<>> /\ off' = 0
  /\ UNCHANGED <<busy, need, inplace, buf, used, upper, ext>>

Start == StartSetup \/ StartInplace \/ StartBootstrap
End == EndSetup \/ EndInplace \/ EndBootstrap

Next == Start \/ End \/ Take \/ Return \/ \E n \in Sizes : Len(spent) < MaxSpent /\ Call(n)

Spec == Init /\ [][Next]_vars

-----------------------------------------------------------------------------
(* Properties.                                                             *)

TypeOK ==
  /\ pc \in {"setup", "idle", "loop", "bootstrap", "again", "return"}
  /\ busy \in BOOLEAN /\ inplace \in BOOLEAN
  /\ need \in Nat /\ off \in Nat /\ ext \in Nat
  /\ data \in Seq(OT) /\ off <= Len(data)
  /\ buf \in [1 .. N -> OT]
  /\ used \in Nat /\ upper \in Nat
  /\ spent \in Seq(Seq(OT))

\* rcot never checks a position: the buffer is used behind its reserve and up
\* to its end, the seeds the loop left behind are there, and the rest of a
\* request is within what the last Bootstrap leaves.
BufferInBounds ==
  /\ pc # "setup" => Reserve <= used /\ used <= upper /\ upper <= N
  /\ inplace => off + Reserve <= Len(data)
  /\ pc = "again" => need <= N - Reserve

\* A correlation is consumed once: no seed and no output of any call is another
\* seed or output, and none is an entry that no extension has written.
OTsFresh ==
  \A a, b \in 1 .. Len(spent) : \A i \in DOMAIN spent[a], j \in DOMAIN spent[b] :
    /\ spent[a][i] # Unset
    /\ spent[a][i] = spent[b][j] => a = b /\ i = j

=============================================================================
