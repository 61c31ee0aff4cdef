--------------------------- MODULE PrivateCompare ---------------------------
(***************************************************************************)
(* The private compare of securenn, as ranks 0 and 1 run it over an array: *)
(* pforeach hands chunks of the array to threads, and every thread walks   *)
(* the bits of its elements from the highest to the lowest.  The variables *)
(* w and w_total are declared outside the loop and captured by reference:  *)
(* the threads of a rank share them.                                       *)
(*                                                                         *)
(* Here every element has a thread of its own, as the elements of an array *)
(* of more than kMinTaskSize may have, and the common bit beta is 0: rank  *)
(* 2 is to find x > r.  A step is a statement; a thread may be scheduled   *)
(* away between any two of them.                                           *)
(***************************************************************************)
EXTENDS Integers, FiniteSets

CONSTANTS Elements, Threads, \* Threads[rank]: how many of them run at a time
          K, P,              \* the width of an element, the prime
          Inputs             \* pairs [x, r], functions from Elements to 0..2^K-1

\* K >= 1; P is a prime greater than K + 2.

Ranks == 0..1

VARIABLES x, r,
          dp_x,      \* dp_x[rank][e][i]: a share modulo P of a bit of x
          w, w_total,
          at,        \* at[rank][e]: the statement and the bit it is about
          c
vars == <<x, r, dp_x, w, w_total, at, c>>

Bit(v, i) == (v \div 2^i) % 2
Bits == 0..K-1
Idle == [todo |-> "start", bit |-> K-1]
Over == [todo |-> "end", bit |-> 0]

Init ==
    /\ \E in \in Inputs : x = in.x /\ r = in.r
    \* Rank 2 draws the share of rank 0; the sum may have a P too many.
    /\ \E p0 \in {0, 2} :
          dp_x = [k \in Ranks |-> [e \in Elements |-> [i \in Bits |->
                    IF k = 0 THEN p0 ELSE Bit(x[e], i) + P - p0]]]
    /\ w = [k \in Ranks |-> 0]
    /\ w_total = [k \in Ranks |-> 0]
    /\ at = [k \in Ranks |-> [e \in Elements |-> Idle]]
    /\ c = [k \in Ranks |-> [e \in Elements |-> [i \in Bits |-> 0]]]

Running(k) == {e \in Elements : at[k][e] \notin {Idle, Over}}
Goto(k, e, todo, bit) == at' = [at EXCEPT ![k][e] = [todo |-> todo, bit |-> bit]]

\* A thread takes its next element: w_total = 0.
Start(k, e) ==
    /\ at[k][e] = Idle
    /\ Cardinality(Running(k)) < Threads[k]
    /\ w_total' = [w_total EXCEPT ![k] = 0]
    /\ Goto(k, e, "w", K-1)
    /\ UNCHANGED <<x, r, dp_x, w, c>>

SetW(k, e) ==
    /\ at[k][e].todo = "w"
    /\ LET i == at[k][e].bit
           dp == dp_x[k][e][i]
           r_i == Bit(r[e], i)
       IN  /\ w' = [w EXCEPT ![k] = (P + dp + k * r_i - 2 * r_i * dp) % P]
           /\ Goto(k, e, "c", i)
    /\ UNCHANGED <<x, r, dp_x, w_total, c>>

SetC(k, e) ==
    /\ at[k][e].todo = "c"
    /\ LET i == at[k][e].bit
       IN  /\ c' = [c EXCEPT ![k][e][i] =
                      (P + k * Bit(r[e], i) - dp_x[k][e][i] + k + w_total[k]) % P]
           /\ Goto(k, e, "total", i)
    /\ UNCHANGED <<x, r, dp_x, w, w_total>>

AddW(k, e) ==
    /\ at[k][e].todo = "total"
    /\ w_total' = [w_total EXCEPT ![k] = (@ + w[k]) % P]
    /\ LET i == at[k][e].bit
       IN  IF i > 0 THEN Goto(k, e, "w", i-1) ELSE at' = [at EXCEPT ![k][e] = Over]
    /\ UNCHANGED <<x, r, dp_x, w, c>>

Next ==
    \E k \in Ranks, e \in Elements : Start(k, e) \/ SetW(k, e) \/ SetC(k, e) \/ AddW(k, e)

Spec == Init /\ [][Next]_vars

----------------------------------------------------------------------------
Finished == \A k \in Ranks, e \in Elements : at[k][e] = Over
\* What rank 2 makes of what the two send; the factors that hide d change
\* nothing about its zeros.
Greater(e) == \E i \in Bits : (c[0][e][i] + c[1][e][i]) % P = 0

\* Every element is compared with its own bound, however the threads of a
\* rank are scheduled: msb_s of an array of any length is the msb of its
\* elements.
Compares == Finished => \A e \in Elements : Greater(e) <=> x[e] > r[e]
=============================================================================
