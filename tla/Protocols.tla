------------------------------ MODULE Protocols ------------------------------
(***************************************************************************)
(* A program on secret shared numbers: calls of kernel/hal, one after the  *)
(* other, on the value acc that the last one has left and an operand arg,  *)
(* under one of the protocols of Configurations.                           *)
(*                                                                         *)
(* What the program means is said on plain numbers: expect is the set of   *)
(* results that the last call may have, given the number acc stood for     *)
(* before it.  It is what mpc/ref2k, the protocol that computes in plain,  *)
(* and the functions of hal make of it.  What the ranks really hold is the *)
(* business of the kernels.                                                *)
(*                                                                         *)
(* A program on arrays is of the same form: columns is a table of values,  *)
(* the columns of one length, and meant the set of tables of numbers that  *)
(* the last call may have left.  The value acc is not used then.           *)
(***************************************************************************)
EXTENDS Values, Sequences

CONSTANTS
    \* The protocols, as Configurations has them.
    Ranks(_), SharedNumber(_, _), FirstStreams(_), ToShares(_, _), ToBitShares(_, _, _),
    RunCall(_, _, _, _, _, _), RunTable(_, _, _, _, _), RunFork(_, _), CanEqual(_, _, _), Takes(_, _, _, _),
    SameCopies(_, _), SameDraws(_, _),
    Starts,       \* records [prot, acc, arg, calls]: the operands, as
                  \* [kind, num, owner], and how many calls are made of them
    TableStarts   \* records [prot, columns, calls]: columns of such operands

VARIABLES prot, streams, acc, arg, expect, calls, columns, meant
vars == <<prot, streams, acc, arg, expect, calls, columns, meant>>

\* The number that a value stands for.
Number(x) ==
    CASE x.kind = "P" -> x.sh[0]
      [] x.kind = "V" -> x.sh[x.owner]
      [] OTHER        -> SharedNumber(prot, x)
a == Number(acc)
b == Number(arg)
Numbers == [k \in DOMAIN columns |-> [j \in DOMAIN columns[k] |-> Number(columns[k][j])]]

----------------------------------------------------------------------------
\* An operand as it enters the program.
Operand(st, o) ==
    CASE o.kind = "A" -> [st |-> st, v |-> ToShares(prot, o.num)]
      [] o.kind = "B" -> ToBitShares(prot, st, o.num)
      [] o.kind = "P" -> [st |-> st, v |-> Pub([i \in Ranks(prot) |-> o.num])]
      [] o.kind = "V" ->
            [st |-> st,
             v |-> Priv(o.owner, [i \in Ranks(prot) |-> IF i = o.owner THEN o.num ELSE 0])]

InitOnNumbers ==
    \E s \in Starts :
        /\ prot = s.prot
        /\ LET x == Operand(FirstStreams(prot), s.acc)
               y == Operand(x.st, s.arg)
           IN  streams = y.st /\ acc = x.v /\ arg = y.v
        /\ expect = {s.acc.num}
        /\ calls = s.calls
        /\ columns = <<>> /\ meant = {}

\* The operands of os one by one.
Loaded(st, os, load(_, _)) ==
    LET upto[n \in 0..Len(os)] ==
            IF n = 0 THEN [st |-> st, v |-> <<>>]
            ELSE LET x == load(upto[n-1].st, os[n])
                 IN  [st |-> x.st, v |-> Append(upto[n-1].v, x.v)]
    IN  upto[Len(os)]
InitOnTables ==
    \E s \in TableStarts :
        /\ prot = s.prot
        /\ LET column(st, os) == Loaded(st, os, Operand)
               table == Loaded(FirstStreams(prot), s.columns, column)
           IN  streams = table.st /\ columns = table.v
        /\ acc = columns[1][1] /\ arg = acc /\ expect = {a}
        /\ meant = {Numbers}
        /\ calls = s.calls

Init == InitOnNumbers \/ InitOnTables

\* One call, of which the program expects one of results.  The program ends if
\* a kernel refuses its operands: the exception leaves no value.
Call(op, n, results) ==
    LET r == RunCall(prot, streams, op, acc, arg, n)
    IN  /\ calls > 0 /\ columns = <<>>
        /\ streams' = r.st
        /\ \/ /\ ~r.st.refused
              /\ calls' = calls - 1
              /\ acc' = r.v
              /\ expect' = results
           \/ /\ r.st.refused
              /\ calls' = 0
              /\ UNCHANGED <<acc, expect>>
        /\ UNCHANGED <<prot, arg, columns, meant>>

\* One call on the columns, of which one of the tables is expected.
CallTable(op, how, tables) ==
    LET r == RunTable(prot, streams, op, columns, how)
    IN  /\ calls > 0 /\ columns # <<>>
        /\ streams' = r.st
        /\ \/ /\ ~r.st.refused
              /\ calls' = calls - 1
              /\ columns' = r.v
              /\ meant' = tables
           \/ /\ r.st.refused
              /\ calls' = 0
              /\ UNCHANGED <<columns, meant>>
        /\ UNCHANGED <<prot, acc, arg, expect>>

\* A context for another thread: the program goes on with it or without it.
Fork ==
    /\ Takes(prot, "fork", acc, 0)
    /\ calls > 0
    /\ calls' = calls - 1
    /\ LET f == RunFork(prot, streams) IN streams' \in {f.child, f.parent}
    /\ UNCHANGED <<prot, acc, arg, expect, columns, meant>>

----------------------------------------------------------------------------
(* The calls and what they mean.  A comparison is the sign of a difference *)
(* and holds of numbers whose difference has a sign: the one of securenn   *)
(* finds it for numbers that leave one more bit free.                      *)

HasSign(v) ==
    LET bits == IF prot = "securenn" THEN K - 1 ELSE K
    IN  v \in -(2^(bits-1))..(2^(bits-1) - 1)
Differ(v, w) == HasSign(Signed(v) - Signed(w))
Below(v, w) == Truth(Signed(v) < Signed(w))

Add == Call("add", 0, {ring_add(a, b)})
Sub == Call("sub", 0, {ring_sub(a, b)})
Mul == Call("mul", 0, {ring_mul(a, b)})
And == Call("and", 0, {ring_and(a, b)})
Xor == Call("xor", 0, {ring_xor(a, b)})
Or  == Call("or", 0, {OfBits(BitsOf[a] \cup BitsOf[b])})
Less == Differ(a, b) /\ Call("less", 0, {Below(a, b)})
\* By a kernel where there is one, else by two comparisons.
Equal ==
    /\ \/ CanEqual(prot, acc, arg)
       \/ Differ(a, b) /\ Differ(b, a)
    /\ Call("equal", 0, {ring_equal(a, b)})
Not == Call("not", 0, {ring_not(a)})
Negate == Call("negate", 0, {ring_neg(a)})
Msb == HasSign(Signed(a)) /\ Call("msb", 0, {Truth(Signed(a) < 0)})
Square == Call("square", 0, {ring_mul(a, a)})
LShift == \E n \in 1..K-1 : Call("lshift", n, {ring_lshift(a, n)})
RShift == \E n \in 1..K-1 : Call("rshift", n, {ring_rshift(a, n)})
ARShift ==
    \E n \in 1..K-1 :
        Takes(prot, "arshift", acc, n) /\ Call("arshift", n, {ring_arshift(a, n)})
\* Of a number that leaves two bits free, and too great by one at most; cheetah
\* may also be too small by one.  spdz2k adds what is left of two shares that
\* it has shifted apart: it is too small by one at most, but wrong altogether
\* if their sum has run over.
TruncErrors(bits) ==
    CASE prot = "cheetah" -> -1..1
      [] prot = "spdz2k" /\ isSecret(acc) -> {e + c * 2^(K-bits) : e \in -1..0, c \in -1..1}
      [] OTHER            -> 0..1
Trunc ==
    \E n \in 0..K-2 :
        LET bits == IF n = 0 THEN FxpBits ELSE n
        IN  /\ isSecret(acc) => Signed(a) \in -(2^(K-2))..(2^(K-2) - 1)
            /\ Call("trunc", n, {Wrap(ring_arshift(a, bits) + e) : e \in TruncErrors(bits)})
BitRev ==
    \E n \in 1..K-1 : Takes(prot, "bitrev", acc, n) /\ Call("bitrev", n, {ring_bitrev(a, 0, n)})
Mux == a \in {0, 1} /\ \E n \in {Modulus - 1} : Call("mux", n, {IF a = 1 THEN b ELSE n})
Clamp ==
    \E n \in {1} :
        LET low == IF Signed(a) < Signed(b) THEN b ELSE a
        IN  /\ Differ(a, b) /\ Differ(low, n)
            /\ Call("clamp", n, {IF Signed(low) < n THEN low ELSE n})
Sign == HasSign(Signed(a)) /\ Call("sign", 0, {IF Signed(a) < 0 THEN Modulus - 1 ELSE 1})
Eqz == Call("eqz", 0, {ring_equal(a, 0)})
BitParity == Call("bit_parity", 0, {Cardinality(BitsOf[a]) % 2})
PopCount == Call("popcount", 0, {Cardinality(BitsOf[a])})
PrefixOr == Call("prefix_or", 0, {2^BitWidth(a) - 1})
BitDeInterleave == Call("bitdeintl", 0, {BitDeintl(a, 0, K)})
Int2Fxp == Call("int2fxp", 0, {ring_lshift(a, FxpBits)})
\* Towards zero.
Fxp2Int ==
    LET whole(v) == IF v < 0 THEN -((-v) \div 2^FxpBits) ELSE v \div 2^FxpBits
    IN  HasSign(Signed(a)) /\ Call("fxp2int", 0, {Wrap(whole(Signed(a)))})

PreferA == Call("prefer_a", 0, {a})
PreferB == Call("prefer_b", 0, {a})
CastType == isSecret(acc) /\ isSecret(arg) /\ Call("cast_type", 0, {a})
Seal == ~isSecret(acc) /\ \E n \in {0} \cup (IF a \in {0, 1} THEN {1} ELSE {}) : Call("seal", n, {a})
Reveal == ~isPublic(acc) /\ Call("reveal", 0, {a})
\* b2v is a kernel of some protocols only.
RevealTo ==
    /\ isSecret(acc)
    /\ Takes(prot, "s2v", acc, 0)
    /\ \E n \in Ranks(prot) : Call("s2v", n, {a})
GiveTo == isPublic(acc) /\ \E n \in Ranks(prot) : Call("p2v", n, {a})
\* As the last call of securenn: rank 2 gets a part of this number, and
\* products and comparisons take it for zero.
RandSecret == (prot = "securenn" => calls = 1) /\ Call("rand_s", 0, Ring)
RandPublic == Call("rand_p", 0, Ring)

----------------------------------------------------------------------------
(* The calls on tables.  A row of the result is a row of the table.        *)

Orders == Permutations(1..Len(columns[1]))
Reordered(t, p) == [k \in DOMAIN t |-> [j \in DOMAIN p |-> t[k][p[j]]]]
\* Row i comes before row j by the first keys columns.
Precedes(t, keys, ascending, i, j) ==
    \E k \in 1..keys :
        /\ \A l \in 1..k-1 : t[l][i] = t[l][j]
        /\ t[k][i] # t[k][j]
        /\ (Signed(t[k][i]) < Signed(t[k][j])) = ascending
Comparable(t, k) == \A i, j \in DOMAIN t[k] : Differ(t[k][i], t[k][j])

\* Radix sort is stable.
IsStable(keys) ==
    Takes(prot, "permute", acc, 0) /\ \E k \in 1..keys : ~isPublic(columns[k][1])
Sorts(keys, ascending, p) ==
    \A i \in DOMAIN p : \A j \in 1..i-1 :
        /\ ~Precedes(Numbers, keys, ascending, p[i], p[j])
        /\ IsStable(keys) /\ p[i] < p[j] => Precedes(Numbers, keys, ascending, p[j], p[i])
Sort ==
    \E keys \in 1..Len(columns), ascending \in BOOLEAN :
        /\ \A k \in 1..keys : Comparable(Numbers, k)
        /\ CallTable("sort", [num_keys |-> keys, ascending |-> ascending],
                     {Reordered(Numbers, p) : p \in {q \in Orders : Sorts(keys, ascending, q)}})

\* The first k_hi elements, with that of k_lo in its place, and where they were.
Selects(largest, k_lo, k_hi, p) ==
    LET ahead(i, j) == ~Precedes(Numbers, 1, ~largest, p[j], p[i])
    IN  /\ \A i \in 1..k_hi, j \in k_hi+1..Len(columns[1]) : ahead(i, j)
        /\ \A i \in DOMAIN p : IF i < k_lo THEN ahead(i, k_lo) ELSE ahead(k_lo, i)
TopK ==
    \E largest, value_only \in BOOLEAN, k_lo, k_hi \in DOMAIN columns[1] :
        /\ Len(columns) = 1 /\ k_lo <= k_hi
        /\ Comparable(Numbers, 1)
        /\ LET values(p) == [j \in 1..k_hi |-> Numbers[1][p[j]]]
               indices(p) == [j \in 1..k_hi |-> p[j] - 1]
               result(p) == IF value_only THEN <<values(p)>> ELSE <<values(p), indices(p)>>
           IN  CallTable("topk", [largest |-> largest, k_lo |-> k_lo, k_hi |-> k_hi,
                                  value_only |-> value_only],
                         {result(p) : p \in {q \in Orders : Selects(largest, k_lo, k_hi, q)}})

Shuffle == CallTable("shuffle", [any |-> TRUE], {Reordered(Numbers, p) : p \in Orders})

Next ==
    \/ Add \/ Sub \/ Mul \/ And \/ Xor \/ Or \/ Less \/ Equal \/ Not \/ Negate \/ Msb \/ Square
    \/ LShift \/ RShift \/ ARShift \/ Trunc \/ BitRev \/ Mux \/ Clamp \/ Sign \/ Eqz
    \/ BitParity \/ PopCount \/ PrefixOr \/ BitDeInterleave \/ Int2Fxp \/ Fxp2Int
    \/ PreferA \/ PreferB \/ CastType \/ Seal \/ Reveal \/ RevealTo \/ GiveTo
    \/ RandSecret \/ RandPublic \/ Fork
    \/ (columns # <<>> /\ Sort) \/ (columns # <<>> /\ TopK) \/ (columns # <<>> /\ Shuffle)

Spec == Init /\ [][Next]_vars

----------------------------------------------------------------------------
\* However the calls follow each other, whatever representation each has left
\* to the next, and however public, private and secret operands are mixed,
\* what the ranks hold stands for a result the plain program has.
Reconstructs ==
    streams.atEdge \/ IF columns = <<>> THEN a \in expect ELSE Numbers \in meant

\* Whoever holds a part of a value holds the same: both ranks of a replicated
\* part, and all ranks of a public number.  No single share shows that a
\* kernel has updated one copy of it only.
Held == {acc} \cup UNION {Range(columns[k]) : k \in DOMAIN columns}
CopiesAgree ==
    \A x \in Held :
        /\ isPublic(x) => \A i \in Ranks(prot) : x.sh[i] = x.sh[0]
        /\ isSecret(x) => SameCopies(prot, x)

\* The ranks have drawn equally often from every stream they share, in every
\* order of calls whose kernels draw on some ranks only: else the next kernel
\* would mask with numbers that do not cancel.
StreamsAligned == SameDraws(prot, streams)

\* A boolean share stands for a number of at most nbits bits: the kernels
\* store, combine and convert no more of it than that.
WidthCovers == \A x \in Held : IsB(x) => Number(x) < 2^x.nbits
=============================================================================
