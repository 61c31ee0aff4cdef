------------------------------ MODULE Additive ------------------------------
(***************************************************************************)
(* The kernels of libspu/mpc/semi2k that need no correlated numbers.  A    *)
(* share is one number per rank, the parts of a sum or of an exclusive or. *)
(* cheetah (arithmetic_semi2k.cc, boolean_semi2k.cc, io.cc) has the same   *)
(* kernels on the same shares.                                             *)
(*                                                                         *)
(* Boolean shares always have the full width: nbits says how many of their *)
(* bits may differ from zero once they are put together.                   *)
(***************************************************************************)
EXTENDS Parties

Zip(f, g, op(_, _)) == [i \in Rank |-> op(f[i], g[i])]
Each(f, op(_)) == [i \in Rank |-> op(f[i])]
AtRank0(f, op(_)) == [i \in Rank |-> IF i = 0 THEN op(f[i]) ELSE f[i]]

----------------------------------------------------------------------------
(* io.cc                                                                   *)

\* The shares of x, of which those of the ranks after the first are given.
toShares(x, others) ==
    LET rest == [i \in Rank |-> IF i = 0 THEN 0 ELSE others[i]]
    IN  AShr([i \in Rank |-> IF i = 0 THEN Wrap(x - SumOver(rest)) ELSE others[i]])
fromShares(x) ==
    CASE IsA(x) -> SumOver(x.sh)
      [] IsB(x) -> XorOver(x.sh)

----------------------------------------------------------------------------
(* arithmetic.cc                                                           *)

RandA(st) ==
    LET r == genPriv(st, Rank)
    IN  Done(r.st, AShr(Each(r.r, LAMBDA a : ring_rshift(a, 2))))
\* A share of zero to which one rank adds what it knows.
Masked(st, x, rank, minus(_, _), plus(_, _)) ==
    LET zero == ZeroShare(st, minus)
    IN  Done(zero.st, [zero.v EXCEPT ![rank] = plus(@, x.sh[rank])])
P2A(st, x) == LET m == Masked(st, x, 0, ring_sub, ring_add) IN Done(m.st, AShr(m.v))
V2A(st, x) == LET m == Masked(st, x, x.owner, ring_sub, ring_add) IN Done(m.st, AShr(m.v))
A2P(st, x) == Done(st, Pub(allReduceAdd(x.sh)))
A2V(st, x, rank) == Done(st, Priv(rank, OnlyAt(rank, SumOver(x.sh))))
NotA(st, x) ==
    Done(st, AShr(AtRank0(Each(x.sh, ring_neg), LAMBDA a : ring_add(a, ring_not(0)))))
AddAP(st, x, y) == Done(st, AShr(AtRank0(x.sh, LAMBDA a : ring_add(a, y.sh[0]))))
AddAA(st, x, y) == Done(st, AShr(Zip(x.sh, y.sh, ring_add)))
MulAP(st, x, y) == Done(st, AShr(Zip(x.sh, y.sh, ring_mul)))
LShiftA(st, x, n) == Done(st, AShr(Each(x.sh, LAMBDA a : ring_lshift(a, n % K))))

----------------------------------------------------------------------------
(* boolean.cc                                                              *)

CommonTypeB(x, y) == Max({x.nbits, y.nbits})
CastTypeB(st, x, nbits) == Done(st, BShr(nbits, x.sh))
B2P(st, x) == Done(st, Pub(allReduceXor(x.sh)))
P2B(st, x) ==
    LET m == Masked(st, x, 0, ring_xor, ring_xor)
    IN  Done(m.st, BShr(BitWidth(x.sh[0]), m.v))

MaskB(x, m) == BShr(Min({x.nbits, BitWidth(m)}), Each(x.sh, LAMBDA a : ring_and(a, m)))
AndBP(st, x, y) == Done(st, MaskB(x, y.sh[0]))
XorBP(st, x, y) ==
    Done(st, BShr(Max({x.nbits, BitWidth(y.sh[0])}),
                  AtRank0(x.sh, LAMBDA a : ring_xor(a, y.sh[0]))))
XorB(x, y) == BShr(Max({x.nbits, y.nbits}), Zip(x.sh, y.sh, ring_xor))
XorBB(st, x, y) == Done(st, XorB(x, y))

\* Mutant: the width is kept.
LShiftBNarrow(x, n) == BShr(x.nbits, Each(x.sh, LAMBDA a : ring_lshift(a, n % K)))
LShiftB(x, n) ==
    LET shift == n % K
    IN  BShr(Min({x.nbits + shift, K}), Each(x.sh, LAMBDA a : ring_lshift(a, shift)))
RShiftB(x, n) ==
    LET shift == n % K
    IN  BShr(x.nbits - Min({x.nbits, shift}), Each(x.sh, LAMBDA a : ring_rshift(a, shift)))
\* Any width is taken: the sign is always the top bit of the field.
CanARShiftB(x) == TRUE
ARShiftB(x, n) == BShr(K, Each(x.sh, LAMBDA a : ring_arshift(a, n % K)))
BitrevB(x, start, end) ==
    BShr(Max({x.nbits, end}), Each(x.sh, LAMBDA a : ring_bitrev(a, start, end)))
BitIntlB(x, stride)   == BShr(x.nbits, Each(x.sh, LAMBDA a : BitIntl(a, stride, x.nbits)))
BitDeintlB(x, stride) == BShr(x.nbits, Each(x.sh, LAMBDA a : BitDeintl(a, stride, x.nbits)))

----------------------------------------------------------------------------
(* conversion.cc                                                           *)

\* For every rank a boolean sharing of what that rank holds of x.
SplitByRank(st, x) ==
    LET split[n \in 0..World] ==
            IF n = 0 THEN [st |-> st, b |-> <<>>]
            ELSE LET prev == split[n-1]
                     m == Masked(prev.st, x, n - 1, ring_xor, ring_xor)
                 IN  [st |-> m.st, b |-> Append(prev.b, BShr(K, m.v))]
    IN  split[World]

----------------------------------------------------------------------------
(* What a dealer of correlated numbers has to give, and what the ranks do  *)
(* with it, in semi2k and in securenn.                                     *)

\* The truncated r and its top bit, of which they have drawn rc and rb.
TruncPrAdjust(r, rc, rb, n) ==
    [rc |-> ring_sub(ring_rshift(ring_lshift(r, 1), n + 1), rc),
     rb |-> ring_sub(ring_rshift(r, K - 1), rb)]
\* x + r is opened, x moved up by 2^(K-2) to be nonnegative, and the shares of
\* the truncated r are taken from it.
TruncPrOpen(x, t, n) ==
    LET c == SumOver(AtRank0(Zip(x.sh, t.r, ring_add), LAMBDA a : ring_add(a, 2^(K-2))))
        top == ring_rshift(c, K - 1)
        b(i) == Wrap(t.rb[i] + (IF i = 0 THEN top ELSE 0) - 2 * top * t.rb[i])
        y == [i \in Rank |-> Wrap(b(i) * 2^(K-1-n) - t.rc[i])]
        c_hat == ring_rshift(ring_lshift(c, 1), n + 1)
    IN  AtRank0(y, LAMBDA a : Wrap(a + c_hat - 2^(K-2-n)))

\* The bits of x are opened behind random bits r[j] that are shared as numbers.
RandbitOpen(x, r) ==
    LET Positions == 0..x.nbits-1
        sum(f) == Wrap(FoldFunction(+, 0, f))
        mask(i) == sum([j \in Positions |-> (r[j][i] % 2) * 2^j])
        c == XorOver([i \in Rank |-> ring_xor(x.sh[i], mask(i))])
        bit(i, j) == LET c_j == (c \div 2^j) % 2
                     IN  (IF i = 0 THEN c_j ELSE 0) + (1 - 2 * c_j) * r[j][i]
    IN  [i \in Rank |-> sum([j \in Positions |-> bit(i, j) * 2^j])]
=============================================================================
