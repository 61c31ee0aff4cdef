------------------------------ MODULE Circuits ------------------------------
(***************************************************************************)
(* The adders of libspu/mpc/ab_api.cc, which every protocol runs on its    *)
(* own boolean shares: the operations on those shares are the parameters.  *)
(***************************************************************************)
EXTENDS Ring2k, SequencesExt

CONSTANTS and_bb(_, _, _),      \* streams and two shares to a result [st, v]
          xor_bb(_, _),
          lshift_b(_, _), rshift_b(_, _),
          and_bp(_, _),         \* with a mask, the same number everywhere
          bitdeintl_b(_, _)

Result(st, v) == [st |-> st, v |-> v]

\* (G, P) o (G1, P1) = (G ^ (P & G1), P & P1), where G1 and P1 are G and P
\* moved up by 1, 2, 4 ... positions.
KoggeStoneLevel(acc, offset) ==
    LET p == and_bb(acc.st, acc.P, lshift_b(acc.P, offset))
        g == and_bb(p.st, acc.P, lshift_b(acc.G, offset))
    IN  [st |-> g.st, P |-> p.v, G |-> xor_bb(acc.G, g.v)]

ppa_kogge_stone(st, x, y, nbits) ==
    LET g == and_bb(st, x, y)
        offsets == [l \in 1..Log2Ceil(nbits) |-> 2^(l-1)]
        last == FoldLeft(KoggeStoneLevel,
                         [st |-> g.st, P |-> xor_bb(x, y), G |-> g.v], offsets)
    IN  Result(last.st, xor_bb(xor_bb(x, y), lshift_b(last.G, 1)))

\* The default of add_bb.  The kernel refuses operands of different widths.
CanAdd(x, y) == x.nbits = y.nbits
add_bb(st, x, y) == ppa_kogge_stone(st, x, y, x.nbits)

\* The even and the odd bits, each in half the width.
CanScatter(x) == HasSingleBit(x.nbits)
bit_scatter(x) ==
    LET out == bitdeintl_b(x, 0)
    IN  [hi |-> rshift_b(out, x.nbits \div 2),
         lo |-> and_bp(out, 2^(x.nbits \div 2) - 1)]

\* Mutant: an odd k gets no bit below.
CarryLevelUnpadded(acc) ==
    LET p == bit_scatter(acc.P)
        g == bit_scatter(acc.G)
        pp == and_bb(acc.st, p.lo, p.hi)
        gp == and_bb(pp.st, g.lo, p.hi)
    IN  [st |-> gp.st, P |-> pp.v, G |-> xor_bb(g.hi, gp.v), k |-> (acc.k + 1) \div 2]
\* The carry out of the low k bits.  P and G of an odd k get a bit of zeros
\* below, then neighbours are merged until one is left.
CarryLevel(acc) ==
    LET odd == acc.k % 2
        p == bit_scatter(IF odd = 1 THEN lshift_b(acc.P, 1) ELSE acc.P)
        g == bit_scatter(IF odd = 1 THEN lshift_b(acc.G, 1) ELSE acc.G)
        pp == and_bb(acc.st, p.lo, p.hi)
        gp == and_bb(pp.st, g.lo, p.hi)
    IN  [st |-> gp.st, P |-> pp.v, G |-> xor_bb(g.hi, gp.v), k |-> (acc.k + odd) \div 2]

carry_a2b(st, x, y, k) ==
    LET g == and_bb(st, x, y)
        start == [st |-> g.st, P |-> xor_bb(x, y), G |-> g.v, k |-> k]
        last == FoldLeft(LAMBDA acc, l : IF acc.k > 1 THEN CarryLevel(acc) ELSE acc,
                         start, [l \in 1..k |-> l])
    IN  Result(last.st, last.G)
=============================================================================
