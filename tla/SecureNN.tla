------------------------------ MODULE SecureNN ------------------------------
(***************************************************************************)
(* The kernels of libspu/mpc/securenn.  A value is shared by ranks 0 and 1 *)
(* as it is in semi2k; rank 2 holds zero and deals the correlated numbers, *)
(* which each of the others draws from the seed it shares with rank 2.     *)
(*                                                                         *)
(* The linear kernels are those of Additive over the three ranks.          *)
(***************************************************************************)
EXTENDS Additive

CONSTANT P      \* the prime of private compare, 131 in the code

TwoShares(s0, s1) == AShr([i \in Rank |-> CASE i = 0 -> s0 [] i = 1 -> s1 [] i = 2 -> 0])
\* Rank 2 sends its part to rank 0.
FoldRank2(f) == TwoShares(ring_add(f[0], f[2]), f[1])

\* io.cc: the rank of the dealer gets zero.
toTwoShares(x, r) == TwoShares(ring_sub(x, r), r)

\* What ranks 0 and 1 draw from the seed that they share: P0.r1 = P1.r0.
CommonDraw(st, numel) ==
    LET d == fillPrssPair(st, numel, BothEverywhere)
    IN  [st |-> d.st, r |-> d.r1[0], own |-> [j \in 0..1 |-> IF j = 0 THEN d.r1[0] ELSE d.r0[1]]]
AddPairZero(st, z0, z1) ==
    LET zero == CommonDraw(st, 1)
    IN  Done(zero.st, TwoShares(ring_sub(z0, zero.own[0][0]), ring_add(z1, zero.own[1][0])))

----------------------------------------------------------------------------
(* arithmetic.cc: into shares                                              *)

V2TwoShares(st, x) ==
    LET d == genPrssPair(st, BothEverywhere)
        owned(i) == IF x.owner = i THEN x.sh[i] ELSE 0
        zero == [i \in Rank |-> ring_sub(d.r0[i], d.r1[i])]
    IN  Done(d.st, IF x.owner = 2 THEN FoldRank2([zero EXCEPT ![2] = ring_add(@, x.sh[2])])
                   ELSE TwoShares(ring_add(d.r1[0], owned(0)), ring_sub(owned(1), d.r0[1])))
P2TwoShares(st, x) ==
    LET d == genPrssPair(st, BothEverywhere)
    IN  Done(d.st, TwoShares(d.r1[0], ring_sub(x.sh[1], d.r0[1])))

----------------------------------------------------------------------------
(* Correlated numbers                                                      *)

\* a and b of both ranks and c of rank 0 are drawn from the seeds shared with
\* rank 2, which sends rank 1 what makes c0 + c1 = (a0 + a1)(b0 + b1).
Triple(st, plus(_, _), minus(_, _), times(_, _)) ==
    LET pairwise == [i \in Rank |-> CASE i = 0 -> "First" [] i = 1 -> "Second" [] i = 2 -> "Both"]
        onlyRank0 == [i \in Rank |-> CASE i = 0 -> "First" [] i = 1 -> "None" [] i = 2 -> "Second"]
        a == genPrssPair(st, pairwise)
        b == genPrssPair(a.st, pairwise)
        c == genPrssPair(b.st, onlyRank0)
        c1 == minus(times(plus(a.r1[2], a.r0[2]), plus(b.r1[2], b.r0[2])), c.r1[2])
        ofRanks(d) == [i \in Rank |-> CASE i = 0 -> d.r0[0] [] i = 1 -> d.r1[1] [] i = 2 -> 0]
    IN  [st |-> c.st, a |-> ofRanks(a), b |-> ofRanks(b),
         c |-> [i \in Rank |-> CASE i = 0 -> c.r0[0] [] i = 1 -> c1 [] i = 2 -> 0]]

\* Ranks 0 and 1 open x - a and y - b to each other only: of rank 2 neither
\* share is read.
Product(x0, x1, y0, y1, t) ==
    LET x_a == Wrap(x0 - t.a[0] + x1 - t.a[1])
        y_b == Wrap(y0 - t.b[0] + y1 - t.b[1])
        z(i) == Wrap(t.c[i] + x_a * t.b[i] + y_b * t.a[i])
    IN  <<Wrap(z(0) + x_a * y_b), z(1)>>
MulAA(st, x, y) ==
    LET t == Triple(st, ring_add, ring_sub, ring_mul)
        z == Product(x.sh[0], x.sh[1], y.sh[0], y.sh[1], t)
    IN  AddPairZero(t.st, z[1], z[2])

\* n private numbers of every rank, n at least one.
PrivDraw(st, n) ==
    LET draw[j \in 1..n] ==
            LET before == IF j = 1 THEN [st |-> st, r |-> <<>>] ELSE draw[j-1]
                d == genPriv(before.st, Rank)
            IN  [st |-> d.st, r |-> Append(before.r, d.r)]
    IN  draw[n]
AdjustRank0(f, by) == [f EXCEPT ![0] = ring_add(@, by)]

\* Rank 2 collects the numbers that the ranks have drawn and corrects rank 0's.
TruncAPr(st, x, n) ==
    LET d == PrivDraw(st, 3)
        adjust == TruncPrAdjust(SumOver(d.r[1]), SumOver(d.r[2]), SumOver(d.r[3]), n)
        t == [r |-> d.r[1], rc |-> AdjustRank0(d.r[2], adjust.rc),
                            rb |-> AdjustRank0(d.r[3], adjust.rb)]
    IN  Done(d.st, FoldRank2(TruncPrOpen(x, t, n)))

----------------------------------------------------------------------------
(* boolean.cc                                                              *)

\* The masks are opened among all three ranks.
AndBB(st, x, y) ==
    LET t == Triple(st, ring_xor, ring_xor, ring_and)
        nbits == Min({x.nbits, y.nbits})
        cut(a) == Truncate(a, StorageBits(nbits))
        x_a == XorOver(Each(Zip(x.sh, t.a, ring_xor), cut))
        y_b == XorOver(Each(Zip(y.sh, t.b, ring_xor), cut))
        z == [i \in Rank |-> ring_xor(cut(t.c[i]), ring_xor(ring_and(x_a, cut(t.b[i])),
                                                            ring_and(y_b, cut(t.a[i]))))]
    IN  Done(t.st, BShr(nbits, AtRank0(z, LAMBDA a : ring_xor(a, ring_and(x_a, y_b)))))

Adder == INSTANCE Circuits WITH and_bb <- AndBB, xor_bb <- XorB, lshift_b <- LShiftB,
                 rshift_b <- RShiftB, and_bp <- MaskB, bitdeintl_b <- BitDeintlB

----------------------------------------------------------------------------
(* conversion.cc                                                           *)

A2B(st, x) == LET s == SplitByRank(st, x) IN vreduce(s.st, s.b, Adder!add_bb)

B2A_Randbit(st, x) ==
    LET d == PrivDraw(st, x.nbits)
        bits == freshRandom(d.st)
        randbit(j) == (bits.r \div 2^(j % K)) % 2
        r == [j \in 0..x.nbits-1 |->
                AdjustRank0(d.r[j+1], ring_sub(randbit(j), SumOver(d.r[j+1])))]
    IN  IF x.nbits = 0 THEN Done(st, AShr(Everywhere(0)))
        ELSE Done(bits.st, FoldRank2(RandbitOpen(x, r)))

----------------------------------------------------------------------------
(* The sign, in arithmetic modulo L_1 = 2^K - 1.  A number of that ring has *)
(* one form but zero, which is 0 or L_1.                                   *)

L_1 == Modulus - 1
add_L1(x, y) == IF x + y >= Modulus THEN x + y - L_1 ELSE x + y
sub_L1(x, y) == IF x < y THEN x - y + L_1 ELSE x - y
Overflows(x, y) == Truth(x + y >= Modulus)
Bit(x, i) == (x \div 2^i) % 2
AtEdge(st, p) == [st EXCEPT !.atEdge = @ \/ p]

\* Rank 2's own random numbers: n of Ring, and n below L_1.
OwnDraw(st, n) ==
    LET draw[j \in 0..n] ==
            IF j = 0 THEN [st |-> st, r |-> <<>>]
            ELSE LET d == freshRandom(draw[j-1].st)
                 IN  [st |-> d.st, r |-> Append(draw[j-1].r, d.r)]
    IN  draw[n]
below_L1(r) == r % L_1

\* What rank 2 finds in the numbers d that ranks 0 and 1 make of r, of shares
\* of the bits of x and of the common bit beta: whether one of them is zero,
\* which is x > r if beta is 0 and x <= r if it is 1.  The shares modulo P
\* cancel; the factors s and the masks u are drawn by ranks 0 and 1 together.
\* There is no r + 1 if r is L_1, and the numbers are then made from u alone.
PrivateCompare(x, r, beta, s, u) ==
    LET bound == IF beta = 0 THEN r ELSE r + 1
        w(i) == (Bit(x, i) + Bit(bound, i)) % 2
        w_total(i) == MapThenSumSet(w, i+1..K-1)
        less == IF beta = 0 THEN [i \in 0..K-1 |-> Bit(r, i) - Bit(x, i)]
                            ELSE [i \in 0..K-1 |-> Bit(x, i) - Bit(bound, i)]
        factor(i) == (s[i] % (P - 1)) + 1
        c0(i) == IF i # 1 THEN u[i] + 1 ELSE u[i]
        masked(i) == (Wrap(factor(i) * c0(i)) % P) + (Wrap(factor(i) * Wrap(-u[i])) % P)
        d(i) == IF beta = 1 /\ r = L_1 THEN masked(i) % P
                ELSE (factor(i) * (less[i] + 1 + w_total(i))) % P
    IN  Truth(\E i \in 0..K-1 : d(i) = 0)

\* Shares of a number modulo 2^K become shares of the same modulo L_1, for
\* numbers other than L_1.
ShareConvert(st, x) ==
    LET zero == CommonDraw(st, 1)
        eta2 == CommonDraw(zero.st, 1)
        r0 == CommonDraw(eta2.st, 1)
        r1 == CommonDraw(r0.st, 1)
        s == CommonDraw(r1.st, K)
        u == CommonDraw(s.st, K)
        own == OwnDraw(u.st, 2)
        part(j) == IF j = 0 THEN r0.r[0] ELSE r1.r[0]
        r == ring_add(part(0), part(1))
        alpha == Overflows(part(0), part(1))
        masked(j) == ring_add(x.sh[j], part(j))
        beta(j) == Overflows(x.sh[j], part(j))
        share(v, v0, j) == IF j = 0 THEN v0 ELSE sub_L1(v, v0)
        delta(j) == share(Overflows(masked(0), masked(1)), below_L1(own.r[1]), j)
        flip == eta2.r[0] % 2
        eta1 == PrivateCompare(ring_add(masked(0), masked(1)), ring_sub(r, 1), flip, s.r, u.r)
        eta_(j) == share(eta1, below_L1(own.r[2]), j)
        eta(j) == CASE flip = 0 -> eta_(j)
                    [] flip = 1 /\ eta_(j) = 0 -> 1 - j
                    [] OTHER -> Wrap(L_1 - eta_(j) + 1 - j)
        sum(j) == Wrap(delta(j) + eta(j) + beta(j))
        grown(j) == IF sum(j) < delta(j) THEN Wrap(sum(j) + 1) ELSE sum(j)
        theta(j) == IF j = 0 THEN sub_L1(grown(0), alpha + 1) ELSE grown(1)
        res(j) == sub_L1(x.sh[j], theta(j))
        edge == r = 0 \/ \E j \in 0..1 : eta(j) + beta(j) = Modulus
    IN  Done(AtEdge(own.st, edge),
             TwoShares(add_L1(res(0), zero.r[0]), sub_L1(res(1), zero.r[0])))

\* The sign of a number is the lowest bit of its double, and that of y is the
\* lowest bit of y + x, of x, and whether y + x has wrapped.
MsbL1(st, a) ==
    LET beta == CommonDraw(st, 1)
        s == CommonDraw(beta.st, K)
        u == CommonDraw(s.st, K)
        t == Triple(u.st, ring_add, ring_sub, ring_mul)
        own == OwnDraw(t.st, 4)
        x == below_L1(own.r[1])
        x0 == below_L1(own.r[2])
        r1(j) == add_L1(add_L1(a.sh[j], a.sh[j]), IF j = 0 THEN x0 ELSE sub_L1(x, x0))
        r == add_L1(r1(0), r1(1))
        flip == beta.r[0] % 2
        split(v, v0, j) == IF j = 0 THEN v0 ELSE ring_sub(v, v0)
        \* Of a shared bit and a common one, the exclusive or.
        flipped(v, bit, j) == Wrap(v - 2 * v * bit + j * bit)
        gamma(j) == flipped(split(PrivateCompare(x, r, flip, s.r, u.r), own.r[3], j), flip, j)
        delta(j) == flipped(split(x % 2, own.r[4], j), r % 2, j)
        theta == Product(gamma(0), gamma(1), delta(0), delta(1), t)
        res(j) == Wrap(gamma(j) + delta(j) - 2 * theta[j+1])
    IN  AddPairZero(AtEdge(own.st, r = L_1), res(0), res(1))

\* Registered as msb_a2b.
MsbA2B(st, x) ==
    LET double == ShareConvert(st, AShr(Zip(x.sh, x.sh, ring_add)))
        bit == MsbL1(double.st, double.v)
    IN  A2B(bit.st, bit.v)

----------------------------------------------------------------------------
\* protocol.cc: the interface over these kernels.
Registered == {"msb_a2b"}
Hal == INSTANCE HalRing WITH P2A <- P2TwoShares, V2A <- V2TwoShares, B2A <- B2A_Randbit,
           B2V <- NoKernel2, MulA1B <- NoKernel2, MulAV <- NoKernel2, SquareA <- NoKernel,
           EqualAA <- NoKernel2, EqualAP <- NoKernel2, Kernels <- Registered
Tables == INSTANCE HalPermute WITH P2A <- P2TwoShares, V2A <- V2TwoShares,
              B2A <- B2A_Randbit, B2V <- NoKernel2, MulA1B <- NoKernel2,
              MulAV <- NoKernel2, SquareA <- NoKernel, EqualAA <- NoKernel2,
              EqualAP <- NoKernel2, Kernels <- Registered, Shuffled <- NoKernel,
              RandPermM <- NoKernel, PermAM <- NoKernel2, PermAP <- NoKernel2,
              InvPermAM <- NoKernel2, InvPermAP <- NoKernel2, InvPermAV <- NoKernel2
=============================================================================
