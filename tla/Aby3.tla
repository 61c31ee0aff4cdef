-------------------------------- MODULE Aby3 --------------------------------
(***************************************************************************)
(* The kernels of libspu/mpc/aby3: three ranks, and a share of rank i is   *)
(* the pair <<x_i, x_{i+1}>>, so that every part is held twice.            *)
(***************************************************************************)
EXTENDS PermUtils

CONSTANT OTBits     \* up to this width b2a takes the oblivious transfer (8)

First(x)  == [i \in Rank |-> x.sh[i][1]]
Second(x) == [i \in Rank |-> x.sh[i][2]]
Pairs(a, b) == [i \in Rank |-> <<a[i], b[i]>>]
Each(x, f(_)) == [i \in Rank |-> <<f(x.sh[i][1]), f(x.sh[i][2])>>]
Zip(x, y, f(_, _)) ==
    [i \in Rank |-> <<f(x.sh[i][1], y.sh[i][1]), f(x.sh[i][2], y.sh[i][2])>>]
\* Every rank computes its first part and gets the second from the next rank.
Replicate(z) == Pairs(z, rotate(z))
\* A public number joins the part that ranks 0 and 1 hold in common.
Shared01(x, f(_)) ==
    [i \in Rank |-> CASE i = 0 -> <<x.sh[i][1], f(x.sh[i][2])>>
                      [] i = 1 -> <<f(x.sh[i][1]), x.sh[i][2]>>
                      [] OTHER -> x.sh[i]]

----------------------------------------------------------------------------
(* io.cc                                                                   *)

\* The shares of x whose second and third part are r and s.
toShares(x, r, s) ==
    LET part == [i \in Rank |-> CASE i = 0 -> Wrap(x - r - s) [] i = 1 -> r [] OTHER -> s]
    IN  AShr(Replicate(part))
makeBitSecret(x, r, s) ==
    LET low(a) == a % 2
        part == [i \in Rank |-> CASE i = 0 -> low(r) [] i = 1 -> low(s)
                                  [] OTHER -> low(Wrap(x - r - s))]
    IN  BShr(1, Replicate(part))
\* What the parts say, and that every part reads the same at both its holders.
fromShares(x) ==
    CASE IsA(x) -> SumOver(First(x))
      [] IsB(x) -> XorOver(First(x))
Consistent(x) == Second(x) = rotate(First(x))

----------------------------------------------------------------------------
(* arithmetic.cc                                                           *)

RandA(st) ==
    LET d == genPrssPair(st, BothEverywhere)
        small(a) == ring_rshift(a, 2)
    IN  Done(d.st, AShr([i \in Rank |-> <<small(d.r0[i]), small(d.r1[i])>>]))

OpenedA(x) == [i \in Rank |-> Wrap(x.sh[i][1] + x.sh[i][2] + rotate(Second(x))[i])]
A2P(st, x) == Done(st, Pub(OpenedA(x)))
A2V(st, x, rank) == Done(st, Priv(rank, OnlyAt(rank, OpenedA(x)[rank])))
P2A(st, x) ==
    Done(st, AShr(Pairs(OnlyAt(0, x.sh[0]), OnlyAt(2, x.sh[2]))))
\* Mutant: the previous rank has its two parts the wrong way round.
V2ASwapped(st, x) ==
    LET s1 == freshRandom(st)
        s0 == ring_sub(x.sh[x.owner], s1.r)
    IN  Done(s1.st, AShr([i \in Rank |->
            IF i = x.owner THEN <<s0, s1.r>>
            ELSE IF i = NextRank(x.owner) THEN <<s1.r, 0>> ELSE <<s0, 0>>]))
\* The owner splits in two and sends a part to each of the others.
V2A(st, x) ==
    LET s1 == freshRandom(st)
        s0 == ring_sub(x.sh[x.owner], s1.r)
        next == NextRank(x.owner)
    IN  Done(s1.st, AShr([i \in Rank |->
            CASE i = x.owner -> <<s0, s1.r>>
              [] i = next    -> <<s1.r, 0>>
              [] OTHER       -> <<0, s0>>]))

NotA(st, x) ==
    Done(st, AShr(Shared01([sh |-> Each(x, ring_neg)], LAMBDA a : ring_sub(a, 1))))
AddAP(st, x, y) ==
    Done(st, AShr([i \in Rank |-> Shared01(x, LAMBDA a : ring_add(a, y.sh[i]))[i]]))
AddAA(st, x, y) == Done(st, AShr(Zip(x, y, ring_add)))
MulAP(st, x, y) ==
    Done(st, AShr([i \in Rank |-> <<ring_mul(x.sh[i][1], y.sh[i]),
                                    ring_mul(x.sh[i][2], y.sh[i])>>]))
\* z_i = x_i y_i + x_i y_{i+1} + x_{i+1} y_i and a share of zero.
CrossTerms(x, y, i, times(_, _), plus(_, _)) ==
    LET a == x.sh[i]  b == y.sh[i]
    IN  plus(plus(times(a[1], b[1]), times(a[1], b[2])), times(a[2], b[1]))
MulAA(st, x, y) ==
    LET zero == ZeroShare(st, ring_sub)
        z == [i \in Rank |-> ring_add(CrossTerms(x, y, i, ring_mul, ring_add), zero.v[i])]
    IN  Done(zero.st, AShr(Replicate(z)))
LShiftA(st, x, n) == Done(st, AShr(Each(x, LAMBDA a : ring_lshift(a, n))))

----------------------------------------------------------------------------
(* The product of a number and a bit, by two oblivious transfers           *)

\* Mutant: the receiver draws nothing and does not count.
Ot3MasksSkipped(st, sender) ==
    LET d == fillPrssPair(st, 2, [i \in Rank |-> CASE i = sender -> "Second"
                                    [] i = NextRank(sender) -> "First" [] OTHER -> "Skip"])
    IN  [st |-> d.st, sender |-> d.r1[sender], helper |-> d.r0[NextRank(sender)]]
\* The masks of one transfer (ot.cc): sender and helper share a seed, the
\* receiver only keeps count.
Ot3Masks(st, sender) ==
    LET ctrl == [i \in Rank |-> CASE i = sender -> "Second"
                                  [] i = NextRank(sender) -> "First"
                                  [] OTHER -> "None"]
        d == fillPrssPair(st, 2, ctrl)
    IN  [st |-> d.st, sender |-> d.r1[sender], helper |-> d.r0[NextRank(sender)]]

\* The correlated numbers of a1b_offline: each of two is known to the sender
\* and to one of the others.
a1b_offline(st, sender) ==
    LET d == genPrssPair(st, [i \in Rank |->
                 CASE i = sender -> "First" [] i = PrevRank(sender) -> "Second" [] OTHER -> "None"])
        e == genPrssPair(d.st, [i \in Rank |->
                 CASE i = sender -> "Second" [] i = NextRank(sender) -> "First" [] OTHER -> "None"])
    IN  [st |-> e.st,
         c1 |-> [i \in Rank |-> IF i = sender THEN d.r0[i] ELSE d.r1[i]],
         c2 |-> [i \in Rank |-> IF i = sender THEN e.r1[i] ELSE e.r0[i]]]

\* One transfer: the receiver ends with b * a - c1 - c2 and passes it on to
\* the helper.
a1b_online(sender, a, b, off, masks) ==
    LET helper == NextRank(sender)  receiver == PrevRank(sender)
        lsb(i, half) == b.sh[i][half] % 2
        known == (lsb(sender, 1) + lsb(sender, 2)) % 2
        m(i) == Wrap(((i + known) % 2) * a - off.c1[sender] - off.c2[sender])
        masked(i) == ring_xor(m(i), masks.sender[i])
        wc == masks.helper[lsb(helper, 2)]
        c == ring_xor(masked(lsb(receiver, 1)), wc)
    IN  [i \in Rank |-> CASE i = sender   -> <<off.c1[i], off.c2[i]>>
                          [] i = helper   -> <<off.c2[i], c>>
                          [] OTHER        -> <<c, off.c1[i]>>]

MulA1B(st, x, y) ==
    LET off1 == a1b_offline(st, 0)
        off2 == a1b_offline(off1.st, 2)
        ot1 == Ot3Masks(off2.st, 0)
        ot2 == Ot3Masks(ot1.st, 2)
        r1 == a1b_online(0, x.sh[0][2], y, off1, ot1)
        r2 == a1b_online(2, ring_add(x.sh[2][1], x.sh[2][2]), y, off2, ot2)
    IN  Done(ot2.st, AShr(Zip([sh |-> r1], [sh |-> r2], ring_add)))

----------------------------------------------------------------------------
(* Truncation by a public number of bits (TruncAPr).  A public random      *)
(* number turns the roles: p0 and p1 open x + r, which p2 knows r of and   *)
(* deals what corrects the result.                                         *)

Pivot(publ) == publ.r[0] % World
\* The pair draws of a kernel whose roles are p0, its next and the next again.
ByRole(p0, c0, c1, c2) ==
    [i \in Rank |-> CASE i = p0 -> c0 [] i = NextRank(p0) -> c1 [] OTHER -> c2]
PairsByRole(p0, s0, s1, s2) ==
    [i \in Rank |-> CASE i = p0 -> s0 [] i = NextRank(p0) -> s1 [] OTHER -> s2]

TruncAPr(st, x, n) ==
    LET publ == genPubl(st)
        p0 == Pivot(publ)  p1 == NextRank(p0)  p2 == PrevRank(p0)
        d  == genPrssPair(publ.st, ByRole(p0, "First", "Second", "Both"))
        rb == genPriv(d.st, {p2})
        rc == genPriv(rb.st, {p2})
        e  == genPrssPair(rc.st, ByRole(p0, "First", "Second", "Both"))
        \* what p2 knows of r and shares between p0 and p1
        r  == ring_add(d.r0[p2], d.r1[p2])
        rb0 == ring_add(rb.r[p2], ring_rshift(r, K-1))
        rc0 == ring_add(rc.r[p2], ring_rshift(ring_lshift(r, 1), n + 1))
        rb1 == ring_neg(rb.r[p2])
        rc1 == ring_neg(rc.r[p2])
        \* x + r, x moved up by 2^(K-2) to be nonnegative
        c == Wrap(x.sh[p0][1] + x.sh[p0][2] + 2^(K-2) + d.r0[p0] + x.sh[p1][2] + d.r1[p1])
        top == ring_rshift(c, K-1)
        wrapped(b, own) == Wrap(b + own - 2 * top * b)
        y0 == Wrap(ring_rshift(ring_lshift(c, 1), n + 1) - rc0
                     + wrapped(rb0, top) * 2^(K-1-n) - 2^(K-2-n) - e.r0[p0])
        y1 == Wrap(0 - rc1 + wrapped(rb1, 0) * 2^(K-1-n) - e.r1[p1])
        both == ring_add(y0, y1)
    IN  Done(e.st, AShr(PairsByRole(p0, <<e.r0[p0], both>>, <<both, e.r1[p1]>>,
                                        <<e.r0[p2], e.r1[p2]>>)))

----------------------------------------------------------------------------
(* boolean.cc.  A share is stored in the smallest type that has room for   *)
(* its nbits, and is cut to that type when it is written.                  *)

Store(nbits, sh) ==
    BShr(nbits, Each([sh |-> sh], LAMBDA a : Truncate(a, StorageBits(nbits))))

CommonTypeB(x, y) == Max({x.nbits, y.nbits})
CastTypeB(st, x, nbits) == Done(st, Store(nbits, x.sh))
OpenedB(x) ==
    [i \in Rank |-> ring_xor(ring_xor(x.sh[i][1], x.sh[i][2]), rotate(Second(x))[i])]
B2P(st, x) == Done(st, Pub(OpenedB(x)))
B2V(st, x, rank) == Done(st, Priv(rank, OnlyAt(rank, OpenedB(x)[rank])))
P2B(st, x) ==
    Done(st, Store(BitWidth(x.sh[0]), Pairs(OnlyAt(0, x.sh[0]), OnlyAt(2, x.sh[2]))))

MaskB(x, m) == Store(Min({x.nbits, BitWidth(m)}), Each(x, LAMBDA a : ring_and(a, m)))
AndBP(st, x, y) == Done(st, MaskB(x, y.sh[0]))
AndBB(st, x, y) ==
    LET zero == ZeroShare(st, ring_xor)
        z == [i \in Rank |-> ring_xor(CrossTerms(x, y, i, ring_and, ring_xor), zero.v[i])]
    IN  Done(zero.st, Store(Min({x.nbits, y.nbits}), Replicate(z)))
\* Every one of the three parts takes the public number: an odd number does.
XorBP(st, x, y) ==
    Done(st, Store(Max({x.nbits, BitWidth(y.sh[0])}),
                   [i \in Rank |-> <<ring_xor(x.sh[i][1], y.sh[i]),
                                     ring_xor(x.sh[i][2], y.sh[i])>>]))
XorB(x, y) == Store(Max({x.nbits, y.nbits}), Zip(x, y, ring_xor))
XorBB(st, x, y) == Done(st, XorB(x, y))

LShiftB(x, n) == Store(Min({x.nbits + n, K}), Each(x, LAMBDA a : ring_lshift(a, n)))
RShiftB(x, n) ==
    LET bits == Min({x.nbits, n})
    IN  Store(x.nbits - bits, Each(x, LAMBDA a : ring_rshift(a, bits)))
CanARShiftB(x) == x.nbits = K
ARShiftB(x, n) == BShr(x.nbits, Each(x, LAMBDA a : ring_arshift(a, n)))
BitrevB(x, start, end) ==
    Store(Max({x.nbits, end}), Each(x, LAMBDA a : ring_bitrev(a, start, end)))
BitIntlB(x, stride)   == BShr(x.nbits, Each(x, LAMBDA a : BitIntl(a, stride, x.nbits)))
BitDeintlB(x, stride) == BShr(x.nbits, Each(x, LAMBDA a : BitDeintl(a, stride, x.nbits)))

\* The adders run on these shares.
Adder == INSTANCE Circuits WITH and_bb <- AndBB, xor_bb <- XorB, lshift_b <- LShiftB,
                 rshift_b <- RShiftB, and_bp <- MaskB, bitdeintl_b <- BitDeintlB

----------------------------------------------------------------------------
(* conversion.cc                                                           *)

\* x_0 + x_1 as a boolean sharing of rank 0 and x_2 as one of ranks 1 and 2.
BitSplit(st, x) ==
    LET zero == ZeroShare(st, ring_xor)
        m == [zero.v EXCEPT ![0] = ring_xor(@, ring_add(x.sh[0][1], x.sh[0][2]))]
        n == [i \in Rank |-> CASE i = 0 -> <<0, 0>>
                               [] i = 1 -> <<0, x.sh[1][2]>>
                               [] OTHER -> <<x.sh[2][1], 0>>]
    IN  [st |-> zero.st, m |-> BShr(K, Replicate(m)), n |-> BShr(K, n)]
A2B(st, x) == LET s == BitSplit(st, x) IN Adder!add_bb(s.st, s.m, s.n)

MsbA2B(st, x) ==
    LET s == BitSplit(st, x)
        carry == Adder!carry_a2b(s.st, s.m, s.n, K - 1)
    IN  Done(carry.st, XorB(RShiftB(XorB(s.m, s.n), K - 1), carry.v))

ZeroA == AShr(Everywhere(<<0, 0>>))

\* Ranks 1 and 2 draw the parts of -r, and x + r is opened to rank 0, which
\* keeps it as the third.
B2AByPPA(st, x) ==
    LET a == genPrssPair(st, BothEverywhere)
        zero == ZeroShare(a.st, ring_xor)
        r == [zero.v EXCEPT ![1] = ring_xor(@, ring_add(a.r0[1], a.r1[1]))]
        sum == Adder!add_bb(zero.st, BShr(K, x.sh), BShr(K, Replicate(r)))
        part == [i \in Rank |-> IF i = 0 THEN OpenedB(sum.v)[0] ELSE ring_neg(a.r0[i])]
    IN  Done(sum.st, AShr(Replicate(part)))

\* Bit by bit by oblivious transfer: p2 sends, p1 receives, p0 helps.
B2AByOT(st, x) ==
    LET publ == genPubl(st)
        p0 == Pivot(publ)  p1 == NextRank(p0)  p2 == PrevRank(p0)
        d == fillPrssPair(publ.st, x.nbits, BothEverywhere)
        w0 == fillPrssPair(d.st, x.nbits, ByRole(p0, "First", "None", "Second"))
        w1 == fillPrssPair(w0.st, x.nbits, ByRole(p0, "First", "None", "Second"))
        Positions == 0..x.nbits-1
        bit(a, j) == (a \div 2^j) % 2
        bitCompose(f) == Wrap(FoldFunction(+, 0, [j \in Positions |-> f[j] * 2^j]))
        known(j) == (bit(x.sh[p2][1], j) + bit(x.sh[p2][2], j)) % 2
        m(i, j) == Wrap(((i + known(j)) % 2) - d.r0[p2][j] - d.r1[p2][j])
        choice(j) == bit(x.sh[p1][1], j)
        mc(j) == IF bit(x.sh[p0][2], j) = 0 THEN w0.r0[p0][j] ELSE w1.r0[p0][j]
        sent(j) == IF choice(j) = 0 THEN ring_xor(m(0, j), w0.r1[p2][j])
                                    ELSE ring_xor(m(1, j), w1.r1[p2][j])
        c2 == bitCompose([j \in Positions |-> ring_xor(sent(j), mc(j))])
    IN  Done(w1.st, AShr(PairsByRole(p0,
            <<bitCompose(d.r0[p0]), c2>>, <<c2, bitCompose(d.r1[p1])>>,
            <<bitCompose(d.r0[p2]), bitCompose(d.r1[p2])>>)))

\* A share of no bits is known to be zero, and neither conversion draws for it.
B2ASelector(st, x) ==
    IF x.nbits = 0 THEN Done(st, ZeroA)
    ELSE IF x.nbits <= OTBits THEN B2AByOT(st, x) ELSE B2AByPPA(st, x)

\* All bits are one exactly if the number is zero: the upper half is anded to
\* the lower until one bit is left, by bytes first and by shifts in the last
\* byte.  The result is a share of a whole byte.
AllOnes(st, sh) ==
    LET level(acc, l) ==
            LET half == K \div 2^l
                left == Each(acc.v, LAMBDA a : ring_rshift(a, half))
                right == Each(acc.v, LAMBDA a : Truncate(a, Max({half, ByteBits})))
                zero == ZeroShare(acc.st, ring_xor)
                z == [i \in Rank |-> ring_xor(CrossTerms([sh |-> left], [sh |-> right], i,
                                                         ring_and, ring_xor),
                                              Truncate(zero.v[i], Max({half, ByteBits})))]
            IN  Done(zero.st, [sh |-> Replicate(z)])
        steps == Log2Ceil(K)
        fold[l \in 0..steps] == IF l = 0 THEN Done(st, [sh |-> sh]) ELSE level(fold[l-1], l)
    IN  fold[steps]

\* p0 deals r as a sum and as bits, p1 opens x + r, and x = 0 is then that the
\* opened number agrees with r in every bit.
eqz(st, x) ==
    LET publ == genPubl(st)
        p0 == Pivot(publ)  p1 == NextRank(p0)  p2 == PrevRank(p0)
        r  == genPriv(publ.st, {p0})
        ra == genPrssPair(r.st, ByRole(p0, "Second", "First", "None"))
        rb == genPrssPair(ra.st, ByRole(p0, "Second", "First", "None"))
        rz == genPrssPair(rb.st, ByRole(p0, "Second", "First", "None"))
        ra2 == ring_sub(r.r[p0], ra.r1[p0])        \* p0 sends these to p2
        rb2 == ring_xor(r.r[p0], rb.r1[p0])
        c == Wrap(x.sh[p1][1] + x.sh[p1][2] + ra.r0[p1] + x.sh[p2][2] + ra2)
        flag == ring_xor(ring_not(ring_xor(c, rb.r0[p1])), rz.r0[p1])
        ones == AllOnes(rz.st, PairsByRole(p0, <<rb2, rz.r1[p0]>>, <<rz.r0[p1], flag>>,
                                               <<flag, rb2>>))
    IN  Done(ones.st, BShr(ByteBits, ones.v.sh))
EqualAA(st, x, y) == eqz(st, [sh |-> Zip(x, y, ring_sub)])
EqualAP(st, x, y) ==
    eqz(st, [sh |-> [i \in Rank |-> Shared01(x, LAMBDA a : ring_sub(a, y.sh[i]))[i]]])

----------------------------------------------------------------------------
(* permute.cc.  A secret permutation is three, the one of a rank known to  *)
(* it and the rank before: the array takes them one after the other, as    *)
(* two parts of which always one goes through the two ranks that know the  *)
(* permutation whose turn it is.                                           *)

PermShr(sh) == [kind |-> "M", nbits |-> K, owner |-> -1, sh |-> Strict(sh)]
RandPermM(st, n) ==
    LET seed == genPrssPair(st, BothEverywhere)
    IN  Done(seed.st, PermShr([i \in Rank |-> <<Shuffled(n, seed.r0[i]), Shuffled(n, seed.r1[i])>>]))

\* The draws of a pair for every element, and two rows as an array.
PairRows(st, n, ctrl) ==
    LET d == fillPrssPair(st, n, ctrl)
        row(f) == [i \in Rank |-> [j \in 1..n |-> f[i][j-1]]]
    IN  [st |-> d.st, r0 |-> row(d.r0), r1 |-> row(d.r1)]
FirstRow(x, i)  == [j \in DOMAIN x |-> x[j].sh[i][1]]
SecondRow(x, i) == [j \in DOMAIN x |-> x[j].sh[i][2]]
OfRows(first, second) ==
    [j \in DOMAIN first[0] |-> AShr([i \in Rank |-> <<first[i][j], second[i][j]>>])]

\* Ranks 1 and 2 hold the result as two parts; rank 0 shares a seed with each,
\* and draws both of its parts.
PermAM(st, x, perm) ==
    LET self(i) == perm.sh[i][1]  next(i) == perm.sh[i][2]
        a == PairRows(st, Len(x), BothEverywhere)
        r == PairRows(a.st, Len(x),
                      [i \in Rank |-> CASE i = 0 -> "Both" [] i = 1 -> "First" [] OTHER -> "Second"])
        tmp == Minus(applyPerm(Plus(FirstRow(x, 0), SecondRow(x, 0)), self(0)), a.r0[0])
        delta == Minus(applyPerm(tmp, next(0)), a.r1[0])                       \* to rank 2
        gama == Plus(applyPerm(FirstRow(x, 2), next(2)), a.r1[2])              \* to rank 1
        beta1 == applyPerm(Plus(applyPerm(gama, self(1)), a.r0[1]), next(1))
        beta2 == applyPerm(delta, self(2))
        both == Plus(Minus(beta1, r.r0[1]), Minus(beta2, r.r1[2]))
    IN  Done(r.st, OfRows([r.r0 EXCEPT ![2] = both], [r.r1 EXCEPT ![1] = both]))

\* The inverses in the opposite order: ranks 0 and 2 end with the result.
InvPermAM(st, x, perm) ==
    LET self(i) == perm.sh[i][1]  next(i) == perm.sh[i][2]
        a == PairRows(st, Len(x), BothEverywhere)
        r == PairRows(a.st, Len(x),
                      [i \in Rank |-> CASE i = 0 -> "Second" [] i = 1 -> "Both" [] OTHER -> "First"])
        tmp == Minus(applyInvPerm(Plus(FirstRow(x, 1), SecondRow(x, 1)), next(1)), a.r1[1])
        delta == Minus(applyInvPerm(tmp, self(1)), a.r0[1])                    \* to rank 2
        gama == Plus(applyInvPerm(SecondRow(x, 2), self(2)), a.r0[2])          \* to rank 0
        beta0 == applyInvPerm(Plus(applyInvPerm(gama, next(0)), a.r1[0]), self(0))
        beta2 == applyInvPerm(delta, next(2))
        both == Plus(Minus(beta0, r.r1[0]), Minus(beta2, r.r0[2]))
    IN  Done(r.st, OfRows([r.r0 EXCEPT ![0] = both], [r.r1 EXCEPT ![2] = both]))

\* By a public permutation each rank moves both its parts.
PermAP(st, x, perm)    == Done(st, permuteRows(x, perm, applyPerm))
InvPermAP(st, x, perm) == Done(st, permuteRows(x, perm, applyInvPerm))

----------------------------------------------------------------------------
\* protocol.cc: the interface over these kernels.  There is no square_a, and no
\* inv_perm_av.
Registered == {"b2v", "mul_a1b", "msb_a2b", "equal_aa", "equal_ap", "rand_perm_m"}
Hal == INSTANCE HalRing WITH B2A <- B2ASelector, SquareA <- NoKernel, MulAV <- NoKernel2,
           Kernels <- Registered
Tables == INSTANCE HalPermute WITH B2A <- B2ASelector, SquareA <- NoKernel, MulAV <- NoKernel2,
              InvPermAV <- NoKernel2, Kernels <- Registered
=============================================================================
