------------------------------- MODULE Semi2k -------------------------------
(***************************************************************************)
(* The kernels of libspu/mpc/semi2k that take the correlated numbers of a  *)
(* Beaver provider.                                                        *)
(*                                                                         *)
(* Both providers are here.  Every rank draws its part of the numbers from *)
(* a seed of its own, and one rank, AdjustRank, adds what makes them       *)
(* correlated: rank 0 replays the seeds it has collected (BeaverTfpUnsafe),*)
(* or adjust_rank asks a server that can decrypt them (BeaverTtp).  Either *)
(* way the seeds are replayed from the counter of that one rank.           *)
(***************************************************************************)
EXTENDS Additive, PermUtils

CONSTANTS AdjustRank,      \* one of the ranks
          AskedByOwner     \* the server is asked for a permutation by its owner

----------------------------------------------------------------------------
(* beaver_tfp.cc, beaver_ttp.cc, trusted_party.cc                          *)

\* n numbers of every rank, and what the trusted party replays.
BeaverDraw(st, n) ==
    LET at(seed, counter) == [i \in Rank |-> Prg(seed[i], counter[i])]
        place(j) == [i \in Rank |-> st.beaver[i] + j]
        replayed(j) == Everywhere(st.beaver[AdjustRank] + j)
    IN  [st |-> [st EXCEPT !.beaver = Strict([i \in Rank |-> @[i] + n])],
         own |-> [j \in 0..n-1 |-> at(st.beaver_seed, place(j))],
         tp  |-> [j \in 0..n-1 |-> at(st.tp_seed, replayed(j))]]
Adjust(f, op(_, _), by) == [f EXCEPT ![AdjustRank] = op(@, by)]

BeaverMul(st) ==
    LET d == BeaverDraw(st, 3)
        adjustMul == ring_sub(ring_mul(SumOver(d.tp[0]), SumOver(d.tp[1])), SumOver(d.tp[2]))
    IN  [st |-> d.st, a |-> d.own[0], b |-> d.own[1], c |-> Adjust(d.own[2], ring_add, adjustMul)]
BeaverSquare(st) ==
    LET d == BeaverDraw(st, 2)
        adjustSquare == ring_sub(ring_mul(SumOver(d.tp[0]), SumOver(d.tp[0])), SumOver(d.tp[1]))
    IN  [st |-> d.st, a |-> d.own[0], b |-> Adjust(d.own[1], ring_add, adjustSquare)]
BeaverAnd(st) ==
    LET d == BeaverDraw(st, 3)
        adjustAnd == ring_xor(ring_and(XorOver(d.tp[0]), XorOver(d.tp[1])), XorOver(d.tp[2]))
    IN  [st |-> d.st, a |-> d.own[0], b |-> d.own[1], c |-> Adjust(d.own[2], ring_xor, adjustAnd)]
BeaverTruncPr(st, n) ==
    LET d == BeaverDraw(st, 3)
        adjust == TruncPrAdjust(SumOver(d.tp[0]), SumOver(d.tp[1]), SumOver(d.tp[2]), n)
    IN  [st |-> d.st, r |-> d.own[0], rc |-> Adjust(d.own[1], ring_add, adjust.rc),
         rb |-> Adjust(d.own[2], ring_add, adjust.rb)]
\* The bits are random numbers of the trusted party itself.
BeaverRandBit(st, n) ==
    LET d == BeaverDraw(st, n)
        bits == freshRandom(d.st)
        randbit(j) == (bits.r \div 2^(j % K)) % 2
    IN  [st |-> bits.st,
         r |-> [j \in 0..n-1 |->
                  Adjust(d.own[j], ring_add, ring_sub(randbit(j), SumOver(d.tp[j])))]]
BeaverEqz(st) ==
    LET d == BeaverDraw(st, 2)
    IN  [st |-> d.st, a |-> d.own[0],
         b |-> Adjust(d.own[1], ring_xor, ring_xor(SumOver(d.tp[0]), XorOver(d.tp[1])))]

----------------------------------------------------------------------------
(* arithmetic.cc                                                           *)

\* z = c + (x-a) b + (y-b) a, and rank 0 adds (x-a)(y-b).
MulAA(st, x, y) ==
    LET t == BeaverMul(st)
        x_a == SumOver(Zip(x.sh, t.a, ring_sub))
        y_b == SumOver(Zip(y.sh, t.b, ring_sub))
        z == [i \in Rank |-> Wrap(t.c[i] + x_a * t.b[i] + y_b * t.a[i])]
    IN  Done(t.st, AShr(AtRank0(z, LAMBDA a : Wrap(a + x_a * y_b))))
SquareA(st, x) ==
    LET t == BeaverSquare(st)
        x_a == SumOver(Zip(x.sh, t.a, ring_sub))
        z == [i \in Rank |-> Wrap(t.b[i] + 2 * x_a * t.a[i])]
    IN  Done(t.st, AShr(AtRank0(z, LAMBDA a : Wrap(a + x_a * x_a))))

TruncAPr(st, x, n) ==
    LET t == BeaverTruncPr(st, n) IN Done(t.st, AShr(TruncPrOpen(x, t, n)))

----------------------------------------------------------------------------
(* boolean.cc                                                              *)

\* Only the bits that fit the storage type of the result are computed.
AndBB(st, x, y) ==
    LET t == BeaverAnd(st)
        nbits == Min({x.nbits, y.nbits})
        cut(a) == Truncate(a, StorageBits(nbits))
        x_a == XorOver(Each(Zip(x.sh, t.a, ring_xor), cut))
        y_b == XorOver(Each(Zip(y.sh, t.b, ring_xor), cut))
        z == [i \in Rank |-> ring_xor(cut(t.c[i]), ring_xor(ring_and(x_a, cut(t.b[i])),
                                                            ring_and(y_b, cut(t.a[i]))))]
    IN  Done(t.st, BShr(nbits, AtRank0(z, LAMBDA a : ring_xor(a, ring_and(x_a, y_b)))))

Adder == INSTANCE Circuits WITH and_bb <- AndBB, xor_bb <- XorB, lshift_b <- LShiftB,
                 rshift_b <- RShiftB, and_bp <- MaskB, bitdeintl_b <- BitDeintlB

----------------------------------------------------------------------------
(* conversion.cc                                                           *)

A2B(st, x) == LET s == SplitByRank(st, x) IN vreduce(s.st, s.b, Adder!add_bb)

B2A_Randbit(st, x) ==
    LET t == BeaverRandBit(st, x.nbits)
    IN  IF x.nbits = 0 THEN Done(st, AShr(Everywhere(0))) ELSE Done(t.st, AShr(RandbitOpen(x, t.r)))

\* Registered for two ranks only.
MsbA2B(st, x) ==
    LET s == SplitByRank(st, x)
        carry == Adder!carry_a2b(s.st, s.b[1], s.b[2], K - 1)
    IN  Done(carry.st, XorB(RShiftB(XorB(s.b[1], s.b[2]), K - 1), carry.v))

\* x + r is opened and compared with r bit by bit; the pivot takes it in.
eqz(st, x) ==
    LET publ == genPubl(st)
        pivot == publ.r[0] % World
        t == BeaverEqz(publ.st)
        c == SumOver(Zip(t.a, x.sh, ring_add))
        start == BShr(K, [t.b EXCEPT ![pivot] = ring_not(ring_xor(@, c))])
        fold[l \in 0..Log2Ceil(K)] ==
            IF l = 0 THEN Done(t.st, start)
            ELSE AndBB(fold[l-1].st, fold[l-1].v,
                       BShr(K, Each(fold[l-1].v.sh, LAMBDA a : ring_rshift(a, K \div 2^l))))
        last == fold[Log2Ceil(K)]
    IN  Done(last.st, BShr(K, Each(last.v.sh, LAMBDA a : a % 2)))
EqualAA(st, x, y) == eqz(st, [sh |-> Zip(x.sh, y.sh, ring_sub)])
EqualAP(st, x, y) == eqz(st, [sh |-> AtRank0(x.sh, LAMBDA a : ring_sub(a, y.sh[0]))])

----------------------------------------------------------------------------
(* permute.cc.  A secret permutation is one of every rank, each known to   *)
(* it alone; the array takes the inverse of each in turn.                  *)

PermShr(sh) == [kind |-> "M", nbits |-> K, owner |-> -1, sh |-> Strict(sh)]
RandPermM(st, n) ==
    LET seed == genPriv(st, Rank)
    IN  Done(seed.st, PermShr([i \in Rank |-> Shuffled(n, seed.r[i])]))

\* beaver_tfp.cc, beaver_ttp.cc: a and b with b the inverse permutation of a.
\* Rank 0 is told the permutation by its owner, or the owner asks the server,
\* which replays the seeds from the counter of the rank that asks.
PermPair(st, n, perm_rank, pv) ==
    LET adjuster == IF AskedByOwner THEN perm_rank ELSE AdjustRank
        d == BeaverDraw(st, 2 * n)
        replayed(j) == SumOver([i \in Rank |-> Prg(st.tp_seed[i], st.beaver[adjuster] + j)])
        adjustPerm == Minus(applyInvPerm([j \in 1..n |-> replayed(j - 1)], pv),
                            [j \in 1..n |-> replayed(n + j - 1)])
        b(i) == [j \in 1..n |-> d.own[n + j - 1][i]]
    IN  [st |-> d.st,
         a |-> [i \in Rank |-> [j \in 1..n |-> d.own[j - 1][i]]],
         b |-> [i \in Rank |-> IF i = adjuster THEN Plus(b(i), adjustPerm) ELSE b(i)]]

\* x - a is opened to the owner of the permutation, which adds the inverse
\* permutation of it to its part of b.
SecureInvPerm(st, x, perm_rank, pv) ==
    LET n == Len(x)
        pair == PermPair(st, n, perm_rank, pv)
        t == [j \in 1..n |-> SumOver([i \in Rank |-> ring_sub(x[j].sh[i], pair.a[i][j])])]
        row == [pair.b EXCEPT ![perm_rank] = Plus(@, applyInvPerm(t, pv))]
    IN  Done(pair.st, WithRows(x, LAMBDA i : row[i]))
\* The ranks one after the other, each with its permutation.
InTurn(st, x, ranks, pv(_)) ==
    LET after[n \in 0..Len(ranks)] ==
            IF n = 0 THEN Done(st, x)
            ELSE Eagerly(after[n-1], LAMBDA r : SecureInvPerm(r.st, r.v, ranks[n], pv(ranks[n])))
    IN  after[Len(ranks)]
PermAM(st, x, perm) == InTurn(st, x, [n \in 1..World |-> n - 1], LAMBDA i : perm.sh[i])
InvPermAM(st, x, perm) ==
    InTurn(st, x, [n \in 1..World |-> World - n], LAMBDA i : genInversePerm(perm.sh[i]))
PermAP(st, x, perm)    == Done(st, permuteRows(x, perm, applyPerm))
InvPermAP(st, x, perm) == Done(st, permuteRows(x, perm, applyInvPerm))
\* A private permutation takes its owner alone.
InvPermAV(st, x, perm) ==
    LET owner == perm[1].owner
    IN  SecureInvPerm(st, x, owner, ring2pv(Row(perm, owner)))

----------------------------------------------------------------------------
\* protocol.cc: the interface over these kernels.  b2v is not among them.
Registered == {"square_a", "equal_aa", "equal_ap", "rand_perm_m", "inv_perm_av"}
                 \cup (IF World = 2 THEN {"msb_a2b"} ELSE {})
Hal == INSTANCE HalRing WITH B2A <- B2A_Randbit, B2V <- NoKernel2, MulA1B <- NoKernel2, MulAV <- NoKernel2,
           Kernels <- Registered
Tables == INSTANCE HalPermute WITH B2A <- B2A_Randbit, B2V <- NoKernel2, MulA1B <- NoKernel2,
              MulAV <- NoKernel2, Kernels <- Registered
=============================================================================
