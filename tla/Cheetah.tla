------------------------------- MODULE Cheetah -------------------------------
(***************************************************************************)
(* The two rank protocol of libspu/mpc/cheetah.  Its shares are those of   *)
(* semi2k; whatever is not linear is made of oblivious transfers, that the *)
(* ranks draw in the same order from the same instances, and of products   *)
(* of one number of each rank (OLE), that CheetahMul computes.             *)
(*                                                                         *)
(* What the two ends of a transfer share is a pad: either end reads it at  *)
(* its own place.  An ideal product is split at random.                    *)
(***************************************************************************)
EXTENDS Additive

CONSTANT CompareRadix   \* bits of one digit of a comparison

Peer(rank) == 1 - rank
Pair(p, q) == [i \in Rank |-> IF i = 0 THEN p ELSE q]

----------------------------------------------------------------------------
(* ot/yacl, ot/emp: the transfers, as basic_ot_prot.cc and nonlinear/ use  *)
(* them.                                                                   *)

OtDraw(st, n) ==
    [st |-> [st EXCEPT !.beaver = Strict([i \in Rank |-> @[i] + n])],
     pad |-> [j \in 0..n-1 |-> [i \in Rank |-> Prg(st.tp_seed[0], st.beaver[i] + j)]]]
\* Correlated: the sender gets x, the receiver x + choice * corr.
CAMCC(st, sender, corr, choice, bw) ==
    LET d == OtDraw(st, 1)
    IN  [st |-> d.st, sent |-> Truncate(d.pad[0][sender], bw),
         recv |-> Truncate(d.pad[0][Peer(sender)] + choice * corr, bw)]
\* Chosen: one of the messages msg[0], msg[1] ...
CMCC(st, msg, choice) ==
    LET d == OtDraw(st, 1)
    IN  Done(d.st, ring_xor(msg[choice], ring_xor(d.pad[0][0], d.pad[0][1])))
\* Random: the sender gets two numbers, the receiver the bits of either that
\* choice selects.
RMRC(st, sender, width, choice(_)) ==
    LET d == OtDraw(st, 3)
        x(j, rank) == Truncate(d.pad[j][rank], width)
        c == choice(d.pad[2][Peer(sender)])
        r0 == x(0, Peer(sender))
    IN  [st |-> d.st, x0 |-> x(0, sender), x1 |-> x(1, sender), choice |-> c,
         u |-> ring_xor(r0, ring_and(c, ring_xor(r0, x(1, Peer(sender)))))]

----------------------------------------------------------------------------
(* basic_ot_prot.cc                                                        *)

\* Rank 1 sends first: what a rank receives are its a and u, what it sends its
\* b and v.
Triple(st, width, choice(_)) ==
    LET first == RMRC(st, 1, width, choice)
        second == RMRC(first.st, 0, width, choice)
        got(i)  == IF i = 0 THEN first ELSE second
        sent(i) == IF i = 0 THEN second ELSE first
        b == [i \in Rank |-> ring_xor(sent(i).x0, sent(i).x1)]
        a == [i \in Rank |-> got(i).choice]
    IN  [st |-> second.st, a |-> a, b |-> b,
         c |-> [i \in Rank |-> ring_xor(ring_and(a[i], b[i]), ring_xor(got(i).u, sent(i).x0))]]
AndTriple(st, nbits) == Triple(st, nbits, LAMBDA p : Truncate(p, nbits))
\* Two triples of one bit with the same a: one message of two bits.
CorrelatedAndTriple(st) == Triple(st, 2, LAMBDA p : 3 * (p % 2))

\* What the shares x and y make with the triple a, b, c of nbits bits.
Masked2(x, y, t, nbits) ==
    LET open(f, g) == Truncate(XorOver(Zip(f, g, ring_xor)), nbits)
        xa == open(x, t.a)
        yb == open(y, t.b)
        z == [i \in Rank |-> ring_xor(ring_xor(ring_and(xa, t.b[i]), ring_and(yb, t.a[i])), t.c[i])]
    IN  AtRank0(z, LAMBDA a : ring_xor(a, ring_and(xa, yb)))
\* AndTriple refuses to make triples of no bits.
BitwiseAnd(st, x, y) ==
    IF x.nbits = 0 THEN Done([st EXCEPT !.refused = TRUE], x)
    ELSE LET t == AndTriple(st, x.nbits)
         IN  Done(t.st, BShr(x.nbits, Masked2(x.sh, y.sh, t, x.nbits)))
CorrelatedBitwiseAnd(st, x, y0, y1) ==
    LET t == CorrelatedAndTriple(st)
        part(j) == [a |-> Each(t.a, LAMBDA p : p % 2),
                    b |-> Each(t.b, LAMBDA p : (p \div 2^j) % 2),
                    c |-> Each(t.c, LAMBDA p : (p \div 2^j) % 2)]
        and_with(y, j) == BShr(1, Masked2(x.sh, y.sh, part(j), 1))
    IN  Done(t.st, <<and_with(y0, 0), and_with(y1, 1)>>)

\* b0 ^ b1 = b0 + b1 - 2 b0 b1, for every bit; the k-th transfer has K - k bits.
B2A(st, x) ==
    LET nbits == IF x.nbits = 0 THEN 1 ELSE x.nbits
        bit(i, k) == (x.sh[i] \div 2^k) % 2
        sum[k \in 0..nbits] ==
            IF k = 0 THEN Done(st, Everywhere(0))
            ELSE LET prev == sum[k-1]
                     cot == CAMCC(prev.st, 0, -2 * bit(0, k-1), bit(1, k-1), K - k + 1)
                     got(i) == IF i = 0 THEN bit(0, k-1) - cot.sent ELSE bit(1, k-1) + cot.recv
                 IN  Done(cot.st, [i \in Rank |-> Wrap(prev.v[i] + got(i) * 2^(k-1))])
    IN  Done(sum[nbits].st, AShr(sum[nbits].v))

Multiplexer(st, msg, select) ==
    LET sel == Each(select.sh, LAMBDA s : s % 2)
        corr(i) == msg.sh[i] * (1 - 2 * sel[i])
        first == CAMCC(st, 0, corr(0), sel[1], K)
        second == CAMCC(first.st, 1, corr(1), sel[0], K)
        sent(i) == IF i = 0 THEN first.sent ELSE second.sent
        recv(i) == IF i = 0 THEN second.recv ELSE first.recv
    IN  Done(second.st, AShr([i \in Rank |-> Wrap(msg.sh[i] * sel[i] - sent(i) + recv(i))]))

----------------------------------------------------------------------------
(* nonlinear/compare_prot.cc, equal_prot.cc                                *)

Digits == 1..K \div CompareRadix
Digit(a, j) == (a \div 2^((j-1) * CompareRadix)) % 2^CompareRadix

\* A boolean share of what holds of every digit of in: rank 0 sends the digits'
\* truth tables behind a random bit.
Leaves(st, in, holds(_, _)) ==
    LET leaf[j \in {0} \cup Digits] ==
            IF j = 0 THEN Done(st, <<>>)
            ELSE LET r == freshRandom(leaf[j-1].st)
                     msg == [i \in 0..2^CompareRadix-1 |->
                               ring_xor(r.r % 2, Truth(holds(Digit(in[0], j), i)))]
                     cot == CMCC(r.st, msg, Digit(in[1], j))
                 IN  Done(cot.st, Append(leaf[j-1].v, BShr(1, Pair(r.r % 2, cot.v))))
    IN  leaf[Max(Digits)]

\* cmp[j] <- cmp[2j] & eq[2j+1] ^ cmp[2j+1], eq[j] <- eq[2j] & eq[2j+1], where no
\* one asks for the first eq.
TraversalLevel(acc) ==
    LET half == Len(acc.cmp) \div 2
        col0 == BitwiseAnd(acc.st, acc.eq[2], acc.cmp[1])
        others[j \in 1..half] ==
            IF j = 1 THEN [st |-> col0.st, cmp |-> <<XorB(col0.v, acc.cmp[2])>>, eq |-> <<acc.eq[1]>>]
            ELSE LET prev == others[j-1]
                     c == CorrelatedBitwiseAnd(prev.st, acc.eq[2*j], acc.cmp[2*j-1], acc.eq[2*j-1])
                 IN  [st |-> c.st, cmp |-> Append(prev.cmp, XorB(c.v[1], acc.cmp[2*j])),
                      eq |-> Append(prev.eq, c.v[2])]
    IN  others[half]
TraversalAND(st, cmp, eq) ==
    LET tree[n \in 0..Len(cmp)] ==
            IF n = 0 THEN [st |-> st, cmp |-> cmp, eq |-> eq]
            ELSE IF Len(tree[n-1].cmp) = 1 THEN tree[n-1] ELSE TraversalLevel(tree[n-1])
        last == tree[Len(cmp)]
    IN  Done(last.st, last.cmp[1])

\* Is what rank 0 gives greater than what rank 1 gives?
Compare(st, in) ==
    LET cmp == Leaves(st, in, LAMBDA a, b : a > b)
        eq == Leaves(cmp.st, in, LAMBDA a, b : a = b)
    IN  TraversalAND(eq.st, cmp.v, eq.v)
\* Are they equal?
EqualProtocol(st, in) ==
    LET eq == Leaves(st, in, LAMBDA a, b : a = b)
    IN  vreduce(eq.st, eq.v, BitwiseAnd)

----------------------------------------------------------------------------
(* nonlinear/truncate_prot.cc                                              *)

\* The sum of the shares in has its top bit set: it has wrapped if both have.
MSB1ToWrap(st, in, bw) ==
    LET top(i) == ring_rshift(in[i], K - 1)
        cot == CAMCC(st, 0, top(0), top(1), bw)
    IN  Done(cot.st, Pair(-cot.sent, cot.recv))
\* x is moved up by 2^(K-2) to be nonnegative, and by 2^(K-1) to have its top
\* bit set; an odd share of rank 0 is rounded up.
TruncA(st, x, n) ==
    LET in == AtRank0(x.sh, LAMBDA a : Wrap(a + 2^(K-2) + 2^(K-1)))
        wrap == MSB1ToWrap(st, in, n)
        out(i) == Wrap(ring_rshift(in[i], n) - wrap.v[i] * 2^(K-n))
        rounded(a) == a + (a % 2)
    IN  Done(wrap.st, AShr([i \in Rank |->
            IF i = 0 THEN Wrap(rounded(Wrap(out(0) - 2^(K-1-n))) - 2^(K-2-n)) ELSE out(1)]))

----------------------------------------------------------------------------
(* arithmetic.cc, boolean.cc, conversion.cc                                *)

\* A share of the product of a number of rank 0 and one of rank 1.
MulOLE(st, a, b) ==
    LET r == freshRandom(st)
    IN  Done(r.st, Pair(ring_sub(ring_mul(a, b), r.r), r.r))

MulAV(st, x, y) ==
    LET owner == y.owner
        ole == MulOLE(st, x.sh[Peer(owner)], y.sh[owner])
    IN  Done(ole.st, AShr([i \in Rank |->
            Wrap(ole.v[i] + IF i = owner THEN x.sh[i] * y.sh[i] ELSE 0)]))
SquareA(st, x) ==
    LET ole == MulOLE(st, x.sh[0], x.sh[1])
    IN  Done(ole.st, AShr([i \in Rank |-> Wrap(2 * ole.v[i] + x.sh[i] * x.sh[i])]))
\* mulWithBeaver, with a triple that both ranks take from the cache at once.
MulAA(st, x, y) ==
    LET r1 == freshRandom(st)
        r2 == freshRandom(r1.st)
        r3 == freshRandom(r2.st)
        r4 == freshRandom(r3.st)
        a == Pair(r1.r, r2.r)
        b == Pair(r3.r, r4.r)
        c == MulOLE(r4.st, SumOver(a), SumOver(b))
        x_a == SumOver(Zip(x.sh, a, ring_sub))
        y_b == SumOver(Zip(y.sh, b, ring_sub))
        z == [i \in Rank |-> Wrap(x_a * b[i] + y_b * a[i] + c.v[i])]
    IN  Done(c.st, AShr(AtRank0(z, LAMBDA p : Wrap(p + x_a * y_b))))

MsbA2B(st, x) ==
    LET mask == 2^(K-1) - 1
        carry == Compare(st, Pair(ring_and(x.sh[0], mask), ring_and(Wrap(mask - x.sh[1]), mask)))
    IN  Done(carry.st, BShr(1, [i \in Rank |->
            ring_xor(carry.v.sh[i], ring_rshift(x.sh[i], K - 1))]))
EqualAA(st, x, y) ==
    EqualProtocol(st, Pair(ring_sub(x.sh[0], y.sh[0]), ring_sub(y.sh[1], x.sh[1])))
EqualAP(st, x, y) == EqualProtocol(st, Pair(x.sh[0], ring_sub(y.sh[1], x.sh[1])))

Adder == INSTANCE Circuits WITH and_bb <- BitwiseAnd, xor_bb <- XorB, lshift_b <- LShiftB,
                 rshift_b <- RShiftB, and_bp <- MaskB, bitdeintl_b <- BitDeintlB
A2B(st, x) == LET s == SplitByRank(st, x) IN vreduce(s.st, s.b, Adder!add_bb)

----------------------------------------------------------------------------
\* protocol.cc: the interface over these kernels.  b2v is not among them.
Registered == {"square_a", "mul_a1b", "mul_av", "msb_a2b", "equal_aa", "equal_ap"}
Hal == INSTANCE HalRing WITH AndBB <- BitwiseAnd, MulA1B <- Multiplexer,
           TruncAPr <- TruncA, B2V <- NoKernel2, Kernels <- Registered
Tables == INSTANCE HalPermute WITH AndBB <- BitwiseAnd, MulA1B <- Multiplexer,
              TruncAPr <- TruncA, B2V <- NoKernel2, Kernels <- Registered,
              Shuffled <- NoKernel, RandPermM <- NoKernel, PermAM <- NoKernel2,
              PermAP <- NoKernel2, InvPermAM <- NoKernel2, InvPermAP <- NoKernel2,
              InvPermAV <- NoKernel2
=============================================================================
