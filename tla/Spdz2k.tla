------------------------------- MODULE Spdz2k -------------------------------
(***************************************************************************)
(* The protocol of libspu/mpc/spdz2k with the dealer BeaverTfpUnsafe.      *)
(*                                                                         *)
(* It computes in a ring of twice the width.  A number is shared together  *)
(* with its MAC, the product with a key of which every rank knows a part:  *)
(* v are the parts of the number and m those of its MAC.  Whatever is      *)
(* opened is checked against its MAC, and refused if it does not fit.      *)
(*                                                                         *)
(* An arithmetic share is one such number, of which the low K bits count;  *)
(* a boolean share is one for every bit, of which the lowest counts.  What *)
(* enters the program from outside has no MAC yet.                         *)
(*                                                                         *)
(* Arrays of bits are worked off bit by bit, and the random factor of a    *)
(* MAC check is left out: a MAC that does not fit is always found.         *)
(***************************************************************************)
EXTENDS Parties

CONSTANT GlobalKey       \* the MAC key, of K bits

Wide(a) == a % 2^(2*K)
Total(f) == Wide(FoldFunction(+, 0, f))

Auth(v, m) == [v |-> Strict(v), m |-> Strict(m)]
Plus(x, y) == Auth([i \in Rank |-> Wide(x.v[i] + y.v[i])], [i \in Rank |-> Wide(x.m[i] + y.m[i])])
Times(x, c) == Auth([i \in Rank |-> Wide(x.v[i] * c)], [i \in Rank |-> Wide(x.m[i] * c)])
Minus(x, y) == Plus(x, Times(y, -1))
Zero == Auth(Everywhere(0), Everywhere(0))
Weighted(bits, n) ==
    LET sum[j \in 0..n] == IF j = 0 THEN Zero ELSE Plus(sum[j-1], Times(bits[j-1], 2^(j-1)))
    IN  sum[n]
ValueOf(x) == Total(x.v)
MacOf(x) == Total(x.m)

WidePrg(seed, counter) == Prg(seed, counter) + Modulus * Prg(seed, counter + 1)
\* state.h, InitSpdzKey: the first number of every rank's stream is its part of
\* the key, and rank 0 adds what makes the sum the key.
key(st) ==
    LET own == [i \in Rank |-> WidePrg(st.beaver_seed[i], 0)]
    IN  [own EXCEPT ![0] = Wide(@ + GlobalKey - Total(own))]
Keyed(seeds) == [InitStreams(seeds) EXCEPT !.beaver = Everywhere(2)]
\* A number that every rank knows.
Known(st, c) ==
    LET part == key(st) IN Auth(OnlyAt(0, Wide(c)), [i \in Rank |-> Wide(c * part[i])])

\* value.cc
makeAShare(x) == [kind |-> "A", nbits |-> K, owner |-> -1, sh |-> x, hasMac |-> TRUE]
\* Only nbits of the K bits are there; Bit is what BShareSwitch2Nbits takes.
makeBShare(nbits, bits) ==
    [kind |-> "B", nbits |-> nbits, owner |-> -1, hasMac |-> TRUE,
     sh |-> Strict([j \in 0..K-1 |-> IF j < nbits THEN bits[j] ELSE Zero])]
Bit(x, j) == IF j \in 0..x.nbits-1 THEN x.sh[j] ELSE Zero
Refusing(st, p) == [st EXCEPT !.refused = @ \/ p]

----------------------------------------------------------------------------
(* io.cc                                                                   *)

toShares(x, other) ==
    [makeAShare(Auth([i \in Rank |-> IF i = 0 THEN Wide(x - (World - 1) * other) ELSE other],
                     Everywhere(0)))
        EXCEPT !.hasMac = FALSE]
\* A boolean share has its bits put together by B2P only.
fromShares(x) ==
    CASE IsA(x) -> Wrap(ValueOf(x.sh))
      [] IsB(x) -> OfBits({j \in 0..K-1 : ValueOf(Bit(x, j)) % 2 = 1})

----------------------------------------------------------------------------
(* beaver/beaver_tfp.cc, beaver/trusted_party.cc                           *)

\* n numbers of every rank, and the sums that the trusted party replays.
BeaverDraw(st, n) ==
    [st  |-> [st EXCEPT !.beaver = Strict([i \in Rank |-> @[i] + 2 * n])],
     own |-> Strict([j \in 0..n-1 |->
                Strict([i \in Rank |-> WidePrg(st.beaver_seed[i], st.beaver[i] + 2 * j)])]),
     tp  |-> Strict([j \in 0..n-1 |->
                Total([i \in Rank |-> WidePrg(st.tp_seed[i], st.beaver[0] + 2 * j)])])]
\* The number c in the places v and m of what has been drawn.
Dealt(d, v, m, c) ==
    LET adjust(j, to) == [d.own[j] EXCEPT ![0] = Wide(@ + to - d.tp[j])]
    IN  Auth(adjust(v, c), adjust(m, c * GlobalKey))

AuthCoinTossing(st) ==
    LET d == BeaverDraw(st, 2)
        r == freshRandom(d.st)
    IN  Done(r.st, Dealt(d, 0, 1, r.r))
AuthRandBit(st) ==
    LET d == BeaverDraw(st, 2)
        r == freshRandom(d.st)
    IN  Done(r.st, Dealt(d, 0, 1, r.r % 2))
AuthMul(st) ==
    LET d == BeaverDraw(st, 6)
    IN  [st |-> d.st, a |-> Dealt(d, 0, 3, d.tp[0]), b |-> Dealt(d, 1, 4, d.tp[1]),
         c |-> Dealt(d, 2, 5, Wide(d.tp[0] * d.tp[1]))]
AuthAnd(st) == AuthMul(st)
AuthTrunc(st, bits) ==
    LET d == BeaverDraw(st, 4)
        r == Wrap(d.tp[0])
    IN  [st |-> d.st, r |-> Dealt(d, 0, 2, r), rb |-> Dealt(d, 1, 3, ring_arshift(r, bits))]
\* A MAC for the parts v: their difference to a number with a MAC goes to rank 0.
AuthArrayRef(st, v) ==
    LET r == AuthCoinTossing(st)
        x_r == Total([i \in Rank |-> v[i] - r.v.v[i]])
    IN  Done(r.st, Auth(v, [r.v.m EXCEPT ![0] = Wide(@ + x_r * GlobalKey)]))

BatchMacCheck(st, opened, x, bits) ==
    Refusing(st, (MacOf(x) - opened * Total(key(st))) % 2^(bits + K) # 0)
\* Only the low bits are shown: a coin covers the others.
BatchOpen(st, x, bits) ==
    LET coin == AuthCoinTossing(st)
        masked == Plus(x, Times(coin.v, 2^bits))
        opened == ValueOf(masked)
    IN  Done(BatchMacCheck(coin.st, opened, masked, bits), opened)

\* f(st, j) for j below n, one after the other.
InTurn(st, n, f(_, _)) ==
    LET extend(prev, j) == LET r == f(prev.st, j) IN Done(r.st, prev.v @@ (j :> r.v))
        upto[j \in 0..n] ==
            IF j = 0 THEN Done(st, <<>>)
            ELSE Eagerly(upto[j-1], LAMBDA prev : extend(prev, j - 1))
    IN  upto[n]
RandBits(st, n) == InTurn(st, n, LAMBDA s, j : AuthRandBit(s))
OpenBits(st, x) ==
    InTurn(st, x.nbits, LAMBDA s, j : LET o == BatchOpen(s, Bit(x, j), 1) IN Done(o.st, o.v % 2))

----------------------------------------------------------------------------
(* arithmetic.cc                                                           *)

zero_a_impl(st) ==
    LET d == fillPrssPair(st, 4, BothEverywhere)
        part(i, j) == Wide(d.r0[i][j] - d.r1[i][j] + Modulus * (d.r0[i][j+1] - d.r1[i][j+1]))
    IN  Done(d.st, Auth([i \in Rank |-> part(i, 0)], [i \in Rank |-> part(i, 2)]))
GetMacShare(st, x) == IF x.hasMac THEN Done(st, x.sh) ELSE AuthArrayRef(st, x.sh.v)
WithMac(st, x, f(_)) == LET g == GetMacShare(st, x) IN Done(g.st, makeAShare(f(g.v)))

RandA(st) ==
    LET low == genPriv(st, Rank)
        high == genPriv(low.st, Rank)
        x == AuthArrayRef(high.st, [i \in Rank |-> (low.r[i] + Modulus * high.r[i]) \div 4])
    IN  Done(x.st, makeAShare(x.v))
P2A(st, x) ==
    LET z == zero_a_impl(st) IN Done(z.st, makeAShare(Plus(z.v, Known(st, x.sh[0]))))
\* The MAC of the shares v, added to the one of zero.
Authenticated(st, zero, v) ==
    LET a == AuthArrayRef(st, v)
    IN  Done(a.st, Auth(v, [i \in Rank |-> Wide(zero.m[i] + a.v.m[i])]))
V2A(st, x) ==
    LET z == zero_a_impl(st)
        a == Authenticated(z.st, z.v, [z.v.v EXCEPT ![x.owner] = Wide(@ + x.sh[x.owner])])
    IN  Done(a.st, makeAShare(a.v))
\* A share without a MAC is opened all the same, and does not pass the check.
A2P(st, x) ==
    LET o == BatchOpen(st, x.sh, K) IN Done(o.st, Pub(Everywhere(Wrap(o.v))))
A2V(st, x, rank) ==
    LET z == zero_a_impl(st)
        r == freshRandom(z.st)
        a == Authenticated(r.st, z.v, [z.v.v EXCEPT ![rank] = Wide(@ + r.r)])
        o == BatchOpen(a.st, Plus(x.sh, a.v), K)
    IN  Done(o.st, Priv(rank, OnlyAt(rank, Wrap(o.v - r.r))))

NotA(st, x) == WithMac(st, x, LAMBDA a : Minus(Known(st, -1), a))
AddAP(st, x, y) == WithMac(st, x, LAMBDA a : Plus(a, Known(st, y.sh[0])))
AddAA(st, x, y) ==
    LET a == GetMacShare(st, x) IN WithMac(a.st, y, LAMBDA b : Plus(a.v, b))
MulAP(st, x, y) == WithMac(st, x, LAMBDA a : Times(a, y.sh[0]))
LShiftA(st, x, n) == WithMac(st, x, LAMBDA a : Times(a, 2^(n % (2*K))))

\* With e = x - a and f = y - b opened: xy = c + e b + f a + ef.
BeaverProduct(st, t, e, f) ==
    Plus(Plus(t.c, Plus(Times(t.b, e), Times(t.a, f))), Known(st, Wide(e * f)))
\* e and f are random altogether: no coin has to cover them.
MulAA(st, x, y) ==
    LET a == GetMacShare(st, x)
        b == GetMacShare(a.st, y)
        t == AuthMul(b.st)
        e == Minus(a.v, t.a)
        f == Minus(b.v, t.b)
        checked == BatchMacCheck(BatchMacCheck(t.st, ValueOf(e), e, K), ValueOf(f), f, K)
    IN  Done(checked, makeAShare(BeaverProduct(st, t, ValueOf(e), ValueOf(f))))
TruncA(st, x, n) ==
    LET t == AuthTrunc(st, n)
        o == BatchOpen(t.st, Minus(x.sh, t.r), K)
    IN  Done(o.st, makeAShare(Plus(t.rb, Known(st, ring_arshift(Wrap(o.v), n)))))

----------------------------------------------------------------------------
(* boolean.cc                                                              *)

\* No two widths have a common one, and there is no kernel to change a width.
CommonTypeB(x, y) == x.nbits
CastTypeB(st, x, nbits) == Done(Refusing(st, TRUE), x)

BitAt(c, j) == (c \div 2^j) % 2
B2P(st, x) ==
    LET o == OpenBits(st, x)
    IN  Done(o.st, Pub(Everywhere(OfBits({j \in DOMAIN o.v : o.v[j] = 1}))))
\* A number without a bit makes a share without one: its size is divided by zero.
P2B(st, x) ==
    LET nbits == BitWidth(x.sh[0])
        zeros == InTurn(st, nbits, LAMBDA s, j : zero_a_impl(s))
    IN  Done(Refusing(zeros.st, nbits = 0),
             makeBShare(nbits, [j \in 0..K-1 |-> Plus(zeros.v[j], Known(st, BitAt(x.sh[0], j)))]))
NotB(st, x) == makeBShare(x.nbits, [j \in 0..K-1 |-> Plus(Bit(x, j), Known(st, 1))])

MaskB(x, m) ==
    makeBShare(Min({x.nbits, BitWidth(m)}), [j \in 0..K-1 |-> Times(Bit(x, j), BitAt(m, j))])
AndBP(st, x, y) == Done(Refusing(st, y.sh[0] = 0), MaskB(x, y.sh[0]))
XorBP(st, x, y) ==
    Done(st, makeBShare(Max({x.nbits, BitWidth(y.sh[0])}),
                        [j \in 0..K-1 |-> Plus(Bit(x, j), Known(st, BitAt(y.sh[0], j)))]))
XorB(x, y) ==
    makeBShare(Max({x.nbits, y.nbits}), [j \in 0..K-1 |-> Plus(Bit(x, j), Bit(y, j))])
XorBB(st, x, y) == Done(st, XorB(x, y))
AndBB(st, x, y) ==
    LET and_bit(s, j) ==
            LET t == AuthAnd(s)
                e == BatchOpen(t.st, Minus(Bit(x, j), t.a), 1)
                f == BatchOpen(e.st, Minus(Bit(y, j), t.b), 1)
            IN  Done(f.st, BeaverProduct(s, t, e.v % 2, f.v % 2))
        nbits == Min({x.nbits, y.nbits})
        z == InTurn(st, nbits, and_bit)
    IN  Done(z.st, makeBShare(nbits, z.v))

LShiftB(x, n) ==
    makeBShare(IF n >= K THEN 1 ELSE Min({x.nbits + n, K}), [j \in 0..K-1 |-> Bit(x, j - n)])
RShiftB(x, n) ==
    makeBShare(IF x.nbits > n THEN x.nbits - n ELSE 1, [j \in 0..K-1 |-> Bit(x, j + n)])
\* The sign is the top bit of all K: a share of fewer bits is not negative.
ARShiftB(x, n) ==
    IF x.nbits # K THEN RShiftB(x, n)
    ELSE makeBShare(K, [j \in 0..K-1 |-> Bit(x, Min({j + n, K - 1}))])
CanBitrevB(x, end) == end <= x.nbits
BitrevB(x, start, end) ==
    makeBShare(x.nbits, [j \in 0..K-1 |->
        Bit(x, IF j \in start..end-1 THEN end + start - j - 1 ELSE j)])

----------------------------------------------------------------------------
(* utils/circuits.h: but for their widths the circuits of ab_api.cc.       *)

\* The even bits, then the odd ones.
odd_even_split(x, stride) ==
    LET half == x.nbits \div 2
    IN  makeBShare(x.nbits, [j \in 0..K-1 |->
            Bit(x, IF j < half THEN 2 * j ELSE 2 * (j - half) + 1)])
Adder == INSTANCE Circuits WITH and_bb <- AndBB, xor_bb <- XorB, lshift_b <- LShiftB,
                 rshift_b <- RShiftB, and_bp <- MaskB, bitdeintl_b <- odd_even_split
kogge_stone(st, x, y, nbits) == Adder!ppa_kogge_stone(st, x, y, nbits)
carry_out(st, x, y, nbits) ==
    LET c == Adder!carry_a2b(st, x, y, nbits)
    IN  IF nbits = 1 THEN Done(c.st, MaskB(c.v, 1)) ELSE c

----------------------------------------------------------------------------
(* conversion.cc                                                           *)

\* Modulo 2^(s+1), with s = K.
A2Bit(a) == LET low(f) == [i \in Rank |-> f[i] % 2^(K+1)] IN Auth(low(a.v), low(a.m))
A2Bits(r, nbits) == makeBShare(nbits, [j \in 0..nbits-1 |-> A2Bit(r[j])])
Widened(x, nbits) == makeBShare(nbits, [j \in 0..K-1 |-> Bit(x, j)])

AddBB(st, x, y) ==
    LET nbits == Max({x.nbits, y.nbits})
    IN  kogge_stone(st, Widened(x, nbits), Widened(y, nbits), nbits)
BitLEBB(st, x, y) ==
    LET nbits == Max({x.nbits, y.nbits})
        ret == carry_out(st, Widened(x, nbits), NotB(st, Widened(y, nbits)), nbits)
    IN  Done(ret.st, NotB(st, ret.v))

\* c or 1 - c, as the shared bit r says.
Flip(st, c, r) == Plus(Known(st, c), Times(r, 1 - 2 * c))
\* Every bit is a share of its own: of its sum with r the low bit is opened, the
\* carry has been computed for nothing.
B2A(st, x) ==
    LET r == RandBits(st, x.nbits)
        br == A2Bits(r.v, x.nbits)
        carry == AndBB(r.st, x, br)
        c == OpenBits(carry.st, XorB(x, br))
        bits == [j \in 0..x.nbits-1 |-> Flip(st, c.v[j], r.v[j])]
    IN  Done(c.st, makeAShare(Weighted(bits, x.nbits)))
Bit2A(st, x) == B2A(st, Widened(x, 1))
A2B(st, x) ==
    LET r == RandBits(st, K)
        br == A2Bits(r.v, K)
        ar == B2A(r.st, br)
        a == GetMacShare(ar.st, x)
        c == BatchOpen(a.st, Minus(a.v, ar.v.sh), K)
        bc == P2B(c.st, Pub(Everywhere(Wrap(c.v))))
    IN  AddBB(bc.st, br, Widened(bc.v, K))

\* a' = a mod 2^(K-1) = c' - r' + 2^(K-1) u, and the top bit of a - a' is the
\* one of a.
MSB(st, x) ==
    LET a == GetMacShare(st, x)
        checked == BatchOpen(a.st, a.v, K)
        r == RandBits(checked.st, K)
        c == BatchOpen(r.st, Plus(a.v, Weighted(r.v, K)), K)
        c_low == c.v % 2^(K-1)
        bc == P2B(c.st, Pub(Everywhere(c_low)))
        not_u == BitLEBB(bc.st, A2Bits(r.v, K - 1), bc.v)
        au == Bit2A(not_u.st, NotB(st, not_u.v))
        aa == Plus(Minus(Times(au.v.sh, 2^(K-1)), Weighted(r.v, K - 1)), Known(st, c_low))
        b == AuthRandBit(au.st)
        e == BatchOpen(b.st, Plus(Minus(a.v, aa), Times(b.v, 2^(K-1))), K)
        ee == BitAt(e.v, K - 1)
    IN  Done(e.st, makeBShare(1, [j \in {0} |-> Flip(st, ee, b.v)]))

----------------------------------------------------------------------------
\* protocol.cc: the interface over these kernels.  b2v is not among them.
Registered == {"msb_a2b"}
Hal == INSTANCE HalRing WITH TruncAPr <- TruncA, MsbA2B <- MSB, SquareA <- NoKernel,
           MulA1B <- NoKernel2, MulAV <- NoKernel2, B2V <- NoKernel2, EqualAA <- NoKernel2,
           EqualAP <- NoKernel2, Kernels <- Registered
Tables == INSTANCE HalPermute WITH TruncAPr <- TruncA, MsbA2B <- MSB, SquareA <- NoKernel,
              MulA1B <- NoKernel2, MulAV <- NoKernel2, B2V <- NoKernel2,
              EqualAA <- NoKernel2, EqualAP <- NoKernel2, Kernels <- Registered,
              Shuffled <- NoKernel, RandPermM <- NoKernel, PermAM <- NoKernel2,
              PermAP <- NoKernel2, InvPermAM <- NoKernel2, InvPermAP <- NoKernel2,
              InvPermAV <- NoKernel2

\* Every MAC is the product with the key, to the bits that a check looks at.
Consistent(x) ==
    LET agree(a, bits) == (MacOf(a) - ValueOf(a) * GlobalKey) % 2^bits = 0
    IN  /\ IsA(x) /\ x.hasMac => agree(x.sh, 2 * K)
        /\ IsB(x) => \A j \in 0..K-1 : agree(Bit(x, j), K + 1)
=============================================================================
