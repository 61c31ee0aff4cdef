------------------------------ MODULE HalRing ------------------------------
(***************************************************************************)
(* libspu/kernel/hal/ring.cc and type_cast.cc: operations on ring numbers  *)
(* of any visibility, made of the calls of the protocol interface.         *)
(***************************************************************************)
EXTENDS Api

----------------------------------------------------------------------------
(* Dispatch by visibility                                                  *)

Commutative(st, x, y, pp(_, _, _), vp(_, _, _), vvf(_, _, _), ss(_, _, _), sp(_, _, _),
            svf(_, _, _)) ==
    CASE isPublic(x) /\ isPublic(y)   -> pp(st, x, y)
      [] isPrivate(x) /\ isPrivate(y) -> vvf(st, x, y)
      [] isSecret(x) /\ isSecret(y)   -> ss(st, y, x)
      [] isSecret(x) /\ isPublic(y)   -> sp(st, x, y)
      [] isPublic(x) /\ isSecret(y)   -> sp(st, y, x)
      [] isPrivate(x) /\ isPublic(y)  -> vp(st, x, y)
      [] isPublic(x) /\ isPrivate(y)  -> vp(st, y, x)
      [] isPrivate(x) /\ isSecret(y)  -> svf(st, y, x)
      [] isSecret(x) /\ isPrivate(y)  -> svf(st, x, y)

add(st, x, y) == Commutative(st, x, y, add_plain, add_plain, add_vv, add_ss, add_sp, add_sv)
mul(st, x, y) == Commutative(st, x, y, mul_plain, mul_plain, mul_vv, mul_ss, mul_sp, mul_sv)
and(st, x, y) == Commutative(st, x, y, and_plain, and_plain, and_vv, and_ss, and_sp, and_sv)
xor(st, x, y) == Commutative(st, x, y, xor_plain, xor_plain, xor_vv, xor_ss, xor_sp, xor_sv)

not(st, x) == IF isSecret(x) THEN not_s(st, x) ELSE not_pv(st, x)
msb(st, x) == IF isSecret(x) THEN msb_s(st, x) ELSE msb_pv(st, x)
square(st, x) ==
    CASE isSecret(x)  -> square_s(st, x)
      [] isPrivate(x) -> mul_vv(st, x, x)
      [] isPublic(x)  -> mul_plain(st, x, x)
lshift(st, x, n)  == IF isSecret(x) THEN lshift_s(st, x, n) ELSE lshift_pv(st, x, n)
rshift(st, x, n)  == IF isSecret(x) THEN rshift_s(st, x, n) ELSE rshift_pv(st, x, n)
arshift(st, x, n) == IF isSecret(x) THEN arshift_s(st, x, n) ELSE arshift_pv(st, x, n)
\* No bits means the fraction.
trunc(st, x, n) ==
    LET bits == IF n = 0 THEN FxpBits ELSE n
    IN  IF isSecret(x) THEN trunc_s(st, x, bits) ELSE trunc_pv(st, x, bits)
bitrev(st, x, start, end) ==
    IF isSecret(x) THEN bitrev_s(st, x, start, end) ELSE bitrev_pv(st, x, start, end)

----------------------------------------------------------------------------
(* Made of the others                                                      *)

constant(st, c) == make_p(st, c)
WithConstant(st, c, step(_, _)) == Then(constant(st, c), step)

negate(st, x) ==
    Then(not(st, x), LAMBDA s, n : WithConstant(s, 1, LAMBDA t, one : add(t, n, one)))
sub(st, x, y) == Then(negate(st, y), LAMBDA s, n : add(s, x, n))
or(st, x, y) ==
    Then(and(st, x, y), LAMBDA s, a : Then(xor(s, y, a), LAMBDA t, b : xor(t, x, b)))
\* The sign of the difference.
less(st, x, y) == Then(sub(st, x, y), msb)

HasEqual(x, y) ==
    \/ isPublic(x) /\ isPublic(y)
    \/ isSecret(x) /\ isPublic(y) /\ HasEqualSP(x)
    \/ isPublic(x) /\ isSecret(y) /\ HasEqualSP(y)
    \/ isSecret(x) /\ isSecret(y) /\ HasEqualSS(y, x)
equal_impl(st, x, y) ==
    CASE isPublic(x) /\ isPublic(y) -> equal_pp(st, x, y)
      [] isSecret(x) /\ isPublic(y) -> equal_sp(st, x, y)
      [] isPublic(x) /\ isSecret(y) -> equal_sp(st, y, x)
      [] OTHER                      -> equal_ss(st, y, x)
\* Without a kernel, neither is less than the other.
equal(st, x, y) ==
    LET notLess(s, a, b, one) == Then(less(s, a, b), LAMBDA t, l : xor(t, l, one))
        byLess(s, one) == Both(notLess(s, x, y, one), LAMBDA t : notLess(t, y, x, one), and)
    IN  IF HasEqual(x, y) THEN equal_impl(st, x, y) ELSE WithConstant(st, 1, byLess)

mux(st, pred, a, b) ==
    Then(sub(st, a, b), LAMBDA s, d : Then(mul(s, pred, d), LAMBDA t, m : add(t, b, m)))
clamp(st, x, minv, maxv) ==
    LET least(s, r) == Then(less(s, r, maxv), LAMBDA t, l : mux(t, l, r, maxv))
    IN  Then(Then(less(st, x, minv), LAMBDA s, l : mux(s, l, minv, x)), least)
sign(st, x) ==
    LET from(s, negative) ==
            WithConstant(s, 1, LAMBDA t, one : WithConstant(t, 2, LAMBDA u, two :
                Then(mul(u, two, negative), LAMBDA w, m : sub(w, one, m))))
    IN  Then(msb(st, x), from)

prefer_a(st, x) == IF IsB(x) THEN WithConstant(st, 0, LAMBDA s, zero : add(s, x, zero))
                             ELSE Done(st, x)
prefer_b(st, x) == IF IsA(x) THEN WithConstant(st, 0, LAMBDA s, zero : xor(s, x, zero))
                             ELSE Done(st, x)

\* One level for every l of levels, from the first to the last.
Levels(r, levels, step(_, _, _)) ==
    LET after[l \in 0..Len(levels)] ==
            IF l = 0 THEN r
            ELSE LET prev == after[l-1] IN step(prev.st, prev.v, levels[l])
    IN  after[Len(levels)]
Halves(bits) == [l \in 1..Log2Ceil(bits) |-> bits \div 2^l]
Doubles(bits) == [l \in 1..Log2Ceil(bits) |-> 2^(l-1)]

bit_parity(st, x, bits) ==
    LET fold(s, b, n) == Then(rshift(s, b, n), LAMBDA t, r : xor(t, b, r))
        all == Levels(prefer_b(st, x), Halves(bits), fold)
    IN  Then(all, LAMBDA s, b : WithConstant(s, 1, LAMBDA t, one : and(t, b, one)))
\* Every bit below the highest one is set.
prefix_or(st, x) ==
    LET fill(s, b, n) == Then(rshift(s, b, n), LAMBDA t, r : or(t, b, r))
    IN  Levels(prefer_b(st, x), Doubles(K), fill)

\* The width of a boolean share is set by hand to what the value is known to be.
hintNumberOfBits(x, n) == IF IsB(x) THEN [x EXCEPT !.nbits = n] ELSE x
eqz(st, x) ==
    LET lsb(s, b) == WithConstant(s, 1, LAMBDA t, one : Then(and(t, b, one),
                         LAMBDA u, a : Then(xor(u, a, one),
                             LAMBDA w, r : Done(w, hintNumberOfBits(r, 1)))))
    IN  Then(prefix_or(st, x), lsb)
\* The bits one by one, and their sum.
popcount(st, x, bits) ==
    LET bit(s, b, n) == Then(rshift(s, b, n), LAMBDA t, r : WithConstant(t, 1,
                            LAMBDA u, one : Then(and(u, r, one),
                                LAMBDA w, a : Done(w, hintNumberOfBits(a, 1)))))
        collect(r) == Levels(Done(r.st, <<>>), [l \in 1..bits |-> l - 1],
                             LAMBDA s, vs, n : Then(bit(s, r.v, n),
                                 LAMBDA t, b : Done(t, Append(vs, b))))
        all == collect(prefer_b(st, x))
    IN  vreduce(all.st, all.v, add)
\* Even and odd bits apart, by masks and shifts.
bitdeintl(st, x) ==
    LET inBlock(q, l) == OfBits({i \in 0..K-1 : (i \div 2^l) % 4 \in q})
        kept(s, b, l) == WithConstant(s, inBlock({0, 3}, l), LAMBDA t, keep : and(t, b, keep))
        moved(s, b, l) == WithConstant(s, inBlock({1}, l), LAMBDA t, move : and(t, b, move))
        down(s, b, l) == Then(rshift(s, b, 2^l), LAMBDA t, r : moved(t, r, l))
        up(s, b, l) == Then(moved(s, b, l), LAMBDA t, m : lshift(t, m, 2^l))
        swap(s, b, l) == Both(Both(kept(s, b, l), LAMBDA t : down(t, b, l), xor),
                              LAMBDA t : up(t, b, l), xor)
    IN  Levels(Done(st, x), [n \in 1..Log2Ceil(K)-1 |-> n - 1], swap)

----------------------------------------------------------------------------
(* type_cast.cc                                                            *)

seal(st, x, isBit) == IF isPrivate(x) THEN v2s(st, x) ELSE p2s(st, x, isBit)
reveal(st, x) == IF isPrivate(x) THEN v2p(st, x) ELSE s2p(st, x)
int2fxp(st, x) == lshift(st, x, FxpBits)
\* Towards zero: a negative number is first moved up by almost one.
fxp2int(st, x) ==
    LET rounded(s, negative) ==
            WithConstant(s, 2^FxpBits - 1, LAMBDA t, c : Then(mul(t, c, negative),
                LAMBDA u, m : Then(add(u, x, m), LAMBDA w, r : arshift(w, r, FxpBits))))
    IN  Then(msb(st, x), rounded)

----------------------------------------------------------------------------
\* One call by name: of operands x and y, a number n, and the rank that a
\* private result goes to.
call(st, op, x, y, n) ==
    CASE op = "add"     -> add(st, x, y)      [] op = "mul"    -> mul(st, x, y)
      [] op = "and"     -> and(st, x, y)      [] op = "xor"    -> xor(st, x, y)
      [] op = "or"      -> or(st, x, y)       [] op = "sub"    -> sub(st, x, y)
      [] op = "less"    -> less(st, x, y)     [] op = "equal"  -> equal(st, x, y)
      [] op = "not"     -> not(st, x)         [] op = "msb"    -> msb(st, x)
      [] op = "negate"  -> negate(st, x)      [] op = "square" -> square(st, x)
      [] op = "lshift"  -> lshift(st, x, n)   [] op = "rshift" -> rshift(st, x, n)
      [] op = "arshift" -> arshift(st, x, n)  [] op = "trunc"  -> trunc(st, x, n)
      [] op = "bitrev"  -> bitrev(st, x, 0, n)
      [] op = "mux"     -> WithConstant(st, n, LAMBDA s, c : mux(s, x, y, c))
      [] op = "clamp"   -> WithConstant(st, n, LAMBDA s, c : clamp(s, x, y, c))
      [] op = "sign"    -> sign(st, x)        [] op = "eqz"    -> eqz(st, x)
      [] op = "prefer_a"   -> prefer_a(st, x) [] op = "prefer_b"  -> prefer_b(st, x)
      [] op = "bit_parity" -> bit_parity(st, x, K)
      [] op = "popcount"   -> popcount(st, x, K)
      [] op = "prefix_or"  -> prefix_or(st, x)
      [] op = "bitdeintl"  -> bitdeintl(st, x)
      [] op = "int2fxp"    -> int2fxp(st, x)  [] op = "fxp2int"   -> fxp2int(st, x)
      [] op = "seal"    -> seal(st, x, n = 1) [] op = "reveal"    -> reveal(st, x)
      [] op = "s2v"     -> s2v(st, x, n)      [] op = "p2v"       -> p2v(st, x, n)
      [] op = "rand_s"  -> rand_s(st)         [] op = "rand_p"    -> rand_p(st)
      [] op = "cast_type" -> cast_type_s(st, x, common_type_s(x, y))
=============================================================================
