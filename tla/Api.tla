-------------------------------- MODULE Api --------------------------------
(***************************************************************************)
(* libspu/mpc/api.cc and ab_api.cc, by which the rest of the program       *)
(* reaches a protocol, over the plaintext kernels that all protocols share *)
(* (mpc/common/pv2k.cc).  The kernels of the protocol are the parameters.  *)
(*                                                                         *)
(* A secret is an arithmetic or a boolean share, whichever the operation   *)
(* that made it has left: what needs the other one converts it first.      *)
(***************************************************************************)
EXTENDS Parties

CONSTANTS Kernels,      \* the optional kernels that the protocol registers
          P2A(_, _), V2A(_, _), A2P(_, _), A2V(_, _, _), RandA(_),
          NotA(_, _), AddAP(_, _, _), AddAA(_, _, _), MulAP(_, _, _), MulAA(_, _, _),
          SquareA(_, _), MulA1B(_, _, _), MulAV(_, _, _), LShiftA(_, _, _), TruncAPr(_, _, _),
          P2B(_, _), B2P(_, _), B2V(_, _, _), A2B(_, _), B2A(_, _), MsbA2B(_, _),
          AndBP(_, _, _), AndBB(_, _, _), XorBP(_, _, _), XorBB(_, _, _),
          LShiftB(_, _), RShiftB(_, _), ARShiftB(_, _), BitrevB(_, _, _),
          CommonTypeB(_, _), CastTypeB(_, _, _),
          EqualAA(_, _, _), EqualAP(_, _, _)

hasKernel(name) == name \in Kernels

\* The second step of two, on the streams and the value the first has left.
Then(r, step(_, _)) == Eagerly(r, LAMBDA q : step(q.st, q.v))
\* A step on the values of two.
Both(r, s(_), step(_, _, _)) ==
    Then(r, LAMBDA t, v : Then(s(t), LAMBDA u, w : step(u, v, w)))

----------------------------------------------------------------------------
(* pv2k.cc: public numbers are changed everywhere, private ones at their   *)
(* owner; the other ranks keep what they have in their place.              *)

Plain(x, f(_)) ==
    IF isPublic(x) THEN Pub([i \in Rank |-> f(x.sh[i])])
    ELSE Priv(x.owner, [i \in Rank |-> IF i = x.owner THEN f(x.sh[i]) ELSE x.sh[i]])
Plain2(x, y, f(_, _)) ==
    IF isPublic(x) THEN Pub([i \in Rank |-> f(x.sh[i], y.sh[i])])
    ELSE Priv(x.owner, [i \in Rank |-> IF i = x.owner THEN f(x.sh[i], y.sh[i]) ELSE x.sh[i]])

p2v(st, x, rank) == Done(st, Priv(rank, OnlyAt(rank, x.sh[rank])))
v2p(st, x) == Done(st, Pub(bcast(x.sh, x.owner)))
make_p(st, init) == Done(st, Pub(Everywhere(Wrap(init))))
rand_p(st) == LET publ == genPubl(st) IN Done(publ.st, Pub(publ.r))
not_pv(st, x) == Done(st, Plain(x, ring_not))
msb_pv(st, x) == Done(st, Plain(x, LAMBDA a : ring_rshift(a, K - 1)))
lshift_pv(st, x, n)  == Done(st, Plain(x, LAMBDA a : ring_lshift(a, n)))
rshift_pv(st, x, n)  == Done(st, Plain(x, LAMBDA a : ring_rshift(a, n)))
arshift_pv(st, x, n) == Done(st, Plain(x, LAMBDA a : ring_arshift(a, n)))
trunc_pv(st, x, n)   == Done(st, Plain(x, LAMBDA a : rounded_arshift(a, n)))
bitrev_pv(st, x, start, end) == Done(st, Plain(x, LAMBDA a : ring_bitrev(a, start, end)))
\* Of two public numbers, of two of one owner, or of a private and a public one.
equal_pp(st, x, y) == Done(st, Plain2(x, y, ring_equal))
add_plain(st, x, y) == Done(st, Plain2(x, y, ring_add))
mul_plain(st, x, y) == Done(st, Plain2(x, y, ring_mul))
and_plain(st, x, y) == Done(st, Plain2(x, y, ring_and))
xor_plain(st, x, y) == Done(st, Plain2(x, y, ring_xor))

----------------------------------------------------------------------------
(* Conversions                                                             *)

to_b(st, x) == IF IsA(x) THEN A2B(st, x) ELSE Done(st, x)       \* _2b
to_a(st, x) == IF IsB(x) THEN B2A(st, x) ELSE Done(st, x)       \* _2a
WithA(st, x, step(_, _)) == Then(to_a(st, x), step)
WithB(st, x, step(_, _)) == Then(to_b(st, x), step)

\* A truth value becomes a boolean share, any other number an arithmetic one.
p2s(st, x, isBit) == IF isBit THEN P2B(st, x) ELSE P2A(st, x)
v2s(st, x) == V2A(st, x)
s2p(st, x) == IF IsA(x) THEN A2P(st, x) ELSE B2P(st, x)
\* b2v is registered by some protocols only.
CanS2V(x) == IsA(x) \/ hasKernel("b2v")
s2v(st, x, rank) == IF IsA(x) THEN A2V(st, x, rank) ELSE B2V(st, x, rank)

\* The type to which two secrets can be brought, as a kind and a width.
common_type_s(x, y) ==
    IF IsB(x) /\ IsB(y) THEN [kind |-> "B", nbits |-> CommonTypeB(x, y)]
    ELSE [kind |-> "A", nbits |-> K]
cast_type_s(st, x, to) ==
    CASE IsA(x) /\ to.kind = "A" -> Done(st, x)
      [] IsA(x) /\ to.kind = "B" -> A2B(st, x)
      [] IsB(x) /\ to.kind = "A" -> B2A(st, x)
      [] OTHER                   -> CastTypeB(st, x, to.nbits)

----------------------------------------------------------------------------
(* One operand                                                             *)

rand_s(st) == RandA(st)
not_s(st, x) == WithA(st, x, NotA)
msb_s(st, x) ==
    IF hasKernel("msb_a2b") /\ IsA(x) THEN MsbA2B(st, x)
    ELSE WithB(st, x, LAMBDA s, b : Done(s, RShiftB(b, K - 1)))
lshift_s(st, x, n) == IF IsA(x) THEN LShiftA(st, x, n) ELSE Done(st, LShiftB(x, n))
rshift_s(st, x, n)  == WithB(st, x, LAMBDA s, b : Done(s, RShiftB(b, n)))
arshift_s(st, x, n) == WithB(st, x, LAMBDA s, b : Done(s, ARShiftB(b, n)))
trunc_s(st, x, n)   == WithA(st, x, LAMBDA s, a : TruncAPr(s, a, n))
bitrev_s(st, x, start, end) == WithB(st, x, LAMBDA s, b : Done(s, BitrevB(b, start, end)))

----------------------------------------------------------------------------
(* Two operands: ss of two secrets, sv and sp of a secret and a private or *)
(* a public number, vv of two private ones.                                *)

\* Neither add_av, and_bv nor xor_bv is a kernel of these protocols, and
\* mul_av of one only: the private number becomes a secret.
sv(st, x, y, ss(_, _, _)) == Then(v2s(st, y), LAMBDA s, v : ss(s, x, v))
vv(st, x, y, vvv(_, _, _), ss(_, _, _)) ==
    IF hasSameOwner(x, y) THEN vvv(st, x, y)
    ELSE Both(v2s(st, x), LAMBDA s : v2s(s, y), ss)

add_ss(st, x, y) == Both(to_a(st, x), LAMBDA s : to_a(s, y), AddAA)
add_sv(st, x, y) == sv(st, x, y, add_ss)
add_sp(st, x, y) == WithA(st, x, LAMBDA s, a : AddAP(s, a, y))
add_vv(st, x, y) == vv(st, x, y, add_plain, add_ss)

IsBit(x) == IsB(x) /\ x.nbits = 1
mul_ss(st, x, y) ==
    IF hasKernel("mul_a1b") /\ IsA(y) /\ IsBit(x) THEN MulA1B(st, y, x)
    ELSE IF hasKernel("mul_a1b") /\ IsA(x) /\ IsBit(y) THEN MulA1B(st, x, y)
    ELSE IF IsBit(x) /\ IsBit(y) THEN AndBB(st, x, y)
    ELSE Both(to_a(st, x), LAMBDA s : to_a(s, y), MulAA)
mul_sv(st, x, y) ==
    IF hasKernel("mul_av") /\ IsA(x) THEN MulAV(st, x, y) ELSE sv(st, x, y, mul_ss)
mul_sp(st, x, y) == WithA(st, x, LAMBDA s, a : MulAP(s, a, y))
mul_vv(st, x, y) == vv(st, x, y, mul_plain, mul_ss)
square_s(st, x) ==
    IF hasKernel("square_a") /\ IsA(x) THEN SquareA(st, x) ELSE mul_ss(st, x, x)

and_ss(st, x, y) == Both(to_b(st, x), LAMBDA s : to_b(s, y), AndBB)
and_sv(st, x, y) == sv(st, x, y, and_ss)
and_sp(st, x, y) == WithB(st, x, LAMBDA s, b : AndBP(s, b, y))
and_vv(st, x, y) == vv(st, x, y, and_plain, and_ss)

xor_ss(st, x, y) == Both(to_b(st, x), LAMBDA s : to_b(s, y), XorBB)
xor_sv(st, x, y) == sv(st, x, y, xor_ss)
xor_sp(st, x, y) == WithB(st, x, LAMBDA s, b : XorBP(s, b, y))
xor_vv(st, x, y) == vv(st, x, y, xor_plain, xor_ss)

\* Two boolean shares, or a boolean share and a public number, have no kernel.
HasEqualSS(x, y) == hasKernel("equal_aa") /\ ~(IsB(x) /\ IsB(y))
HasEqualSP(x) == hasKernel("equal_ap") /\ IsA(x)
equal_ss(st, x, y) == Both(to_a(st, x), LAMBDA s : to_a(s, y), EqualAA)
equal_sp(st, x, y) == EqualAP(st, x, y)
=============================================================================
