------------------------------- MODULE Ring2k -------------------------------
(***************************************************************************)
(* The ring Z_{2^K} of libspu/mpc/utils/ring_ops.cc, one element at a      *)
(* time: an array is transformed element by element, so that one element   *)
(* stands for all.  A number is also the set of the positions of its one   *)
(* bits, and the operations that move bits are maps of that set.           *)
(*                                                                         *)
(* K is the width of the field (32, 64 or 128 in the code) and ByteBits    *)
(* the width of the smallest storage type (8 in the code).                 *)
(***************************************************************************)
EXTENDS Integers, FiniteSets, FiniteSetsExt, Functions

CONSTANTS K, ByteBits,
          FxpBits       \* fraction bits of a fixed point number

ASSUME RingAssumption ==
    /\ K \in Nat \ {0}
    /\ ByteBits \in 1..K
    /\ K % ByteBits = 0
    /\ FxpBits \in 1..K-1

Modulus == 2^K
Ring == 0..Modulus-1

BitsOf == [a \in Ring |-> {i \in 0..K-1 : (a \div 2^i) % 2 = 1}]
OfBits(S) == MapThenSumSet(LAMBDA i : 2^i, S)
Combine(op(_, _)) == [a \in Ring |-> [b \in Ring |-> OfBits(op(BitsOf[a], BitsOf[b]))]]
XorTable == Combine(LAMBDA S, T : (S \ T) \cup (T \ S))
AndTable == Combine(LAMBDA S, T : S \cap T)

Wrap(a) == a % Modulus
ring_add(a, b) == Wrap(a + b)
ring_sub(a, b) == Wrap(a - b)
ring_mul(a, b) == Wrap(a * b)
ring_neg(a)    == Wrap(-a)
ring_not(a)    == Modulus - 1 - a
ring_xor(a, b) == XorTable[a][b]
ring_and(a, b) == AndTable[a][b]
Truth(p) == IF p THEN 1 ELSE 0
ring_equal(a, b) == Truth(a = b)

ring_lshift(a, n)  == Wrap(a * 2^n)
ring_rshift(a, n)  == a \div 2^n
\* The sign bit fills the positions that the shift leaves free.
Signed(a)          == IF a < 2^(K-1) THEN a ELSE a - Modulus
ring_arshift(a, n) == Wrap(Signed(a) \div 2^n)
\* Bits start .. end-1 in the reverse order, the others in place.
ring_bitrev(a, start, end) ==
    OfBits({IF i \in start..end-1 THEN end - 1 - i + start ELSE i : i \in BitsOf[a]})
ring_bitmask(a, low, high) == OfBits(BitsOf[a] \cap (low..high-1))
Truncate(a, n) == a % 2^n

\* The number of bits of a public value: what maxBitWidth finds.
BitWidth(a) == IF a = 0 THEN 0 ELSE Max(BitsOf[a]) + 1
Log2Ceil(n) == Min({e \in 0..n : 2^e >= n})
Log2Floor(n) == Max({e \in 0..n : 2^e <= n})
HasSingleBit(n) == \E e \in 0..n : 2^e = n

\* One level of the butterfly that BitIntl and BitDeintl are made of: in a
\* block of 4 * 2^l bits the second and the third quarter change places.
SwapLevel(a, l) ==
    LET quarter(i) == (i \div 2^l) % 4
        moved(i) == CASE quarter(i) = 1 -> i + 2^l
                      [] quarter(i) = 2 -> i - 2^l
                      [] OTHER          -> i
    IN  OfBits({moved(i) : i \in {j \in BitsOf[a] : moved(j) < K}})
\* stride .. Log2Ceil(nbits)-2, upwards to take even and odd bits apart,
\* downwards to interleave them again.
BitDeintl(a, stride, nbits) ==
    LET deintl[l \in stride..K] ==
            IF l = stride THEN a ELSE SwapLevel(deintl[l-1], l-1)
    IN  deintl[Max({stride, Log2Ceil(nbits) - 1})]
BitIntl(a, stride, nbits) ==
    LET top == Max({stride, Log2Ceil(nbits) - 1})
        intl[l \in stride..K] ==
            IF l >= top THEN a ELSE SwapLevel(intl[l+1], l)
    IN  intl[stride]

\* Arithmetic shift that rounds to the nearest: what the plaintext kernels
\* trunc_p and trunc_v do.
rounded_arshift(a, n) ==
    ring_add(ring_arshift(a, n), ring_and(ring_arshift(a, n - 1), 1))

\* calcBShareBacktype: the smallest storage type with room for nbits bits,
\* as its width.
StorageBits(nbits) ==
    LET widths == {ByteBits * 2^e : e \in 0..K}
    IN  Min({w \in widths : w >= nbits})
=============================================================================
