----------------------------- MODULE HalPermute -----------------------------
(***************************************************************************)
(* libspu/kernel/hal/permute.cc: arrays are sorted, shuffled and searched  *)
(* for their greatest elements, over the calls of HalRing and the          *)
(* permutations that some protocols register.                              *)
(*                                                                         *)
(* A kernel takes the elements of an array together; here a call on arrays *)
(* is one call for each element, in order.  Every call draws as much as it *)
(* does there, in another order.                                           *)
(***************************************************************************)
EXTENDS HalRing, PermUtils, SequencesExt

CONSTANTS RandPermM(_, _), PermAM(_, _, _), PermAP(_, _, _),
          InvPermAM(_, _, _), InvPermAP(_, _, _), InvPermAV(_, _, _)

\* One step for each of 1..n, whose values make a sequence.
Collect(st, n, f(_, _)) ==
    Levels(Done(st, <<>>), [j \in 1..n |-> j],
           LAMBDA s, vs, j : Then(f(s, j), LAMBDA t, v : Done(t, Append(vs, v))))
Map1(st, x, f(_, _)) == Collect(st, Len(x), LAMBDA s, j : f(s, x[j]))
Map2(st, x, y, f(_, _, _)) == Collect(st, Len(x), LAMBDA s, j : f(s, x[j], y[j]))

PublicArray(n, num(_)) == [j \in 1..n |-> Pub(Everywhere(Wrap(num(j))))]
iota(n) == PublicArray(n, LAMBDA j : j - 1)
ones(n) == PublicArray(n, LAMBDA j : 1)

IsSecretArray(x) == isSecret(x[1])
IsPublicArray(x) == isPublic(x[1])
IsPrivateArray(x) == isPrivate(x[1])
SameOwners(x, y) == hasSameOwner(x[1], y[1])
Refused(st, v) == Done([st EXCEPT !.refused = TRUE], v)

----------------------------------------------------------------------------
(* api.cc, from rand_perm_s on.  What is not an arithmetic share becomes   *)
(* one; a number that is no secret is refused (_2a).                       *)

HasShuffle == hasKernel("rand_perm_m")
Permuted(st, x, perm, kernel(_, _, _)) ==
    IF IsSecretArray(x) THEN Then(Map1(st, x, to_a), LAMBDA s, a : kernel(s, a, perm))
                        ELSE Refused(st, x)
rand_perm_s(st, n)       == RandPermM(st, n)
perm_ss(st, x, perm)     == Permuted(st, x, perm, PermAM)
perm_sp(st, x, perm)     == Permuted(st, x, perm, PermAP)
inv_perm_ss(st, x, perm) == Permuted(st, x, perm, InvPermAM)
inv_perm_sp(st, x, perm) == Permuted(st, x, perm, InvPermAP)
inv_perm_sv(st, x, perm) == Permuted(st, x, perm, InvPermAV)

Sealed(st, x) ==                                                      \* _2s
    Map1(st, x, LAMBDA s, e : CASE isPublic(e)  -> p2s(s, e, FALSE)
                                [] isPrivate(e) -> v2s(s, e)
                                [] OTHER        -> Done(s, e))
SealedAll(st, xs) == Map1(st, xs, Sealed)
Opened(st, x) == Map1(st, x, s2p)
GivenTo(st, x, rank) == Map1(st, x, LAMBDA s, e : p2v(s, e, rank))

----------------------------------------------------------------------------
(* Radix sort                                                              *)

\* xs and perm are shuffled alike, and perm is opened: xs by its inverse.
\* _opt_apply_inv_perm_ss, which returns what it has opened.
_opt_apply_inv_perm_ss(st, xs, perm, random) ==
    LET unpermuted(s, sxs, m) ==
            Then(Map1(s, sxs, LAMBDA t, x : inv_perm_sp(t, x, m)),
                 LAMBDA t, vs : Done(t, [v |-> vs, m |-> m]))
        opened(s, sp) ==
            Then(Map1(s, xs, LAMBDA t, x : perm_ss(t, x, random)),
                 LAMBDA t, sxs : Then(Opened(t, sp), LAMBDA u, m : unpermuted(u, sxs, m)))
    IN  Then(perm_ss(st, perm, random), opened)
\* The composition of perm and the permutation whose shuffle has been opened.
_opt_apply_perm_ss(st, perm, shuffled, random) ==
    Then(perm_sp(st, perm, shuffled), LAMBDA s, sm : inv_perm_ss(s, sm, random))
_apply_inv_perm_ss(st, xs, perm) ==
    Then(rand_perm_s(st, Len(perm)), LAMBDA s, random :
        Then(_opt_apply_inv_perm_ss(s, xs, perm, random), LAMBDA t, r : Done(t, r.v)))
_apply_perm_ss(st, x, perm) ==
    Then(rand_perm_s(st, Len(x)), LAMBDA s, random :
        Then(Then(perm_ss(s, perm, random), Opened),
             LAMBDA t, m : _opt_apply_perm_ss(t, x, m, random)))

SubAll(st, x, y) == Map2(st, x, y, sub)
AddAll(st, x, y) == Map2(st, x, y, add)
MulAll(st, x, y) == Map2(st, x, y, mul)

\* Every element with the sum of those up to it.
_prefix_sum(st, x) ==
    Levels(Done(st, <<x[1]>>), [j \in 1..Len(x)-1 |-> j + 1],
           LAMBDA s, sums, j : Then(add(s, sums[j-1], x[j]), LAMBDA t, v : Done(t, Append(sums, v))))

\* The places of n elements of which each raises one of the flags f, those of
\* the first vector before those of the next: the number of flags up to its own.
PlacesByFlags(st, n, f) ==
    LET part(fs, k) == SubSeq(fs, (k - 1) * n + 1, k * n)
        sum(s, fs, k) == AddAll(s, part(fs, k), part(fs, k + 1))
        whole(s, fs) ==
            IF Len(f) = 2 * n THEN sum(s, fs, 1)
            ELSE Both(sum(s, fs, 1), LAMBDA t : sum(t, fs, 3), AddAll)
    IN  Then(Then(Then(_prefix_sum(st, f), LAMBDA s, ps : MulAll(s, f, ps)), whole),
             LAMBDA s, r : SubAll(s, r, ones(n)))
\* The inverse permutation that sorts by a vector of bits, or by one and a more
\* significant one.
_gen_inv_perm_by_bv(st, bits) ==
    LET n == Len(bits[1])
        reversed(s, x) == SubAll(s, ones(n), x)
        minus(s, x, y, step(_, _)) == Then(SubAll(s, x, y), step)
        byTwo(s, rev_x, rev_y) ==
            Then(MulAll(s, rev_x, rev_y), LAMBDA t, f0 :
                minus(t, rev_y, f0, LAMBDA u, f1 :
                    minus(u, rev_x, f0, LAMBDA w, f2 :
                        minus(w, bits[2], f2, LAMBDA z, f3 :
                            PlacesByFlags(z, n, f0 \o f1 \o f2 \o f3)))))
    IN  IF Len(bits) = 1
        THEN Then(reversed(st, bits[1]), LAMBDA s, rev_x : PlacesByFlags(s, n, rev_x \o bits[1]))
        ELSE Both(reversed(st, bits[1]), LAMBDA s : reversed(s, bits[2]), byTwo)

\* The bits of every element as numbers, from the lowest to the highest that is
\* valid; -1 for all that the boolean share has.
_bit_decompose(st, x, valid_bits) ==
    LET low(s, b) == WithConstant(s, 1, LAMBDA t, one : Then(and(t, b, one), prefer_a))
        bits(s, b) ==
            Collect(s, IF valid_bits # -1 THEN valid_bits ELSE b[1].nbits,
                    LAMBDA t, n : Map1(t, b, LAMBDA u, e : Then(rshift(u, e, n - 1), low)))
    IN  Then(Map1(st, x, prefer_b), bits)
\* The vectors to sort by, from the least significant bit of the last key.  They
\* are inverted to sort downwards, and the sign bit is to sort upwards.
_gen_bv_vector(st, keys, ascending, valid_bits) ==
    LET towards(s, bits, n) ==
            IF ascending = (n = Len(bits)) THEN SubAll(s, ones(Len(bits[n])), bits[n])
                                           ELSE Done(s, bits[n])
        directed(s, bits) == Collect(s, Len(bits), LAMBDA t, n : towards(t, bits, n))
        ofKey(s, key) == Then(_bit_decompose(s, key, valid_bits), directed)
    IN  Levels(Done(st, <<>>), [k \in 1..Len(keys) |-> keys[Len(keys) + 1 - k]],
               LAMBDA s, bv, key : Then(ofKey(s, key), LAMBDA t, bits : Done(t, bv \o bits)))

\* Two vectors at a time, an odd one last: each is brought to the order so far,
\* and the permutation that sorts it is put after the one so far.
_gen_inv_perm_s(st, keys, ascending, valid_bits) ==
    LET n == Len(keys[1])
        pairs(bv) == [k \in 1..(Len(bv) + 1) \div 2 |->
                        SubSeq(bv, 2 * k - 1, IF 2 * k > Len(bv) THEN Len(bv) ELSE 2 * k)]
        refine(s, perm, bits) ==
            Then(rand_perm_s(s, n), LAMBDA t, random :
                Then(_opt_apply_inv_perm_ss(t, bits, perm, random), LAMBDA u, shuffled :
                    Then(_gen_inv_perm_by_bv(u, shuffled.v), LAMBDA w, p :
                        _opt_apply_perm_ss(w, p, shuffled.m, random))))
    IN  Then(_gen_bv_vector(st, keys, ascending, valid_bits), LAMBDA s, bv :
            Levels(Sealed(s, iota(n)), pairs(bv), refine))

----------------------------------------------------------------------------
(* Permutations by the visibility of the array and of the permutation      *)

ByVisibility(st, x, perm, plain(_, _, _), ss(_, _, _), sp(_, _, _), svf(_, _, _)) ==
    LET sealed(step(_, _, _)) == Then(Sealed(st, x), LAMBDA s, v : step(s, v, perm))
    IN  CASE IsPublicArray(x) /\ IsPublicArray(perm)   -> plain(st, x, perm)
          [] IsPublicArray(x) /\ IsSecretArray(perm)   -> sealed(ss)
          [] IsPublicArray(x) /\ IsPrivateArray(perm)  ->
                Then(GivenTo(st, x, perm[1].owner), LAMBDA s, v : plain(s, v, perm))
          [] IsPrivateArray(x) /\ IsPrivateArray(perm) ->
                IF SameOwners(x, perm) THEN plain(st, x, perm) ELSE sealed(svf)
          [] IsPrivateArray(x) /\ IsPublicArray(perm)  ->
                Then(GivenTo(st, perm, x[1].owner), LAMBDA s, p : plain(s, x, p))
          [] IsPrivateArray(x) /\ IsSecretArray(perm)  -> sealed(ss)
          [] IsSecretArray(x) /\ IsSecretArray(perm)   -> ss(st, x, perm)
          [] IsSecretArray(x) /\ IsPublicArray(perm)   -> sp(st, x, perm)
          [] IsSecretArray(x) /\ IsPrivateArray(perm)  -> svf(st, x, perm)

_inv_perm_one_ss(st, x, perm) ==
    Then(_apply_inv_perm_ss(st, <<x>>, perm), LAMBDA s, v : Done(s, v[1]))
\* By a private permutation there is a kernel of one protocol only.
_apply_inv_perm_sv(st, x, perm) ==
    IF hasKernel("inv_perm_av") THEN inv_perm_sv(st, x, perm)
    ELSE Then(Sealed(st, perm), LAMBDA s, p : _inv_perm_one_ss(s, x, p))
_apply_inv_perm(st, x, perm) ==
    ByVisibility(st, x, perm, inv_perm_plain, _inv_perm_one_ss, inv_perm_sp, _apply_inv_perm_sv)
_inverse(st, perm) == _apply_inv_perm(st, iota(Len(perm)), perm)
_apply_perm_sv(st, x, perm) ==
    Then(_inverse(st, perm), LAMBDA s, p : _apply_inv_perm_sv(s, x, p))
_apply_perm(st, x, perm) ==
    ByVisibility(st, x, perm, perm_plain, _apply_perm_ss, perm_sp, _apply_perm_sv)
_compose_perm(st, x, y) == _apply_perm(st, y, x)

----------------------------------------------------------------------------
(* Keys of several visibilities                                            *)

\* Where runs of keys end that are merged, from the last key to the first.  A
\* run has one owner; but the owner is forgotten behind a secret key only when
\* the run before it ends.
_find_mergeable_keys(keys) ==
    LET ownerOf(key) == IF IsPrivateArray(key) THEN key[1].owner ELSE -1
        n == Len(keys)
        next(acc, idx) ==
            LET cur == keys[idx]
                split(owner) == [ends |-> acc.ends \cup {idx}, owner |-> owner]
            IN  CASE IsSecretArray(keys[idx + 1]) -> split(acc.owner)
                  [] IsPublicArray(cur)           -> acc
                  [] IsSecretArray(cur)           -> split(-1)
                  [] OTHER -> IF acc.owner \in {-1, ownerOf(cur)}
                              THEN [acc EXCEPT !.owner = ownerOf(cur)]
                              ELSE split(ownerOf(cur))
        found[idx \in 1..n] ==
            IF idx = n THEN [ends |-> {n}, owner |-> ownerOf(keys[n])] ELSE next(found[idx + 1], idx)
    IN  SetToSortSeq(found[1].ends, <)

_gen_inv_perm(st, x, ascending, valid_bits) ==
    IF IsSecretArray(x) THEN _gen_inv_perm_s(st, <<x>>, ascending, valid_bits)
                        ELSE gen_inv_perm_plain(st, x, ascending)

\* The inverse permutation that sorts by all keys: by the last one, then by what
\* each of the others is in the order so far.
_gen_inv_perm_of(st, keys, ascending, bits(_), lastBits) ==
    LET n == Len(keys)
        refine(s, perm, key) ==
            Then(_apply_inv_perm(s, key, perm), LAMBDA t, key_hat :
                Then(_gen_inv_perm(t, key_hat, ascending, bits(key)), LAMBDA u, p :
                    _compose_perm(u, perm, p)))
    IN  Levels(_gen_inv_perm(st, keys[n], ascending, lastBits),
               [i \in 1..n-1 |-> keys[n - i]], refine)

\* Keys that one rank knows become one: they are sorted, numbered, and put back.
\* What has become a secret on the way cannot be numbered.
_merge_pub_pri_keys(st, keys, ascending) ==
    LET numbered(s, perm, permed) ==
            IF \/ IsSecretArray(permed[1])
               \/ \E k \in DOMAIN permed : \/ permed[k][1].kind # permed[1][1].kind
                                           \/ permed[k][1].owner # permed[1][1].owner
            THEN Refused(s, keys[1])
            ELSE Then(merge_keys_plain(s, permed, ascending),
                      LAMBDA t, key : _apply_perm(t, key, perm))
    IN  IF \E k \in DOMAIN keys : IsSecretArray(keys[k]) THEN Refused(st, keys[1])
        ELSE Then(_gen_inv_perm_of(st, keys, ascending, LAMBDA key : -1, -1), LAMBDA s, perm :
                 Then(Map1(s, keys, LAMBDA t, key : _apply_inv_perm(t, key, perm)),
                      LAMBDA t, permed : numbered(t, perm, permed)))
_merge_sorting_keys(st, keys, ascending) ==
    LET ends == _find_mergeable_keys(keys)
        from(k) == IF k = 1 THEN 1 ELSE ends[k-1] + 1
        merged(s, k) ==
            IF from(k) = ends[k] /\ IsSecretArray(keys[ends[k]]) THEN Done(s, keys[ends[k]])
            ELSE _merge_pub_pri_keys(s, SubSeq(keys, from(k), ends[k]), ascending)
    IN  Collect(st, Len(ends), merged)

gen_inv_perm(st, keys, ascending, valid_bits) ==
    LET bits(key) == IF IsSecretArray(key) THEN valid_bits ELSE Log2Floor(Len(key)) + 2
        byMerged(s, merged) ==
            IF s.refused THEN Done(s, keys[1])
            ELSE _gen_inv_perm_of(s, merged, ascending, bits, valid_bits)
    IN  IF \A k \in DOMAIN keys : IsSecretArray(keys[k])
        THEN _gen_inv_perm_s(st, keys, ascending, valid_bits)
        ELSE Then(_merge_sorting_keys(st, keys, ascending), byMerged)
apply_inv_perm(st, xs, perm) ==
    CASE IsSecretArray(perm) ->
            Then(SealedAll(st, xs), LAMBDA s, vs : _apply_inv_perm_ss(s, vs, perm))
      [] IsPrivateArray(perm) /\ hasKernel("inv_perm_av") ->
            Map1(st, xs, LAMBDA s, x : _apply_inv_perm(s, x, perm))
      [] IsPrivateArray(perm) /\ ~hasKernel("inv_perm_av") ->
            Both(SealedAll(st, xs), LAMBDA s : Sealed(s, perm), _apply_inv_perm_ss)
radix_sort(st, xs, ascending, num_keys, valid_bits) ==
    Then(gen_inv_perm(st, SubSeq(xs, 1, num_keys), ascending, valid_bits), LAMBDA s, perm :
        IF s.refused THEN Done(s, xs) ELSE apply_inv_perm(s, xs, perm))

----------------------------------------------------------------------------
(* Sorting by comparisons.  Arrays are the columns of a table, of which    *)
(* the comparators see one row or another, as sequences of values.         *)

RowOf(xs, j) == [k \in DOMAIN xs |-> xs[k][j]]

\* The layers of an odd-even merge sort of n elements: the pairs of positions,
\* from zero, that are compared.
Layer(n, gap, step) ==
    LET start == step % gap
        compared(i) == /\ (i - start) % (2 * step) < step
                       /\ i \div (2 * gap) = (i + step) \div (2 * gap)
    IN  {<<i, i + step>> : i \in {i \in start..n-1-step : compared(i)}}
Network(n) ==
    LET stage(e) == [l \in 1..e+1 |-> Layer(n, 2^e, 2^(e + 1 - l))]
        upto[e \in 0..n] == IF 2^e >= n THEN <<>> ELSE stage(e) \o upto[e + 1]
    IN  FlattenSeq([l \in DOMAIN upto[0] |-> SetToSortSeq(upto[0][l], LAMBDA p, q : p[1] < q[1])])

\* Whether the row lhs precedes rhs, by the first key of by, by the next one where
\* that is equal, and so on.
ByKeys(st, by, lhs, rhs) ==
    LET scalar_cmp(s, k) == IF by.ascending THEN less(s, lhs[k], rhs[k]) ELSE less(s, rhs[k], lhs[k])
        next(s, acc, k) ==
            Then(Then(equal(s, lhs[k-1], rhs[k-1]), LAMBDA t, eq : and(t, acc.equal, eq)),
                 LAMBDA t, pre_equal :
                    Then(Then(scalar_cmp(t, k), LAMBDA u, c : and(u, pre_equal, c)), LAMBDA u, c :
                        Then(or(u, acc.less, c), LAMBDA w, r :
                            Done(w, [equal |-> pre_equal, less |-> r]))))
        first == WithConstant(st, 1, LAMBDA s, one :
                    Then(scalar_cmp(s, 1), LAMBDA t, c : Done(t, [equal |-> one, less |-> c])))
    IN  Then(Levels(first, [k \in 1..by.num_keys-1 |-> k + 1], next), LAMBDA s, r : Done(s, r.less))

\* The element that comes first goes to the lower position, in every column.
_cmp_swap(st, xs, pair, by) ==
    LET lo == pair[1] + 1  hi == pair[2] + 1
        column(s, x, first) ==
            Then(mux(s, first, x[lo], x[hi]), LAMBDA t, v :
                Then(add(t, x[lo], x[hi]), LAMBDA u, both :
                    Then(sub(u, both, v), LAMBDA w, other :
                        Done(w, [x EXCEPT ![lo] = v, ![hi] = other]))))
    IN  Then(Then(ByKeys(st, by, RowOf(xs, lo), RowOf(xs, hi)), prefer_a), LAMBDA s, first :
            Map1(s, xs, LAMBDA t, x : column(t, x, first)))
odd_even_merge_sort(st, xs, by) ==
    LET casted(s, x) == Then(Sealed(s, x), LAMBDA t, v : Map1(t, v, prefer_a))
    IN  Levels(Map1(st, xs, casted), Network(Len(xs[1])),
               LAMBDA s, vs, pair : _cmp_swap(s, vs, pair, by))

\* A public truth value: what getBooleanValue makes of it.
AsBoolean(v) == v.sh[0] # 0

\* By public comparisons: std::sort inserts the rows of a short array one by one,
\* behind those that they do not precede.
ByRows(xs, order) == [k \in DOMAIN xs |-> [j \in DOMAIN order |-> xs[k][order[j]]]]
Inserted(st, xs, order, j, by) ==
    LET n == Len(order)
        found(before, at, c) == IF AsBoolean(c) THEN [before EXCEPT !.at = at]
                                                ELSE [before EXCEPT !.done = TRUE]
        find(s, before, at) ==
            IF before.done THEN Done(s, before)
            ELSE Then(ByKeys(s, by, RowOf(xs, j), RowOf(xs, order[at])),
                      LAMBDA t, c : Done(t, found(before, at, c)))
        searched == Levels(Done(st, [at |-> n + 1, done |-> FALSE]),
                           [l \in 1..n |-> n + 1 - l], find)
    IN  Then(searched, LAMBDA s, before : Done(s, InsertAt(order, before.at, j)))
public_sort(st, xs, by) ==
    Then(Levels(Done(st, <<>>), [j \in 1..Len(xs[1]) |-> j],
                LAMBDA s, order, j : Inserted(s, xs, order, j, by)),
         LAMBDA s, order : Done(s, ByRows(xs, order)))

sort1d(st, xs, by, isPublicResult) ==
    IF isPublicResult THEN public_sort(st, xs, by) ELSE odd_even_merge_sort(st, xs, by)

\* Public keys are compared in the open; radix sort takes the rest where there
\* are permutations.
simple_sort1d(st, xs, ascending, num_keys, valid_bits) ==
    LET public == \A k \in 1..num_keys : IsPublicArray(xs[k])
    IN  IF ~public /\ HasShuffle THEN radix_sort(st, xs, ascending, num_keys, valid_bits)
        ELSE sort1d(st, xs, [num_keys |-> num_keys, ascending |-> ascending], public)

----------------------------------------------------------------------------
(* The greatest or the least elements: the first k_hi of them, of which    *)
(* the one at k_lo is in its place.                                        *)

Swapped(xs, pairs) ==
    LET at(i) == IF \E p \in pairs : i \in p THEN CHOOSE j \in DOMAIN xs[1] : j # i /\ {i, j} \in pairs
                                             ELSE i
    IN  ByRows(xs, [i \in DOMAIN xs[1] |-> at(i)])

\* Whether the first row precedes each of the others, opened.
Compared(st, xs, first, others, by) ==
    LET opened(s, c) == Then(reveal(s, c), LAMBDA t, v : Done(t, AsBoolean(v)))
    IN  Collect(st, Len(others), LAMBDA s, n : Then(ByKeys(s, by, RowOf(xs, first), RowOf(xs, others[n])), opened))

\* The interval lo..hi around its first element: those that do not come behind
\* it are exchanged with those that do, from the outside inwards, and the pivot
\* with the last of the former.  What is left are the parts in which k_lo or
\* k_hi may lie.
TwoWayPartition(st, xs, lo, hi, k_lo, k_hi, by) ==
    LET n == hi - lo
        split(s, behind) ==
            LET right == lo + Cardinality({i \in 1..n : ~behind[i]})
                left == right + 1
                early == SetToSortSeq({i \in lo+1..right : behind[i - lo]}, <)
                late == SetToSortSeq({i \in left..hi : ~behind[i - lo]}, >)
                moved == Swapped(xs, {{early[i], late[i]} : i \in DOMAIN early})
            IN  Done(s, [xs |-> Swapped(moved, IF lo = right THEN {} ELSE {{lo, right}}),
                         intervals |->
                            IF k_lo < right /\ right < k_hi
                            THEN <<<<lo, right - 1>>, <<left, hi>>>>
                            ELSE <<<<IF right <= k_lo THEN left ELSE lo,
                                     IF right >= k_hi THEN right - 1 ELSE hi>>>>])
    IN  Then(Compared(st, xs, lo, [i \in 1..n |-> lo + i], by), split)

\* The interval found last is searched first.
QuickSelectTopk(st, xs, k_lo, k_hi, by) ==
    LET pair(s, acc, lo, hi) ==
            Then(Compared(s, acc.xs, lo, <<hi>>, by), LAMBDA t, c :
                Done(t, IF c[1] THEN acc ELSE [acc EXCEPT !.xs = Swapped(@, {{lo, hi}})]))
        search(s, acc, l) ==
            LET n == Len(acc.intervals)
                lo == acc.intervals[n][1]  hi == acc.intervals[n][2]
                rest == [acc EXCEPT !.intervals = SubSeq(@, 1, n - 1)]
            IN  CASE n = 0       -> Done(s, acc)
                  [] n > 0 /\ hi > lo + 1 ->
                        Then(TwoWayPartition(s, acc.xs, lo, hi, k_lo, k_hi, by), LAMBDA t, r :
                            Done(t, [xs |-> r.xs, intervals |-> rest.intervals \o r.intervals]))
                  [] n > 0 /\ hi = lo + 1 -> pair(s, rest, lo, hi)
                  [] n > 0 /\ hi <= lo    -> Done(s, rest)
        start == [xs |-> xs, intervals |-> <<<<1, Len(xs[1])>>>>]
    IN  Then(Levels(Done(st, start), [l \in 1..2 * Len(xs[1]) |-> l], search),
             LAMBDA s, acc : Done(s, acc.xs))

\* The array is shuffled first, and the positions of its elements with it.
PrepareInput(st, x, value_only) ==
    Then(rand_perm_s(st, Len(x)), LAMBDA s, random :
        Then(perm_ss(s, x, random), LAMBDA t, v :
            IF value_only THEN Done(t, <<v>>)
            ELSE Then(Then(Sealed(t, iota(Len(x))), LAMBDA u, i : perm_ss(u, i, random)),
                      LAMBDA u, i : Done(u, <<v, i>>))))

topk_1d(st, x, largest, k_lo, k_hi, value_only) ==
    LET by == [num_keys |-> 1, ascending |-> ~largest]
        heads(r) == Then(r, LAMBDA s, xs : Done(s, [k \in DOMAIN xs |-> SubSeq(xs[k], 1, k_hi)]))
        with(indices) == IF value_only THEN <<x>> ELSE <<x, indices>>
        selected(s, xs) ==
            IF s.refused THEN Done(s, xs) ELSE QuickSelectTopk(s, xs, k_lo, k_hi, by)
    IN  heads(\* std::nth_element sorts an array of up to three elements.
              IF IsPublicArray(x) THEN public_sort(st, with(iota(Len(x))), by)
              ELSE IF HasShuffle THEN Then(PrepareInput(st, x, value_only), selected)
              ELSE Then(IF value_only THEN Done(st, x) ELSE Sealed(st, iota(Len(x))),
                        LAMBDA s, indices : sort1d(s, with(indices), by, FALSE)))

----------------------------------------------------------------------------
\* hlo/shuffle.cc: by a random permutation, or sorted by random keys.
Shuffle(st, xs) ==
    LET n == Len(xs[1])
        byPerm(s, random) ==
            Map1(s, xs, LAMBDA t, x : Then(Sealed(t, x), LAMBDA u, v : perm_ss(u, v, random)))
        byKeys(s, rand) ==
            Then(simple_sort1d(s, <<rand>> \o xs, TRUE, 1, -1), LAMBDA t, ys : Done(t, Tail(ys)))
    IN  IF HasShuffle THEN Then(rand_perm_s(st, n), byPerm)
        ELSE Then(Collect(st, n, LAMBDA s, j : rand_s(s)), byKeys)

\* One call by name on the columns of a table.
callTable(st, op, xs, arg) ==
    CASE op = "sort"    -> simple_sort1d(st, xs, arg.ascending, arg.num_keys, -1)
      [] op = "topk"    -> topk_1d(st, xs[1], arg.largest, arg.k_lo, arg.k_hi, arg.value_only)
      [] op = "shuffle" -> Shuffle(st, xs)
=============================================================================
