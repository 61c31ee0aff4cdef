------------------------------ MODULE PermUtils ------------------------------
(***************************************************************************)
(* Permutations of arrays: mpc/utils/permute.cc and the plaintext kernels  *)
(* of mpc/common/pv2k.cc.                                                  *)
(*                                                                         *)
(* An array is a sequence of values, all of one kind; what one rank holds  *)
(* of it is a row, a sequence of numbers.  A permutation is a function on  *)
(* the positions of a row.  As numbers of an array its values count from   *)
(* zero.                                                                   *)
(***************************************************************************)
EXTENDS Parties

CONSTANT Shuffled(_, _)     \* genRandomPerm: of n positions, by a random number

Row(x, i) == [j \in DOMAIN x |-> x[j].sh[i]]
Plus(u, v)  == [j \in DOMAIN u |-> ring_add(u[j], v[j])]
Minus(u, v) == [j \in DOMAIN u |-> ring_sub(u[j], v[j])]

applyPerm(x, pv) == [j \in DOMAIN x |-> x[pv[j]]]
genInversePerm(pv) == [j \in DOMAIN pv |-> CHOOSE i \in DOMAIN pv : pv[i] = j]
applyInvPerm(x, pv) == applyPerm(x, genInversePerm(pv))
ring2pv(row) == [j \in DOMAIN row |-> row[j] + 1]

\* An array as the ranks hold it after a permutation: row(i) is what was the
\* row of rank i.
WithRows(x, row(_)) ==
    LET rows == Strict([i \in Rank |-> row(i)])
    IN  [j \in DOMAIN x |-> [x[j] EXCEPT !.sh = Strict([i \in Rank |-> rows[i][j]])]]
\* Each rank permutes its row by its row of a public array.
permuteRows(x, y, by(_, _)) == WithRows(x, LAMBDA i : by(Row(x, i), ring2pv(Row(y, i))))
\* And the owner of a private one; the others keep theirs.
permuteOwned(x, y, by(_, _)) ==
    LET owner == x[1].owner
    IN  WithRows(x, LAMBDA i : IF i = owner THEN by(Row(x, i), ring2pv(Row(y, i))) ELSE Row(x, i))

----------------------------------------------------------------------------
(* pv2k.cc: perm_pp, perm_vv, inv_perm_pp, inv_perm_vv, gen_inv_perm_p,    *)
(* gen_inv_perm_v, merge_keys_p and merge_keys_v.                          *)

permutePlain(st, x, y, by(_, _)) ==
    Done(st, IF isPublic(x[1]) THEN permuteRows(x, y, by) ELSE permuteOwned(x, y, by))
perm_plain(st, x, y)     == permutePlain(st, x, y, applyPerm)
inv_perm_plain(st, x, y) == permutePlain(st, x, y, applyInvPerm)

\* Where each element goes in a stable sort by signed numbers.
Places(row, ascending) ==
    LET before(i, j) ==
            LET v == Signed(row[i])  w == Signed(row[j])
            IN  IF v = w THEN i < j ELSE (v < w) = ascending
    IN  [j \in DOMAIN row |-> Cardinality({i \in DOMAIN row : before(i, j)})]
\* What f makes of the rows, at the ranks that know them; elsewhere other(i).
PlainRows(x, f(_), other(_)) ==
    WithRows(x, LAMBDA i : IF isPublic(x[1]) \/ i = x[1].owner THEN f(i) ELSE other(i))
gen_inv_perm_plain(st, x, ascending) ==
    Done(st, PlainRows(x, LAMBDA i : Places(Row(x, i), ascending), LAMBDA i : Row(x, i)))

\* One number for the keys that are equal in every array of xs, which are
\* sorted; it goes up or down where a key changes.
Merged(rows, ascending) ==
    LET same(j) == \A k \in DOMAIN rows : rows[k][j] = rows[k][j-1]
        step == IF ascending THEN 1 ELSE -1
        merged[j \in DOMAIN rows[1]] ==
            IF j = 1 THEN 0 ELSE IF same(j) THEN merged[j-1] ELSE Wrap(merged[j-1] + step)
    IN  merged
merge_keys_plain(st, xs, ascending) ==
    LET rowsOf(i) == [k \in DOMAIN xs |-> Row(xs[k], i)]
    IN  Done(st, PlainRows(xs[1], LAMBDA i : Merged(rowsOf(i), ascending),
                           LAMBDA i : [j \in DOMAIN xs[1] |-> 0]))
=============================================================================
