------------------------------- MODULE Values -------------------------------
(***************************************************************************)
(* The kinds of a value of libspu/mpc: what its storage type says, and     *)
(* what every rank holds of it.  A secret is an arithmetic (A) or boolean  *)
(* (B) share, the latter with the number of its bits; a private number (V) *)
(* has an owner; a public one (P) is the same everywhere.                  *)
(***************************************************************************)
EXTENDS Ring2k, TLC

\* A function all of whose values are known (the operator @@ computes them).
Strict(f) == f @@ <<>>
\* f(x), where x is known first: in a long computation TLC would otherwise
\* work out every step within the next one.
Eagerly(x, f(_)) == CHOOSE r \in {f(v) : v \in {x}} : TRUE
AShr(sh)        == [kind |-> "A", nbits |-> K, owner |-> -1, sh |-> Strict(sh)]
BShr(nbits, sh) == [kind |-> "B", nbits |-> nbits, owner |-> -1, sh |-> Strict(sh)]
Pub(sh)         == [kind |-> "P", nbits |-> K, owner |-> -1, sh |-> Strict(sh)]
Priv(owner, sh) == [kind |-> "V", nbits |-> K, owner |-> owner, sh |-> Strict(sh)]
IsA(x) == x.kind = "A"
IsB(x) == x.kind = "B"
isPublic(x)  == x.kind = "P"
isPrivate(x) == x.kind = "V"
isSecret(x)  == IsA(x) \/ IsB(x)
hasSameOwner(x, y) == x.owner = y.owner
=============================================================================
