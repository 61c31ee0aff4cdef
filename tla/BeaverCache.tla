---------------------------- MODULE BeaverCache ----------------------------
(***************************************************************************)
(* The Beaver triples that MulAA::mulWithBeaver takes from CheetahMulState *)
(* (libspu/mpc/cheetah/state.cc), at both ranks.                           *)
(*                                                                         *)
(* The ranks run the same kernels but not at the same time, and they never *)
(* compare their caches.  A triple is a pair of shares that were cut out   *)
(* of one OLE batch: the model keeps the positions they were cut from.     *)
(***************************************************************************)
EXTENDS Naturals, Sequences

CONSTANTS
  Field,      \* the rings kernels ask triples for
  OleSize,    \* MulOLE's batch size (kPolyDegree)
  MaxNumel,   \* bound on the length of a request
  MaxTakes    \* bound on the number of requests

\* MulAA::proc sends longer arrays to mulDirectly.
ASSUME CacheAssumption ==
  /\ OleSize \in Nat \ {0} /\ OleSize % 2 = 0
  /\ MaxNumel \in Nat \ {0} /\ MaxNumel < 2 * OleSize
  /\ MaxTakes \in Nat

Rank == {0, 1}
NoField == "FT_INVALID"
Request == [field : Field, numel : 1 .. MaxNumel]

CeilDiv(a, b) == (a + b - 1) \div b
NumOle(numel) == CeilDiv(2 * numel, OleSize)
NumBeaver(numel) == (NumOle(numel) * OleSize) \div 2

VARIABLES
  requests,  \* the kernels of the program, as far as a rank has got
  taken,     \* taken[r]: for each request of r, the triples it was given
  waiting,   \* waiting[r]: r is in MulOLE for its current request
  posted,    \* posted[r]: field and length of every OLE that r entered
  field,     \* field[r]: field_
  size,      \* size[r]: cached_sze_
  cache,     \* cache[r]: cached_beaver_, the three arrays as one of records
  left       \* history: what r had when it started, and after each request

vars == <<requests, taken, waiting, posted, field, size, cache, left>>

Current(r) == requests[Len(taken[r]) + 1]

\* Mutant: both ranks cut a and b in the same order.
CutSame(r, gen, nb) ==
  [j \in 1 .. nb |-> [gen |-> gen, field |-> Current(r).field, rank |-> r,
                      a |-> j, b |-> nb + j, cross |-> {j, nb + j}]]

\* The j-th triple cut from the gen-th OLE batch.  Rank 0 views its random
\* array as a||b and rank 1 as b||a; c holds the two cross terms.
Cut(r, gen, nb) ==
  [j \in 1 .. nb |->
     [gen |-> gen, field |-> Current(r).field, rank |-> r,
      a |-> IF r = 0 THEN j ELSE nb + j,
      b |-> IF r = 0 THEN nb + j ELSE j,
      cross |-> {j, nb + j}]]

-----------------------------------------------------------------------------
\* What a rank has between two requests.
Holding(f, c, g) == [field |-> f, cache |-> c, gens |-> g]

Init ==
  /\ requests = <<>>
  /\ taken = [r \in Rank |-> <<>>]
  /\ waiting = [r \in Rank |-> FALSE]
  /\ posted = [r \in Rank |-> <<>>]
  /\ field = [r \in Rank |-> NoField]
  /\ size = [r \in Rank |-> 0]
  /\ cache = [r \in Rank |-> <<>>]
  /\ left = [r \in Rank |-> <<Holding(NoField, <<>>, 0)>>]

\* Mutant: what is given out is not subtracted.
TakeFirstUncounted(r, c, n, numel) ==
  /\ taken' = [taken EXCEPT ![r] = Append(@, SubSeq(c, 1, numel))]
  /\ cache' = [cache EXCEPT ![r] = SubSeq(c, numel + 1, n)]
  /\ size' = [size EXCEPT ![r] = n]

\* Mutant: the old array is kept when a prefix of it has been given out.
TakeFirstKept(r, c, n, numel) ==
  /\ taken' = [taken EXCEPT ![r] = Append(@, SubSeq(c, 1, numel))]
  /\ cache' = [cache EXCEPT ![r] = c]
  /\ size' = [size EXCEPT ![r] = n - numel]

\* The end of TakeCachedBeaver on a cache c of n triples.
TakeFirst(r, c, n, numel) ==
  /\ taken' = [taken EXCEPT ![r] = Append(@, SubSeq(c, 1, numel))]
  /\ cache' = [cache EXCEPT ![r] = IF n = numel THEN <<>> ELSE SubSeq(c, numel + 1, n)]
  /\ size' = [size EXCEPT ![r] = n - numel]

Remember(r) ==
  left' = [left EXCEPT ![r] = Append(@, Holding(field'[r], cache'[r], Len(posted'[r])))]

\* A kernel of the program comes up: MulAA on numel elements.
Ask(r) ==
  /\ Len(taken[r]) = Len(requests) /\ ~waiting[r]
  /\ Len(requests) < MaxTakes
  /\ \E q \in Request : requests' = Append(requests, q)
  /\ UNCHANGED <<taken, waiting, posted, field, size, cache, left>>

\* Mutant: triples of another ring are not dropped.
ValidSizeAnyField(r, f) == size[r]

\* makeSureCacheSize drops the cache of another ring.
ValidSize(r, f) == IF field[r] = f THEN size[r] ELSE 0

\* Mutant: a cache of exactly the requested length does not do.
EnoughStrict(r) == ValidSize(r, Current(r).field) > Current(r).numel

Enough(r) == ValidSize(r, Current(r).field) >= Current(r).numel

\* Mutant: rank 1 does not round its random array up to whole batches.
OleLengthUnpadded(r) == IF r = 0 THEN NumOle(Current(r).numel) * OleSize ELSE 2 * Current(r).numel

OleLength(r) == NumOle(Current(r).numel) * OleSize

\* TakeCachedBeaver with enough triples in the cache.
TakeCached(r) ==
  /\ Len(taken[r]) < Len(requests) /\ ~waiting[r]
  /\ Enough(r)
  /\ TakeFirst(r, cache[r], size[r], Current(r).numel)
  /\ UNCHANGED <<requests, waiting, posted, field>>
  /\ Remember(r)

\* Otherwise a whole request's worth of triples is generated: enter MulOLE.
EnterOle(r) ==
  /\ Len(taken[r]) < Len(requests) /\ ~waiting[r]
  /\ ~Enough(r)
  /\ size' = [size EXCEPT ![r] = ValidSize(r, Current(r).field)]
  /\ posted' = [posted EXCEPT ![r] = Append(@, <<Current(r).field, OleLength(r)>>)]
  /\ waiting' = [waiting EXCEPT ![r] = TRUE]
  /\ UNCHANGED <<requests, taken, field, cache, left>>

\* MulOLE returns when the peer is in it too; the triples are appended to the
\* valid prefix of the cache and the request is served.
LeaveOle(r) ==
  LET gen == Len(posted[r])
      numel == Current(r).numel
      nb == NumBeaver(numel)
      new == SubSeq(cache[r], 1, size[r]) \o Cut(r, gen, nb)
  IN  /\ waiting[r]
      /\ Len(posted[1 - r]) >= gen
      /\ field' = [field EXCEPT ![r] = Current(r).field]
      /\ waiting' = [waiting EXCEPT ![r] = FALSE]
      /\ TakeFirst(r, new, size[r] + nb, numel)
      /\ UNCHANGED <<requests, posted>>
      /\ Remember(r)

Done ==
  /\ Len(requests) = MaxTakes
  /\ \A r \in Rank : Len(taken[r]) = MaxTakes
  /\ UNCHANGED vars

Step(r) == Ask(r) \/ TakeCached(r) \/ EnterOle(r) \/ LeaveOle(r)

Next == (\E r \in Rank : Step(r)) \/ Done

Spec == Init /\ [][Next]_vars

-----------------------------------------------------------------------------
(* Properties.                                                             *)

TypeOK ==
  /\ requests \in Seq(Request)
  /\ \A r \in Rank : /\ Len(taken[r]) <= Len(requests)
                     /\ Len(posted[r]) <= Len(requests)
                     /\ field[r] \in Field \cup {NoField}
                     /\ waiting[r] \in BOOLEAN
                     /\ size[r] \in 0 .. Len(cache[r])

\* A pair of shares is a triple of the requested ring:
\* (a0 + a1) * (b0 + b1) = a0*b0 + a1*b1 + the cross terms they hold, which are
\* the products of the two random arrays at the positions in cross.
IsTriple(e0, e1, f) ==
  /\ e0.field = f /\ e1.field = f
  /\ e0.gen = e1.gen
  /\ e0.rank = 0 /\ e1.rank = 1
  /\ e0.a = e1.b /\ e0.b = e1.a
  /\ e0.cross = {e0.a, e0.b} /\ e1.cross = e0.cross

\* What the two ranks were given for the same kernel are shares of valid triples
\* of its ring, as many as it asked for.
TriplesMatch ==
  \A k \in 1 .. Len(requests) :
    \A r \in Rank : Len(taken[r]) >= k =>
      /\ Len(taken[r][k]) = requests[k].numel
      /\ Len(taken[1 - r]) >= k =>
           \A j \in 1 .. requests[k].numel :
             IsTriple(taken[0][k][j], taken[1][k][j], requests[k].field)

\* No triple is given out twice, nor is one left in the cache that was given
\* out: using it again would reveal the difference of two inputs.
TriplesFresh ==
  \A r \in Rank :
    LET Masks(e) == <<e.gen, e.a>>
    IN  /\ \A k, l \in 1 .. Len(taken[r]) :
             \A i \in 1 .. Len(taken[r][k]), j \in 1 .. Len(taken[r][l]) :
               Masks(taken[r][k][i]) = Masks(taken[r][l][j]) => k = l /\ i = j
        /\ \A i, j \in 1 .. size[r] : Masks(cache[r][i]) = Masks(cache[r][j]) => i = j
        /\ \A k \in 1 .. Len(taken[r]), j \in 1 .. size[r] :
             \A i \in 1 .. Len(taken[r][k]) : Masks(taken[r][k][i]) # Masks(cache[r][j])

\* The ranks enter the same OLEs, with the same ring and the same length: the
\* ciphertexts of one are as many as the other one expects.
OlesAgree ==
  \A g \in 1 .. Len(posted[0]) : g <= Len(posted[1]) => posted[0][g] = posted[1][g]

\* The cache holds what it says it holds, and never more than one request of
\* the longest kind leaves over, however long the program runs.
CacheBounded ==
  \A r \in Rank :
    /\ ~waiting[r] => size[r] = Len(cache[r])
    /\ size[r] < NumBeaver(MaxNumel)

=============================================================================
