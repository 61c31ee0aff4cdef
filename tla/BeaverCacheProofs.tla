-------------------------- MODULE BeaverCacheProofs --------------------------
(***************************************************************************)
(* Proofs about BeaverCache: for every program, every set of rings and     *)
(* every even batch size, the two caches give out shares of the same       *)
(* triples, none of them twice, and hold less than one OLE's worth.        *)
(*                                                                         *)
(* The ranks are at different requests and compare nothing.  What one of   *)
(* them has after a request is a function of what it had before, and       *)
(* mirrors what the other one has after the same request: that is an       *)
(* invariant of the histories, not of the caches as they are now.          *)
(***************************************************************************)
EXTENDS BeaverCache, SequenceTheorems, TLAPS

-----------------------------------------------------------------------------
(* What a rank has after a request, given what it had before.              *)

Triple == [gen : Nat, field : Field, rank : Rank, a : Nat, b : Nat, cross : SUBSET Nat]
Holdings == [field : Field \cup {NoField}, cache : Seq(Triple), gens : Nat]

Batch(r, g, q) ==
  LET nb == NumBeaver(q.numel)
  IN  [j \in 1 .. nb |->
         [gen |-> g, field |-> q.field, rank |-> r,
          a |-> IF r = 0 THEN j ELSE nb + j,
          b |-> IF r = 0 THEN nb + j ELSE j,
          cross |-> {j, nb + j}]]

Valid(h, q) == IF h.field = q.field THEN Len(h.cache) ELSE 0

Needs(h, q) == Valid(h, q) < q.numel

\* What the request is served from.
Pool(r, h, q) ==
  IF Needs(h, q) THEN SubSeq(h.cache, 1, Valid(h, q)) \o Batch(r, h.gens + 1, q)
  ELSE h.cache

Given(r, h, q) == SubSeq(Pool(r, h, q), 1, q.numel)

After(r, h, q) ==
  Holding(q.field,
          SubSeq(Pool(r, h, q), q.numel + 1, Len(Pool(r, h, q))),
          IF Needs(h, q) THEN h.gens + 1 ELSE h.gens)

Posting(q) == <<q.field, NumOle(q.numel) * OleSize>>

-----------------------------------------------------------------------------
(* The inductive invariant.                                                *)

TypeInv ==
  /\ requests \in Seq(Request)
  /\ taken \in [Rank -> Seq(Seq(Triple))]
  /\ waiting \in [Rank -> BOOLEAN]
  /\ posted \in [Rank -> Seq(Field \X Nat)]
  /\ field \in [Rank -> Field \cup {NoField}]
  /\ size \in [Rank -> Nat]
  /\ cache \in [Rank -> Seq(Triple)]
  /\ left \in [Rank -> Seq(Holdings)]

\* What r had after its last request.
Now(r) == left[r][Len(taken[r]) + 1]

\* Where r is between two requests.
PhaseAt(r) ==
  /\ Len(taken[r]) <= Len(requests)
  /\ Len(left[r]) = Len(taken[r]) + 1
  /\ Now(r).field = field[r] /\ Now(r).cache = cache[r]
  /\ Now(r).gens <= Len(taken[r])
  /\ ~waiting[r] => /\ size[r] = Len(cache[r])
                    /\ Len(posted[r]) = Now(r).gens
  /\ waiting[r] => /\ Len(taken[r]) < Len(requests)
                   /\ Needs(Now(r), Current(r)) /\ size[r] = Valid(Now(r), Current(r))
                   /\ Len(posted[r]) = Now(r).gens + 1

\* The history of r is what its requests make of it.
HistoryAt(r) ==
  \A k \in 1 .. Len(taken[r]) :
    /\ taken[r][k] = Given(r, left[r][k], requests[k])
    /\ left[r][k + 1] = After(r, left[r][k], requests[k])

GensAt(r) ==
  \A i, j \in 1 .. Len(left[r]) : i <= j => left[r][i].gens <= left[r][j].gens

\* An OLE was posted for the request that needed it, at the end of the
\* history or followed by one OLE more.
PostedAt(r) ==
  \A g \in 1 .. Len(posted[r]) :
    \E k \in 1 .. Len(left[r]) :
      /\ k <= Len(requests)
      /\ left[r][k].gens + 1 = g
      /\ Needs(left[r][k], requests[k])
      /\ posted[r][g] = Posting(requests[k])

BoundAt(r) == Len(cache[r]) < NumBeaver(MaxNumel)

Masks(e) == <<e.gen, e.a>>

\* Array c has no two triples with the same masks.
Distinct(c) == \A i, j \in 1 .. Len(c) : Masks(c[i]) = Masks(c[j]) => i = j

\* No triple of c was in one of the arrays of s.
Unused(c, s) ==
  \A k \in 1 .. Len(s) : \A i \in 1 .. Len(s[k]), j \in 1 .. Len(c) :
    Masks(s[k][i]) # Masks(c[j])

\* No triple of c is of a batch after the g-th.
UpTo(c, g) == \A i \in 1 .. Len(c) : c[i].gen <= g

GivenOnce(s) ==
  \A k, l \in 1 .. Len(s) : \A i \in 1 .. Len(s[k]), j \in 1 .. Len(s[l]) :
    Masks(s[k][i]) = Masks(s[l][j]) => k = l /\ i = j

FreshAt(r) ==
  /\ UpTo(cache[r], Now(r).gens)
  /\ \A k \in 1 .. Len(taken[r]) : UpTo(taken[r][k], Now(r).gens)
  /\ Distinct(cache[r])
  /\ Unused(cache[r], taken[r])
  /\ GivenOnce(taken[r])

\* Arrays of the two ranks are shares of the same triples.
Triples(c, d, f) ==
  /\ Len(c) = Len(d)
  /\ \A j \in 1 .. Len(c) : IsTriple(c[j], d[j], f)

Mirror(h, i) ==
  /\ h.field = i.field /\ h.gens = i.gens
  /\ Triples(h.cache, i.cache, h.field)

MirrorInv ==
  \A k \in 1 .. Len(left[0]) : k <= Len(left[1]) => Mirror(left[0][k], left[1][k])

RankInv(r) ==
  PhaseAt(r) /\ HistoryAt(r) /\ GensAt(r) /\ PostedAt(r) /\ BoundAt(r) /\ FreshAt(r)

IInv == TypeInv /\ (\A r \in Rank : RankInv(r)) /\ MirrorInv

-----------------------------------------------------------------------------
(* Arithmetic.                                                             *)

LEMMA ConstantFacts ==
  /\ OleSize \in Nat \ {0} /\ MaxNumel \in Nat \ {0} /\ MaxTakes \in Nat
  /\ \E h \in Nat \ {0} : OleSize = 2 * h
<1>1. OleSize \in Nat \ {0} /\ OleSize % 2 = 0 /\ MaxNumel \in Nat \ {0} /\ MaxTakes \in Nat
  BY CacheAssumption DEF CacheAssumption
<1>2. OleSize \div 2 \in Nat \ {0} /\ OleSize = 2 * (OleSize \div 2)
  BY <1>1
<1> QED
  BY <1>1, <1>2

LEMMA Division ==
  ASSUME NEW a \in Nat, NEW b \in Nat \ {0}
  PROVE  /\ a \div b \in Nat
         /\ b * (a \div b) <= a
         /\ a < b * (a \div b) + b
OBVIOUS

LEMMA Growth ==
  ASSUME NEW a \in Nat, NEW b \in Nat, NEW c \in Nat, a <= b
  PROVE  c * a <= c * b
OBVIOUS

LEMMA Cancel ==
  ASSUME NEW a \in Nat, NEW b \in Nat, NEW c \in Nat \ {0}, c * a < c * b
  PROVE  a < b
OBVIOUS

LEMMA DivisionMonotone ==
  ASSUME NEW a \in Nat, NEW b \in Nat, NEW c \in Nat \ {0}, a <= b
  PROVE  a \div c <= b \div c
<1> DEFINE x == a \div c
           y == b \div c
<1>1. x \in Nat /\ y \in Nat /\ c * x <= a /\ b < c * y + c
  BY Division
<1>2. c * (y + 1) = c * y + c /\ c * x \in Nat /\ c * y \in Nat
  BY <1>1
<1>3. c * x < c * (y + 1)
  BY <1>1, <1>2
<1>4. x < y + 1
  BY <1>1, <1>3, Cancel
<1> QED
  BY <1>1, <1>4

\* The OLEs of a request are as many elements as two for each of its triples,
\* which are at least as many as it asks for; a longer request has more.
LEMMA NumBeaverFacts ==
  ASSUME NEW n \in 1 .. MaxNumel
  PROVE  /\ NumBeaver(n) \in Nat /\ n <= NumBeaver(n)
         /\ NumOle(n) * OleSize \in Nat
         /\ NumBeaver(n) <= NumBeaver(MaxNumel) /\ NumBeaver(MaxNumel) \in Nat
<1>0. PICK h \in Nat \ {0} : OleSize = 2 * h
  BY ConstantFacts
<1>1. \A m \in 1 .. MaxNumel : /\ NumOle(m) \in Nat /\ NumOle(m) * h \in Nat
                               /\ NumBeaver(m) = NumOle(m) * h
                               /\ m <= NumOle(m) * h
                               /\ NumOle(m) * OleSize \in Nat
  <2> SUFFICES ASSUME NEW m \in 1 .. MaxNumel
               PROVE  /\ NumOle(m) \in Nat /\ NumOle(m) * h \in Nat
                      /\ NumBeaver(m) = NumOle(m) * h
                      /\ m <= NumOle(m) * h
                      /\ NumOle(m) * OleSize \in Nat
    OBVIOUS
  <2> DEFINE q == NumOle(m)
  <2>1. 2 * m + OleSize - 1 \in Nat /\ m \in Nat /\ OleSize \in Nat \ {0}
    BY ConstantFacts
  <2>2. q = (2 * m + OleSize - 1) \div OleSize
    BY DEF NumOle, CeilDiv
  <2>3. q \in Nat /\ 2 * m + OleSize - 1 < OleSize * q + OleSize
    BY <2>1, <2>2, Division
  <2> HIDE DEF q
  <2>4. OleSize * q \in Nat /\ OleSize * q = 2 * (q * h) /\ q * OleSize = 2 * (q * h) /\ q * h \in Nat
    BY <1>0, <2>3
  <2>5. 2 * m <= 2 * (q * h)
    BY <2>1, <2>3, <2>4
  <2>6. m <= q * h
    BY <2>1, <2>4, <2>5
  <2>7. (2 * (q * h)) \div 2 = q * h
    BY <2>4
  <2>8. NumBeaver(m) = q * h
    BY <2>4, <2>7 DEF NumBeaver, q
  <2> QED
    BY <2>3, <2>4, <2>6, <2>8 DEF q
<1>2. n \in Nat /\ MaxNumel \in 1 .. MaxNumel /\ n <= MaxNumel
  BY ConstantFacts
<1>3. NumOle(n) <= NumOle(MaxNumel)
  <2>1. /\ 2 * n + OleSize - 1 \in Nat /\ 2 * MaxNumel + OleSize - 1 \in Nat
        /\ 2 * n + OleSize - 1 <= 2 * MaxNumel + OleSize - 1
    BY <1>2, ConstantFacts
  <2> QED
    BY <2>1, DivisionMonotone, ConstantFacts DEF NumOle, CeilDiv
<1>4. NumOle(n) * h <= NumOle(MaxNumel) * h
  BY <1>1, <1>2, <1>3, Growth
<1> QED
  BY <1>1, <1>2, <1>4

LEMMA RequestFacts ==
  ASSUME NEW q \in Request
  PROVE  /\ q.field \in Field /\ q.numel \in 1 .. MaxNumel /\ q.numel \in Nat /\ q.numel > 0
         /\ NumBeaver(q.numel) \in Nat /\ q.numel <= NumBeaver(q.numel)
         /\ NumBeaver(q.numel) <= NumBeaver(MaxNumel) /\ NumBeaver(MaxNumel) \in Nat
         /\ Posting(q) \in Field \X Nat
<1>1. q.field \in Field /\ q.numel \in 1 .. MaxNumel /\ q.numel \in Nat /\ q.numel > 0
  BY DEF Request
<1> QED
  BY <1>1, NumBeaverFacts DEF Posting

-----------------------------------------------------------------------------
(* Arrays.                                                                 *)

\* Array d is the n entries of c behind position o.
IsPart(d, c, o, n) ==
  /\ d \in Seq(Triple) /\ Len(d) = n
  /\ \A j \in 1 .. n : d[j] = c[o + j]

LEMMA Part ==
  ASSUME NEW c \in Seq(Triple), NEW o \in Nat, NEW n \in Nat, o + n <= Len(c)
  PROVE  IsPart(SubSeq(c, o + 1, o + n), c, o, n)
<1>1. \A j \in (o + 1) .. (o + n) : c[j] \in Triple
  BY ElementOfSeq
<1>2. /\ SubSeq(c, o + 1, o + n) \in Seq(Triple)
      /\ Len(SubSeq(c, o + 1, o + n)) = IF o + 1 <= o + n THEN (o + n) - (o + 1) + 1 ELSE 0
      /\ \A j \in 1 .. (o + n) - (o + 1) + 1 : SubSeq(c, o + 1, o + n)[j] = c[(o + 1) + j - 1]
  BY <1>1, SubSeqProperties
<1>3. \A j \in 1 .. n : SubSeq(c, o + 1, o + n)[j] = c[o + j]
  BY <1>2
<1> QED
  BY <1>2, <1>3 DEF IsPart

LEMMA BatchFacts ==
  ASSUME NEW r \in Rank, NEW g \in Nat, NEW q \in Request
  PROVE  /\ Batch(r, g, q) \in Seq(Triple)
         /\ Len(Batch(r, g, q)) = NumBeaver(q.numel)
         /\ \A j \in 1 .. NumBeaver(q.numel) : Batch(r, g, q)[j].gen = g
         /\ Distinct(Batch(r, g, q))
<1> DEFINE nb == NumBeaver(q.numel)
           e(j) == [gen |-> g, field |-> q.field, rank |-> r,
                    a |-> IF r = 0 THEN j ELSE nb + j,
                    b |-> IF r = 0 THEN nb + j ELSE j,
                    cross |-> {j, nb + j}]
<1>1. nb \in Nat /\ q.field \in Field
  BY RequestFacts
<1>2. Batch(r, g, q) = [j \in 1 .. nb |-> e(j)]
  BY DEF Batch
<1> HIDE DEF nb
<1>3. \A j \in 1 .. nb : e(j) \in Triple
  BY <1>1 DEF Triple, Rank
<1>4. [j \in 1 .. nb |-> e(j)] \in Seq(Triple) /\ Len([j \in 1 .. nb |-> e(j)]) = nb
  <2> HIDE DEF e
  <2> QED
    BY <1>1, <1>3
<1>5. \A j \in 1 .. nb : Batch(r, g, q)[j] = e(j)
  BY <1>2
<1>6. \A i, j \in 1 .. nb : e(i).a = e(j).a => i = j
  BY <1>1
<1>7. Distinct(Batch(r, g, q))
  <2>1. Len(Batch(r, g, q)) = nb
    BY <1>2, <1>4
  <2>2. \A i \in 1 .. nb : Masks(Batch(r, g, q)[i])[2] = e(i).a
    BY <1>5 DEF Masks
  <2> QED
    BY <1>6, <2>1, <2>2 DEF Distinct
<1>8. \A j \in 1 .. nb : Batch(r, g, q)[j].gen = g
  <2>1. \A j \in 1 .. nb : e(j).gen = g
    OBVIOUS
  <2> HIDE DEF e
  <2> QED
    BY <1>5, <2>1
<1>9. Batch(r, g, q) \in Seq(Triple) /\ Len(Batch(r, g, q)) = nb
  BY <1>2, <1>4
<1> QED
  BY <1>7, <1>8, <1>9 DEF nb

-----------------------------------------------------------------------------
(* One request.                                                            *)

LEMMA HoldingFacts ==
  ASSUME NEW h \in Holdings
  PROVE  /\ h.field \in Field \cup {NoField} /\ h.cache \in Seq(Triple)
         /\ Len(h.cache) \in Nat /\ h.gens \in Nat
         /\ \A q : Valid(h, q) \in Nat /\ Valid(h, q) <= Len(h.cache)
<1>1. h.field \in Field \cup {NoField} /\ h.cache \in Seq(Triple) /\ h.gens \in Nat
  BY DEF Holdings
<1>2. Len(h.cache) \in Nat
  BY <1>1, LenProperties
<1>3. \A q : Valid(h, q) \in {0, Len(h.cache)}
  BY DEF Valid
<1> QED
  BY <1>1, <1>2, <1>3

\* A pool is the rest of the cache with, or without, a batch behind it.
LEMMA PoolFacts ==
  ASSUME NEW r \in Rank, NEW h \in Holdings, NEW q \in Request
  PROVE  /\ Pool(r, h, q) \in Seq(Triple)
         /\ q.numel <= Len(Pool(r, h, q))
         /\ Needs(h, q) =>
              /\ Len(Pool(r, h, q)) = Valid(h, q) + NumBeaver(q.numel)
              /\ \A j \in 1 .. Valid(h, q) : Pool(r, h, q)[j] = h.cache[j]
              /\ \A j \in 1 .. NumBeaver(q.numel) :
                   Pool(r, h, q)[Valid(h, q) + j] = Batch(r, h.gens + 1, q)[j]
         /\ ~Needs(h, q) => Pool(r, h, q) = h.cache /\ q.field = h.field
<1> DEFINE v == Valid(h, q)
           b == Batch(r, h.gens + 1, q)
           nb == NumBeaver(q.numel)
<1>0. /\ h.cache \in Seq(Triple) /\ Len(h.cache) \in Nat /\ v \in Nat /\ v <= Len(h.cache)
      /\ h.gens + 1 \in Nat
  BY HoldingFacts
<1>1. /\ q.numel \in Nat /\ q.numel > 0 /\ nb \in Nat /\ q.numel <= nb
  BY RequestFacts
<1>2. b \in Seq(Triple) /\ Len(b) = nb
  BY <1>0, BatchFacts
<1>3. CASE Needs(h, q)
  <2> DEFINE p == SubSeq(h.cache, 1, v)
  <2>1. IsPart(p, h.cache, 0, v)
    <3>1. IsPart(SubSeq(h.cache, 0 + 1, 0 + v), h.cache, 0, v)
      BY <1>0, Part
    <3> QED
      BY <1>0, <3>1
  <2>2. p \in Seq(Triple) /\ Len(p) = v /\ \A j \in 1 .. v : p[j] = h.cache[j]
    BY <1>0, <2>1 DEF IsPart
  <2>3. Pool(r, h, q) = p \o b
    BY <1>3 DEF Pool
  <2> HIDE DEF p, v, b, nb
  <2>4. /\ p \o b \in Seq(Triple) /\ Len(p \o b) = v + nb
        /\ \A i \in 1 .. v + nb : (p \o b)[i] = IF i <= v THEN p[i] ELSE b[i - v]
    BY <1>2, <2>2, ConcatProperties
  <2>5. \A j \in 1 .. v : (p \o b)[j] = h.cache[j]
    BY <1>0, <1>1, <2>2, <2>4
  <2>6. \A j \in 1 .. nb : (p \o b)[v + j] = b[j]
    <3> TAKE j \in 1 .. nb
    <3>1. v + j \in 1 .. v + nb /\ ~(v + j <= v) /\ (v + j) - v = j
      BY <1>0, <1>1
    <3> QED
      BY <2>4, <3>1
  <2>7. q.numel <= v + nb
    BY <1>0, <1>1
  <2> QED
    BY <1>3, <2>3, <2>4, <2>5, <2>6, <2>7 DEF v, b, nb
<1>4. CASE ~Needs(h, q)
  <2>1. v >= q.numel
    BY <1>0, <1>1, <1>4 DEF Needs
  <2>2. h.field = q.field /\ v = Len(h.cache)
    BY <1>1, <2>1 DEF Valid
  <2> QED
    BY <1>0, <1>4, <2>1, <2>2 DEF Pool
<1> QED
  BY <1>3, <1>4

LEMMA ServedFacts ==
  ASSUME NEW r \in Rank, NEW h \in Holdings, NEW q \in Request
  PROVE  /\ IsPart(Given(r, h, q), Pool(r, h, q), 0, q.numel)
         /\ IsPart(After(r, h, q).cache, Pool(r, h, q), q.numel, Len(Pool(r, h, q)) - q.numel)
         /\ After(r, h, q) \in Holdings /\ Given(r, h, q) \in Seq(Triple)
         /\ Len(Pool(r, h, q)) - q.numel \in Nat
         /\ After(r, h, q).field = q.field
         /\ After(r, h, q).gens = IF Needs(h, q) THEN h.gens + 1 ELSE h.gens
<1> DEFINE p == Pool(r, h, q)
           n == q.numel
           a == After(r, h, q)
<1>1. p \in Seq(Triple) /\ Len(p) \in Nat /\ n \in Nat /\ n <= Len(p) /\ h.gens \in Nat /\ q.field \in Field
  BY PoolFacts, RequestFacts, HoldingFacts, LenProperties
<1>2. /\ a.field = q.field /\ a.cache = SubSeq(p, n + 1, Len(p))
      /\ a.gens = IF Needs(h, q) THEN h.gens + 1 ELSE h.gens
      /\ a = [field |-> a.field, cache |-> a.cache, gens |-> a.gens]
  BY DEF After, Holding
<1>3. Given(r, h, q) = SubSeq(p, 1, n)
  BY DEF Given
<1> HIDE DEF p, n, a
<1>4. Len(p) - n \in Nat /\ n + (Len(p) - n) = Len(p) /\ 0 + 1 = 1 /\ 0 + n = n
  BY <1>1
<1>5. IsPart(SubSeq(p, 0 + 1, 0 + n), p, 0, n)
  BY <1>1, <1>4, Part
<1>6. IsPart(SubSeq(p, n + 1, n + (Len(p) - n)), p, n, Len(p) - n)
  BY <1>1, <1>4, Part
<1>7. IsPart(Given(r, h, q), p, 0, n) /\ IsPart(a.cache, p, n, Len(p) - n)
  BY <1>2, <1>3, <1>4, <1>5, <1>6
<1>8. a \in Holdings
  <2>1. a.cache \in Seq(Triple) /\ a.gens \in Nat
    BY <1>1, <1>2, <1>7 DEF IsPart
  <2> QED
    BY <1>1, <1>2, <2>1 DEF Holdings
<1> QED
  BY <1>2, <1>4, <1>7, <1>8 DEF p, n, a, IsPart

\* What is left is less than what the last OLE has made.
LEMMA BoundKept ==
  ASSUME NEW r \in Rank, NEW h \in Holdings, NEW q \in Request,
         Len(h.cache) < NumBeaver(MaxNumel)
  PROVE  Len(After(r, h, q).cache) < NumBeaver(MaxNumel)
<1>1. Len(After(r, h, q).cache) = Len(Pool(r, h, q)) - q.numel
  BY ServedFacts DEF IsPart
<1>2. /\ q.numel \in Nat /\ q.numel > 0 /\ NumBeaver(q.numel) \in Nat
      /\ NumBeaver(q.numel) <= NumBeaver(MaxNumel) /\ NumBeaver(MaxNumel) \in Nat
      /\ Valid(h, q) \in Nat /\ Len(h.cache) \in Nat
  BY RequestFacts, HoldingFacts
<1>3. CASE Needs(h, q)
  <2>1. Valid(h, q) < q.numel /\ Len(Pool(r, h, q)) = Valid(h, q) + NumBeaver(q.numel)
    BY <1>3, PoolFacts DEF Needs
  <2> QED
    BY <1>1, <1>2, <2>1
<1>4. CASE ~Needs(h, q)
  <2>1. Pool(r, h, q) = h.cache
    BY <1>4, PoolFacts
  <2> QED
    BY <1>1, <1>2, <2>1
<1> QED
  BY <1>3, <1>4

\* New triples are of a batch of their own.
LEMMA PoolFresh ==
  ASSUME NEW r \in Rank, NEW h \in Holdings, NEW q \in Request, NEW s,
         Distinct(h.cache), UpTo(h.cache, h.gens), Unused(h.cache, s),
         Len(s) \in Nat,
         \A k \in 1 .. Len(s) : Len(s[k]) \in Nat /\ UpTo(s[k], h.gens)
                                /\ \A i \in 1 .. Len(s[k]) : s[k][i].gen \in Nat
  PROVE  /\ Distinct(Pool(r, h, q))
         /\ UpTo(Pool(r, h, q), After(r, h, q).gens)
         /\ Unused(Pool(r, h, q), s)
<1> DEFINE p == Pool(r, h, q)
           g == After(r, h, q).gens
           v == Valid(h, q)
           nb == NumBeaver(q.numel)
           b == Batch(r, h.gens + 1, q)
<1>1. /\ h.gens \in Nat /\ v \in Nat /\ nb \in Nat /\ h.cache \in Seq(Triple)
      /\ v <= Len(h.cache) /\ Len(h.cache) \in Nat
  BY HoldingFacts, RequestFacts
<1>2. \A j \in 1 .. Len(h.cache) : h.cache[j].gen \in Nat /\ h.cache[j].gen <= h.gens
  <2>1. \A j \in 1 .. Len(h.cache) : h.cache[j] \in Triple
    BY <1>1, ElementOfSeq
  <2> QED
    BY <2>1 DEF UpTo, Triple
<1>3. CASE ~Needs(h, q)
  <2>1. p = h.cache /\ g = h.gens
    BY <1>3, PoolFacts, ServedFacts
  <2> QED
    BY <2>1
<1>4. CASE Needs(h, q)
  <2>1. /\ Len(p) = v + nb /\ g = h.gens + 1
        /\ \A j \in 1 .. v : p[j] = h.cache[j]
        /\ \A j \in 1 .. nb : p[v + j] = b[j]
    BY <1>4, PoolFacts, ServedFacts
  <2>2. (\A j \in 1 .. nb : b[j].gen = h.gens + 1) /\ Distinct(b) /\ Len(b) = nb
    <3> DEFINE e == h.gens + 1
    <3>1. e \in Nat
      BY <1>1
    <3> HIDE DEF e
    <3>2. /\ \A j \in 1 .. NumBeaver(q.numel) : Batch(r, e, q)[j].gen = e
          /\ Distinct(Batch(r, e, q)) /\ Len(Batch(r, e, q)) = NumBeaver(q.numel)
      BY <3>1, BatchFacts
    <3> QED
      BY <3>2 DEF e
  <2> HIDE DEF p, g, v, nb, b
  <2>3. \A i \in 1 .. Len(p) :
          \/ i \in 1 .. v /\ i \in 1 .. Len(h.cache) /\ p[i] = h.cache[i] /\ p[i].gen <= h.gens
          \/ i - v \in 1 .. nb /\ p[i] = b[i - v] /\ p[i].gen = h.gens + 1
    <3> SUFFICES ASSUME NEW i \in 1 .. Len(p)
                 PROVE  \/ i \in 1 .. v /\ i \in 1 .. Len(h.cache) /\ p[i] = h.cache[i] /\ p[i].gen <= h.gens
                        \/ i - v \in 1 .. nb /\ p[i] = b[i - v] /\ p[i].gen = h.gens + 1
      OBVIOUS
    <3>1. CASE i <= v
      <4>1. i \in 1 .. v /\ i \in 1 .. Len(h.cache)
        BY <1>1, <3>1
      <4> QED
        BY <1>2, <2>1, <4>1
    <3>2. CASE ~(i <= v)
      <4>1. i - v \in 1 .. nb /\ v + (i - v) = i
        BY <1>1, <2>1, <3>2
      <4> QED
        BY <2>1, <2>2, <4>1
    <3> QED
      BY <3>1, <3>2
  <2>4. UpTo(p, g)
    <3>1. \A i \in 1 .. Len(p) : p[i].gen <= h.gens + 1
      <4> TAKE i \in 1 .. Len(p)
      <4>1. CASE i \in 1 .. Len(h.cache) /\ p[i] = h.cache[i]
        BY <1>1, <1>2, <4>1
      <4>2. CASE p[i].gen = h.gens + 1
        BY <1>1, <4>2
      <4> QED
        BY <2>3, <4>1, <4>2
    <3> QED
      BY <2>1, <3>1 DEF UpTo
  <2>5. Distinct(p)
    <3> SUFFICES ASSUME NEW i \in 1 .. Len(p), NEW j \in 1 .. Len(p), Masks(p[i]) = Masks(p[j])
                 PROVE  i = j
      BY DEF Distinct
    <3>1. p[i].gen = p[j].gen
      BY DEF Masks
    <3>2. CASE p[i].gen = h.gens + 1
      <4>0. \A x \in 1 .. Len(p) :
              p[x].gen = h.gens + 1 => x - v \in 1 .. nb /\ p[x] = b[x - v]
        <5> TAKE x \in 1 .. Len(p)
        <5>1. ~(h.gens + 1 <= h.gens)
          BY <1>1
        <5> QED
          BY <2>3, <5>1
      <4>1. /\ i - v \in 1 .. nb /\ p[i] = b[i - v]
            /\ j - v \in 1 .. nb /\ p[j] = b[j - v]
        BY <3>1, <3>2, <4>0
      <4>2. i - v = j - v
        BY <2>2, <4>1 DEF Distinct
      <4> QED
        BY <1>1, <4>2
    <3>3. CASE p[i].gen # h.gens + 1
      <4>1. /\ i \in 1 .. Len(h.cache) /\ p[i] = h.cache[i]
            /\ j \in 1 .. Len(h.cache) /\ p[j] = h.cache[j]
        BY <2>3, <3>1, <3>3
      <4> QED
        BY <4>1 DEF Distinct
    <3> QED
      BY <3>2, <3>3
  <2>6. Unused(p, s)
    <3> SUFFICES ASSUME NEW k \in 1 .. Len(s), NEW i \in 1 .. Len(s[k]), NEW j \in 1 .. Len(p),
                        Masks(s[k][i]) = Masks(p[j])
                 PROVE  FALSE
      BY DEF Unused
    <3>1. s[k][i].gen = p[j].gen /\ s[k][i].gen <= h.gens /\ s[k][i].gen \in Nat
      BY DEF Masks, UpTo
    <3>2. j \in 1 .. Len(h.cache) /\ p[j] = h.cache[j]
      BY <1>1, <2>3, <3>1
    <3> QED
      BY <3>2 DEF Unused
  <2> QED
    BY <2>4, <2>5, <2>6 DEF p, g
<1> QED
  BY <1>3, <1>4

\* Cutting a pool in two keeps its triples apart.
LEMMA CutFresh ==
  ASSUME NEW p \in Seq(Triple), NEW n \in Nat, NEW m \in Nat, n + m = Len(p),
         NEW c, IsPart(c, p, 0, n), NEW d, IsPart(d, p, n, m),
         NEW g, Distinct(p), UpTo(p, g),
         NEW s \in Seq(Seq(Triple)), Unused(p, s), GivenOnce(s)
  PROVE  /\ UpTo(c, g) /\ UpTo(d, g)
         /\ Distinct(d)
         /\ Unused(d, Append(s, c))
         /\ GivenOnce(Append(s, c))
<1>1. /\ Len(c) = n /\ \A j \in 1 .. n : j \in 1 .. Len(p) /\ c[j] = p[j]
      /\ Len(d) = m /\ \A j \in 1 .. m : n + j \in 1 .. Len(p) /\ d[j] = p[n + j]
  <2>1. \A j \in 1 .. n : 0 + j = j /\ j \in 1 .. Len(p)
    OBVIOUS
  <2>2. \A j \in 1 .. m : n + j \in 1 .. Len(p)
    OBVIOUS
  <2> QED
    BY <2>1, <2>2 DEF IsPart
<1>2. UpTo(c, g) /\ UpTo(d, g)
  BY <1>1 DEF UpTo
<1>3. Distinct(d) /\ Distinct(c)
  <2>1. \A i, j \in 1 .. m : n + i = n + j => i = j
    OBVIOUS
  <2> QED
    BY SMTT(30), <1>1, <2>1 DEF Distinct
<1>4. \A i \in 1 .. n, j \in 1 .. m : Masks(c[i]) # Masks(d[j])
  <2>1. \A i \in 1 .. n, j \in 1 .. m : i # n + j
    OBVIOUS
  <2> QED
    BY <1>1, <2>1 DEF Distinct
<1> DEFINE t == Append(s, c)
<1>5. /\ Len(s) \in Nat /\ Len(t) = Len(s) + 1
      /\ \A k \in 1 .. Len(s) : t[k] = s[k]
      /\ t[Len(s) + 1] = c
      /\ \A k \in 1 .. Len(t) : k \in 1 .. Len(s) \/ k = Len(s) + 1
  <2>1. c \in Seq(Triple)
    BY DEF IsPart
  <2>2. /\ Len(t) = Len(s) + 1 /\ t[Len(s) + 1] = c
        /\ \A k \in 1 .. Len(s) : t[k] = s[k]
    BY <2>1, AppendProperties
  <2>3. Len(s) \in Nat
    BY LenProperties
  <2> HIDE DEF t
  <2> QED
    BY <2>2, <2>3
<1> HIDE DEF t
<1>6. /\ \A k \in 1 .. Len(s) : \A i \in 1 .. Len(s[k]), j \in 1 .. n : Masks(s[k][i]) # Masks(c[j])
      /\ \A k \in 1 .. Len(s) : \A i \in 1 .. Len(s[k]), j \in 1 .. m : Masks(s[k][i]) # Masks(d[j])
  <2>1. \A k \in 1 .. Len(s) : \A i \in 1 .. Len(s[k]), j \in 1 .. Len(p) : Masks(s[k][i]) # Masks(p[j])
    BY DEF Unused
  <2>2. \A j \in 1 .. n : j \in 1 .. Len(p) /\ c[j] = p[j]
    BY <1>1
  <2>3. \A j \in 1 .. m : n + j \in 1 .. Len(p) /\ d[j] = p[n + j]
    BY <1>1
  <2>4. ASSUME NEW k \in 1 .. Len(s), NEW i \in 1 .. Len(s[k]), NEW j \in 1 .. n
        PROVE  Masks(s[k][i]) # Masks(c[j])
    BY <2>1, <2>2
  <2>5. ASSUME NEW k \in 1 .. Len(s), NEW i \in 1 .. Len(s[k]), NEW j \in 1 .. m
        PROVE  Masks(s[k][i]) # Masks(d[j])
    BY <2>1, <2>3
  <2> QED
    BY <2>4, <2>5
<1>7. Unused(d, t)
  <2> SUFFICES ASSUME NEW k \in 1 .. Len(t), NEW i \in 1 .. Len(t[k]), NEW j \in 1 .. Len(d)
               PROVE  Masks(t[k][i]) # Masks(d[j])
    BY DEF Unused
  <2>0. j \in 1 .. m
    BY <1>1
  <2>1. CASE k \in 1 .. Len(s)
    <3>1. t[k] = s[k]
      BY <1>5, <2>1
    <3>2. i \in 1 .. Len(s[k])
      BY <3>1
    <3> QED
      BY <1>6, <2>0, <2>1, <3>1, <3>2
  <2>2. CASE k = Len(s) + 1
    <3>1. t[k] = c
      BY <1>5, <2>2
    <3>2. i \in 1 .. n
      BY <1>1, <3>1
    <3> QED
      BY <1>4, <2>0, <3>1, <3>2
  <2> QED
    BY <1>5, <2>1, <2>2
<1>8. GivenOnce(t)
  <2> SUFFICES ASSUME NEW k \in 1 .. Len(t), NEW l \in 1 .. Len(t),
                      NEW i \in 1 .. Len(t[k]), NEW j \in 1 .. Len(t[l]),
                      Masks(t[k][i]) = Masks(t[l][j])
               PROVE  k = l /\ i = j
    BY DEF GivenOnce
  <2>1. CASE k \in 1 .. Len(s) /\ l \in 1 .. Len(s)
    <3>1. i \in 1 .. Len(s[k]) /\ j \in 1 .. Len(s[l]) /\ Masks(s[k][i]) = Masks(s[l][j])
      BY <1>5, <2>1
    <3> QED
      BY SMTT(30), <2>1, <3>1 DEF GivenOnce
  <2>2. CASE k \in 1 .. Len(s) /\ l = Len(s) + 1
    <3>1. t[k] = s[k] /\ t[l] = c
      BY <1>5, <2>2
    <3>2. i \in 1 .. Len(s[k]) /\ j \in 1 .. n
      BY <1>1, <3>1
    <3>3. Masks(s[k][i]) # Masks(c[j])
      BY <1>6, <2>2, <3>2
    <3> QED
      BY <3>1, <3>3
  <2>3. CASE k = Len(s) + 1 /\ l \in 1 .. Len(s)
    <3>1. t[k] = c /\ t[l] = s[l]
      BY <1>5, <2>3
    <3>2. i \in 1 .. n /\ j \in 1 .. Len(s[l])
      BY <1>1, <3>1
    <3>3. Masks(s[l][j]) # Masks(c[i])
      BY <1>6, <2>3, <3>2
    <3> QED
      BY <3>1, <3>3
  <2>4. CASE k = Len(s) + 1 /\ l = Len(s) + 1
    BY <1>1, <1>3, <1>5, <2>4 DEF Distinct
  <2> QED
    BY <1>5, <2>1, <2>2, <2>3, <2>4
<1> QED
  BY <1>2, <1>3, <1>7, <1>8 DEF t

-----------------------------------------------------------------------------
(* The same request at both ranks.                                         *)

LEMMA BatchesMirror ==
  ASSUME NEW g \in Nat, NEW q \in Request
  PROVE  Triples(Batch(0, g, q), Batch(1, g, q), q.field)
<1> DEFINE nb == NumBeaver(q.numel)
<1>1. nb \in Nat /\ 0 \in Rank /\ 1 \in Rank
  BY RequestFacts DEF Rank
<1>2. Len(Batch(0, g, q)) = nb /\ Len(Batch(1, g, q)) = nb
  BY <1>1, BatchFacts
<1>3. \A j \in 1 .. nb : IsTriple(Batch(0, g, q)[j], Batch(1, g, q)[j], q.field)
  <2> SUFFICES ASSUME NEW j \in 1 .. nb
               PROVE  IsTriple(Batch(0, g, q)[j], Batch(1, g, q)[j], q.field)
    OBVIOUS
  <2>1. Batch(0, g, q)[j] = [gen |-> g, field |-> q.field, rank |-> 0, a |-> j,
                             b |-> nb + j, cross |-> {j, nb + j}]
    BY DEF Batch
  <2>2. Batch(1, g, q)[j] = [gen |-> g, field |-> q.field, rank |-> 1, a |-> nb + j,
                             b |-> j, cross |-> {j, nb + j}]
    BY DEF Batch
  <2> HIDE DEF nb
  <2>3. {j, nb + j} = {nb + j, j}
    OBVIOUS
  <2> QED
    BY <2>1, <2>2, <2>3 DEF IsTriple
<1> QED
  BY <1>2, <1>3 DEF Triples

LEMMA PoolsMirror ==
  ASSUME NEW h \in Holdings, NEW i \in Holdings, Mirror(h, i), NEW q \in Request
  PROVE  /\ Needs(h, q) <=> Needs(i, q)
         /\ Triples(Pool(0, h, q), Pool(1, i, q), q.field)
<1> DEFINE v == Valid(h, q)
           nb == NumBeaver(q.numel)
           b == Batch(0, h.gens + 1, q)
           c == Batch(1, h.gens + 1, q)
           p == Pool(0, h, q)
           o == Pool(1, i, q)
<1>0. 0 \in Rank /\ 1 \in Rank
  BY DEF Rank
<1>1. /\ v \in Nat /\ v <= Len(h.cache) /\ Len(h.cache) \in Nat /\ h.gens + 1 \in Nat
      /\ nb \in Nat
  BY HoldingFacts, RequestFacts
<1>2. /\ h.field = i.field /\ h.gens = i.gens /\ Len(i.cache) = Len(h.cache)
      /\ \A j \in 1 .. Len(h.cache) : IsTriple(h.cache[j], i.cache[j], h.field)
  BY DEF Mirror, Triples
<1>3. Valid(i, q) = v /\ (Needs(h, q) <=> Needs(i, q))
  BY <1>2 DEF Valid, Needs
<1>4. CASE ~Needs(h, q)
  <2>1. p = h.cache /\ o = i.cache /\ q.field = h.field
    BY <1>0, <1>3, <1>4, PoolFacts
  <2> QED
    BY <1>2, <1>3, <2>1 DEF Triples
<1>5. CASE Needs(h, q)
  <2>1. /\ Len(p) = v + nb /\ Len(o) = v + nb
        /\ \A j \in 1 .. v : p[j] = h.cache[j] /\ o[j] = i.cache[j]
        /\ \A j \in 1 .. nb : p[v + j] = b[j] /\ o[v + j] = c[j]
    BY <1>0, <1>2, <1>3, <1>5, PoolFacts
  <2>2. \A j \in 1 .. nb : IsTriple(b[j], c[j], q.field)
    <3> DEFINE e == h.gens + 1
    <3>1. e \in Nat
      BY <1>1
    <3> HIDE DEF e
    <3>2. /\ Triples(Batch(0, e, q), Batch(1, e, q), q.field)
          /\ Len(Batch(0, e, q)) = NumBeaver(q.numel)
      BY <1>0, <3>1, BatchesMirror, BatchFacts
    <3> QED
      BY <3>2 DEF e, Triples
  <2>3. v = 0 \/ h.field = q.field
    BY DEF Valid
  <2> HIDE DEF v, nb, b, c, p, o
  <2>4. \A j \in 1 .. v + nb : IsTriple(p[j], o[j], q.field)
    <3> TAKE j \in 1 .. v + nb
    <3>1. CASE j <= v
      <4>1. j \in 1 .. v /\ j \in 1 .. Len(h.cache) /\ h.field = q.field
        BY <1>1, <2>3, <3>1
      <4> QED
        BY <1>2, <2>1, <4>1
    <3>2. CASE ~(j <= v)
      <4>1. j - v \in 1 .. nb /\ v + (j - v) = j
        BY <1>1, <3>2
      <4> QED
        BY <2>1, <2>2, <4>1
    <3> QED
      BY <3>1, <3>2
  <2> QED
    BY <1>3, <2>1, <2>4 DEF Triples, p, o
<1> QED
  BY <1>4, <1>5

LEMMA ServedMirror ==
  ASSUME NEW h \in Holdings, NEW i \in Holdings, Mirror(h, i), NEW q \in Request
  PROVE  /\ Triples(Given(0, h, q), Given(1, i, q), q.field)
         /\ Mirror(After(0, h, q), After(1, i, q))
<1> DEFINE p == Pool(0, h, q)
           o == Pool(1, i, q)
           n == q.numel
<1>0. 0 \in Rank /\ 1 \in Rank /\ h.gens = i.gens
  BY DEF Rank, Mirror
<1>1. /\ (Needs(h, q) <=> Needs(i, q)) /\ Len(p) = Len(o)
      /\ \A j \in 1 .. Len(p) : IsTriple(p[j], o[j], q.field)
  BY PoolsMirror DEF Triples
<1>2. n \in Nat /\ n <= Len(p) /\ Len(p) \in Nat
  BY <1>0, PoolFacts, RequestFacts, LenProperties
<1>3. /\ IsPart(Given(0, h, q), p, 0, n)
      /\ IsPart(After(0, h, q).cache, p, n, Len(p) - n)
      /\ After(0, h, q).field = q.field
      /\ After(0, h, q).gens = IF Needs(h, q) THEN h.gens + 1 ELSE h.gens
  BY <1>0, ServedFacts
<1>8. /\ IsPart(Given(1, i, q), o, 0, n)
      /\ IsPart(After(1, i, q).cache, o, n, Len(o) - n)
      /\ After(1, i, q).field = q.field
      /\ After(1, i, q).gens = IF Needs(i, q) THEN i.gens + 1 ELSE i.gens
  BY <1>0, ServedFacts
<1>9. IsPart(After(1, i, q).cache, o, n, Len(p) - n) /\ After(0, h, q).gens = After(1, i, q).gens
  BY <1>0, <1>1, <1>3, <1>8
<1> HIDE DEF p, o, n
<1>4. \A j \in 1 .. n : 0 + j \in 1 .. Len(p)
  BY <1>2
<1>5. \A j \in 1 .. Len(p) - n : n + j \in 1 .. Len(p)
  BY <1>2
<1>6. Triples(Given(0, h, q), Given(1, i, q), q.field)
  BY <1>1, <1>3, <1>4, <1>8 DEF IsPart, Triples
<1>7. Triples(After(0, h, q).cache, After(1, i, q).cache, q.field)
  BY <1>1, <1>3, <1>5, <1>9 DEF IsPart, Triples
<1> QED
  BY <1>3, <1>6, <1>7, <1>8, <1>9 DEF Mirror

-----------------------------------------------------------------------------
(* The steps.                                                              *)

LEMMA InitStep == Init => IInv
<1> SUFFICES ASSUME Init PROVE IInv
  OBVIOUS
<1> DEFINE h == Holding(NoField, <<>>, 0)
<1>1. h \in Holdings /\ h.field = NoField /\ h.cache = <<>> /\ h.gens = 0
  BY DEF Holding, Holdings
<1> HIDE DEF h
<1>2. /\ requests = <<>>
      /\ \A r \in Rank : /\ taken[r] = <<>> /\ waiting[r] = FALSE /\ posted[r] = <<>>
                         /\ field[r] = NoField /\ size[r] = 0 /\ cache[r] = <<>>
                         /\ left[r] = <<h>>
  BY DEF Init, h
<1>3. TypeInv
  BY <1>1 DEF TypeInv, Init, h
<1>4. MaxNumel \in 1 .. MaxNumel /\ NumBeaver(MaxNumel) \in Nat /\ MaxNumel <= NumBeaver(MaxNumel)
  BY ConstantFacts, NumBeaverFacts
<1>5. \A r \in Rank : /\ Len(left[r]) = 1 /\ left[r][1] = h /\ Now(r) = h
                      /\ Len(taken[r]) = 0 /\ Len(posted[r]) = 0 /\ Len(cache[r]) = 0
  <2> TAKE r \in Rank
  <2>1. Len(taken[r]) = 0 /\ Len(posted[r]) = 0 /\ Len(cache[r]) = 0
    BY <1>2
  <2>2. Len(left[r]) = 1 /\ left[r][1] = h
    <3>1. left[r] = <<h>>
      BY <1>2
    <3>2. Len(<<h>>) = 1 /\ <<h>>[1] = h
      OBVIOUS
    <3> QED
      BY <3>1, <3>2
  <2> QED
    BY <2>1, <2>2 DEF Now
<1>6. ASSUME NEW r \in Rank
      PROVE  RankInv(r)
  <2>1. PhaseAt(r)
    <3>1. Len(requests) = 0
      BY <1>2
    <3>2. /\ Len(taken[r]) = 0 /\ Len(left[r]) = 1 /\ Len(posted[r]) = 0 /\ Len(cache[r]) = 0
          /\ Now(r) = h /\ field[r] = NoField /\ cache[r] = <<>> /\ size[r] = 0 /\ ~waiting[r]
      BY <1>2, <1>5
    <3> QED
      BY <1>1, <3>1, <3>2 DEF PhaseAt
  <2>2. HistoryAt(r) /\ PostedAt(r)
    BY <1>5 DEF HistoryAt, PostedAt
  <2>3. GensAt(r)
    BY <1>1, <1>5 DEF GensAt
  <2>4. BoundAt(r)
    BY <1>4, <1>5, ConstantFacts DEF BoundAt
  <2>5. FreshAt(r)
    BY <1>5 DEF FreshAt, UpTo, Distinct, Unused, GivenOnce
  <2> QED
    BY <2>1, <2>2, <2>3, <2>4, <2>5 DEF RankInv
<1>7. MirrorInv
  BY <1>1, <1>5 DEF MirrorInv, Mirror, Triples, Rank
<1> QED
  BY <1>3, <1>6, <1>7 DEF IInv

\* What a step of one rank, or another request, leaves to the other rank.
LEMMA Undisturbed ==
  ASSUME NEW t \in Rank, RankInv(t), TypeInv,
         Len(requests') \in Nat, Len(requests) <= Len(requests'),
         \A k \in 1 .. Len(requests) : requests'[k] = requests[k],
         taken'[t] = taken[t], waiting'[t] = waiting[t], posted'[t] = posted[t],
         field'[t] = field[t], size'[t] = size[t], cache'[t] = cache[t], left'[t] = left[t]
  PROVE  RankInv(t)'
<1>0. Len(requests) \in Nat /\ Len(taken[t]) \in Nat /\ Len(left[t]) \in Nat /\ waiting[t] \in BOOLEAN
  BY LenProperties DEF TypeInv
<1>1. Now(t)' = Now(t) /\ PhaseAt(t)
  BY DEF Now, RankInv
<1>2. Len(taken[t]) <= Len(requests)
  BY <1>1 DEF PhaseAt
<1>3. waiting[t] => Current(t)' = Current(t)
  <2>1. waiting[t] => Len(taken[t]) + 1 \in 1 .. Len(requests)
    BY <1>0, <1>1 DEF PhaseAt
  <2> QED
    BY <2>1 DEF Current
<1>4. PhaseAt(t)'
  <2>1. Len(taken[t]) <= Len(requests')
    BY <1>0, <1>2
  <2>2. waiting[t] => Len(taken[t]) < Len(requests')
    BY <1>0, <1>1 DEF PhaseAt
  <2> QED
    BY <1>1, <1>3, <2>1, <2>2 DEF PhaseAt
<1>5. HistoryAt(t)'
  <2>1. \A k \in 1 .. Len(taken[t]) : requests'[k] = requests[k]
    BY <1>0, <1>2
  <2>2. HistoryAt(t)
    BY DEF RankInv
  <2> QED
    BY <2>1, <2>2 DEF HistoryAt
<1>6. PostedAt(t)'
  <2>1. \A k \in 1 .. Len(left[t]) : k <= Len(requests) => k <= Len(requests') /\ requests'[k] = requests[k]
    BY <1>0
  <2>2. PostedAt(t)
    BY DEF RankInv
  <2> QED
    BY <2>1, <2>2 DEF PostedAt
<1>7. GensAt(t)' /\ BoundAt(t)' /\ FreshAt(t)'
  BY <1>1 DEF RankInv, GensAt, BoundAt, FreshAt
<1> QED
  BY <1>4, <1>5, <1>6, <1>7 DEF RankInv

LEMMA AskStep ==
  ASSUME IInv, NEW r \in Rank, Ask(r)
  PROVE  IInv'
<1>1. PICK q \in Request : requests' = Append(requests, q)
  BY DEF Ask
<1>2. TypeInv /\ UNCHANGED <<taken, waiting, posted, field, size, cache, left>>
  BY DEF IInv, Ask
<1>3. /\ requests \in Seq(Request) /\ requests' \in Seq(Request) /\ Len(requests) \in Nat
      /\ Len(requests') = Len(requests) + 1
      /\ \A k \in 1 .. Len(requests) : requests'[k] = requests[k]
  BY <1>1, <1>2, AppendProperties, LenProperties DEF TypeInv
<1>4. TypeInv'
  BY <1>2, <1>3 DEF TypeInv
<1>5. \A t \in Rank : RankInv(t)'
  BY <1>2, <1>3, Undisturbed DEF IInv
<1>6. MirrorInv'
  BY <1>2 DEF IInv, MirrorInv
<1> QED
  BY <1>4, <1>5, <1>6 DEF IInv

LEMMA StutterStep == IInv /\ UNCHANGED vars => IInv'
<1> SUFFICES ASSUME IInv, UNCHANGED vars PROVE IInv'
  OBVIOUS
<1>1. UNCHANGED <<requests, taken, waiting, posted, field, size, cache, left>>
  BY DEF vars
<1>2. TypeInv' /\ MirrorInv' /\ TypeInv
  BY <1>1 DEF IInv, TypeInv, MirrorInv
<1>3. Len(requests) \in Nat
  BY <1>2, LenProperties DEF TypeInv
<1>4. \A t \in Rank : RankInv(t)'
  BY <1>1, <1>2, <1>3, Undisturbed DEF IInv
<1> QED
  BY <1>2, <1>4 DEF IInv

\* The request that r is at, and what it has.
LEMMA AtRequest ==
  ASSUME IInv, NEW r \in Rank, Len(taken[r]) < Len(requests)
  PROVE  /\ Current(r) \in Request
         /\ Len(taken[r]) + 1 \in 1 .. Len(requests)
         /\ Current(r) = requests[Len(taken[r]) + 1]
         /\ Now(r) \in Holdings
<1>1. /\ requests \in Seq(Request) /\ Len(taken[r]) \in Nat /\ Len(requests) \in Nat
      /\ left[r] \in Seq(Holdings) /\ Len(left[r]) = Len(taken[r]) + 1
  BY LenProperties DEF IInv, TypeInv, RankInv, PhaseAt
<1>2. Len(taken[r]) + 1 \in 1 .. Len(requests) /\ Len(taken[r]) + 1 \in 1 .. Len(left[r])
  BY <1>1
<1> QED
  BY <1>1, <1>2, ElementOfSeq DEF Current, Now

LEMMA EnterOleStep ==
  ASSUME IInv, NEW r \in Rank, EnterOle(r)
  PROVE  IInv'
<1> DEFINE q == Current(r)
           h == Now(r)
           n == Len(taken[r])
<1>0. TypeInv /\ RankInv(r) /\ PhaseAt(r)
  BY DEF IInv, RankInv
<1>1. /\ n < Len(requests) /\ ~waiting[r] /\ ~Enough(r)
      /\ size' = [size EXCEPT ![r] = ValidSize(r, q.field)]
      /\ posted' = [posted EXCEPT ![r] = Append(@, <<q.field, OleLength(r)>>)]
      /\ waiting' = [waiting EXCEPT ![r] = TRUE]
      /\ UNCHANGED <<requests, taken, field, cache, left>>
  BY DEF EnterOle
<1>2. q \in Request /\ h \in Holdings /\ n + 1 \in 1 .. Len(requests) /\ q = requests[n + 1]
  BY <1>1, AtRequest
<1>3. /\ h.field = field[r] /\ h.cache = cache[r] /\ size[r] = Len(cache[r])
      /\ Len(posted[r]) = h.gens
  BY <1>0, <1>1 DEF PhaseAt
<1>4. ValidSize(r, q.field) = Valid(h, q) /\ Needs(h, q) /\ Valid(h, q) \in Nat
  <2>1. ValidSize(r, q.field) = Valid(h, q)
    BY <1>3 DEF ValidSize, Valid
  <2>2. Valid(h, q) \in Nat /\ q.numel \in Nat
    BY <1>2, HoldingFacts, RequestFacts
  <2>3. ~(Valid(h, q) >= q.numel)
    BY <1>1, <2>1 DEF Enough
  <2> QED
    BY <2>1, <2>2, <2>3 DEF Needs
<1>5. <<q.field, OleLength(r)>> = Posting(q) /\ Posting(q) \in Field \X Nat
  BY <1>2, RequestFacts DEF OleLength, Posting
<1>6. /\ Now(r)' = h /\ Current(r)' = q
      /\ \A t \in Rank : t # r => posted'[t] = posted[t] /\ size'[t] = size[t] /\ waiting'[t] = waiting[t]
  BY <1>0, <1>1 DEF Now, Current, TypeInv
<1>7. posted \in [Rank -> Seq(Field \X Nat)]
  BY <1>0 DEF TypeInv
<1>8. /\ posted'[r] = Append(posted[r], Posting(q)) /\ size'[r] = Valid(h, q) /\ waiting'[r]
  BY <1>0, <1>1, <1>4, <1>5 DEF TypeInv
<1>9. /\ Append(posted[r], Posting(q)) \in Seq(Field \X Nat)
      /\ Len(posted[r]) \in Nat
      /\ Len(Append(posted[r], Posting(q))) = Len(posted[r]) + 1
      /\ \A g \in 1 .. Len(posted[r]) : Append(posted[r], Posting(q))[g] = posted[r][g]
      /\ Append(posted[r], Posting(q))[Len(posted[r]) + 1] = Posting(q)
  BY <1>5, <1>7, AppendProperties, LenProperties
<1>10. TypeInv'
  <2>1. posted' \in [Rank -> Seq(Field \X Nat)]
    BY <1>1, <1>5, <1>7, <1>9
  <2>2. size' \in [Rank -> Nat] /\ waiting' \in [Rank -> BOOLEAN]
    BY <1>0, <1>1, <1>4 DEF TypeInv
  <2> QED
    BY <1>0, <1>1, <2>1, <2>2 DEF TypeInv
<1>11. RankInv(r)'
  <2>1. PhaseAt(r)'
    <3>1. Len(posted'[r]) = h.gens + 1
      BY <1>3, <1>8, <1>9
    <3> QED
      BY <1>0, <1>1, <1>3, <1>4, <1>6, <1>8, <3>1 DEF PhaseAt
  <2>2. HistoryAt(r)' /\ GensAt(r)' /\ BoundAt(r)'
    BY <1>0, <1>1 DEF RankInv, HistoryAt, GensAt, BoundAt
  <2>3. PostedAt(r)'
    <3>1. PostedAt(r)
      BY <1>0 DEF RankInv
    <3>2. /\ Len(left[r]) = n + 1 /\ n \in Nat /\ left[r][n + 1] = h /\ Len(requests) \in Nat
      BY <1>0, LenProperties DEF PhaseAt, Now, TypeInv
    <3>3. ASSUME NEW g \in 1 .. Len(posted'[r])
          PROVE  \E k \in 1 .. Len(left[r]) :
                   /\ k <= Len(requests)
                   /\ left[r][k].gens + 1 = g
                   /\ Needs(left[r][k], requests[k])
                   /\ posted'[r][g] = Posting(requests[k])
      <4>1. CASE g \in 1 .. Len(posted[r])
        BY <1>8, <1>9, <3>1, <4>1 DEF PostedAt
      <4>2. CASE g \notin 1 .. Len(posted[r])
        <5>1. g = Len(posted[r]) + 1
          BY <1>8, <1>9, <4>2
        <5>2. /\ n + 1 \in 1 .. Len(left[r]) /\ n + 1 <= Len(requests)
              /\ left[r][n + 1].gens + 1 = g
              /\ Needs(left[r][n + 1], requests[n + 1])
              /\ posted'[r][g] = Posting(requests[n + 1])
          BY <1>2, <1>3, <1>4, <1>8, <1>9, <3>2, <5>1
        <5> QED
          BY <5>2
      <4> QED
        BY <4>1, <4>2
    <3> QED
      BY <1>1, <3>3 DEF PostedAt
  <2>4. FreshAt(r)'
    BY <1>0, <1>1, <1>6 DEF RankInv, FreshAt
  <2> QED
    BY <2>1, <2>2, <2>3, <2>4 DEF RankInv
<1>12. ASSUME NEW t \in Rank
       PROVE  RankInv(t)'
  <2>1. CASE t = r
    BY <1>11, <2>1
  <2>2. CASE t # r
    <3>1. Len(requests) \in Nat /\ requests' = requests /\ RankInv(t)
      BY <1>0, <1>1, LenProperties DEF TypeInv, IInv
    <3>2. /\ taken'[t] = taken[t] /\ waiting'[t] = waiting[t] /\ posted'[t] = posted[t]
          /\ field'[t] = field[t] /\ size'[t] = size[t] /\ cache'[t] = cache[t] /\ left'[t] = left[t]
      BY <1>1, <1>6, <2>2
    <3> QED
      BY <1>0, <3>1, <3>2, Undisturbed
  <2> QED
    BY <2>1, <2>2
<1>13. MirrorInv'
  BY <1>1 DEF IInv, MirrorInv
<1> QED
  BY <1>10, <1>12, <1>13 DEF IInv

\* A request of r is served, out of the cache or after an OLE.
Serve(r) ==
  LET h == Now(r)
      q == Current(r)
  IN  /\ Len(taken[r]) < Len(requests)
      /\ taken' = [taken EXCEPT ![r] = Append(@, Given(r, h, q))]
      /\ cache' = [cache EXCEPT ![r] = After(r, h, q).cache]
      /\ field' = [field EXCEPT ![r] = q.field]
      /\ size' = [size EXCEPT ![r] = Len(After(r, h, q).cache)]
      /\ waiting' = [waiting EXCEPT ![r] = FALSE]
      /\ left' = [left EXCEPT ![r] = Append(@, After(r, h, q))]
      /\ Len(posted[r]) = After(r, h, q).gens
      /\ UNCHANGED <<requests, posted>>

\* What is left of pool p after n of its m triples, as TakeFirst puts it.
LEMMA RestOf ==
  ASSUME NEW p \in Seq(Triple), NEW n \in Nat, n <= Len(p)
  PROVE  (IF Len(p) = n THEN <<>> ELSE SubSeq(p, n + 1, Len(p))) = SubSeq(p, n + 1, Len(p))
<1>1. CASE Len(p) = n
  <2>1. SubSeq(p, n + 1, n) = <<>>
    BY SubSeqEmpty
  <2> QED
    BY <1>1, <2>1
<1> QED
  BY <1>1

LEMMA TakeCachedServes ==
  ASSUME IInv, NEW r \in Rank, TakeCached(r)
  PROVE  Serve(r)
<1> DEFINE q == Current(r)
           h == Now(r)
           a == After(r, h, q)
           p == Pool(r, h, q)
<1>0. TypeInv /\ PhaseAt(r)
  BY DEF IInv, RankInv
<1>1. /\ Len(taken[r]) < Len(requests) /\ ~waiting[r] /\ Enough(r)
      /\ TakeFirst(r, cache[r], size[r], q.numel)
      /\ UNCHANGED <<requests, waiting, posted, field>>
      /\ Remember(r)
  BY DEF TakeCached
<1>2. q \in Request /\ h \in Holdings
  BY <1>1, AtRequest
<1>3. /\ h.field = field[r] /\ h.cache = cache[r] /\ size[r] = Len(cache[r])
      /\ Len(posted[r]) = h.gens
  BY <1>0, <1>1 DEF PhaseAt
<1>4. ~Needs(h, q)
  <2>1. ValidSize(r, q.field) = Valid(h, q)
    BY <1>3 DEF ValidSize, Valid
  <2>2. Valid(h, q) \in Nat /\ q.numel \in Nat
    BY <1>2, HoldingFacts, RequestFacts
  <2>3. Valid(h, q) >= q.numel
    BY <1>1, <2>1 DEF Enough
  <2> QED
    BY <2>2, <2>3 DEF Needs
<1>5. p = cache[r] /\ q.field = field[r] /\ p \in Seq(Triple) /\ q.numel \in Nat /\ q.numel <= Len(p)
  BY <1>2, <1>3, <1>4, PoolFacts, RequestFacts
<1>6. /\ a.cache = SubSeq(p, q.numel + 1, Len(p)) /\ a.gens = h.gens /\ a.field = q.field
      /\ a = Holding(q.field, a.cache, a.gens) /\ Given(r, h, q) = SubSeq(p, 1, q.numel)
  BY <1>4 DEF After, Given, Holding
<1> HIDE DEF p, a
<1>7. a.cache = IF Len(p) = q.numel THEN <<>> ELSE SubSeq(p, q.numel + 1, Len(p))
  BY <1>5, <1>6, RestOf
<1>8. /\ taken' = [taken EXCEPT ![r] = Append(@, Given(r, h, q))]
      /\ cache' = [cache EXCEPT ![r] = a.cache]
      /\ size' = [size EXCEPT ![r] = Len(p) - q.numel]
  BY <1>1, <1>3, <1>5, <1>6, <1>7 DEF TakeFirst
<1>9. Len(p) - q.numel = Len(a.cache)
  BY <1>2, ServedFacts DEF IsPart, a, p
<1>10. field' = [field EXCEPT ![r] = q.field] /\ waiting' = [waiting EXCEPT ![r] = FALSE]
  <2>1. [field EXCEPT ![r] = field[r]] = field /\ [waiting EXCEPT ![r] = waiting[r]] = waiting
    BY <1>0 DEF TypeInv
  <2>2. waiting[r] = FALSE
    BY <1>0, <1>1 DEF TypeInv
  <2> QED
    BY <1>1, <1>5, <2>1, <2>2
<1>11. left' = [left EXCEPT ![r] = Append(@, a)]
  <2>1. cache'[r] = a.cache /\ field'[r] = q.field /\ Len(posted'[r]) = a.gens
    BY <1>0, <1>1, <1>3, <1>5, <1>6, <1>8 DEF TypeInv
  <2> QED
    BY <1>1, <1>6, <2>1 DEF Remember
<1> QED
  BY <1>1, <1>3, <1>6, <1>8, <1>9, <1>10, <1>11 DEF Serve, a

LEMMA LeaveOleServes ==
  ASSUME IInv, NEW r \in Rank, LeaveOle(r)
  PROVE  Serve(r)
<1> DEFINE q == Current(r)
           h == Now(r)
           a == After(r, h, q)
           p == Pool(r, h, q)
           gen == Len(posted[r])
           nb == NumBeaver(q.numel)
           new == SubSeq(cache[r], 1, size[r]) \o Cut(r, gen, nb)
<1>0. TypeInv /\ PhaseAt(r)
  BY DEF IInv, RankInv
<1>1. /\ waiting[r]
      /\ field' = [field EXCEPT ![r] = q.field]
      /\ waiting' = [waiting EXCEPT ![r] = FALSE]
      /\ TakeFirst(r, new, size[r] + nb, q.numel)
      /\ UNCHANGED <<requests, posted>>
      /\ Remember(r)
  BY DEF LeaveOle
<1>2. /\ Len(taken[r]) < Len(requests)
      /\ h.field = field[r] /\ h.cache = cache[r]
      /\ Needs(h, q) /\ size[r] = Valid(h, q) /\ gen = h.gens + 1
  BY <1>0, <1>1 DEF PhaseAt
<1>3. q \in Request /\ h \in Holdings
  BY <1>2, AtRequest
<1>4. Cut(r, gen, nb) = Batch(r, h.gens + 1, q)
  BY <1>2 DEF Cut, Batch
<1>5. p = new
  BY <1>2, <1>4 DEF Pool
<1>6. /\ p \in Seq(Triple) /\ q.numel \in Nat /\ q.numel <= Len(p) /\ Len(p) = size[r] + nb
  BY <1>2, <1>3, PoolFacts, RequestFacts
<1>7. /\ a.cache = SubSeq(p, q.numel + 1, Len(p)) /\ a.gens = h.gens + 1 /\ a.field = q.field
      /\ a = Holding(q.field, a.cache, a.gens) /\ Given(r, h, q) = SubSeq(p, 1, q.numel)
  BY <1>2 DEF After, Given, Holding
<1> HIDE DEF p, a, new, nb
<1>8. a.cache = IF Len(p) = q.numel THEN <<>> ELSE SubSeq(p, q.numel + 1, Len(p))
  BY <1>6, <1>7, RestOf
<1>9. /\ taken' = [taken EXCEPT ![r] = Append(@, Given(r, h, q))]
      /\ cache' = [cache EXCEPT ![r] = a.cache]
      /\ size' = [size EXCEPT ![r] = Len(p) - q.numel]
  BY <1>1, <1>5, <1>6, <1>7, <1>8 DEF TakeFirst
<1>10. Len(p) - q.numel = Len(a.cache)
  BY <1>3, ServedFacts DEF IsPart, a, p
<1>11. left' = [left EXCEPT ![r] = Append(@, a)]
  <2>1. cache'[r] = a.cache /\ field'[r] = q.field /\ Len(posted'[r]) = a.gens
    BY <1>0, <1>1, <1>2, <1>7, <1>9 DEF TypeInv
  <2> QED
    BY <1>1, <1>7, <2>1 DEF Remember
<1> QED
  BY <1>1, <1>2, <1>7, <1>9, <1>10, <1>11 DEF Serve, a

\* The histories of r after a request.
LEMMA ServeFacts ==
  ASSUME IInv, NEW r \in Rank, Serve(r)
  PROVE  LET n == Len(taken[r])
             q == Current(r)
             h == Now(r)
             a == After(r, h, q)
         IN  /\ n \in Nat /\ n + 1 <= Len(requests) /\ Len(requests) \in Nat
             /\ q \in Request /\ q = requests[n + 1]
             /\ h \in Holdings /\ h = left[r][n + 1] /\ Len(left[r]) = n + 1
             /\ a \in Holdings /\ Given(r, h, q) \in Seq(Triple)
             /\ taken'[r] = Append(taken[r], Given(r, h, q))
             /\ taken'[r] \in Seq(Seq(Triple)) /\ Len(taken'[r]) = n + 1
             /\ taken'[r][n + 1] = Given(r, h, q)
             /\ \A k \in 1 .. n : taken'[r][k] = taken[r][k]
             /\ left'[r] \in Seq(Holdings) /\ Len(left'[r]) = n + 2
             /\ left'[r][n + 2] = a
             /\ \A k \in 1 .. n + 1 : left'[r][k] = left[r][k]
             /\ Now(r)' = a
             /\ cache'[r] = a.cache /\ field'[r] = a.field /\ size'[r] = Len(a.cache)
             /\ waiting'[r] = FALSE
<1> DEFINE n == Len(taken[r])
           q == Current(r)
           h == Now(r)
           a == After(r, h, q)
<1>0. TypeInv /\ PhaseAt(r)
  BY DEF IInv, RankInv
<1>1. n < Len(requests) /\ n \in Nat /\ Len(requests) \in Nat
  BY <1>0, LenProperties DEF Serve, TypeInv
<1>2. q \in Request /\ h \in Holdings /\ q = requests[n + 1]
  BY <1>1, AtRequest
<1>3. a \in Holdings /\ Given(r, h, q) \in Seq(Triple) /\ a.field = q.field
  BY <1>2, ServedFacts
<1>4. h = left[r][n + 1] /\ Len(left[r]) = n + 1 /\ left[r] \in Seq(Holdings) /\ taken[r] \in Seq(Seq(Triple))
  BY <1>0 DEF PhaseAt, Now, TypeInv
<1>5. /\ taken'[r] = Append(taken[r], Given(r, h, q))
      /\ left'[r] = Append(left[r], a)
      /\ cache'[r] = a.cache /\ field'[r] = q.field /\ size'[r] = Len(a.cache)
      /\ waiting'[r] = FALSE
  BY <1>0 DEF Serve, TypeInv
<1> HIDE DEF a
<1>6. /\ taken'[r] \in Seq(Seq(Triple)) /\ Len(taken'[r]) = n + 1
      /\ taken'[r][n + 1] = Given(r, h, q)
      /\ \A k \in 1 .. n : taken'[r][k] = taken[r][k]
  BY <1>3, <1>4, <1>5, AppendProperties
<1>7. /\ left'[r] \in Seq(Holdings) /\ Len(left'[r]) = (n + 1) + 1
      /\ left'[r][(n + 1) + 1] = a
      /\ \A k \in 1 .. n + 1 : left'[r][k] = left[r][k]
  BY <1>3, <1>4, <1>5, AppendProperties
<1>8. (n + 1) + 1 = n + 2 /\ n + 1 <= Len(requests)
  BY <1>1
<1>9. Now(r)' = a
  BY <1>6, <1>7 DEF Now
<1> QED
  BY <1>1, <1>2, <1>3, <1>4, <1>5, <1>6, <1>7, <1>8, <1>9 DEF a

LEMMA ServeOwn ==
  ASSUME IInv, NEW r \in Rank, Serve(r)
  PROVE  RankInv(r)'
<1> DEFINE n == Len(taken[r])
           q == Current(r)
           h == Now(r)
           a == After(r, h, q)
           c == Given(r, h, q)
           p == Pool(r, h, q)
<1>0. /\ TypeInv /\ PhaseAt(r) /\ HistoryAt(r) /\ GensAt(r) /\ PostedAt(r) /\ BoundAt(r)
      /\ FreshAt(r)
  BY DEF IInv, RankInv
<1>1. /\ n \in Nat /\ n + 1 <= Len(requests) /\ Len(requests) \in Nat
      /\ q \in Request /\ q = requests[n + 1]
      /\ h \in Holdings /\ h = left[r][n + 1] /\ Len(left[r]) = n + 1
      /\ a \in Holdings /\ c \in Seq(Triple)
      /\ taken'[r] = Append(taken[r], c)
      /\ taken'[r] \in Seq(Seq(Triple)) /\ Len(taken'[r]) = n + 1
      /\ taken'[r][n + 1] = c
      /\ \A k \in 1 .. n : taken'[r][k] = taken[r][k]
  BY ServeFacts
<1>2. /\ left'[r] \in Seq(Holdings) /\ Len(left'[r]) = n + 2
      /\ left'[r][n + 2] = a
      /\ \A k \in 1 .. n + 1 : left'[r][k] = left[r][k]
      /\ Now(r)' = a
      /\ cache'[r] = a.cache /\ field'[r] = a.field /\ size'[r] = Len(a.cache)
      /\ waiting'[r] = FALSE
  BY ServeFacts
<1>3. requests' = requests /\ posted' = posted /\ Len(posted[r]) = a.gens
  BY DEF Serve
<1>4. /\ h.cache = cache[r] /\ h.gens <= n /\ h.gens \in Nat /\ a.gens \in Nat
      /\ a.gens = IF Needs(h, q) THEN h.gens + 1 ELSE h.gens
  BY <1>0, <1>1, ServedFacts, HoldingFacts DEF PhaseAt
<1>5. h.gens <= a.gens /\ a.gens <= n + 1
  BY <1>1, <1>4
<1>6. PhaseAt(r)'
  <2>1. Len(left'[r]) = Len(taken'[r]) + 1
    BY <1>1, <1>2
  <2> HIDE DEF n, q, h, a, c, p
  <2> QED
    BY <1>1, <1>2, <1>3, <1>5, <2>1 DEF PhaseAt
<1>7. HistoryAt(r)'
  <2> SUFFICES ASSUME NEW k \in 1 .. n + 1
               PROVE  /\ taken'[r][k] = Given(r, left'[r][k], requests[k])
                      /\ left'[r][k + 1] = After(r, left'[r][k], requests[k])
    BY <1>1, <1>3 DEF HistoryAt
  <2>1. CASE k = n + 1
    <3>1. k + 1 = n + 2 /\ left'[r][k] = h /\ requests[k] = q
      BY SMTT(30), <1>1, <1>2, <2>1
    <3> QED
      BY <1>1, <1>2, <2>1, <3>1
  <2>2. CASE k \in 1 .. n
    <3>1. k \in 1 .. n + 1 /\ k + 1 \in 1 .. n + 1
      BY <1>1, <2>2
    <3>2. left'[r][k] = left[r][k] /\ left'[r][k + 1] = left[r][k + 1] /\ taken'[r][k] = taken[r][k]
      BY <1>1, <1>2, <2>2, <3>1
    <3> QED
      BY <1>0, <2>2, <3>2 DEF HistoryAt
  <2> QED
    BY <1>1, <2>1, <2>2
<1>8. GensAt(r)'
  <2> HIDE DEF n, q, h, a, c, p
  <2> SUFFICES ASSUME NEW i \in 1 .. n + 2, NEW j \in 1 .. n + 2, i <= j
               PROVE  left'[r][i].gens <= left'[r][j].gens
    BY <1>2 DEF GensAt
  <2>1. \A k \in 1 .. n + 1 : left[r][k].gens \in Nat /\ left[r][k].gens <= h.gens
    <3>1. \A k \in 1 .. n + 1 : left[r][k] \in Holdings
      BY <1>0, <1>1, ElementOfSeq DEF TypeInv
    <3>2. n + 1 \in 1 .. n + 1
      BY <1>1
    <3>3. \A k \in 1 .. n + 1 : k <= n + 1
      BY <1>1
    <3> QED
      BY <1>0, <1>1, <3>1, <3>2, <3>3, HoldingFacts DEF GensAt
  <2>2. CASE j \in 1 .. n + 1
    <3>1. i \in 1 .. n + 1
      BY <1>1, <2>2
    <3> QED
      BY <1>0, <1>1, <1>2, <2>2, <3>1 DEF GensAt
  <2>3. CASE j = n + 2 /\ i \in 1 .. n + 1
    <3>1. left'[r][i] = left[r][i] /\ left'[r][j] = a
      BY <1>2, <2>3
    <3>2. left[r][i].gens \in Nat /\ left[r][i].gens <= h.gens
      BY <2>1, <2>3
    <3>3. left[r][i].gens <= a.gens
      BY <1>4, <1>5, <3>2
    <3> QED
      BY <3>1, <3>3
  <2>4. CASE j = n + 2 /\ i = n + 2
    BY <1>2, <1>4, <2>4
  <2> QED
    BY <1>1, <2>2, <2>3, <2>4
<1>9. PostedAt(r)'
  <2>1. \A k \in 1 .. Len(left[r]) : k \in 1 .. Len(left'[r]) /\ left'[r][k] = left[r][k]
    <3>1. n \in Nat /\ Len(left[r]) = n + 1 /\ Len(left'[r]) = n + 2
      BY <1>1, <1>2
    <3>2. \A k \in 1 .. n + 1 : left'[r][k] = left[r][k]
      BY <1>2
    <3> HIDE DEF n
    <3>3. \A k \in 1 .. n + 1 : k \in 1 .. n + 2
      BY <3>1
    <3> QED
      BY <3>1, <3>2, <3>3
  <2> SUFFICES ASSUME NEW g \in 1 .. Len(posted'[r])
               PROVE  \E k \in 1 .. Len(left'[r]) :
                        /\ k <= Len(requests')
                        /\ left'[r][k].gens + 1 = g
                        /\ Needs(left'[r][k], requests'[k])
                        /\ posted'[r][g] = Posting(requests'[k])
    BY DEF PostedAt, Needs, Posting
  <2>2. PICK k \in 1 .. Len(left[r]) :
          /\ k <= Len(requests)
          /\ left[r][k].gens + 1 = g
          /\ Needs(left[r][k], requests[k])
          /\ posted[r][g] = Posting(requests[k])
    BY <1>0, <1>3 DEF PostedAt
  <2> QED
    BY <1>3, <2>1, <2>2
<1>10. BoundAt(r)'
  BY <1>0, <1>1, <1>2, <1>4, BoundKept DEF BoundAt
<1>11. FreshAt(r)'
  <2> DEFINE s == taken[r]
  <2>1. /\ s \in Seq(Seq(Triple)) /\ Len(s) \in Nat
        /\ \A k \in 1 .. Len(s) : s[k] \in Seq(Triple)
    BY <1>0, <1>1, ElementOfSeq DEF TypeInv
  <2>2. /\ Distinct(h.cache) /\ UpTo(h.cache, h.gens) /\ Unused(h.cache, s) /\ GivenOnce(s)
        /\ \A k \in 1 .. Len(s) : UpTo(s[k], h.gens)
    BY <1>0, <1>4 DEF FreshAt
  <2>3. \A k \in 1 .. Len(s) : Len(s[k]) \in Nat /\ \A i \in 1 .. Len(s[k]) : s[k][i].gen \in Nat
    <3>1. \A k \in 1 .. Len(s) : \A i \in 1 .. Len(s[k]) : s[k][i] \in Triple
      BY <2>1, ElementOfSeq
    <3> QED
      BY <2>1, <3>1, LenProperties DEF Triple
  <2>4. Distinct(p) /\ UpTo(p, a.gens) /\ Unused(p, s)
    BY <1>1, <2>1, <2>2, <2>3, PoolFresh
  <2>5. /\ p \in Seq(Triple) /\ q.numel \in Nat /\ Len(p) - q.numel \in Nat /\ Len(p) \in Nat
        /\ IsPart(c, p, 0, q.numel) /\ IsPart(a.cache, p, q.numel, Len(p) - q.numel)
    BY <1>1, PoolFacts, ServedFacts, RequestFacts, LenProperties
  <2>6. q.numel + (Len(p) - q.numel) = Len(p)
    BY <2>5
  <2> HIDE DEF p, c, a, h, q, s
  <2>7. /\ UpTo(c, a.gens) /\ UpTo(a.cache, a.gens) /\ Distinct(a.cache)
        /\ Unused(a.cache, Append(s, c)) /\ GivenOnce(Append(s, c))
    BY <2>1, <2>2, <2>4, <2>5, <2>6, CutFresh
  <2>8. \A k \in 1 .. Len(s) : UpTo(s[k], a.gens)
    BY <1>4, <1>5, <2>2, <2>3 DEF UpTo
  <2>9. \A k \in 1 .. n + 1 : UpTo(taken'[r][k], a.gens)
    <3> TAKE k \in 1 .. n + 1
    <3>1. k \in 1 .. n \/ k = n + 1
      BY <1>1
    <3> QED
      BY <1>1, <2>7, <2>8, <3>1 DEF s
  <2> QED
    BY <1>1, <1>2, <2>7, <2>9 DEF FreshAt, s
<1> QED
  BY <1>6, <1>7, <1>8, <1>9, <1>10, <1>11 DEF RankInv

\* The holdings of r at its new request mirror those of the other rank, when
\* that has been there already: both are made of holdings that mirror.
LEMMA ServeMirror ==
  ASSUME IInv, NEW r \in Rank, Serve(r)
  PROVE  MirrorInv'
<1> DEFINE n == Len(taken[r])
           t == 1 - r
           h == Now(r)
           q == Current(r)
           a == After(r, h, q)
<1>0. TypeInv /\ t \in Rank /\ t # r /\ PhaseAt(t) /\ HistoryAt(t) /\ MirrorInv
  BY DEF IInv, RankInv, Rank
<1>1. /\ n \in Nat /\ q \in Request /\ q = requests[n + 1]
      /\ h \in Holdings /\ h = left[r][n + 1] /\ Len(left[r]) = n + 1
      /\ a \in Holdings
      /\ Len(left'[r]) = n + 2
      /\ left'[r][n + 2] = a
      /\ \A k \in 1 .. n + 1 : left'[r][k] = left[r][k]
  BY ServeFacts
<1>2. left'[t] = left[t] /\ left[t] \in Seq(Holdings) /\ Len(left[t]) \in Nat
      /\ Len(taken[t]) \in Nat /\ Len(left[t]) = Len(taken[t]) + 1
  BY <1>0, LenProperties DEF Serve, TypeInv, PhaseAt
<1>3. n + 2 <= Len(left[t]) =>
        /\ left[t][n + 2] = After(t, left[t][n + 1], q)
        /\ left[t][n + 1] \in Holdings
        /\ n + 1 \in 1 .. Len(left[t]) /\ n + 1 \in 1 .. Len(left[r])
  <2> SUFFICES ASSUME n + 2 <= Len(left[t])
               PROVE  /\ left[t][n + 2] = After(t, left[t][n + 1], q)
                      /\ left[t][n + 1] \in Holdings
                      /\ n + 1 \in 1 .. Len(left[t]) /\ n + 1 \in 1 .. Len(left[r])
    OBVIOUS
  <2>1. n + 1 \in 1 .. Len(taken[t]) /\ (n + 1) + 1 = n + 2
    BY <1>1, <1>2
  <2>2. left[t][(n + 1) + 1] = After(t, left[t][n + 1], requests[n + 1])
    BY <1>0, <2>1 DEF HistoryAt
  <2>3. n + 1 \in 1 .. Len(left[t]) /\ n + 1 \in 1 .. Len(left[r])
    BY <1>1, <1>2
  <2> QED
    BY <1>1, <1>2, <2>1, <2>2, <2>3, ElementOfSeq
<1> HIDE DEF n, q, h, a
<1>4. CASE r = 0
  <2>1. t = 1
    BY <1>4
  <2> SUFFICES ASSUME NEW k \in 1 .. n + 2, k <= Len(left[1])
               PROVE  Mirror(left'[0][k], left[1][k])
    BY <1>1, <1>2, <1>4, <2>1 DEF MirrorInv
  <2>2. CASE k \in 1 .. n + 1
    BY <1>0, <1>1, <1>4, <2>2 DEF MirrorInv
  <2>3. CASE k = n + 2
    <3>1. Mirror(h, left[1][n + 1])
      BY <1>0, <1>1, <1>3, <1>4, <2>1, <2>3 DEF MirrorInv
    <3>2. Mirror(After(0, h, q), After(1, left[1][n + 1], q))
      BY <1>1, <1>3, <2>1, <2>3, <3>1, ServedMirror
    <3> QED
      BY <1>1, <1>3, <1>4, <2>1, <2>3, <3>2 DEF a
  <2> QED
    BY <1>1, <2>2, <2>3
<1>5. CASE r = 1
  <2>1. t = 0
    BY <1>5
  <2> SUFFICES ASSUME NEW k \in 1 .. Len(left[0]), k <= n + 2
               PROVE  Mirror(left[0][k], left'[1][k])
    BY <1>1, <1>2, <1>5, <2>1 DEF MirrorInv
  <2>2. CASE k \in 1 .. n + 1
    BY <1>0, <1>1, <1>5, <2>2 DEF MirrorInv
  <2>3. CASE k = n + 2
    <3>1. Mirror(left[0][n + 1], h)
      BY <1>0, <1>1, <1>2, <1>3, <1>5, <2>1, <2>3 DEF MirrorInv
    <3>2. Mirror(After(0, left[0][n + 1], q), After(1, h, q))
      BY <1>1, <1>2, <1>3, <2>1, <2>3, <3>1, ServedMirror
    <3> QED
      BY <1>1, <1>2, <1>3, <1>5, <2>1, <2>3, <3>2 DEF a
  <2> QED
    BY <1>1, <1>2, <2>2, <2>3
<1> QED
  BY <1>4, <1>5 DEF Rank

LEMMA ServeStep ==
  ASSUME IInv, NEW r \in Rank, Serve(r)
  PROVE  IInv'
<1>0. TypeInv
  BY DEF IInv
<1>1. /\ taken' = [taken EXCEPT ![r] = taken'[r]] /\ taken'[r] \in Seq(Seq(Triple))
      /\ cache' = [cache EXCEPT ![r] = cache'[r]] /\ cache'[r] \in Seq(Triple)
      /\ field' = [field EXCEPT ![r] = field'[r]] /\ field'[r] \in Field \cup {NoField}
      /\ size' = [size EXCEPT ![r] = size'[r]] /\ size'[r] \in Nat
      /\ waiting' = [waiting EXCEPT ![r] = FALSE]
      /\ left' = [left EXCEPT ![r] = left'[r]] /\ left'[r] \in Seq(Holdings)
      /\ UNCHANGED <<requests, posted>>
  <2>1. After(r, Now(r), Current(r)) \in Holdings
    BY ServeFacts
  <2>2. /\ cache'[r] \in Seq(Triple) /\ field'[r] \in Field \cup {NoField} /\ size'[r] \in Nat
        /\ taken'[r] \in Seq(Seq(Triple)) /\ left'[r] \in Seq(Holdings)
    BY <2>1, ServeFacts, HoldingFacts
  <2>3. /\ taken' = [taken EXCEPT ![r] = taken'[r]]
        /\ cache' = [cache EXCEPT ![r] = cache'[r]]
        /\ field' = [field EXCEPT ![r] = field'[r]]
        /\ size' = [size EXCEPT ![r] = size'[r]]
        /\ left' = [left EXCEPT ![r] = left'[r]]
    BY <1>0 DEF Serve, TypeInv
  <2> QED
    BY <2>2, <2>3 DEF Serve
<1>2. TypeInv'
  BY <1>0, <1>1 DEF TypeInv
<1>3. ASSUME NEW t \in Rank
      PROVE  RankInv(t)'
  <2>1. CASE t = r
    BY <2>1, ServeOwn
  <2>2. CASE t # r
    <3>1. Len(requests) \in Nat /\ requests' = requests /\ RankInv(t)
      BY <1>0, <1>1, LenProperties DEF TypeInv, IInv
    <3>2. /\ taken'[t] = taken[t] /\ waiting'[t] = waiting[t] /\ posted'[t] = posted[t]
          /\ field'[t] = field[t] /\ size'[t] = size[t] /\ cache'[t] = cache[t] /\ left'[t] = left[t]
      BY <1>0, <1>1, <2>2 DEF TypeInv
    <3> QED
      BY <1>0, <3>1, <3>2, Undisturbed
  <2> QED
    BY <2>1, <2>2
<1> QED
  BY <1>2, <1>3, ServeMirror DEF IInv

-----------------------------------------------------------------------------
(* The invariant, and what follows from it.                                *)

LEMMA NextStep == IInv /\ [Next]_vars => IInv'
<1> SUFFICES ASSUME IInv, [Next]_vars
             PROVE  IInv'
  OBVIOUS
<1>1. ASSUME NEW r \in Rank, Ask(r)
      PROVE  IInv'
  BY <1>1, AskStep
<1>2. ASSUME NEW r \in Rank, TakeCached(r)
      PROVE  IInv'
  BY <1>2, TakeCachedServes, ServeStep
<1>3. ASSUME NEW r \in Rank, EnterOle(r)
      PROVE  IInv'
  BY <1>3, EnterOleStep
<1>4. ASSUME NEW r \in Rank, LeaveOle(r)
      PROVE  IInv'
  BY <1>4, LeaveOleServes, ServeStep
<1>5. CASE Done \/ UNCHANGED vars
  BY <1>5, StutterStep DEF Done
<1> QED
  BY <1>1, <1>2, <1>3, <1>4, <1>5 DEF Next, Step

\* In every state the ranks' histories are what the program makes of an empty
\* cache, and mirror each other as far as both have got.
THEOREM Invariance == Spec => []IInv
<1>1. Init => IInv
  BY InitStep
<1> QED
  BY <1>1, NextStep, PTL DEF Spec

LEMMA SizeFacts ==
  ASSUME IInv, NEW r \in Rank
  PROVE  /\ size[r] \in Nat /\ Len(cache[r]) \in Nat /\ size[r] <= Len(cache[r])
         /\ Len(cache[r]) < NumBeaver(MaxNumel) /\ NumBeaver(MaxNumel) \in Nat
<1>0. TypeInv /\ PhaseAt(r) /\ BoundAt(r)
  BY DEF IInv, RankInv
<1>1. size[r] \in Nat /\ Len(cache[r]) \in Nat /\ waiting[r] \in BOOLEAN
  BY <1>0, LenProperties DEF TypeInv
<1>2. ASSUME ~waiting[r] PROVE size[r] <= Len(cache[r])
  <2>1. size[r] = Len(cache[r])
    BY <1>0, <1>2 DEF PhaseAt
  <2> QED
    BY <1>1, <2>1
<1>3. ASSUME waiting[r] PROVE size[r] <= Len(cache[r])
  <2>1. /\ Len(taken[r]) < Len(requests)
        /\ size[r] = Valid(Now(r), Current(r)) /\ Now(r).cache = cache[r]
    BY <1>0, <1>3 DEF PhaseAt
  <2>2. Now(r) \in Holdings
    BY <2>1, AtRequest
  <2>3. Valid(Now(r), Current(r)) <= Len(Now(r).cache)
    BY <2>2, HoldingFacts
  <2> QED
    BY <2>1, <2>3
<1>4. size[r] <= Len(cache[r])
  BY <1>1, <1>2, <1>3
<1>5. MaxNumel \in 1 .. MaxNumel
  BY ConstantFacts
<1> QED
  BY <1>0, <1>1, <1>4, <1>5, NumBeaverFacts DEF BoundAt

\* A rank is never ahead of the program, never posts more OLEs than there are
\* kernels, and its cache has what cached_sze_ says it has.
THEOREM TypeCorrect == Spec => []TypeOK
<1>1. IInv => TypeOK
  <2> SUFFICES ASSUME IInv, NEW r \in Rank
               PROVE  /\ requests \in Seq(Request)
                      /\ Len(taken[r]) <= Len(requests)
                      /\ Len(posted[r]) <= Len(requests)
                      /\ field[r] \in Field \cup {NoField}
                      /\ waiting[r] \in BOOLEAN
                      /\ size[r] \in 0 .. Len(cache[r])
    <3>1. Rank # {}
      BY DEF Rank
    <3> QED
      BY <3>1 DEF TypeOK
  <2>0. TypeInv /\ PhaseAt(r)
    BY DEF IInv, RankInv
  <2>1. /\ requests \in Seq(Request) /\ field[r] \in Field \cup {NoField}
        /\ waiting[r] \in BOOLEAN
        /\ Len(taken[r]) \in Nat /\ Len(requests) \in Nat /\ Len(left[r]) \in Nat
        /\ left[r] \in Seq(Holdings)
    BY <2>0, LenProperties DEF TypeInv
  <2>2. Now(r) \in Holdings
    <3>1. Len(taken[r]) + 1 \in 1 .. Len(left[r])
      BY <2>0, <2>1 DEF PhaseAt
    <3> QED
      BY <2>1, <3>1, ElementOfSeq DEF Now
  <2>3. Now(r).gens \in Nat
    BY <2>2, HoldingFacts
  <2>4. Len(posted[r]) <= Len(requests)
    BY <2>0, <2>1, <2>3 DEF PhaseAt
  <2>5. size[r] \in 0 .. Len(cache[r])
    BY SizeFacts
  <2> QED
    BY <2>0, <2>1, <2>4, <2>5 DEF PhaseAt
<1> QED
  BY <1>1, Invariance, PTL

\* What a rank got for a request it has served.
LEMMA ServedAt ==
  ASSUME IInv, NEW r \in Rank, NEW k \in 1 .. Len(taken[r])
  PROVE  /\ requests[k] \in Request /\ left[r][k] \in Holdings
         /\ taken[r][k] = Given(r, left[r][k], requests[k])
         /\ left[r][k + 1] = After(r, left[r][k], requests[k])
         /\ Len(taken[r][k]) = requests[k].numel
         /\ k \in 1 .. Len(left[r])
<1>0. TypeInv /\ PhaseAt(r) /\ HistoryAt(r)
  BY DEF IInv, RankInv
<1>1. Len(taken[r]) \in Nat /\ Len(requests) \in Nat /\ Len(left[r]) \in Nat
  BY <1>0, LenProperties DEF TypeInv
<1>2. k \in 1 .. Len(requests) /\ k \in 1 .. Len(left[r])
  BY <1>0, <1>1 DEF PhaseAt
<1>3. requests[k] \in Request /\ left[r][k] \in Holdings
  BY <1>0, <1>2, ElementOfSeq DEF TypeInv
<1>4. /\ taken[r][k] = Given(r, left[r][k], requests[k])
      /\ left[r][k + 1] = After(r, left[r][k], requests[k])
  BY <1>0 DEF HistoryAt
<1>5. Len(taken[r][k]) = requests[k].numel
  BY <1>3, <1>4, ServedFacts DEF IsPart
<1> QED
  BY <1>2, <1>3, <1>4, <1>5

\* The two ranks are given shares of the same triples for the same kernel, in
\* its ring and as many as it asked for, though their caches are never compared
\* and a rank may be ahead of the other one.
THEOREM SharesMatch == Spec => []TriplesMatch
<1>1. IInv => TriplesMatch
  <2> SUFFICES ASSUME IInv, NEW k \in 1 .. Len(requests), NEW r \in Rank, Len(taken[r]) >= k
               PROVE  /\ Len(taken[r][k]) = requests[k].numel
                      /\ Len(taken[1 - r]) >= k =>
                           \A j \in 1 .. requests[k].numel :
                             IsTriple(taken[0][k][j], taken[1][k][j], requests[k].field)
    BY DEF TriplesMatch
  <2>0. TypeInv /\ MirrorInv /\ 0 \in Rank /\ 1 \in Rank
    BY DEF IInv, Rank
  <2>1. \A t \in Rank : Len(taken[t]) \in Nat
    BY <2>0, LenProperties DEF TypeInv
  <2>2. Len(requests) \in Nat
    BY <2>0, LenProperties DEF TypeInv
  <2>3. k \in 1 .. Len(taken[r])
    BY <2>1, <2>2
  <2>4. Len(taken[r][k]) = requests[k].numel
    BY <2>3, ServedAt
  <2>5. ASSUME Len(taken[1 - r]) >= k
        PROVE  \A j \in 1 .. requests[k].numel :
                 IsTriple(taken[0][k][j], taken[1][k][j], requests[k].field)
    <3>1. k \in 1 .. Len(taken[0]) /\ k \in 1 .. Len(taken[1])
      BY <2>0, <2>1, <2>2, <2>3, <2>5 DEF Rank
    <3>2. /\ requests[k] \in Request /\ left[0][k] \in Holdings /\ left[1][k] \in Holdings
          /\ taken[0][k] = Given(0, left[0][k], requests[k])
          /\ taken[1][k] = Given(1, left[1][k], requests[k])
          /\ Len(taken[0][k]) = requests[k].numel
          /\ k \in 1 .. Len(left[0]) /\ k <= Len(left[1])
      BY <2>0, <3>1, ServedAt
    <3>3. Mirror(left[0][k], left[1][k])
      BY <2>0, <3>2 DEF MirrorInv
    <3>4. Triples(taken[0][k], taken[1][k], requests[k].field)
      BY <3>2, <3>3, ServedMirror
    <3> QED
      BY <3>2, <3>4 DEF Triples
  <2> QED
    BY <2>4, <2>5
<1> QED
  BY <1>1, Invariance, PTL

\* No pair of masks serves two multiplications, and none that was given out is
\* still in the valid part of the cache.
THEOREM MasksUsedOnce == Spec => []TriplesFresh
<1>1. IInv => TriplesFresh
  <2> SUFFICES ASSUME IInv, NEW r \in Rank
               PROVE  /\ GivenOnce(taken[r])
                      /\ \A i, j \in 1 .. size[r] :
                           Masks(cache[r][i]) = Masks(cache[r][j]) => i = j
                      /\ \A k \in 1 .. Len(taken[r]), j \in 1 .. size[r] :
                           \A i \in 1 .. Len(taken[r][k]) :
                             Masks(taken[r][k][i]) # Masks(cache[r][j])
    BY DEF TriplesFresh, GivenOnce, Masks
  <2>1. Distinct(cache[r]) /\ Unused(cache[r], taken[r]) /\ GivenOnce(taken[r])
    BY DEF IInv, RankInv, FreshAt
  <2>2. \A j \in 1 .. size[r] : j \in 1 .. Len(cache[r])
    BY SizeFacts
  <2> QED
    BY <2>1, <2>2 DEF Distinct, Unused
<1> QED
  BY <1>1, Invariance, PTL

\* When one rank needed an OLE for a request, the other one has counted it by
\* any later request.
LEMMA NoLaterPost ==
  ASSUME IInv, NEW r \in Rank, NEW k \in 1 .. Len(left[r]),
         NEW l \in 1 .. Len(left[1 - r]), k < l,
         Needs(left[r][k], requests[k])
  PROVE  left[r][k].gens + 1 <= left[1 - r][l].gens
<1> DEFINE t == 1 - r
           h == left[r][k]
           i == left[t][k]
<1>0. TypeInv /\ t \in Rank /\ PhaseAt(t) /\ GensAt(t) /\ MirrorInv
  BY DEF IInv, RankInv, Rank
<1>1. Len(left[t]) \in Nat /\ Len(taken[t]) \in Nat /\ Len(left[r]) \in Nat
  BY <1>0, LenProperties DEF TypeInv
<1>2. k \in 1 .. Len(taken[t]) /\ k + 1 \in 1 .. Len(left[t]) /\ k + 1 <= l /\ k \in 1 .. Len(left[t])
  BY <1>0, <1>1 DEF PhaseAt
<1>3. /\ i \in Holdings /\ requests[k] \in Request
      /\ left[t][k + 1] = After(t, i, requests[k])
  BY <1>0, <1>2, ServedAt
<1>4. Mirror(h, i) \/ Mirror(i, h)
  <2>1. k <= Len(left[r]) /\ k <= Len(left[t])
    BY <1>1, <1>2
  <2> QED
    BY <1>0, <1>2, <2>1 DEF MirrorInv, Rank
<1>5. h.gens = i.gens /\ (Needs(h, requests[k]) <=> Needs(i, requests[k]))
  BY <1>4 DEF Mirror, Triples, Needs, Valid
<1>6. After(t, i, requests[k]).gens = i.gens + 1
  BY <1>0, <1>3, <1>5, ServedFacts
<1>7. left[t][k + 1].gens <= left[t][l].gens
  BY <1>0, <1>2 DEF GensAt
<1> QED
  BY <1>3, <1>5, <1>6, <1>7

\* The g-th OLE that the ranks enter is for the same kernel at both, so they
\* exchange ciphertexts of the same number and ring.
THEOREM PostsAgree == Spec => []OlesAgree
<1>1. IInv => OlesAgree
  <2> SUFFICES ASSUME IInv, NEW g \in 1 .. Len(posted[0]), g <= Len(posted[1])
               PROVE  posted[0][g] = posted[1][g]
    BY DEF OlesAgree
  <2>0. TypeInv /\ 0 \in Rank /\ 1 \in Rank /\ PostedAt(0) /\ PostedAt(1)
    BY DEF IInv, RankInv, Rank
  <2>1. Len(posted[0]) \in Nat /\ Len(posted[1]) \in Nat /\ 1 - 0 = 1 /\ 1 - 1 = 0
    BY <2>0, LenProperties DEF TypeInv
  <2>2. PICK k \in 1 .. Len(left[0]) :
          /\ left[0][k].gens + 1 = g /\ Needs(left[0][k], requests[k])
          /\ posted[0][g] = Posting(requests[k])
    BY <2>0 DEF PostedAt
  <2>3. g \in 1 .. Len(posted[1])
    BY <2>1
  <2>4. PICK l \in 1 .. Len(left[1]) :
          /\ left[1][l].gens + 1 = g /\ Needs(left[1][l], requests[l])
          /\ posted[1][g] = Posting(requests[l])
    BY <2>0, <2>3 DEF PostedAt
  <2>5. left[0][k].gens \in Nat /\ left[1][l].gens \in Nat
    <3>1. left[0][k] \in Holdings /\ left[1][l] \in Holdings
      BY <2>0, ElementOfSeq DEF TypeInv
    <3> QED
      BY <3>1, HoldingFacts
  <2>6. ~(k < l)
    <3> SUFFICES ASSUME k < l PROVE FALSE
      OBVIOUS
    <3>1. left[0][k].gens + 1 <= left[1][l].gens
      BY <2>0, <2>1, <2>2, NoLaterPost
    <3> QED
      BY <2>2, <2>4, <2>5, <3>1
  <2>7. ~(l < k)
    <3> SUFFICES ASSUME l < k PROVE FALSE
      OBVIOUS
    <3>1. left[1][l].gens + 1 <= left[0][k].gens
      BY <2>0, <2>1, <2>4, NoLaterPost
    <3> QED
      BY <2>2, <2>4, <2>5, <3>1
  <2>8. k = l
    BY <2>6, <2>7
  <2> QED
    BY <2>2, <2>4, <2>8
<1> QED
  BY <1>1, Invariance, PTL

\* However long the program runs, cached_sze_ is the length of the arrays
\* between two requests, and less than one longest OLE's worth.
THEOREM CacheStaysBounded == Spec => []CacheBounded
<1>1. IInv => CacheBounded
  <2> SUFFICES ASSUME IInv, NEW r \in Rank
               PROVE  /\ ~waiting[r] => size[r] = Len(cache[r])
                      /\ size[r] < NumBeaver(MaxNumel)
    BY DEF CacheBounded
  <2>1. PhaseAt(r)
    BY DEF IInv, RankInv
  <2> QED
    BY <2>1, SizeFacts DEF PhaseAt
<1> QED
  BY <1>1, Invariance, PTL

=============================================================================
