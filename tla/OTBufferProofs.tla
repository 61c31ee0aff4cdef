--------------------------- MODULE OTBufferProofs ---------------------------
(***************************************************************************)
(* Proofs about OTBuffer: for every size of an extension, of the reserve   *)
(* and of the requests, rcot stays within its arrays and every correlation *)
(* is consumed once.                                                       *)
(***************************************************************************)
EXTENDS OTBuffer, SequenceTheorems, TLAPS

-----------------------------------------------------------------------------
(* The inductive invariant.                                                *)

\* Where a call can be.
PhaseInv ==
  /\ busy => pc \in {"setup", "loop", "bootstrap", "again"} /\ ext >= 1
  /\ inplace => pc = "loop"
  /\ pc \in {"setup", "idle"} => off = 0
  /\ pc = "loop" /\ busy => need >= N
  /\ pc = "bootstrap" => need < N

\* Everything comes from an extension that has ended.
OldAt(v, e, b) == v[1] <= e /\ (b => v[1] < e)

Old(v) == OldAt(v, ext, busy)

GenInv ==
  /\ \A i \in 1 .. N : Old(buf[i])
  /\ \A i \in 1 .. off : Old(data[i])
  /\ \A i \in 1 .. Reserve : inplace => Old(data[off + i])
  /\ \A a \in 1 .. Len(spent) : \A i \in DOMAIN spent[a] : Old(spent[a][i])

NotIn(v, s) ==
  /\ v # Unset
  /\ \A a \in 1 .. Len(s) : \A i \in DOMAIN s[a] : s[a][i] # v

NotSpent(v) == NotIn(v, spent)

\* What the current call has so far.
DataInv ==
  \A i \in 1 .. off :
    /\ NotSpent(data[i])
    /\ \A j \in 1 .. off : data[i] = data[j] => i = j

\* The rest of the buffer, unless a Bootstrap is to overwrite it.
Rest == IF pc \in {"setup", "bootstrap", "again"} THEN {} ELSE used + 1 .. upper

RestInv ==
  \A i \in Rest :
    /\ NotSpent(buf[i])
    /\ \A j \in Rest : buf[i] = buf[j] => i = j
    /\ \A j \in 1 .. off : buf[i] # data[j]

\* The seeds of the next extension.
HasSeeds == pc # "setup" /\ ~busy
NextSeed(i) == IF inplace THEN data[off + i] ELSE buf[i]

SeedInv ==
  HasSeeds =>
    \A i \in 1 .. Reserve :
      /\ NotSpent(NextSeed(i))
      /\ \A j \in 1 .. Reserve : NextSeed(i) = NextSeed(j) => i = j
      /\ \A j \in 1 .. off : NextSeed(i) # data[j]
      /\ \A j \in Rest : NextSeed(i) # buf[j]

IInv ==
  /\ TypeOK /\ BufferInBounds /\ OTsFresh
  /\ PhaseInv /\ GenInv /\ DataInv /\ RestInv /\ SeedInv

-----------------------------------------------------------------------------
(* Arrays.                                                                 *)

LEMMA ConstantFacts == N \in Nat /\ PreN \in Nat /\ Reserve \in Nat /\ Reserve >= 1
                /\ Reserve <= PreN /\ PreN <= N /\ 2 * Reserve <= N
                /\ Sizes \subseteq Nat
BY BufferAssumption DEF BufferAssumption

\* Array a holds correlations at the n positions behind i.
Holds(a, i, n) == \A k \in 1 .. n : a[i + k] \in OT

LEMMA SliceFacts ==
  ASSUME NEW a, NEW i \in Nat, NEW n \in Nat, Holds(a, i, n)
  PROVE  /\ Slice(a, i, n) \in Seq(OT)
         /\ Len(Slice(a, i, n)) = n
         /\ DOMAIN Slice(a, i, n) = 1 .. n
         /\ \A k \in 1 .. n : Slice(a, i, n)[k] = a[i + k]
BY DEF Slice, Holds

\* Array c is the first o entries of d and the n entries of a behind i.
IsCopy(c, d, o, a, i, n) ==
  /\ c \in Seq(OT) /\ Len(c) = o + n
  /\ \A k \in 1 .. o : c[k] = d[k]
  /\ \A k \in 1 .. n : c[o + k] = a[i + k]

LEMMA CopiedFacts ==
  ASSUME NEW d, NEW o \in Nat, NEW a, NEW i \in Nat, NEW n \in Nat,
         Holds(d, 0, o), Holds(a, i, n)
  PROVE  IsCopy(Copied(d, o, a, i, n), d, o, a, i, n)
<1> DEFINE c == [k \in 1 .. o + n |-> IF k <= o THEN d[k] ELSE a[i + (k - o)]]
<1>1. o + n \in Nat
  OBVIOUS
<1>2. \A k \in 1 .. o + n : (IF k <= o THEN d[k] ELSE a[i + (k - o)]) \in OT
  <2> SUFFICES ASSUME NEW k \in 1 .. o + n
               PROVE  (IF k <= o THEN d[k] ELSE a[i + (k - o)]) \in OT
    OBVIOUS
  <2>1. CASE k <= o
    <3>1. k \in 1 .. o /\ 0 + k = k
      BY <2>1
    <3> QED
      BY <2>1, <3>1 DEF Holds
  <2>2. CASE ~(k <= o)
    <3>1. k - o \in 1 .. n
      BY <2>2
    <3> QED
      BY <2>2, <3>1 DEF Holds
  <2> QED
    BY <2>1, <2>2
<1>3. c \in Seq(OT) /\ Len(c) = o + n
  BY <1>1, <1>2
<1>4. \A k \in 1 .. o : c[k] = d[k]
  OBVIOUS
<1>5. \A k \in 1 .. n : c[o + k] = a[i + k]
  <2> SUFFICES ASSUME NEW k \in 1 .. n
               PROVE  c[o + k] = a[i + k]
    OBVIOUS
  <2>1. o + k \in 1 .. o + n /\ ~(o + k <= o) /\ (o + k) - o = k
    OBVIOUS
  <2> QED
    BY <2>1
<1> QED
  BY <1>3, <1>4, <1>5 DEF Copied, IsCopy

LEMMA BatchFacts ==
  ASSUME NEW g \in Nat, NEW n \in Nat, n <= N
  PROVE  /\ Batch(g, n) \in [1 .. N -> OT]
         /\ \A i \in 1 .. n : Batch(g, n)[i] = <<g, i>>
         /\ \A i \in 1 .. N : i > n => Batch(g, n)[i] = Unset
<1>1. \A i \in 1 .. N : (IF i <= n THEN <<g, i>> ELSE Unset) \in OT
  BY ConstantFacts DEF OT, Unset
<1>2. \A i \in 1 .. n : i \in 1 .. N /\ i <= n
  BY ConstantFacts
<1>3. \A i \in 1 .. N : i > n => ~(i <= n)
  BY ConstantFacts
<1> QED
  BY <1>1, <1>2, <1>3 DEF Batch

LEMMA AppendFacts ==
  ASSUME NEW s \in Seq(Seq(OT)), NEW arr \in Seq(OT)
  PROVE  /\ Append(s, arr) \in Seq(Seq(OT))
         /\ Len(Append(s, arr)) = Len(s) + 1
         /\ \A a \in 1 .. Len(s) : Append(s, arr)[a] = s[a]
         /\ Append(s, arr)[Len(s) + 1] = arr
         /\ Len(s) \in Nat
OBVIOUS

-----------------------------------------------------------------------------
(* The history.                                                            *)

Fresh(s) ==
  \A a, b \in 1 .. Len(s) : \A i \in DOMAIN s[a], j \in DOMAIN s[b] :
    /\ s[a][i] # Unset
    /\ s[a][i] = s[b][j] => a = b /\ i = j

\* Consuming correlations that were not consumed before, each once.
LEMMA Consuming ==
  ASSUME NEW s \in Seq(Seq(OT)), NEW arr \in Seq(OT), Fresh(s),
         \A i \in DOMAIN arr : NotIn(arr[i], s),
         \A i, j \in DOMAIN arr : arr[i] = arr[j] => i = j
  PROVE  Fresh(Append(s, arr))
<1> DEFINE t == Append(s, arr)
<1>1. /\ t \in Seq(Seq(OT)) /\ Len(t) = Len(s) + 1 /\ Len(s) \in Nat
      /\ \A a \in 1 .. Len(s) : t[a] = s[a]
      /\ t[Len(s) + 1] = arr
  BY AppendFacts
<1> HIDE DEF t
<1> SUFFICES ASSUME NEW a \in 1 .. Len(t), NEW b \in 1 .. Len(t),
                    NEW i \in DOMAIN t[a], NEW j \in DOMAIN t[b]
             PROVE  /\ t[a][i] # Unset
                    /\ t[a][i] = t[b][j] => a = b /\ i = j
  BY DEF Fresh, t
<1>2. CASE a \in 1 .. Len(s) /\ b \in 1 .. Len(s)
  <2>1. t[a] = s[a] /\ t[b] = s[b]
    BY <1>1, <1>2
  <2>2. i \in DOMAIN s[a] /\ j \in DOMAIN s[b]
    BY <2>1
  <2>3. s[a][i] # Unset /\ (s[a][i] = s[b][j] => a = b /\ i = j)
    BY <1>2, <2>2 DEF Fresh
  <2> QED
    BY <2>1, <2>3
<1>3. CASE a \in 1 .. Len(s) /\ b = Len(s) + 1
  <2>1. t[a] = s[a] /\ t[b] = arr
    BY <1>1, <1>3
  <2>2. s[a][i] # arr[j]
    BY <1>3, <2>1 DEF NotIn
  <2> QED
    BY <1>3, <2>1, <2>2 DEF Fresh
<1>4. CASE a = Len(s) + 1 /\ b \in 1 .. Len(s)
  <2>1. t[a] = arr /\ t[b] = s[b]
    BY <1>1, <1>4
  <2>2. arr[i] # s[b][j] /\ arr[i] # Unset
    BY <1>4, <2>1 DEF NotIn
  <2> QED
    BY <2>1, <2>2
<1>5. CASE a = Len(s) + 1 /\ b = Len(s) + 1
  BY <1>1, <1>5 DEF NotIn
<1> QED
  BY SMTT(30), <1>1, <1>2, <1>3, <1>4, <1>5

\* What is left over is as fresh as before.
LEMMA LeftOver ==
  ASSUME NEW s \in Seq(Seq(OT)), NEW arr \in Seq(OT), NEW v, NotIn(v, s),
         \A i \in DOMAIN arr : arr[i] # v
  PROVE  NotIn(v, Append(s, arr))
<1>1. /\ Len(Append(s, arr)) = Len(s) + 1 /\ Len(s) \in Nat
      /\ \A a \in 1 .. Len(s) : Append(s, arr)[a] = s[a]
      /\ Append(s, arr)[Len(s) + 1] = arr
  BY AppendFacts
<1>2. \A a \in 1 .. Len(s) + 1 : a \in 1 .. Len(s) \/ a = Len(s) + 1
  BY <1>1
<1> QED
  BY <1>1, <1>2 DEF NotIn

\* GenInv, with the types.
LEMMA AllOld ==
  ASSUME IInv
  PROVE  /\ \A k \in 1 .. N : buf[k] \in OT /\ Old(buf[k])
         /\ \A k \in 1 .. off : data[k] \in OT /\ Old(data[k])
         /\ \A a \in 1 .. Len(spent) : \A k \in DOMAIN spent[a] :
               spent[a][k] \in OT /\ Old(spent[a][k])
<1>1. \A k \in 1 .. N : buf[k] \in OT /\ Old(buf[k])
  BY DEF IInv, TypeOK, GenInv
<1>2. \A k \in 1 .. off : data[k] \in OT /\ Old(data[k])
  BY DEF IInv, TypeOK, GenInv
<1>3. \A a \in 1 .. Len(spent) : \A k \in DOMAIN spent[a] :
        spent[a][k] \in OT /\ Old(spent[a][k])
  BY DEF IInv, TypeOK, GenInv
<1> QED
  BY <1>1, <1>2, <1>3

\* The correlations of an extension that has just ended are new.
LEMMA NewBatch ==
  ASSUME IInv, busy, NEW i \in Nat, i >= 1
  PROVE  /\ NotSpent(<<ext, i>>)
         /\ \A k \in 1 .. N : buf[k] # <<ext, i>>
         /\ \A k \in 1 .. off : data[k] # <<ext, i>>
<1>1. ext \in Nat
  BY DEF IInv, TypeOK
<1>2. \A v \in OT : Old(v) => v # <<ext, i>>
  BY <1>1 DEF Old, OldAt, OT
<1>3. <<ext, i>> # Unset
  BY <1>1 DEF Unset
<1> QED
  BY <1>2, <1>3, AllOld DEF NotSpent, NotIn

-----------------------------------------------------------------------------
(* One lemma per action.                                                   *)

LEMMA InitStep == Init => IInv
<1> SUFFICES ASSUME Init PROVE IInv
  OBVIOUS
<1>1. buf \in [1 .. N -> OT] /\ \A i \in 1 .. N : buf[i] = Unset
  BY ConstantFacts, BatchFacts DEF Init
<1>2. TypeOK
  <2>1. <<>> \in Seq(OT) /\ <<>> \in Seq(Seq(OT)) /\ Len(<<>>) = 0
    OBVIOUS
  <2>2. data \in Seq(OT) /\ spent \in Seq(Seq(OT)) /\ off <= Len(data)
    BY <2>1 DEF Init
  <2>3. /\ pc \in {"setup", "idle", "loop", "bootstrap", "again", "return"}
        /\ busy \in BOOLEAN /\ inplace \in BOOLEAN
        /\ need \in Nat /\ off \in Nat /\ ext \in Nat /\ used \in Nat /\ upper \in Nat
    BY DEF Init
  <2> QED
    BY <1>1, <2>2, <2>3 DEF TypeOK
<1>3. GenInv
  BY <1>1, ConstantFacts DEF Init, GenInv, Old, OldAt, Unset
<1> QED
  BY <1>2, <1>3 DEF Init, IInv, BufferInBounds, OTsFresh, PhaseInv, DataInv, RestInv, SeedInv,
     Rest, HasSeeds

LEMMA StartSetupStep == IInv /\ StartSetup => IInv'
<1> SUFFICES ASSUME IInv, StartSetup PROVE IInv'
  OBVIOUS
<1>1. pc = "setup" /\ pc' = pc /\ busy' = TRUE /\ ext' = ext + 1 /\ off = 0 /\ off' = 0
  BY DEF StartSetup, IInv, PhaseInv
<1>2. UNCHANGED <<need, data, inplace, buf, used, upper, spent>>
  BY DEF StartSetup
<1>3. ext \in Nat /\ ~inplace
  BY <1>1 DEF IInv, TypeOK, PhaseInv
<1>4. TypeOK' /\ BufferInBounds' /\ OTsFresh'
  BY <1>1, <1>2, <1>3 DEF IInv, TypeOK, BufferInBounds, OTsFresh
<1>5. PhaseInv' /\ DataInv' /\ RestInv' /\ SeedInv'
  BY <1>1, <1>2, <1>3 DEF PhaseInv, DataInv, RestInv, SeedInv, Rest, HasSeeds
<1>6. \A v \in OT : Old(v) => Old(v)'
  BY <1>1, <1>3 DEF Old, OldAt, OT
<1>7. GenInv'
  <2>1. \A i \in 1 .. N : Old(buf[i])'
    BY <1>2, <1>6, AllOld
  <2>2. \A a \in 1 .. Len(spent) : \A i \in DOMAIN spent[a] : Old(spent[a][i])'
    BY <1>2, <1>6, AllOld
  <2> QED
    BY <1>1, <1>2, <1>3, <2>1, <2>2 DEF GenInv
<1> QED
  BY <1>4, <1>5, <1>7 DEF IInv

LEMMA EndSetupStep == IInv /\ EndSetup => IInv'
<1> SUFFICES ASSUME IInv, EndSetup PROVE IInv'
  OBVIOUS
<1>1. pc = "setup" /\ pc' = "idle" /\ busy /\ busy' = FALSE /\ off = 0 /\ off' = 0
      /\ used' = Reserve /\ upper' = PreN /\ ~inplace /\ inplace' = inplace
  BY DEF EndSetup, IInv, PhaseInv
<1>2. UNCHANGED <<need, data, ext, spent>>
  BY DEF EndSetup
<1>3. ext \in Nat /\ PreN <= N /\ Reserve <= PreN /\ N \in Nat /\ PreN \in Nat /\ Reserve \in Nat
  BY ConstantFacts DEF IInv, TypeOK
<1>4. buf' \in [1 .. N -> OT] /\ \A i \in 1 .. PreN : buf'[i] = <<ext, i>>
  BY <1>3, BatchFacts DEF EndSetup
<1>5. \A i \in 1 .. N : i > PreN => buf'[i] = Unset
  BY <1>3, BatchFacts DEF EndSetup
<1>6. TypeOK' /\ BufferInBounds' /\ OTsFresh' /\ PhaseInv'
  <2>1. TypeOK'
    BY <1>1, <1>2, <1>3, <1>4 DEF IInv, TypeOK
  <2>2. BufferInBounds'
    BY <1>1, <1>2, <1>3 DEF IInv, BufferInBounds
  <2>3. OTsFresh'
    BY <1>2 DEF IInv, OTsFresh
  <2>4. PhaseInv'
    BY <1>1 DEF IInv, PhaseInv
  <2> QED
    BY <2>1, <2>2, <2>3, <2>4
<1>7. \A i \in 1 .. PreN : NotSpent(buf[i])'
  <2> TAKE i \in 1 .. PreN
  <2>1. i \in Nat /\ i >= 1
    BY <1>3
  <2>2. NotSpent(<<ext, i>>)
    BY <1>1, <2>1, NewBatch
  <2> QED
    BY <1>2, <1>4, <2>2 DEF NotSpent
<1>8. \A i, j \in 1 .. PreN : buf'[i] = buf'[j] => i = j
  BY <1>4
<1>9. \A v \in OT : Old(v) => Old(v)'
  BY <1>1, <1>2, <1>3 DEF Old, OldAt, OT
<1>10. \A i \in 1 .. N : Old(buf[i])'
  <2>3. \A i \in 1 .. N : i \in 1 .. PreN \/ i > PreN
    BY <1>3
  <2> TAKE i \in 1 .. N
  <2>4. CASE i \in 1 .. PreN
    BY <1>1, <1>2, <1>3, <1>4, <2>4 DEF Old, OldAt
  <2>5. CASE i > PreN
    BY <1>1, <1>2, <1>3, <1>5, <2>5 DEF Old, OldAt, Unset
  <2> QED
    BY <2>3, <2>4, <2>5
<1>11. GenInv'
  <2>1. \A a \in 1 .. Len(spent) : \A i \in DOMAIN spent[a] : Old(spent[a][i])'
    BY <1>2, <1>9, AllOld
  <2> QED
    BY <1>1, <1>2, <1>10, <2>1 DEF GenInv
<1>12. DataInv'
  BY <1>1 DEF DataInv
<1>13. RestInv'
  <2>1. \A i \in Rest' : i \in 1 .. PreN
    BY <1>1, <1>3 DEF Rest
  <2> QED
    BY <1>1, <1>7, <1>8, <2>1 DEF RestInv
<1>14. SeedInv'
  <2>1. \A i \in 1 .. Reserve : i \in 1 .. PreN /\ NextSeed(i)' = buf'[i]
    BY <1>1, <1>3 DEF NextSeed
  <2>2. \A j \in Rest' : j \in 1 .. PreN /\ j > Reserve
    BY <1>1, <1>3 DEF Rest
  <2>3. \A i \in 1 .. Reserve : \A j \in Rest' : i # j
    BY <1>3, <2>2
  <2> QED
    BY <1>1, <1>7, <1>8, <2>1, <2>2, <2>3 DEF SeedInv, NotSpent
<1> QED
  BY <1>6, <1>11, <1>12, <1>13, <1>14 DEF IInv

\* StartInplace and StartBootstrap: the seeds of the reserve are consumed.
LEMMA StartExtensionStep ==
  ASSUME IInv, pc \in {"loop", "bootstrap", "again"}, pc = "loop" => LongRequest,
         \/ inplace /\ StartExtension(data, off)
         \/ ~inplace /\ StartExtension(buf, 0)
  PROVE  IInv'
<1>1. /\ ~busy /\ busy' = TRUE /\ ext' = ext + 1
      /\ UNCHANGED <<pc, need, off, data, inplace, buf, used, upper>>
  BY DEF StartExtension
<1>2. PICK arr \in Seq(OT) :
        /\ DOMAIN arr = 1 .. Reserve
        /\ \A i \in 1 .. Reserve : arr[i] = NextSeed(i)
        /\ spent' = Append(spent, arr)
  <2>1. CASE inplace
    <3>1. \A k \in 1 .. Reserve : off + k \in 1 .. Len(data)
      BY <2>1, ConstantFacts DEF IInv, TypeOK, BufferInBounds
    <3>2. off \in Nat /\ \A k \in 1 .. Reserve : data[off + k] \in OT
      BY <3>1 DEF IInv, TypeOK
    <3>3. spent' = Append(spent, Slice(data, off, Reserve))
      BY <2>1 DEF StartExtension
    <3>4. /\ Slice(data, off, Reserve) \in Seq(OT)
          /\ DOMAIN Slice(data, off, Reserve) = 1 .. Reserve
          /\ \A k \in 1 .. Reserve : Slice(data, off, Reserve)[k] = data[off + k]
      <4>1. Holds(data, off, Reserve)
        BY <3>2 DEF Holds
      <4> QED
        BY <3>2, <4>1, SliceFacts, ConstantFacts
    <3> QED
      BY <2>1, <3>3, <3>4 DEF NextSeed
  <2>2. CASE ~inplace
    <3>1. \A k \in 1 .. Reserve : 0 + k = k /\ k \in 1 .. N
      BY ConstantFacts
    <3>2. \A k \in 1 .. Reserve : buf[0 + k] \in OT
      BY <3>1 DEF IInv, TypeOK
    <3>3. spent' = Append(spent, Slice(buf, 0, Reserve))
      BY <2>2 DEF StartExtension
    <3>4. /\ Slice(buf, 0, Reserve) \in Seq(OT)
          /\ DOMAIN Slice(buf, 0, Reserve) = 1 .. Reserve
          /\ \A k \in 1 .. Reserve : Slice(buf, 0, Reserve)[k] = buf[0 + k]
      <4>1. Holds(buf, 0, Reserve)
        BY <3>2 DEF Holds
      <4>2. 0 \in Nat /\ Reserve \in Nat
        BY ConstantFacts
      <4> QED
        BY <4>1, <4>2, SliceFacts, Zenon
    <3> QED
      BY <2>2, <3>1, <3>3, <3>4 DEF NextSeed
  <2> QED
    BY <2>1, <2>2
<1>3. ext \in Nat /\ off \in Nat /\ spent \in Seq(Seq(OT)) /\ HasSeeds
  BY <1>1 DEF IInv, TypeOK, HasSeeds
<1>4. /\ \A i \in DOMAIN arr : NotIn(arr[i], spent)
      /\ \A i, j \in DOMAIN arr : arr[i] = arr[j] => i = j
      /\ \A i \in DOMAIN arr : \A j \in 1 .. off : arr[i] # data[j]
      /\ \A i \in DOMAIN arr : \A j \in Rest : arr[i] # buf[j]
  BY <1>2, <1>3 DEF IInv, SeedInv, NotSpent
<1>5. \A v : NotSpent(v) /\ (\A i \in DOMAIN arr : arr[i] # v) => NotIn(v, spent')
  BY <1>2, <1>3, LeftOver DEF NotSpent
<1>6. OTsFresh'
  <2>1. Fresh(spent)
    BY DEF IInv, OTsFresh, Fresh
  <2>2. Fresh(Append(spent, arr))
    BY <1>2, <1>3, <1>4, <2>1, Consuming
  <2> QED
    BY <1>2, <2>2 DEF OTsFresh, Fresh
<1>7. TypeOK'
  BY <1>1, <1>2, <1>3, AppendFacts DEF IInv, TypeOK
<1>8. BufferInBounds' /\ PhaseInv'
  BY <1>1, <1>3 DEF IInv, BufferInBounds, PhaseInv, LongRequest
<1>9. GenInv'
  <2>1. \A v \in OT : Old(v) => OldAt(v, ext', busy')
    BY <1>1, <1>3 DEF Old, OldAt, OT
  <2>3. /\ \A i \in 1 .. N : buf[i] \in OT
        /\ \A i \in 1 .. off : data[i] \in OT
        /\ \A i \in 1 .. Reserve : inplace => data[off + i] \in OT
    <3>1. /\ \A i \in 1 .. off : i \in 1 .. Len(data)
          /\ inplace => \A i \in 1 .. Reserve : off + i \in 1 .. Len(data)
      BY <1>3, ConstantFacts DEF IInv, TypeOK, BufferInBounds
    <3>2. \A i \in 1 .. Len(data) : data[i] \in OT
      BY DEF IInv, TypeOK
    <3>3. \A i \in 1 .. N : buf[i] \in OT
      BY DEF IInv, TypeOK
    <3> QED
      BY <3>1, <3>2, <3>3
  <2>2. \A i \in DOMAIN arr : arr[i] \in OT /\ Old(arr[i])
    <3>1. \A i \in 1 .. Reserve : i \in 1 .. N
      BY ConstantFacts
    <3>2. \A i \in 1 .. Reserve : NextSeed(i) \in OT /\ Old(NextSeed(i))
      BY <2>3, <3>1 DEF IInv, GenInv, NextSeed
    <3> QED
      BY <1>2, <3>2
  <2>4. \A a \in 1 .. Len(spent') : \A i \in DOMAIN spent'[a] : OldAt(spent'[a][i], ext', busy')
    <3>1. /\ Len(spent') = Len(spent) + 1 /\ Len(spent) \in Nat
          /\ \A a \in 1 .. Len(spent) : spent'[a] = spent[a]
          /\ spent'[Len(spent) + 1] = arr
      BY <1>2, <1>3, AppendFacts
    <3>2. \A a \in 1 .. Len(spent) : \A i \in DOMAIN spent[a] : spent[a][i] \in OT /\ Old(spent[a][i])
      BY DEF IInv, TypeOK, GenInv
    <3> SUFFICES ASSUME NEW a \in 1 .. Len(spent'), NEW i \in DOMAIN spent'[a]
                 PROVE  OldAt(spent'[a][i], ext', busy')
      OBVIOUS
    <3>3. CASE a \in 1 .. Len(spent)
      BY <2>1, <3>1, <3>2, <3>3
    <3>4. CASE a = Len(spent) + 1
      BY <2>1, <2>2, <3>1, <3>4
    <3> QED
      BY <3>1, <3>3, <3>4
  <2> QED
    BY <1>1, <2>1, <2>3, <2>4 DEF IInv, GenInv, Old
<1>10. DataInv'
  BY <1>1, <1>4, <1>5 DEF IInv, DataInv, NotSpent
<1>11. RestInv'
  <2>1. Rest' = Rest
    BY <1>1 DEF Rest
  <2> QED
    BY <1>1, <1>4, <1>5, <2>1 DEF IInv, RestInv, NotSpent
<1>12. SeedInv'
  BY <1>1 DEF SeedInv, HasSeeds
<1> QED
  BY <1>6, <1>7, <1>8, <1>9, <1>10, <1>11, <1>12 DEF IInv

LEMMA StartInplaceStep == IInv /\ StartInplace => IInv'
BY StartExtensionStep DEF StartInplace

LEMMA StartBootstrapStep == IInv /\ StartBootstrap => IInv'
BY StartExtensionStep DEF StartBootstrap, IInv, PhaseInv

LEMMA EndInplaceStep == IInv /\ EndInplace => IInv'
<1> SUFFICES ASSUME IInv, EndInplace PROVE IInv'
  OBVIOUS
<1>1. /\ pc = "loop" /\ pc' = pc /\ busy /\ busy' = FALSE /\ inplace' = TRUE
      /\ off' = off + (N - Reserve) /\ need' = need - (N - Reserve)
      /\ UNCHANGED <<buf, used, upper, ext, spent>>
  BY DEF EndInplace
<1>2. /\ ext \in Nat /\ off \in Nat /\ need \in Nat /\ need >= N
      /\ N \in Nat /\ Reserve \in Nat /\ Reserve <= N /\ used \in Nat
  BY <1>1, ConstantFacts DEF IInv, TypeOK, PhaseInv
<1>3. /\ data' \in Seq(OT) /\ Len(data') = off + N
      /\ \A i \in 1 .. off : data'[i] = data[i]
      /\ \A k \in 1 .. N : data'[off + k] = <<ext, k>>
  <2> DEFINE fresh == Batch(ext, N)
  <2>1. \A k \in 1 .. N : fresh[k] = <<ext, k>> /\ fresh[k] \in OT /\ 0 + k = k
    BY <1>2, BatchFacts
  <2>2. \A k \in 1 .. off : data[k] \in OT
    BY <1>2 DEF IInv, TypeOK
  <2>3. data' = Copied(data, off, fresh, 0, N)
    BY DEF EndInplace
  <2> HIDE DEF fresh
  <2>4. \A k \in 1 .. N : fresh[0 + k] = <<ext, k>> /\ fresh[0 + k] \in OT
    BY <2>1
  <2>5. off \in Nat /\ N \in Nat /\ 0 \in Nat
    BY <1>2
  <2>6. Holds(data, 0, off) /\ Holds(fresh, 0, N)
    BY <2>2, <2>4, <2>5 DEF Holds
  <2>7. IsCopy(data', data, off, fresh, 0, N)
    BY <2>3, <2>5, <2>6, CopiedFacts
  <2> QED
    BY <2>4, <2>7 DEF IsCopy
<1>4. TypeOK'
  <2>1. off' \in Nat /\ need' \in Nat /\ off' <= Len(data')
    BY <1>1, <1>2, <1>3
  <2> QED
    BY <1>1, <1>3, <2>1 DEF IInv, TypeOK
<1>5. BufferInBounds' /\ OTsFresh' /\ PhaseInv'
  BY <1>1, <1>2, <1>3, ConstantFacts DEF IInv, BufferInBounds, OTsFresh, PhaseInv
<1>6. \A v \in OT : Old(v) => OldAt(v, ext', busy')
  BY <1>1, <1>2 DEF Old, OldAt, OT
<1>7. \A i \in 1 .. off + N : i \in 1 .. off \/ (i - off \in 1 .. N /\ i = off + (i - off))
  BY <1>2
<1>7a. \A i \in 1 .. off + N : off + (i - off) = i
  BY <1>2
<1>8. \A i \in 1 .. off + N : OldAt(data'[i], ext', busy')
  <2>1. \A k \in 1 .. N : OldAt(<<ext, k>>, ext', busy')
    BY <1>1, <1>2 DEF OldAt
  <2>2. \A i \in 1 .. off : OldAt(data[i], ext', busy')
    BY <1>2, <1>6 DEF IInv, TypeOK, GenInv
  <2> QED
    BY <1>3, <1>7, <2>1, <2>2
<1>9. GenInv'
  <2>1. /\ \A i \in 1 .. off' : i \in 1 .. off + N
        /\ \A i \in 1 .. Reserve : off' + i \in 1 .. off + N
    BY <1>1, <1>2
  <2>2. /\ \A i \in 1 .. off' : OldAt(data'[i], ext', busy')
        /\ \A i \in 1 .. Reserve : OldAt(data'[off' + i], ext', busy')
    BY <1>8, <2>1
  <2>3. \A i \in 1 .. N : OldAt(buf[i], ext', busy')
    BY <1>6 DEF IInv, TypeOK, GenInv
  <2>4. \A a \in 1 .. Len(spent) : \A i \in DOMAIN spent[a] : OldAt(spent[a][i], ext', busy')
    BY <1>6 DEF IInv, TypeOK, GenInv
  <2> QED
    BY <1>1, <2>2, <2>3, <2>4 DEF GenInv, Old
<1>10. \A k \in 1 .. N : /\ NotSpent(<<ext, k>>)
                         /\ \A i \in 1 .. N : buf[i] # <<ext, k>>
                         /\ \A i \in 1 .. off : data[i] # <<ext, k>>
  BY <1>1, <1>2, NewBatch
<1>11. \A i, j \in 1 .. off + N : data'[i] = data'[j] => i = j
  <2> SUFFICES ASSUME NEW i \in 1 .. off + N, NEW j \in 1 .. off + N, data'[i] = data'[j]
               PROVE  i = j
    OBVIOUS
  <2>1. CASE i \in 1 .. off /\ j \in 1 .. off
    BY <1>3, <2>1 DEF IInv, DataInv
  <2>2. CASE i \in 1 .. off /\ j - off \in 1 .. N
    <3>1. data'[i] = data[i] /\ data'[j] = <<ext, j - off>>
      BY <1>2, <1>3, <2>2, <1>7a
    <3> QED
      BY <1>10, <2>2, <3>1
  <2>3. CASE i - off \in 1 .. N /\ j \in 1 .. off
    <3>1. data'[i] = <<ext, i - off>> /\ data'[j] = data[j]
      BY <1>2, <1>3, <2>3, <1>7a
    <3> QED
      BY <1>10, <2>3, <3>1
  <2>4. CASE i - off \in 1 .. N /\ j - off \in 1 .. N
    <3>1. data'[i] = <<ext, i - off>> /\ data'[j] = <<ext, j - off>>
      BY <1>2, <1>3, <2>4, <1>7a
    <3>2. <<ext, i - off>> = <<ext, j - off>>
      BY <3>1
    <3>3. i - off = j - off
      BY <3>2
    <3> QED
      BY <1>2, <3>3
  <2> QED
    BY <1>7, <2>1, <2>2, <2>3, <2>4
<1>12. \A i \in 1 .. off + N : NotSpent(data'[i])
  <2> TAKE i \in 1 .. off + N
  <2>1. CASE i \in 1 .. off
    BY <1>3, <2>1 DEF IInv, DataInv
  <2>2. CASE i - off \in 1 .. N
    <3>1. data'[i] = <<ext, i - off>>
      BY <1>2, <1>3, <1>7a, <2>2
    <3> QED
      BY <1>10, <2>2, <3>1
  <2> QED
    BY <1>7, <2>1, <2>2
<1>13. \A i \in 1 .. off' : i \in 1 .. off + N
  BY <1>1, <1>2
<1>14. DataInv'
  BY <1>1, <1>11, <1>12, <1>13 DEF DataInv, NotSpent
<1>16. Rest' = Rest /\ \A i \in Rest : i \in 1 .. N
  BY <1>1, <1>2 DEF IInv, BufferInBounds, Rest, TypeOK
<1>17. \A i \in Rest : \A j \in 1 .. off + N : buf[i] # data'[j]
  <2> TAKE i \in Rest
  <2> TAKE j \in 1 .. off + N
  <2>1. CASE j \in 1 .. off
    BY <1>3, <2>1 DEF IInv, RestInv
  <2>2. CASE j - off \in 1 .. N
    <3>1. data'[j] = <<ext, j - off>>
      BY <1>2, <1>3, <1>7a, <2>2
    <3> QED
      BY <1>10, <1>16, <2>2, <3>1
  <2> QED
    BY <1>7, <2>1, <2>2
<1>18. RestInv'
  BY <1>1, <1>13, <1>16, <1>17 DEF IInv, RestInv, NotSpent
<1>19. SeedInv'
  <2>1. \A i \in 1 .. Reserve : /\ off' + i \in 1 .. off + N
                                /\ NextSeed(i)' = data'[off' + i]
                                /\ \A j \in 1 .. off' : j # off' + i
                                /\ \A j \in 1 .. Reserve : off' + i = off' + j => i = j
    BY <1>1, <1>2 DEF NextSeed
  <2> QED
    BY <1>1, <1>11, <1>12, <1>13, <1>16, <1>17, <2>1 DEF SeedInv, NotSpent
<1> QED
  BY <1>4, <1>5, <1>9, <1>14, <1>18, <1>19 DEF IInv

LEMMA CallStep ==
  ASSUME IInv, NEW n \in Sizes, Call(n)
  PROVE  IInv'
<1>1. /\ pc = "idle" /\ pc' = "loop" /\ ~busy /\ ~inplace /\ inplace' = FALSE
      /\ off = 0 /\ off' = 0 /\ need' = n /\ data' = <<>>
      /\ UNCHANGED <<busy, buf, used, upper, ext, spent>>
  BY DEF Call, IInv, PhaseInv
<1>2. need' \in Nat /\ data' \in Seq(OT) /\ off' <= Len(data')
  <2>1. <<>> \in Seq(OT) /\ Len(<<>>) = 0
    OBVIOUS
  <2> QED
    BY <1>1, <2>1, ConstantFacts
<1>3. TypeOK'
  BY <1>1, <1>2 DEF IInv, TypeOK
<1>4. BufferInBounds' /\ OTsFresh' /\ PhaseInv'
  BY <1>1 DEF IInv, BufferInBounds, OTsFresh, PhaseInv
<1>5. GenInv'
  BY <1>1 DEF IInv, GenInv, Old
<1>6. DataInv'
  BY <1>1 DEF DataInv
<1>7. RestInv'
  <2>1. Rest' = Rest
    BY <1>1 DEF Rest
  <2> QED
    BY <1>1, <2>1 DEF IInv, RestInv, NotSpent
<1>8. SeedInv'
  <2>1. Rest' = Rest /\ HasSeeds
    BY <1>1 DEF Rest, HasSeeds
  <2>2. \A i \in 1 .. Reserve : NextSeed(i)' = buf[i] /\ NextSeed(i) = buf[i]
    BY <1>1 DEF NextSeed
  <2> QED
    BY <1>1, <2>1, <2>2 DEF IInv, SeedInv, NotSpent
<1> QED
  BY <1>3, <1>4, <1>5, <1>6, <1>7, <1>8 DEF IInv

LEMMA ReturnStep == IInv /\ Return => IInv'
<1> SUFFICES ASSUME IInv, Return PROVE IInv'
  OBVIOUS
<1>1. /\ pc = "return" /\ pc' = "idle" /\ ~busy /\ ~inplace /\ off' = 0 /\ data' = <<>>
      /\ UNCHANGED <<busy, need, inplace, buf, used, upper, ext>>
  BY DEF Return, IInv, PhaseInv
<1>2. off \in Nat /\ spent \in Seq(Seq(OT)) /\ HasSeeds /\ Rest' = Rest
  BY <1>1 DEF IInv, TypeOK, HasSeeds, Rest
<1>3. PICK arr \in Seq(OT) :
        /\ DOMAIN arr = 1 .. off
        /\ \A i \in 1 .. off : arr[i] = data[i]
        /\ spent' = Append(spent, arr)
  <2>1. \A k \in 1 .. off : 0 + k = k /\ k \in 1 .. Len(data)
    BY <1>2 DEF IInv, TypeOK
  <2>2. Holds(data, 0, off)
    BY <2>1 DEF IInv, TypeOK, Holds
  <2>3. /\ Slice(data, 0, off) \in Seq(OT)
        /\ DOMAIN Slice(data, 0, off) = 1 .. off
        /\ \A k \in 1 .. off : Slice(data, 0, off)[k] = data[0 + k]
    <3>1. 0 \in Nat
      OBVIOUS
    <3> QED
      BY <1>2, <2>2, <3>1, SliceFacts, Zenon
  <2> QED
    BY <2>1, <2>3 DEF Return
<1>4. /\ \A i \in DOMAIN arr : NotIn(arr[i], spent)
      /\ \A i, j \in DOMAIN arr : arr[i] = arr[j] => i = j
      /\ \A i \in DOMAIN arr : \A j \in Rest : arr[i] # buf[j]
      /\ \A i \in DOMAIN arr : \A j \in 1 .. Reserve : arr[i] # NextSeed(j)
  BY <1>2, <1>3 DEF IInv, DataInv, RestInv, SeedInv, NotSpent
<1>5. \A v : NotSpent(v) /\ (\A i \in DOMAIN arr : arr[i] # v) => NotIn(v, spent')
  BY <1>2, <1>3, LeftOver DEF NotSpent
<1>6. OTsFresh'
  <2>1. Fresh(spent)
    BY DEF IInv, OTsFresh, Fresh
  <2>2. Fresh(Append(spent, arr))
    BY <1>2, <1>3, <1>4, <2>1, Consuming
  <2> QED
    BY <1>3, <2>2 DEF OTsFresh, Fresh
<1>7. TypeOK'
  <2>1. <<>> \in Seq(OT) /\ Len(<<>>) = 0
    OBVIOUS
  <2>2. data' \in Seq(OT) /\ off' <= Len(data')
    BY <1>1, <2>1
  <2>3. spent' \in Seq(Seq(OT))
    BY <1>2, <1>3, AppendFacts
  <2> QED
    BY <1>1, <2>2, <2>3 DEF IInv, TypeOK
<1>8. BufferInBounds' /\ PhaseInv' /\ DataInv'
  BY <1>1 DEF IInv, BufferInBounds, PhaseInv, DataInv
<1>9. GenInv'
  <2>1. \A i \in DOMAIN arr : Old(arr[i])
    BY <1>3 DEF IInv, GenInv
  <2>2. /\ Len(spent') = Len(spent) + 1 /\ Len(spent) \in Nat
        /\ \A a \in 1 .. Len(spent) : spent'[a] = spent[a]
        /\ spent'[Len(spent) + 1] = arr
    BY <1>2, <1>3, AppendFacts
  <2>3. \A a \in 1 .. Len(spent') : \A i \in DOMAIN spent'[a] : Old(spent'[a][i])
    <3> SUFFICES ASSUME NEW a \in 1 .. Len(spent'), NEW i \in DOMAIN spent'[a]
                 PROVE  Old(spent'[a][i])
      OBVIOUS
    <3>1. CASE a \in 1 .. Len(spent)
      BY <2>2, <3>1 DEF IInv, GenInv
    <3>2. CASE a = Len(spent) + 1
      BY <2>1, <2>2, <3>2
    <3> QED
      BY <2>2, <3>1, <3>2
  <2> QED
    BY <1>1, <2>3 DEF IInv, GenInv, Old
<1>10. RestInv'
  BY <1>1, <1>2, <1>4, <1>5 DEF IInv, RestInv, NotSpent
<1>11. SeedInv'
  <2>1. \A i \in 1 .. Reserve : NextSeed(i)' = buf[i] /\ NextSeed(i) = buf[i]
    BY <1>1 DEF NextSeed
  <2>2. \A i \in 1 .. Reserve : NotIn(buf[i], spent')
    <3>1. \A i \in 1 .. Reserve : NotSpent(buf[i]) /\ \A k \in DOMAIN arr : arr[k] # buf[i]
      BY <1>2, <1>4, <2>1 DEF IInv, SeedInv
    <3> QED
      BY <1>5, <3>1
  <2>3. \A i \in 1 .. Reserve : /\ \A j \in 1 .. Reserve : buf[i] = buf[j] => i = j
                                /\ \A j \in Rest : buf[i] # buf[j]
    BY <1>2, <2>1 DEF IInv, SeedInv
  <2>4. \A i \in 1 .. Reserve : /\ NotIn(NextSeed(i)', spent')
                                /\ \A j \in 1 .. Reserve : NextSeed(i)' = NextSeed(j)' => i = j
                                /\ \A j \in 1 .. off' : NextSeed(i)' # data'[j]
                                /\ \A j \in Rest' : NextSeed(i)' # buf'[j]
    BY <1>1, <1>2, <2>2, <2>3 DEF NextSeed
  <2> QED
    BY <2>4 DEF SeedInv, NotSpent
<1> QED
  BY <1>6, <1>7, <1>8, <1>9, <1>10, <1>11 DEF IInv

LEMMA TakeStep == IInv /\ Take => IInv'
<1> SUFFICES ASSUME IInv, Take PROVE IInv'
  OBVIOUS
<1> DEFINE n == IF Remain < need THEN Remain ELSE need
<1>1. /\ pc = "loop" /\ ~busy /\ need < N /\ inplace' = FALSE
      /\ used' = used + n /\ off' = off + n /\ need' = need - n
      /\ pc' = IF n < need THEN "bootstrap" ELSE "return"
      /\ UNCHANGED <<busy, upper, ext, spent>>
  <2>1. need \in Nat /\ N \in Nat
    BY ConstantFacts DEF IInv, TypeOK
  <2> QED
    BY <2>1 DEF Take, LongRequest
<1>2. /\ off \in Nat /\ need \in Nat /\ N \in Nat /\ Reserve \in Nat
      /\ used \in Nat /\ upper \in Nat /\ Reserve <= used /\ used <= upper /\ upper <= N
  BY <1>1, ConstantFacts DEF IInv, TypeOK, BufferInBounds
<1>3. n \in Nat /\ n <= need /\ used + n <= upper
  BY <1>2 DEF Remain
<1> HIDE DEF n
<1>4. /\ buf' \in [1 .. N -> OT]
      /\ \A i \in 1 .. Reserve : i \in 1 .. N /\ buf'[i] = NextSeed(i) /\ NextSeed(i) \in OT
      /\ \A i \in 1 .. N : i > Reserve => buf'[i] = buf[i]
  <2>1. buf \in [1 .. N -> OT] /\ \A i \in 1 .. Reserve : i \in 1 .. N /\ i <= Reserve
    BY <1>2 DEF IInv, TypeOK
  <2>2. CASE inplace
    <3>1. buf' = [i \in 1 .. N |-> IF i <= Reserve THEN data[off + i] ELSE buf[i]]
      BY <2>2 DEF Take, SavedSeeds
    <3>2. \A i \in 1 .. Reserve : off + i \in 1 .. Len(data)
      BY <1>2, <2>2 DEF IInv, TypeOK, BufferInBounds
    <3>3. \A i \in 1 .. Reserve : data[off + i] \in OT
      BY <3>2 DEF IInv, TypeOK
    <3>4. \A i \in 1 .. N : i <= Reserve => i \in 1 .. Reserve
      BY <1>2
    <3>5. \A i \in 1 .. N : (IF i <= Reserve THEN data[off + i] ELSE buf[i]) \in OT
      BY <2>1, <3>3, <3>4
    <3>6. \A i \in 1 .. N : i > Reserve => ~(i <= Reserve)
      BY <1>2
    <3> QED
      BY <2>1, <2>2, <3>1, <3>3, <3>5, <3>6 DEF NextSeed
  <2>3. CASE ~inplace
    <3>1. buf' = buf
      BY <2>3 DEF Take, SavedSeeds
    <3> QED
      BY <2>1, <2>3, <3>1 DEF NextSeed
  <2> QED
    BY <2>2, <2>3
<1>5. /\ data' \in Seq(OT) /\ Len(data') = off + n
      /\ \A i \in 1 .. off : data'[i] = data[i]
      /\ \A k \in 1 .. n : data'[off + k] = buf[used + k]
  <2>1. data' = Copied(data, off, buf, used, n)
    BY DEF Take, n
  <2>2. Holds(data, 0, off)
    <3>1. \A k \in 1 .. off : 0 + k = k /\ k \in 1 .. Len(data)
      BY <1>2 DEF IInv, TypeOK
    <3> QED
      BY <3>1 DEF IInv, TypeOK, Holds
  <2>3. Holds(buf, used, n)
    <3>1. \A k \in 1 .. n : used + k \in 1 .. N
      BY <1>2, <1>3
    <3> QED
      BY <3>1 DEF IInv, TypeOK, Holds
  <2>4. IsCopy(data', data, off, buf, used, n)
    BY <1>2, <1>3, <2>1, <2>2, <2>3, CopiedFacts
  <2> QED
    BY <2>4 DEF IsCopy
\* Where an entry of the output is from.
<1>6. \A i \in 1 .. off + n : \/ i \in 1 .. off /\ data'[i] = data[i]
                             \/ \E k \in Rest : /\ k \in used + 1 .. used + n
                                               /\ k - used = i - off /\ data'[i] = buf[k]
  <2> TAKE i \in 1 .. off + n
  <2>1. CASE i <= off
    BY <1>2, <1>5, <2>1
  <2>2. CASE i > off
    <3>1. i - off \in 1 .. n /\ off + (i - off) = i
      BY <1>2, <1>3, <2>2
    <3>2. used + (i - off) \in used + 1 .. used + n /\ used + (i - off) \in used + 1 .. upper
      BY <1>2, <1>3, <3>1
    <3>3. (used + (i - off)) - used = i - off
      BY <1>2, <3>1
    <3>4. data'[i] = buf[used + (i - off)]
      BY <1>5, <3>1
    <3> QED
      BY <1>1, <3>2, <3>3, <3>4 DEF Rest
  <2> QED
    BY <1>2, <2>1, <2>2
\* The rest shrinks by what was taken.
<1>7. \A k \in Rest' : k \in Rest /\ k \in used + n + 1 .. upper /\ k \in 1 .. N /\ buf'[k] = buf[k]
  <2>1. \A k \in Rest' : k \in used' + 1 .. upper'
    BY <1>1 DEF Rest
  <2>2. \A k \in Rest' : k \in used + n + 1 .. upper /\ k \in used + 1 .. upper /\ k \in 1 .. N /\ k > Reserve
    BY <1>1, <1>2, <1>3, <2>1
  <2> QED
    BY <1>1, <1>4, <2>2 DEF Rest
<1>8. TypeOK'
  <2>1. used' \in Nat /\ need' \in Nat /\ off' \in Nat /\ off' <= Len(data')
    BY <1>1, <1>2, <1>3, <1>5
  <2> QED
    BY <1>1, <1>4, <1>5, <2>1 DEF IInv, TypeOK
<1>9. BufferInBounds' /\ PhaseInv' /\ OTsFresh'
  <2>1. Reserve <= used' /\ used' <= upper' /\ upper' <= N /\ need' < N
    BY <1>1, <1>2, <1>3
  <2> QED
    BY <1>1, <2>1 DEF IInv, BufferInBounds, PhaseInv, OTsFresh
<1>10. \A i \in Rest : i \in 1 .. N
  BY <1>1, <1>2 DEF Rest
<1>11. HasSeeds
  BY <1>1 DEF HasSeeds
<1>12. GenInv'
  <2>1. \A v : OldAt(v, ext', busy') <=> Old(v)
    BY <1>1 DEF Old
  <2>2. \A i \in 1 .. Reserve : Old(NextSeed(i))
    BY <1>4 DEF IInv, GenInv, NextSeed
  <2>3. \A i \in 1 .. N : Old(buf'[i])
    <3>1. \A i \in 1 .. N : i \in 1 .. Reserve \/ i > Reserve
      BY <1>2
    <3> QED
      BY <1>4, <2>2, <3>1 DEF IInv, GenInv
  <2>4. \A i \in 1 .. off' : Old(data'[i])
    BY <1>1, <1>6, <1>10 DEF IInv, GenInv
  <2> QED
    BY <1>1, <2>1, <2>3, <2>4 DEF IInv, GenInv, Old
<1>13. DataInv'
  <2>1. \A i \in 1 .. off + n : NotIn(data'[i], spent')
    BY <1>1, <1>6 DEF IInv, DataInv, RestInv, NotSpent
  <2>2. \A i, j \in 1 .. off + n : data'[i] = data'[j] => i = j
    <3> SUFFICES ASSUME NEW i \in 1 .. off + n, NEW j \in 1 .. off + n, data'[i] = data'[j]
                 PROVE  i = j
      OBVIOUS
    <3>1. CASE i \in 1 .. off /\ data'[i] = data[i]
      <4>1. CASE j \in 1 .. off /\ data'[j] = data[j]
        BY <3>1, <4>1 DEF IInv, DataInv
      <4>2. CASE \E l \in Rest : data'[j] = buf[l]
        <5>1. PICK l \in Rest : data'[j] = buf[l]
          BY <4>2
        <5> QED
          BY <3>1, <5>1 DEF IInv, RestInv
      <4> QED
        BY <1>6, <4>1, <4>2
    <3>2. CASE \E k \in Rest : /\ k \in used + 1 .. used + n
                              /\ k - used = i - off /\ data'[i] = buf[k]
      <4>1. PICK k \in Rest : k - used = i - off /\ data'[i] = buf[k]
        BY <3>2
      <4>2. CASE j \in 1 .. off /\ data'[j] = data[j]
        BY <4>1, <4>2 DEF IInv, RestInv
      <4>3. CASE \E l \in Rest : l - used = j - off /\ data'[j] = buf[l]
        <5>1. PICK l \in Rest : l - used = j - off /\ data'[j] = buf[l]
          BY <4>3
        <5>2. k = l
          BY <4>1, <5>1 DEF IInv, RestInv
        <5>3. i - off = j - off
          BY <4>1, <5>1, <5>2
        <5> QED
          BY <1>2, <1>3, <5>3
      <4> QED
        BY <1>6, <4>2, <4>3
    <3> QED
      BY <1>6, <3>1, <3>2
  <2> QED
    BY <1>1, <2>1, <2>2 DEF DataInv, NotSpent
<1>14. \A k \in Rest' : \A j \in 1 .. off + n : buf[k] # data'[j]
  <2> TAKE k \in Rest'
  <2> TAKE j \in 1 .. off + n
  <2>1. CASE j \in 1 .. off /\ data'[j] = data[j]
    BY <1>7, <2>1 DEF IInv, RestInv
  <2>2. CASE \E l \in Rest : l \in used + 1 .. used + n /\ data'[j] = buf[l]
    <3>1. PICK l \in Rest : l \in used + 1 .. used + n /\ data'[j] = buf[l]
      BY <2>2
    <3>2. k # l
      BY <1>2, <1>3, <1>7, <3>1
    <3> QED
      BY <1>7, <3>1, <3>2 DEF IInv, RestInv
  <2> QED
    BY <1>6, <2>1, <2>2
<1>15. RestInv'
  <2>1. \A k \in Rest' : NotIn(buf[k], spent') /\ \A j \in Rest' : buf[k] = buf[j] => k = j
    BY <1>1, <1>7 DEF IInv, RestInv, NotSpent
  <2> QED
    BY <1>1, <1>7, <1>14, <2>1 DEF RestInv, NotSpent
<1>16. SeedInv'
  <2>1. \A i \in 1 .. Reserve : NextSeed(i)' = buf'[i]
    BY <1>1 DEF NextSeed
  <2>2. \A i \in 1 .. Reserve : /\ NotIn(buf'[i], spent')
                                /\ \A j \in 1 .. Reserve : buf'[i] = buf'[j] => i = j
    BY <1>1, <1>4, <1>11 DEF IInv, SeedInv, NotSpent
  <2>3. \A i \in 1 .. Reserve : \A j \in 1 .. off + n : buf'[i] # data'[j]
    BY <1>4, <1>6, <1>11 DEF IInv, SeedInv
  <2>4. \A i \in 1 .. Reserve : \A j \in Rest' : buf'[i] # buf'[j]
    BY <1>4, <1>7, <1>11 DEF IInv, SeedInv
  <2>5. \A i \in 1 .. Reserve : /\ NotIn(NextSeed(i)', spent')
                                /\ \A j \in 1 .. Reserve : NextSeed(i)' = NextSeed(j)' => i = j
                                /\ \A j \in 1 .. off' : NextSeed(i)' # data'[j]
                                /\ \A j \in Rest' : NextSeed(i)' # buf'[j]
    BY <1>1, <2>2, <2>3, <2>4 DEF NextSeed
  <2> QED
    BY <2>5 DEF SeedInv, NotSpent
<1> QED
  BY <1>8, <1>9, <1>12, <1>13, <1>15, <1>16 DEF IInv

LEMMA EndBootstrapStep == IInv /\ EndBootstrap => IInv'
<1> SUFFICES ASSUME IInv, EndBootstrap PROVE IInv'
  OBVIOUS
<1> DEFINE n == IF WorstCase THEN N - Reserve ELSE need
<1>1. /\ pc \in {"bootstrap", "again"} /\ busy /\ busy' = FALSE
      /\ ~inplace /\ inplace' = inplace /\ upper' = N
      /\ off' = off + n /\ need' = need - n
      /\ used' = IF WorstCase THEN Reserve ELSE Reserve + n
      /\ pc' = IF WorstCase THEN "again" ELSE "return"
      /\ UNCHANGED <<ext, spent>>
  BY DEF EndBootstrap, IInv, PhaseInv
<1>2. /\ off \in Nat /\ need \in Nat /\ N \in Nat /\ Reserve \in Nat /\ ext \in Nat
      /\ Reserve >= 1 /\ 2 * Reserve <= N
  BY ConstantFacts DEF IInv, TypeOK
<1>3. n \in Nat /\ n <= need /\ Reserve + n <= N /\ (WorstCase => need - n <= N - Reserve)
  BY <1>1, <1>2 DEF WorstCase, IInv, PhaseInv, BufferInBounds
<1> HIDE DEF n
<1>4. buf' \in [1 .. N -> OT] /\ \A i \in 1 .. N : buf'[i] = <<ext, i>>
  <2>1. buf' = Batch(ext, N) /\ N <= N
    BY <1>2 DEF EndBootstrap
  <2> QED
    BY <1>2, <2>1, BatchFacts
\* The output grows by the correlations behind the new reserve.
<1>5. /\ data' \in Seq(OT) /\ Len(data') = off + n
      /\ \A i \in 1 .. off : data'[i] = data[i]
      /\ \A k \in 1 .. n : data'[off + k] = <<ext, Reserve + k>>
  <2>1. data' = Copied(data, off, buf', Reserve, n)
    BY DEF EndBootstrap, n
  <2>2. Holds(data, 0, off)
    <3>1. \A k \in 1 .. off : 0 + k = k /\ k \in 1 .. Len(data)
      BY <1>2 DEF IInv, TypeOK
    <3> QED
      BY <3>1 DEF IInv, TypeOK, Holds
  <2>3. \A k \in 1 .. n : Reserve + k \in 1 .. N
    BY <1>2, <1>3
  <2>4. Holds(buf', Reserve, n)
    BY <1>4, <2>3 DEF Holds
  <2>5. IsCopy(data', data, off, buf', Reserve, n)
    BY <1>2, <1>3, <2>1, <2>2, <2>4, CopiedFacts
  <2> QED
    BY <1>4, <2>3, <2>5 DEF IsCopy
<1>6. \A i \in 1 .. off + n : \/ i \in 1 .. off /\ data'[i] = data[i]
                             \/ \E k \in Reserve + 1 .. Reserve + n :
                                  k - Reserve = i - off /\ data'[i] = <<ext, k>>
  <2> TAKE i \in 1 .. off + n
  <2>1. CASE i <= off
    BY <1>2, <1>5, <2>1
  <2>2. CASE i > off
    <3>1. i - off \in 1 .. n /\ off + (i - off) = i
      BY <1>2, <1>3, <2>2
    <3>2. Reserve + (i - off) \in Reserve + 1 .. Reserve + n
          /\ (Reserve + (i - off)) - Reserve = i - off
      BY <1>2, <1>3, <3>1
    <3>3. data'[i] = <<ext, Reserve + (i - off)>>
      BY <1>5, <3>1
    <3> QED
      BY <3>2, <3>3
  <2> QED
    BY <1>2, <2>1, <2>2
<1>7. \A k \in Reserve + 1 .. Reserve + n : k \in 1 .. N
  BY <1>2, <1>3
\* What is behind the output is the rest of the new extension.
<1>8. \A k \in Rest' : k \in Reserve + n + 1 .. N /\ k \in 1 .. N
  BY <1>1, <1>2, <1>3 DEF Rest
<1>9. \A i \in 1 .. N : NotSpent(<<ext, i>>) /\ \A j \in 1 .. off : data[j] # <<ext, i>>
  <2> TAKE i \in 1 .. N
  <2>1. i \in Nat /\ i >= 1
    BY <1>2
  <2> QED
    BY <1>1, <2>1, NewBatch
<1>10. \A x, y \in Nat : <<ext, x>> = <<ext, y>> => x = y
  OBVIOUS
<1>11. \A i, j \in 1 .. N : <<ext, i>> = <<ext, j>> => i = j
  <2> TAKE i, j \in 1 .. N
  <2>1. i \in Nat /\ j \in Nat
    BY <1>2
  <2> QED
    BY <1>10, <2>1
<1>12. TypeOK'
  <2>1. used' \in Nat /\ need' \in Nat /\ off' \in Nat /\ off' <= Len(data')
    BY <1>1, <1>2, <1>3, <1>5
  <2> QED
    BY <1>1, <1>2, <1>4, <1>5, <2>1 DEF IInv, TypeOK
<1>13. BufferInBounds' /\ PhaseInv' /\ OTsFresh'
  <2>1. Reserve <= used' /\ used' <= upper' /\ upper' <= N
    BY <1>1, <1>2, <1>3
  <2>2. pc' = "again" => need' <= N - Reserve
    BY <1>1, <1>3
  <2> QED
    BY <1>1, <2>1, <2>2 DEF IInv, BufferInBounds, PhaseInv, OTsFresh
<1>14. GenInv'
  <2>1. \A v \in OT : Old(v) => OldAt(v, ext', busy')
    BY <1>1, <1>2 DEF Old, OldAt, OT
  <2>2. \A i \in 1 .. N : OldAt(<<ext, i>>, ext', busy')
    BY <1>1, <1>2 DEF OldAt
  <2>3. \A i \in 1 .. off' : OldAt(data'[i], ext', busy')
    <3>1. \A i \in 1 .. off : Old(data[i]) /\ data[i] \in OT
      BY <1>2 DEF IInv, TypeOK, GenInv
    <3> QED
      BY <1>1, <1>6, <1>7, <2>1, <2>2, <3>1
  <2>4. \A a \in 1 .. Len(spent) : \A i \in DOMAIN spent[a] : OldAt(spent[a][i], ext', busy')
    <3>1. \A a \in 1 .. Len(spent) : \A i \in DOMAIN spent[a] : spent[a][i] \in OT /\ Old(spent[a][i])
      BY DEF IInv, TypeOK, GenInv
    <3> QED
      BY <2>1, <3>1
  <2> QED
    BY <1>1, <1>4, <2>2, <2>3, <2>4 DEF GenInv, Old
<1>15. DataInv'
  <2>1. \A i \in 1 .. off + n : NotIn(data'[i], spent')
    BY <1>1, <1>6, <1>7, <1>9 DEF IInv, DataInv, NotSpent
  <2>2. \A i, j \in 1 .. off + n : data'[i] = data'[j] => i = j
    <3> SUFFICES ASSUME NEW i \in 1 .. off + n, NEW j \in 1 .. off + n, data'[i] = data'[j]
                 PROVE  i = j
      OBVIOUS
    <3>1. CASE i \in 1 .. off /\ data'[i] = data[i]
      <4>1. CASE j \in 1 .. off /\ data'[j] = data[j]
        BY <3>1, <4>1 DEF IInv, DataInv
      <4>2. CASE \E k \in Reserve + 1 .. Reserve + n : data'[j] = <<ext, k>>
        BY <1>7, <1>9, <3>1, <4>2
      <4> QED
        BY <1>6, <4>1, <4>2
    <3>2. CASE \E k \in Reserve + 1 .. Reserve + n : k - Reserve = i - off /\ data'[i] = <<ext, k>>
      <4>1. PICK k \in Reserve + 1 .. Reserve + n : k - Reserve = i - off /\ data'[i] = <<ext, k>>
        BY <3>2
      <4>2. CASE j \in 1 .. off /\ data'[j] = data[j]
        BY <1>7, <1>9, <4>1, <4>2
      <4>3. CASE \E l \in Reserve + 1 .. Reserve + n : l - Reserve = j - off /\ data'[j] = <<ext, l>>
        <5>1. PICK l \in Reserve + 1 .. Reserve + n : l - Reserve = j - off /\ data'[j] = <<ext, l>>
          BY <4>3
        <5>2. k = l
          BY <1>7, <1>11, <4>1, <5>1
        <5>3. i - off = j - off
          BY <4>1, <5>1, <5>2
        <5> QED
          BY <1>2, <1>3, <5>3
      <4> QED
        BY <1>6, <4>2, <4>3
    <3> QED
      BY <1>6, <3>1, <3>2
  <2> QED
    BY <1>1, <2>1, <2>2 DEF DataInv, NotSpent
<1>16. \A k \in 1 .. N : k \notin Reserve + 1 .. Reserve + n =>
         \A j \in 1 .. off + n : buf'[k] # data'[j]
  <2> SUFFICES ASSUME NEW k \in 1 .. N, k \notin Reserve + 1 .. Reserve + n,
                      NEW j \in 1 .. off + n
               PROVE  buf'[k] # data'[j]
    OBVIOUS
  <2>1. buf'[k] = <<ext, k>>
    BY <1>4
  <2>2. CASE j \in 1 .. off /\ data'[j] = data[j]
    BY <1>9, <2>1, <2>2
  <2>3. CASE \E l \in Reserve + 1 .. Reserve + n : data'[j] = <<ext, l>>
    BY <1>7, <1>11, <2>1, <2>3
  <2> QED
    BY <1>6, <2>2, <2>3
<1>17. RestInv'
  <2>1. \A k \in Rest' : k \notin Reserve + 1 .. Reserve + n
    BY <1>2, <1>3, <1>8
  <2>2. \A k \in Rest' : NotIn(buf'[k], spent')
    <3>1. spent' = spent
      BY <1>1
    <3> QED
      BY <1>4, <1>8, <1>9, <3>1 DEF NotSpent
  <2>3. \A k, j \in Rest' : buf'[k] = buf'[j] => k = j
    BY <1>4, <1>8, <1>11
  <2> QED
    BY <1>1, <1>8, <1>16, <2>1, <2>2, <2>3 DEF RestInv, NotSpent
<1>18. SeedInv'
  <2>1. \A i \in 1 .. Reserve : /\ NextSeed(i)' = buf'[i]
                                /\ i \in 1 .. N /\ i \notin Reserve + 1 .. Reserve + n
    BY <1>1, <1>2 DEF NextSeed
  <2>2. \A i \in 1 .. Reserve : \A j \in Rest' : i # j
    BY <1>2, <1>3, <1>8
  <2>3. \A i \in 1 .. Reserve : /\ NotIn(buf'[i], spent')
                                /\ \A j \in 1 .. Reserve : buf'[i] = buf'[j] => i = j
    <3>1. \A i \in 1 .. Reserve : NotIn(buf'[i], spent')
      BY <1>1, <1>4, <1>9, <2>1 DEF NotSpent
    <3>2. \A i, j \in 1 .. Reserve : buf'[i] = buf'[j] => i = j
      BY <1>4, <1>11, <2>1
    <3> QED
      BY <3>1, <3>2
  <2>4. \A i \in 1 .. Reserve : \A j \in Rest' : buf'[i] # buf'[j]
    BY <1>4, <1>8, <2>1, <2>2
  <2>5. \A i \in 1 .. Reserve : /\ NotIn(NextSeed(i)', spent')
                                /\ \A j \in 1 .. Reserve : NextSeed(i)' = NextSeed(j)' => i = j
                                /\ \A j \in 1 .. off' : NextSeed(i)' # data'[j]
                                /\ \A j \in Rest' : NextSeed(i)' # buf'[j]
    BY <1>1, <1>16, <2>1, <2>3, <2>4
  <2> QED
    BY <2>5 DEF SeedInv, NotSpent
<1> QED
  BY <1>12, <1>13, <1>14, <1>15, <1>17, <1>18 DEF IInv

LEMMA StutterStep == IInv /\ UNCHANGED vars => IInv'
<1> SUFFICES ASSUME IInv, UNCHANGED vars PROVE IInv'
  OBVIOUS
<1>1. UNCHANGED <<pc, busy, need, off, data, inplace, buf, used, upper, ext, spent>>
  BY DEF vars
<1>2. TypeOK' /\ BufferInBounds' /\ OTsFresh' /\ PhaseInv'
  BY <1>1 DEF IInv, TypeOK, BufferInBounds, OTsFresh, PhaseInv
<1>3. GenInv' /\ DataInv'
  BY <1>1 DEF IInv, GenInv, Old, DataInv, NotSpent
<1>4. Rest' = Rest /\ (HasSeeds' <=> HasSeeds) /\ \A i : NextSeed(i)' = NextSeed(i)
  BY <1>1 DEF Rest, HasSeeds, NextSeed
<1>5. RestInv' /\ SeedInv'
  BY <1>1, <1>4 DEF IInv, RestInv, SeedInv, NotSpent
<1> QED
  BY <1>2, <1>3, <1>5 DEF IInv

-----------------------------------------------------------------------------
(* The theorems.                                                           *)

LEMMA Invariance == Spec => []IInv
<1>1. IInv /\ [Next]_vars => IInv'
  <2> SUFFICES ASSUME IInv, [Next]_vars PROVE IInv'
    OBVIOUS
  <2>1. CASE StartSetup
    BY <2>1, StartSetupStep
  <2>2. CASE StartInplace
    BY <2>2, StartExtensionStep DEF StartInplace
  <2>3. CASE StartBootstrap
    <3>1. pc \in {"bootstrap", "again"} /\ ~inplace /\ StartExtension(buf, 0)
      BY <2>3 DEF StartBootstrap, IInv, PhaseInv
    <3> QED
      BY <3>1, StartExtensionStep
  <2>4. CASE EndSetup
    BY <2>4, EndSetupStep
  <2>5. CASE EndInplace
    BY <2>5, EndInplaceStep
  <2>6. CASE EndBootstrap
    BY <2>6, EndBootstrapStep
  <2>7. CASE Take
    BY <2>7, TakeStep
  <2>8. CASE Return
    BY <2>8, ReturnStep
  <2>9. CASE \E n \in Sizes : Len(spent) < MaxSpent /\ Call(n)
    BY <2>9, CallStep
  <2>10. CASE UNCHANGED vars
    BY <2>10, StutterStep
  <2> QED
    BY <2>1, <2>2, <2>3, <2>4, <2>5, <2>6, <2>7, <2>8, <2>9, <2>10 DEF Next, Start, End
<1> QED
  BY InitStep, <1>1, PTL DEF Spec

\* The type invariant of an endpoint: its buffer is an array of N correlations
\* and the array of the call is as long as rcot believes.
THEOREM TypeCorrect == Spec => []TypeOK
<1>1. IInv => TypeOK
  BY DEF IInv
<1> QED
  BY Invariance, <1>1, PTL

\* rcot and Bootstrap stay within ot_buff_ and within the array of the caller,
\* although no position is checked.
THEOREM StaysInBounds == Spec => []BufferInBounds
<1>1. IInv => BufferInBounds
  BY DEF IInv
<1> QED
  BY Invariance, <1>1, PTL

\* No correlation is consumed twice, whatever the lengths of the requests: not
\* as an output of two calls, nor as an output and as a seed of an extension.
THEOREM ConsumedOnce == Spec => []OTsFresh
<1>1. IInv => OTsFresh
  BY DEF IInv
<1> QED
  BY Invariance, <1>1, PTL

=============================================================================
