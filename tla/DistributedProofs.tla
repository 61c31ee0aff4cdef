-------------------------- MODULE DistributedProofs --------------------------
(***************************************************************************)
(* Proofs about Distributed, for any number of nodes and PYUs, of calls,   *)
(* arguments and failures: the references are counted right, so that what  *)
(* the user or an SPU's call holds a handle of is stored where it is       *)
(* looked for, and no node keeps a copy of an object that nobody counts    *)
(* any more and that no collection is going to delete.                     *)
(***************************************************************************)
EXTENDS Distributed, FiniteSetTheorems, TLAPS

-----------------------------------------------------------------------------
(* The invariant.                                                          *)

Devices == Pyus \cup {SPU}
Ref == [uuid : Nat, origin : Nodes]
Width(device) == IF device = SPU THEN Len(SpuNodes) ELSE 1
\* The references of a device object, by rank.
Refs(device) == [1..Width(device) -> Ref]
Objects == {obj \in [device : Devices, refs : Seq(Ref)] : obj.refs \in Refs(obj.device)}

Phases == {"place", "run", "fetch_share_meta", "fetch_meta"}
Calls == [device : Devices, why : {"user", "reconstruct", "make_shares"},
          todo : Seq(Objects), args : Seq(Seq(Ref)), held : Seq(Objects),
          lent : Seq(Objects), phase : Phases]

TypeInv ==
    /\ globals \in [Nodes -> SUBSET Ref]
    /\ fresh \in Nat
    /\ handles \subseteq Objects
    /\ dead \in Seq(ToSet(dead))

\* The arguments of a call have the shape its device takes.
ArgsInv(call) == \A k \in DOMAIN call.args : call.args[k] \in Refs(call.device)
\* What is fetched is there: the shares of a PYU, or the results of the SPU.
FetchInv(call) ==
    /\ call.phase = "fetch_share_meta" =>
         /\ call.device = SPU
         /\ call.todo # <<>>
         /\ Len(call.lent) = Len(SpuNodes)
         /\ \A i \in DOMAIN call.lent : call.lent[i].device # SPU
    /\ call.phase = "fetch_meta" => call.device = SPU /\ call.args # <<>>
\* A transfer kernel runs on a PYU, inside the call that it places an argument
\* of: outer is that call.
NestInv(call, outer) ==
    /\ call.why # "user" => call.device # SPU /\ outer.todo # <<>>
    /\ call.why = "reconstruct" => outer.device # SPU
    /\ call.why = "make_shares" => outer.device = SPU
CallInv(call) == ArgsInv(call) /\ FetchInv(call)
StackOK(s) ==
    /\ s \in Seq(Calls)
    /\ \A d \in 1..Len(s) : CallInv(s[d])
    /\ \A d \in 2..Len(s) : NestInv(s[d], s[d-1])
    /\ s # <<>> => s[1].why = "user"
StackInv == StackOK(stack)

IndInv == TypeInv /\ StackInv /\ NothingLeaks

-----------------------------------------------------------------------------
(* Sequences.                                                              *)

LEMMA ConstantFacts ==
  /\ SpuNodes \in Seq(Nodes)
  /\ Len(SpuNodes) \in Nat \ {0}
  /\ Ranks = 1..Len(SpuNodes)
  /\ \A i \in Ranks : SpuNodes[i] \in Nodes
  /\ SPU \notin Pyus
  /\ Pyus \subseteq Nodes
  /\ MaxArgs \in Nat
BY DistributedAssumption DEF DistributedAssumption, Nodes, Ranks

LEMMA AppendSet ==
  ASSUME NEW S, NEW s \in Seq(S), NEW e
  PROVE  ToSet(Append(s, e)) = ToSet(s) \cup {e}
<1>1. /\ Append(s, e) \in Seq(S \cup {e})
      /\ DOMAIN Append(s, e) = 1..Len(s) + 1
      /\ \A i \in 1..Len(s) : Append(s, e)[i] = s[i]
      /\ Append(s, e)[Len(s) + 1] = e
  <2>1. s \in Seq(S \cup {e})
    OBVIOUS
  <2> QED
    BY <2>1
<1>2. DOMAIN s = 1..Len(s) /\ Len(s) \in Nat
  OBVIOUS
<1> QED
  BY <1>1, <1>2 DEF ToSet

LEMMA IncCounts ==
  ASSUME NEW bag, NEW refs
  PROVE  BagToSet(Inc(bag, refs)) = BagToSet(bag) \cup ToSet(refs)
BY DEF Inc, BagToSet

-----------------------------------------------------------------------------
(* The stack of calls.                                                     *)

LEMMA TopFacts ==
  ASSUME StackInv, stack # <<>>
  PROVE  /\ Depth \in Nat \ {0}
         /\ Depth \in DOMAIN stack
         /\ Top = stack[Depth]
         /\ Top \in Calls
         /\ CallInv(Top)
BY DEF StackInv, StackOK, Depth, Top, Last

LEMMA Inner ==
  ASSUME StackInv, stack # <<>>, Top.why # "user"
  PROVE  /\ Depth - 1 \in Nat \ {0}
         /\ Depth - 1 \in DOMAIN stack
         /\ stack[Depth - 1] \in Calls
         /\ CallInv(stack[Depth - 1])
         /\ NestInv(Top, stack[Depth - 1])
<1>1. Depth # 1
  BY TopFacts DEF StackInv, StackOK
<1> QED
  BY <1>1, TopFacts DEF StackInv, StackOK

LEMMA Replaced ==
  ASSUME NEW s, StackOK(s), s # <<>>,
         NEW call \in Calls, CallInv(call),
         call.why = s[Len(s)].why, call.device = s[Len(s)].device
  PROVE  StackOK(ReplaceAt(s, Len(s), call))
<1> DEFINE t == ReplaceAt(s, Len(s), call)
<1>1. /\ t \in Seq(Calls) /\ Len(t) = Len(s) /\ Len(s) \in Nat \ {0}
      /\ \A d \in 1..Len(s) : t[d] = IF d = Len(s) THEN call ELSE s[d]
  BY DEF StackOK, ReplaceAt
<1>2. \A d \in 1..Len(t) : CallInv(t[d])
  BY <1>1 DEF StackOK
<1>3. ASSUME NEW d \in 2..Len(t) PROVE NestInv(t[d], t[d-1])
  <2>1. NestInv(s[d], s[d-1])
    BY <1>1 DEF StackOK
  <2>2. d \in 1..Len(s) /\ d - 1 \in 1..Len(s) /\ d - 1 # Len(s)
    BY <1>1
  <2>3. t[d-1] = s[d-1] /\ t[d].why = s[d].why /\ t[d].device = s[d].device
    BY <1>1, <2>2
  <2> QED
    BY <2>1, <2>3 DEF NestInv
<1>4. t[1].why = "user"
  BY <1>1 DEF StackOK
<1> QED
  BY <1>1, <1>2, <1>3, <1>4 DEF StackOK

LEMMA Pushed ==
  ASSUME NEW s, StackOK(s), NEW call \in Calls, CallInv(call),
         IF s = <<>> THEN call.why = "user" ELSE NestInv(call, s[Len(s)])
  PROVE  StackOK(Append(s, call))
<1> DEFINE t == Append(s, call)
<1>1. /\ t \in Seq(Calls) /\ Len(t) = Len(s) + 1 /\ Len(s) \in Nat
      /\ \A d \in 1..Len(s) : t[d] = s[d]
      /\ t[Len(s) + 1] = call
  BY DEF StackOK
<1>2. \A d \in 1..Len(t) : CallInv(t[d])
  BY <1>1 DEF StackOK
<1>3. ASSUME NEW d \in 2..Len(t) PROVE NestInv(t[d], t[d-1])
  <2>1. CASE d = Len(t)
    <3>1. Len(s) \in 1..Len(s) /\ s # <<>>
      BY <1>1, <2>1
    <3> QED
      BY <1>1, <2>1, <3>1
  <2>2. CASE d # Len(t)
    BY <1>1, <2>2 DEF StackOK
  <2> QED
    BY <2>1, <2>2
<1>4. t[1].why = "user"
  <2>1. CASE s = <<>>
    BY <1>1, <2>1
  <2>2. CASE s # <<>>
    BY <1>1, <2>2 DEF StackOK
  <2> QED
    BY <2>1, <2>2
<1> QED
  BY <1>1, <1>2, <1>3, <1>4 DEF StackOK

LEMMA FrontFacts ==
  ASSUME NEW S, NEW s \in Seq(S), Len(s) > 0
  PROVE  /\ Front(s) \in Seq(S)
         /\ Len(Front(s)) = Len(s) - 1
         /\ Len(s) \in Nat
         /\ \A d \in 1..Len(s) - 1 : Front(s)[d] = s[d]
<1> DEFINE n == Len(s) - 1
<1>1. n \in Nat /\ Len(s) \in Nat /\ n <= Len(s)
  OBVIOUS
<1>2. /\ SubSeq(s, 1, n) \in Seq(S)
      /\ Len(SubSeq(s, 1, n)) = n
      /\ \A d \in 1..n : SubSeq(s, 1, n)[d] = s[d]
  <2> HIDE DEF n
  <2> QED
    BY <1>1
<1> QED
  BY <1>1, <1>2 DEF Front

\* The innermost call returns, and the one around it goes on as call.
LEMMA Popped ==
  ASSUME NEW s, StackOK(s), Len(s) > 1,
         NEW call \in Calls, CallInv(call),
         call.why = s[Len(s) - 1].why, call.device = s[Len(s) - 1].device
  PROVE  StackOK(Append(Front(Front(s)), call))
<1> DEFINE f == Front(Front(s))
<1>1. /\ f \in Seq(Calls) /\ Len(f) = Len(s) - 2 /\ Len(s) \in Nat
      /\ \A d \in 1..Len(f) : f[d] = s[d]
  <2>1. s \in Seq(Calls) /\ Len(s) > 0
    BY DEF StackOK
  <2>2. /\ Front(s) \in Seq(Calls) /\ Len(Front(s)) = Len(s) - 1 /\ Len(s) \in Nat
        /\ \A d \in 1..Len(s) - 1 : Front(s)[d] = s[d]
    BY <2>1, FrontFacts
  <2>3. /\ f \in Seq(Calls) /\ Len(f) = Len(Front(s)) - 1
        /\ \A d \in 1..Len(Front(s)) - 1 : f[d] = Front(s)[d]
    BY <2>2, FrontFacts
  <2> QED
    BY <2>2, <2>3
<1>2. StackOK(f)
  BY SMTT(30), <1>1 DEF StackOK
<1>3. CASE f = <<>>
  <2>1. Len(s) = 2
    BY <1>1, <1>3
  <2> QED
    BY <1>2, <1>3, <2>1, Pushed DEF StackOK
<1>4. CASE f # <<>>
  <2>1. Len(f) \in 1..Len(f) /\ Len(s) - 1 \in 2..Len(s) /\ Len(f) = (Len(s) - 1) - 1
    BY <1>1, <1>4
  <2>2. NestInv(s[Len(s) - 1], f[Len(f)])
    BY <1>1, <2>1 DEF StackOK
  <2>3. NestInv(call, f[Len(f)])
    BY <2>2 DEF NestInv
  <2> QED
    BY <1>2, <1>4, <2>3, Pushed
<1> QED
  BY <1>3, <1>4

-----------------------------------------------------------------------------
(* Objects and calls.                                                      *)

LEMMA WidthFacts ==
  ASSUME NEW device
  PROVE  /\ Width(device) \in Nat \ {0}
         /\ Refs(device) \subseteq Seq(Ref)
         /\ \A refs \in Refs(device) : refs[1] \in Ref /\ DOMAIN refs = 1..Width(device)
<1>1. Width(device) \in Nat \ {0}
  BY ConstantFacts DEF Width
<1> QED
  BY <1>1 DEF Refs

LEMMA ObjectFacts ==
  ASSUME NEW device \in Devices, NEW refs \in Refs(device)
  PROVE  /\ Object(device, refs) \in Objects
         /\ Object(device, refs).device = device
         /\ Object(device, refs).refs = refs
BY WidthFacts DEF Object, Objects

\* Handles of one reference each, on a PYU.
LEMMA OnPyu ==
  ASSUME NEW device \in Devices, device # SPU, NEW n \in Nat, NEW refs \in [1..n -> Ref]
  PROVE  LET objs == [i \in 1..n |-> Object(device, <<refs[i]>>)]
         IN  /\ objs \in Seq(Objects)
             /\ Len(objs) = n
             /\ \A i \in 1..n : objs[i] \in Objects /\ objs[i].device = device
<1>1. ASSUME NEW i \in 1..n PROVE <<refs[i]>> \in Refs(device)
  BY DEF Refs, Width
<1>2. \A i \in 1..n : /\ Object(device, <<refs[i]>>) \in Objects
                      /\ Object(device, <<refs[i]>>).device = device
  BY <1>1, ObjectFacts
<1> QED
  BY <1>2

LEMMA CallFacts ==
  ASSUME NEW device \in Devices, NEW why \in {"user", "reconstruct", "make_shares"},
         NEW todo \in Seq(Objects)
  PROVE  /\ Call(device, why, todo) \in Calls
         /\ CallInv(Call(device, why, todo))
         /\ Call(device, why, todo).device = device
         /\ Call(device, why, todo).why = why
         /\ Call(device, why, todo).phase = "place"
BY DEF Call, Calls, CallInv, ArgsInv, FetchInv, Phases

LEMMA PlacedFacts ==
  ASSUME NEW call \in Calls, ArgsInv(call), call.todo # <<>>,
         NEW obj \in Objects, (obj.device = SPU) <=> (call.device = SPU)
  PROVE  /\ Placed(call, obj) \in Calls
         /\ ArgsInv(Placed(call, obj))
         /\ Placed(call, obj).why = call.why
         /\ Placed(call, obj).device = call.device
         /\ Placed(call, obj).phase = call.phase
         /\ Placed(call, obj).held = call.held
<1> DEFINE p == Placed(call, obj)
<1>1. obj.refs \in Refs(call.device) /\ obj.refs \in Seq(Ref)
  BY DEF Objects, Refs, Width
<1>2. /\ Tail(call.todo) \in Seq(Objects)
      /\ Append(call.args, obj.refs) \in Seq(Seq(Ref))
  BY <1>1 DEF Calls
<1>3. /\ p \in Calls /\ p.args = Append(call.args, obj.refs)
      /\ p.why = call.why /\ p.device = call.device /\ p.phase = call.phase
      /\ p.held = call.held
  BY <1>2 DEF Calls, Placed
<1>4. \A k \in DOMAIN p.args : p.args[k] \in Refs(call.device)
  <2>1. call.args \in Seq(Seq(Ref))
    BY DEF Calls
  <2> QED
    BY <1>1, <1>3, <2>1 DEF ArgsInv
<1> QED
  BY <1>3, <1>4 DEF ArgsInv

-----------------------------------------------------------------------------
(* Every action preserves types and the shape of the stack.                *)

TypeAndStack == TypeInv /\ StackInv

LEMMA StackEmpty == StackOK(<<>>)
BY DEF StackOK

\* What the actions on the innermost call keep when they only change its record.
LEMMA SetTopFacts ==
  ASSUME StackInv, stack # <<>>, NEW call \in Calls, CallInv(call),
         call.why = Top.why, call.device = Top.device, SetTop(call)
  PROVE  StackInv'
BY Replaced, TopFacts DEF StackInv, SetTop, Depth, Top, Last

LEMMA InvokeTypes ==
  ASSUME TypeAndStack, NEW device \in Devices, NEW args \in Arguments, Invoke(device, args)
  PROVE  StackInv'
<1>1. args \in Seq(Objects)
  <2>1. PICK n \in 0..MaxArgs : args \in Injection(1..n, handles)
    BY DEF Arguments
  <2>2. args \in [1..n -> handles] /\ n \in Nat
    BY <2>1, ConstantFacts DEF Injection
  <2>3. handles \subseteq Objects
    BY DEF TypeAndStack, TypeInv
  <2> QED
    BY <2>2, <2>3
<1>2. /\ Call(device, "user", args) \in Calls
      /\ CallInv(Call(device, "user", args))
      /\ Call(device, "user", args).why = "user"
  BY <1>1, CallFacts
<1>3. StackOK(Append(<<>>, Call(device, "user", args)))
  BY <1>2, StackEmpty, Pushed
<1> QED
  BY <1>3 DEF Invoke, StackInv

LEMMA PlacingFacts ==
  ASSUME TypeAndStack, Placing
  PROVE  /\ stack # <<>> /\ Top \in Calls /\ CallInv(Top) /\ Top.phase = "place"
         /\ Top.todo # <<>>
         /\ Moved \in Objects /\ Moved.refs \in Refs(Moved.device)
         /\ Moved.device \in Devices
<1>1. stack # <<>> /\ Top \in Calls /\ CallInv(Top) /\ Top.phase = "place" /\ Top.todo # <<>>
  BY TopFacts DEF TypeAndStack, Placing, At
<1>2. Top.todo \in Seq(Objects)
  BY <1>1 DEF Calls
<1>3. Moved \in Objects
  BY <1>1, <1>2 DEF Moved
<1> QED
  BY <1>1, <1>3 DEF Objects

LEMMA PYU2PYUTypes ==
  ASSUME TypeAndStack, PYU2PYU
  PROVE  StackInv'
<1> DEFINE obj == Object(Top.device, Moved.refs)
           call == [Placed(Top, obj) EXCEPT !.held = Append(@, obj)]
<1>1. /\ stack # <<>> /\ Top \in Calls /\ CallInv(Top) /\ Top.phase = "place"
      /\ Top.todo # <<>> /\ Moved.refs \in Refs(Moved.device)
      /\ Moved.device # SPU /\ Top.device # SPU
  BY PlacingFacts DEF PYU2PYU
<1>2. obj \in Objects /\ obj.device = Top.device
  <2>1. Top.device \in Devices /\ Moved.refs \in Refs(Top.device)
    BY <1>1 DEF Calls, Refs, Width
  <2> QED
    BY <2>1, ObjectFacts
<1> HIDE DEF obj
<1>3. /\ Placed(Top, obj) \in Calls /\ ArgsInv(Placed(Top, obj))
      /\ Placed(Top, obj).why = Top.why /\ Placed(Top, obj).device = Top.device
      /\ Placed(Top, obj).phase = "place"
  BY <1>1, <1>2, PlacedFacts DEF CallInv
<1>4. /\ call \in Calls /\ call.why = Top.why /\ call.device = Top.device
      /\ call.phase = "place" /\ call.args = Placed(Top, obj).args
  <2>1. Append(Placed(Top, obj).held, obj) \in Seq(Objects)
    BY <1>2, <1>3 DEF Calls
  <2> QED
    BY <1>3, <2>1 DEF Calls
<1>5. CallInv(call)
  BY <1>3, <1>4 DEF CallInv, ArgsInv, FetchInv
<1>6. SetTop(call)
  BY DEF PYU2PYU, obj
<1> HIDE DEF call
<1> QED
  BY <1>1, <1>4, <1>5, <1>6, SetTopFacts DEF TypeAndStack

LEMMA SPU2SPUTypes ==
  ASSUME TypeAndStack, SPU2SPU
  PROVE  StackInv'
<1>1. /\ stack # <<>> /\ Top \in Calls /\ CallInv(Top) /\ Top.phase = "place"
      /\ Top.todo # <<>> /\ Moved \in Objects
      /\ Moved.device = SPU /\ Top.device = SPU
  BY PlacingFacts DEF SPU2SPU
<1>2. /\ Placed(Top, Moved) \in Calls /\ ArgsInv(Placed(Top, Moved))
      /\ Placed(Top, Moved).why = Top.why /\ Placed(Top, Moved).device = Top.device
      /\ Placed(Top, Moved).phase = "place"
  BY <1>1, PlacedFacts DEF CallInv
<1>3. CallInv(Placed(Top, Moved))
  BY <1>2 DEF CallInv, FetchInv
<1>4. SetTop(Placed(Top, Moved))
  BY DEF SPU2SPU
<1> QED
  BY <1>1, <1>2, <1>3, <1>4, SetTopFacts DEF TypeAndStack

LEMMA SPU2PYUTypes ==
  ASSUME TypeAndStack, SPU2PYU
  PROVE  StackInv'
<1> DEFINE shares == [i \in Ranks |-> Object(Top.device, <<Moved.refs[i]>>)]
           outer == [Top EXCEPT !.lent = shares]
           inner == Call(Top.device, "reconstruct", shares)
           s == ReplaceAt(stack, Depth, outer)
<1>1. /\ stack # <<>> /\ Top \in Calls /\ CallInv(Top) /\ Top.phase = "place"
      /\ Moved.refs \in Refs(SPU) /\ Top.device # SPU /\ Top.device \in Devices
      /\ Top.todo # <<>>
  BY PlacingFacts DEF SPU2PYU, Calls
<1>2. shares \in Seq(Objects)
  <2>1. Moved.refs \in [1..Len(SpuNodes) -> Ref] /\ Len(SpuNodes) \in Nat
    BY <1>1, ConstantFacts DEF Refs, Width
  <2>2. Ranks = 1..Len(SpuNodes) /\ Top.device \in Devices /\ Top.device # SPU
    BY <1>1, ConstantFacts
  <2> QED
    BY <2>1, <2>2, OnPyu
<1> HIDE DEF shares
<1>3. /\ outer \in Calls /\ outer.why = Top.why /\ outer.device = Top.device
      /\ outer.phase = "place" /\ outer.args = Top.args /\ outer.todo = Top.todo
  BY <1>1, <1>2 DEF Calls
<1>4. CallInv(outer)
  BY <1>1, <1>3 DEF CallInv, ArgsInv, FetchInv
<1>5. /\ inner \in Calls /\ CallInv(inner)
      /\ inner.why = "reconstruct" /\ inner.device = Top.device
  BY <1>1, <1>2, CallFacts
<1> HIDE DEF outer, inner
<1>6. StackOK(stack) /\ Depth \in Nat \ {0} /\ Depth = Len(stack) /\ Top = stack[Depth]
  BY <1>1, TopFacts DEF TypeAndStack, StackInv, Depth
<1>7. StackOK(s)
  BY <1>1, <1>3, <1>4, <1>6, Replaced
<1>8. s # <<>> /\ Len(s) = Depth /\ s[Len(s)] = outer
  BY <1>3, <1>6 DEF StackOK, ReplaceAt
<1>9. NestInv(inner, s[Len(s)])
  BY <1>1, <1>3, <1>5, <1>8 DEF NestInv
<1>10. StackOK(Append(s, inner))
  BY <1>5, <1>7, <1>8, <1>9, Pushed
<1> QED
  BY <1>10 DEF StackInv, SPU2PYU, shares, outer, inner

LEMMA PYU2SPUTypes ==
  ASSUME TypeAndStack, PYU2SPU
  PROVE  StackInv'
<1> DEFINE inner == Call(Moved.device, "make_shares", <<Moved>>)
<1>1. /\ stack # <<>> /\ Moved \in Objects /\ Moved.device \in Devices
      /\ Moved.device # SPU /\ Top.device = SPU /\ Top.todo # <<>>
  BY PlacingFacts DEF PYU2SPU
<1>2. /\ inner \in Calls /\ CallInv(inner)
      /\ inner.why = "make_shares" /\ inner.device = Moved.device
  <2>1. <<Moved>> \in Seq(Objects)
    BY <1>1
  <2>2. ASSUME NEW todo \in Seq(Objects), NEW device \in Devices
        PROVE  /\ Call(device, "make_shares", todo) \in Calls
               /\ CallInv(Call(device, "make_shares", todo))
               /\ Call(device, "make_shares", todo).why = "make_shares"
               /\ Call(device, "make_shares", todo).device = device
    BY CallFacts
  <2> QED
    BY <1>1, <2>1, <2>2
<1> HIDE DEF inner
<1>3. StackOK(stack) /\ Top = stack[Len(stack)]
  BY <1>1, TopFacts DEF TypeAndStack, StackInv, Depth
<1>4. NestInv(inner, stack[Len(stack)])
  BY <1>1, <1>2, <1>3 DEF NestInv
<1>5. StackOK(Append(stack, inner))
  BY <1>1, <1>2, <1>3, <1>4, Pushed
<1> QED
  BY <1>5 DEF StackInv, PYU2SPU, inner

LEMMA PrepareTypes ==
  ASSUME TypeAndStack, Prepare
  PROVE  StackInv'
<1> DEFINE spu == [Top EXCEPT !.phase = "run"]
           pyu == [Top EXCEPT !.phase = "run", !.held = <<>>]
<1>1. stack # <<>> /\ Top \in Calls /\ CallInv(Top)
  BY TopFacts DEF TypeAndStack, Prepare, At
<1>2. /\ spu \in Calls /\ spu.why = Top.why /\ spu.device = Top.device
      /\ spu.phase = "run" /\ spu.args = Top.args
  BY <1>1 DEF Calls, Phases
<1>3. /\ pyu \in Calls /\ pyu.why = Top.why /\ pyu.device = Top.device
      /\ pyu.phase = "run" /\ pyu.args = Top.args
  <2>1. <<>> \in Seq(Objects)
    OBVIOUS
  <2> QED
    BY <1>1, <2>1 DEF Calls, Phases
<1>4. CallInv(spu) /\ CallInv(pyu)
  BY <1>1, <1>2, <1>3 DEF CallInv, ArgsInv, FetchInv
<1>5. SetTop(spu) \/ SetTop(pyu)
  BY DEF Prepare
<1> HIDE DEF spu, pyu
<1> QED
  BY <1>1, <1>2, <1>3, <1>4, <1>5, SetTopFacts DEF TypeAndStack

-----------------------------------------------------------------------------
(* The runs on the nodes.                                                  *)

LEMMA RaiseTypes ==
  ASSUME Raise
  PROVE  StackInv' /\ stack' = <<>>
BY StackEmpty DEF Raise, StackInv

\* What a call on a PYU is about.
LEMMA PyuFacts ==
  ASSUME TypeAndStack, At("run"), Top.device # SPU
  PROVE  /\ stack # <<>> /\ Top \in Calls /\ CallInv(Top)
         /\ Top.device \in Pyus /\ Top.device \in Nodes
         /\ DOMAIN PyuArgs \subseteq Nat
         /\ \A k \in DOMAIN PyuArgs : PyuArgs[k] \in Ref
         /\ ToSet(PyuArgs) \subseteq Ref
<1>1. stack # <<>> /\ Top \in Calls /\ CallInv(Top)
  BY TopFacts DEF TypeAndStack, At
<1>2. Top.device \in Pyus /\ Top.device \in Nodes
  BY <1>1, ConstantFacts DEF Calls, Devices
<1>3. Top.args \in Seq(Seq(Ref))
  BY <1>1 DEF Calls
<1>4. \A k \in DOMAIN Top.args : Top.args[k][1] \in Ref
  BY <1>1, WidthFacts DEF CallInv, ArgsInv
<1>5. DOMAIN PyuArgs \subseteq Nat
  BY <1>3 DEF PyuArgs
<1>6. \A k \in DOMAIN PyuArgs : PyuArgs[k] \in Ref
  BY <1>4 DEF PyuArgs
<1> QED
  BY <1>1, <1>2, <1>5, <1>6 DEF ToSet

LEMMA PyuResultFacts ==
  ASSUME TypeAndStack, At("run"), Top.device # SPU
  PROVE  /\ \E n \in Nat \ {0} : PyuResults \in [1..n -> Ref]
         /\ Len(PyuResults) \in Nat
         /\ ToSet(PyuResults) \subseteq Ref
         /\ Top.why = "make_shares" => PyuResults \in [1..Len(SpuNodes) -> Ref]
         /\ Top.why # "make_shares" => PyuResults \in [1..1 -> Ref]
<1> DEFINE D == IF Top.why = "make_shares" THEN Ranks ELSE 1..1
<1>1. fresh \in Nat /\ Top.device \in Nodes
  BY PyuFacts DEF TypeAndStack, TypeInv
<1>2. D \subseteq Nat
  BY ConstantFacts
<1>3. PyuResults \in [D -> Ref]
  BY <1>1, <1>2 DEF PyuResults, NewRefs, ObjectRef, Ref
<1>4. \E n \in Nat \ {0} : D = 1..n
  <2>1. CASE Top.why = "make_shares"
    BY <2>1, ConstantFacts
  <2>2. CASE Top.why # "make_shares"
    <3>1. 1 \in Nat \ {0} /\ D = 1..1
      BY <2>2
    <3> QED
      BY <3>1
  <2> QED
    BY <2>1, <2>2
<1>5. Len(PyuResults) \in Nat
  BY <1>3, <1>4, ConstantFacts
<1>6. ToSet(PyuResults) \subseteq Ref
  BY <1>3 DEF ToSet
<1> QED
  BY <1>3, <1>4, <1>5, <1>6, ConstantFacts

\* The handles of the results, wherever they go.
LEMMA GivenFacts ==
  ASSUME TypeAndStack, stack # <<>>, Top.device \in Devices,
         NEW objs \in Seq(Objects), objs # <<>>,
         Top.why = "reconstruct" => objs[1].device = Top.device,
         Top.why = "make_shares" =>
            /\ Len(objs) = Len(SpuNodes)
            /\ \A i \in DOMAIN objs : objs[i].device # SPU,
         GiveResults(objs)
  PROVE  StackInv' /\ handles' \subseteq Objects
<1>1. Top \in Calls /\ CallInv(Top) /\ StackOK(stack) /\ handles \subseteq Objects
  BY TopFacts DEF TypeAndStack, StackInv, TypeInv
<1>2. CASE Top.why = "user"
  <2>1. stack' = <<>> /\ handles' = handles \cup ToSet(objs)
    BY <1>2 DEF GiveResults
  <2>2. ToSet(objs) \subseteq Objects
    BY DEF ToSet
  <2> QED
    BY <1>1, <2>1, <2>2, StackEmpty DEF StackInv
<1> DEFINE outer == stack[Depth - 1]
<1>3. ASSUME Top.why # "user"
      PROVE  /\ Len(stack) > 1 /\ Depth = Len(stack)
             /\ outer \in Calls /\ CallInv(outer) /\ NestInv(Top, outer)
             /\ Top.device # SPU
  BY <1>3, Inner, TopFacts DEF TypeAndStack, Depth, NestInv
<1>4. CASE Top.why = "reconstruct"
  <2> DEFINE call == [Placed(outer, objs[1]) EXCEPT !.held = Append(@, objs[1]), !.lent = <<>>]
  <2>1. objs[1] \in Objects
    OBVIOUS
  <2>2. outer.device # SPU /\ objs[1].device # SPU /\ outer.todo # <<>>
    BY <1>3, <1>4 DEF NestInv
  <2>3. /\ Placed(outer, objs[1]) \in Calls /\ ArgsInv(Placed(outer, objs[1]))
        /\ Placed(outer, objs[1]).why = outer.why /\ Placed(outer, objs[1]).device = outer.device
        /\ Placed(outer, objs[1]).phase = outer.phase
    BY <1>3, <1>4, <2>1, <2>2, PlacedFacts DEF CallInv
  <2> DEFINE p == Placed(outer, objs[1])
  <2> HIDE DEF outer, p
  <2>4. Append(p.held, objs[1]) \in Seq(Objects) /\ <<>> \in Seq(Objects)
    BY <2>1, <2>3 DEF Calls, p
  <2>5. /\ call \in Calls /\ call.why = outer.why /\ call.device = outer.device
        /\ call.args = p.args /\ call.phase = outer.phase
    BY <2>3, <2>4 DEF Calls, p
  <2>6. CallInv(call)
    <3>1. CallInv(outer)
      BY <1>3, <1>4 DEF outer
    <3> QED
      BY <2>2, <2>3, <2>5, <3>1 DEF CallInv, ArgsInv, FetchInv, p
  <2>7. stack' = Append(Front(Front(stack)), call) /\ handles' = handles
    BY <1>4 DEF GiveResults, outer
  <2> HIDE DEF call
  <2>8. StackOK(Append(Front(Front(stack)), call))
    BY <1>1, <1>3, <1>4, <2>5, <2>6, Popped DEF outer
  <2> QED
    BY <1>1, <2>7, <2>8 DEF StackInv
<1>5. CASE Top.why = "make_shares"
  <2> DEFINE call == [outer EXCEPT !.lent = objs, !.phase = "fetch_share_meta"]
  <2>1. outer.device = SPU /\ outer \in Calls /\ CallInv(outer) /\ outer.todo # <<>>
    BY <1>3, <1>5 DEF NestInv
  <2> HIDE DEF outer
  <2>2. /\ call \in Calls /\ call.why = outer.why /\ call.device = outer.device
        /\ call.args = outer.args /\ call.lent = objs /\ call.phase = "fetch_share_meta"
        /\ call.todo = outer.todo
    BY <2>1 DEF Calls, Phases
  <2>3. CallInv(call)
    BY <1>5, <2>1, <2>2 DEF CallInv, ArgsInv, FetchInv
  <2>4. stack' = Append(Front(Front(stack)), call) /\ handles' = handles
    BY <1>5 DEF GiveResults, outer
  <2> HIDE DEF call
  <2>5. StackOK(Append(Front(Front(stack)), call))
    BY <1>1, <1>3, <1>5, <2>2, <2>3, Popped DEF outer
  <2> QED
    BY <1>1, <2>4, <2>5 DEF StackInv
<1>6. Top.why \in {"user", "reconstruct", "make_shares"}
  BY <1>1 DEF Calls
<1> QED
  BY <1>2, <1>4, <1>5, <1>6

LEMMA PyuRunTypes ==
  ASSUME TypeAndStack, PyuRun
  PROVE  TypeAndStack'
<1>1. /\ stack # <<>> /\ Top \in Calls /\ Top.device \in Nodes /\ Top.device \in Devices
      /\ Top.device # SPU /\ ToSet(PyuArgs) \subseteq Ref /\ ToSet(PyuResults) \subseteq Ref
      /\ Len(PyuResults) \in Nat
  BY PyuFacts, PyuResultFacts DEF PyuRun, Devices
<1>2. PICK n \in Nat \ {0} : PyuResults \in [1..n -> Ref]
  BY PyuResultFacts DEF PyuRun
<1> DEFINE objs == [i \in DOMAIN PyuResults |-> Object(Top.device, <<PyuResults[i]>>)]
<1>3. /\ objs \in Seq(Objects) /\ Len(objs) = n
      /\ \A i \in 1..n : objs[i].device = Top.device
  <2>1. DOMAIN PyuResults = 1..n
    BY <1>2
  <2>2. ASSUME NEW device \in Devices, device # SPU
        PROVE  LET o == [i \in 1..n |-> Object(device, <<PyuResults[i]>>)]
               IN  /\ o \in Seq(Objects) /\ Len(o) = n
                   /\ \A i \in 1..n : o[i].device = device
    BY <1>2, <2>2, OnPyu
  <2> QED
    BY <1>1, <2>1, <2>2
<1>4. Top.why = "make_shares" => n = Len(SpuNodes)
  <2>1. Top.why = "make_shares" => DOMAIN PyuResults = 1..Len(SpuNodes)
    BY PyuResultFacts DEF PyuRun
  <2>2. Top.why = "make_shares" => Len(PyuResults) = Len(SpuNodes)
    BY <2>1, PyuResultFacts, ConstantFacts DEF PyuRun
  <2>3. Len(PyuResults) = n
    BY <1>2
  <2> QED
    BY <2>2, <2>3
<1>5. GiveResults(objs)
  BY DEF PyuRun
<1> HIDE DEF objs
<1>6. objs # <<>> /\ objs[1].device = Top.device /\ \A i \in DOMAIN objs : objs[i].device # SPU
  BY <1>1, <1>3
<1>7. StackInv' /\ handles' \subseteq Objects
  BY <1>1, <1>3, <1>4, <1>5, <1>6, GivenFacts
<1>8. globals' \in [Nodes -> SUBSET Ref]
  BY <1>1 DEF PyuRun, TypeAndStack, TypeInv
<1>9. fresh' \in Nat
  BY <1>1 DEF PyuRun, TypeAndStack, TypeInv
<1> QED
  BY <1>7, <1>8, <1>9 DEF PyuRun, TypeAndStack, TypeInv

LEMMA ResolvedRefs ==
  ASSUME NEW node, NEW refs, \A k \in DOMAIN refs : refs[k] \in Ref
  PROVE  Resolved(node, refs) \subseteq Ref
BY DEF Resolved

LEMMA PyuFailTypes ==
  ASSUME TypeAndStack, PyuFail
  PROVE  TypeAndStack'
<1>1. Top.device \in Nodes /\ Resolved(Top.device, PyuArgs) \subseteq Ref
  BY PyuFacts, ResolvedRefs DEF PyuFail
<1>2. globals' \in [Nodes -> SUBSET Ref]
  BY <1>1 DEF PyuFail, TypeAndStack, TypeInv
<1>3. StackInv'
  BY RaiseTypes DEF PyuFail
<1> QED
  BY <1>2, <1>3 DEF PyuFail, TypeAndStack, TypeInv

LEMMA PyuAnswerLostTypes ==
  ASSUME TypeAndStack, PyuAnswerLost
  PROVE  TypeAndStack'
<1>1. /\ Top.device \in Nodes
      /\ ToSet(PyuArgs) \subseteq Ref /\ ToSet(PyuResults) \subseteq Ref
      /\ Len(PyuResults) \in Nat
  BY PyuFacts, PyuResultFacts DEF PyuAnswerLost
<1>2. globals' \in [Nodes -> SUBSET Ref]
  BY <1>1 DEF PyuAnswerLost, TypeAndStack, TypeInv
<1>3. fresh' \in Nat
  BY <1>1 DEF PyuAnswerLost, TypeAndStack, TypeInv
<1>4. StackInv'
  BY RaiseTypes DEF PyuAnswerLost
<1> QED
  BY <1>2, <1>3, <1>4 DEF PyuAnswerLost, TypeAndStack, TypeInv

\* What a call on the SPU is about.
LEMMA SpuFacts ==
  ASSUME TypeAndStack, At("run"), Top.device = SPU
  PROVE  /\ stack # <<>> /\ Top \in Calls /\ CallInv(Top)
         /\ NewRefs(SpuNodes) \in [Ranks -> Ref]
         /\ \A i \in Ranks : NewRefs(SpuNodes)[i].origin = SpuNodes[i]
         /\ \A i \in Ranks : /\ DOMAIN SpuArgs(i) \subseteq Nat
                             /\ \A k \in DOMAIN SpuArgs(i) : SpuArgs(i)[k] \in Ref
<1>1. stack # <<>> /\ Top \in Calls /\ CallInv(Top)
  BY TopFacts DEF TypeAndStack, At
<1>2. /\ NewRefs(SpuNodes) \in [Ranks -> Ref]
      /\ \A i \in Ranks : NewRefs(SpuNodes)[i].origin = SpuNodes[i]
  <2>1. fresh \in Nat /\ Ranks \subseteq Nat /\ Ranks = DOMAIN SpuNodes
    BY ConstantFacts DEF TypeAndStack, TypeInv, Ranks
  <2> QED
    BY <2>1, ConstantFacts DEF NewRefs, ObjectRef, Ref
<1>3. ASSUME NEW i \in Ranks
      PROVE  /\ DOMAIN SpuArgs(i) \subseteq Nat
             /\ \A k \in DOMAIN SpuArgs(i) : SpuArgs(i)[k] \in Ref
  <2>1. Top.args \in Seq(Seq(Ref))
    BY <1>1 DEF Calls
  <2>2. \A k \in DOMAIN Top.args : Top.args[k] \in [1..Len(SpuNodes) -> Ref]
    BY <1>1 DEF CallInv, ArgsInv, Refs, Width
  <2> QED
    BY <2>1, <2>2, ConstantFacts DEF SpuArgs
<1> QED
  BY <1>1, <1>2, <1>3

\* What a run on the SPU's nodes stores, and where the call goes on.
SpuDone == [Top EXCEPT !.args = <<NewRefs(SpuNodes)>>, !.phase = "fetch_meta"]
LEMMA SpuRunFacts ==
  ASSUME SpuRun
  PROVE  \E failed \in SUBSET Ranks :
           /\ globals' = [node \in Nodes |-> globals'[node]]
           /\ \A node \in Nodes : \A r \in globals'[node] :
                 \/ r \in globals[node]
                 \/ \E i \in Ranks : SpuNodes[i] = node /\ r \in Resolved(node, SpuArgs(i))
                 \/ \E i \in Ranks \ failed : r = NewRefs(SpuNodes)[i]
           /\ \/ /\ SetTop(SpuDone) /\ undelivered' = undelivered
              \/ /\ Raise
                 /\ undelivered' = undelivered \cup {NewRefs(SpuNodes)[i] : i \in Ranks \ failed}
<1> DEFINE results == NewRefs(SpuNodes)
           got == [i \in Ranks |-> Resolved(SpuNodes[i], SpuArgs(i))]
<1>1. PICK failed \in SUBSET Ranks :
         /\ globals' = [node \in Nodes |-> globals[node] \cup
               {r \in {results[i] : i \in Ranks \ failed} : r.origin = node} \cup
               UNION {got[i] : i \in {i \in Ranks : SpuNodes[i] = node}}]
         /\ \/ /\ SetTop(SpuDone) /\ undelivered' = undelivered
            \/ /\ Raise
               /\ undelivered' = undelivered \cup {results[i] : i \in Ranks \ failed}
  BY DEF SpuRun, SpuDone
<1>4. \A i \in Ranks : got[i] = Resolved(SpuNodes[i], SpuArgs(i))
  OBVIOUS
<1> HIDE DEF results, got
<1>2. ASSUME NEW node \in Nodes, NEW r \in globals'[node]
      PROVE  \/ r \in globals[node]
             \/ \E i \in Ranks : SpuNodes[i] = node /\ r \in Resolved(node, SpuArgs(i))
             \/ \E i \in Ranks \ failed : r = results[i]
  <2> DEFINE new == {x \in {results[i] : i \in Ranks \ failed} : x.origin = node}
             old == {got[i] : i \in {i \in Ranks : SpuNodes[i] = node}}
  <2>1. globals'[node] = globals[node] \cup new \cup UNION old
    BY <1>1
  <2>2. ASSUME NEW k \in old, r \in k
        PROVE  \E i \in Ranks : SpuNodes[i] = node /\ r \in Resolved(node, SpuArgs(i))
    BY <1>4, <2>2
  <2>3. ASSUME r \in new PROVE \E i \in Ranks \ failed : r = results[i]
    BY <2>3
  <2> HIDE DEF old, new
  <2>4. r \in globals[node] \/ r \in new \/ \E k \in old : r \in k
    BY <2>1
  <2> QED
    BY <2>2, <2>3, <2>4
<1>3. globals' = [node \in Nodes |-> globals'[node]]
  BY <1>1
<1> QED
  BY <1>1, <1>2, <1>3 DEF results

LEMMA SpuRunTypes ==
  ASSUME TypeAndStack, SpuRun
  PROVE  TypeAndStack'
<1> DEFINE results == NewRefs(SpuNodes)
<1>1. /\ stack # <<>> /\ Top \in Calls /\ CallInv(Top) /\ Top.device = SPU
      /\ results \in [Ranks -> Ref]
      /\ \A node : \A i \in Ranks : Resolved(node, SpuArgs(i)) \subseteq Ref
  BY SpuFacts, ResolvedRefs DEF SpuRun
<1>2. results \in Refs(SPU) /\ <<results>> \in Seq(Seq(Ref))
  <2>1. results \in [1..Len(SpuNodes) -> Ref]
    BY <1>1, ConstantFacts
  <2> QED
    BY <2>1, ConstantFacts DEF Refs, Width
<1>3. /\ SpuDone \in Calls /\ SpuDone.why = Top.why /\ SpuDone.device = Top.device
      /\ SpuDone.args = <<results>> /\ SpuDone.phase = "fetch_meta"
  BY <1>1, <1>2 DEF Calls, Phases, SpuDone
<1>4. CallInv(SpuDone)
  BY <1>1, <1>2, <1>3 DEF CallInv, ArgsInv, FetchInv
<1>5. StackInv'
  <2>1. ASSUME SetTop(SpuDone) PROVE StackInv'
    BY <1>1, <1>3, <1>4, <2>1, SetTopFacts DEF TypeAndStack
  <2>2. ASSUME Raise PROVE StackInv'
    BY <2>2, RaiseTypes
  <2>3. SetTop(SpuDone) \/ Raise
    BY SpuRunFacts
  <2> QED
    BY <2>1, <2>2, <2>3
<1>6. globals' \in [Nodes -> SUBSET Ref]
  <2>1. globals' = [node \in Nodes |-> globals'[node]]
    BY SpuRunFacts
  <2>2. ASSUME NEW node \in Nodes, NEW r \in globals'[node] PROVE r \in Ref
    <3>1. globals[node] \subseteq Ref
      BY DEF TypeAndStack, TypeInv
    <3>2. \/ r \in globals[node]
          \/ \E i \in Ranks : r \in Resolved(node, SpuArgs(i))
          \/ \E i \in Ranks : r = results[i]
      BY SpuRunFacts
    <3> QED
      BY <1>1, <3>1, <3>2
  <2>3. \A node \in Nodes : globals'[node] \in SUBSET Ref
    BY <2>2
  <2> QED
    BY <2>1, <2>3
<1>7. fresh' \in Nat
  BY ConstantFacts DEF SpuRun, TypeAndStack, TypeInv
<1> QED
  BY <1>5, <1>6, <1>7 DEF SpuRun, TypeAndStack, TypeInv

\* The references that the SPU's new handle names.
LEMMA ShareFacts ==
  ASSUME TypeAndStack, At("fetch_share_meta")
  PROVE  LET refs == [i \in DOMAIN Top.lent |-> Top.lent[i].refs[1]]
         IN  /\ stack # <<>> /\ Top \in Calls /\ CallInv(Top)
             /\ Top.device = SPU /\ Top.todo # <<>>
             /\ refs \in Refs(SPU)
<1>1. stack # <<>> /\ Top \in Calls /\ CallInv(Top) /\ Top.phase = "fetch_share_meta"
  BY TopFacts DEF TypeAndStack, At
<1>2. /\ Top.device = SPU /\ Top.todo # <<>> /\ Len(Top.lent) = Len(SpuNodes)
      /\ Top.lent \in Seq(Objects)
  BY <1>1 DEF CallInv, FetchInv, Calls
<1>3. DOMAIN Top.lent = 1..Len(SpuNodes)
  BY <1>2
<1>4. ASSUME NEW obj \in Objects PROVE obj.refs[1] \in Ref
  <2>1. obj.refs \in Refs(obj.device)
    BY DEF Objects
  <2> QED
    BY <2>1, WidthFacts
<1>5. \A i \in 1..Len(SpuNodes) : Top.lent[i] \in Objects
  BY <1>2, <1>3
<1>6. [i \in DOMAIN Top.lent |-> Top.lent[i].refs[1]] \in Refs(SPU)
  BY <1>3, <1>4, <1>5 DEF Refs, Width
<1> QED
  BY <1>1, <1>2, <1>6

LEMMA FetchShareMetaTypes ==
  ASSUME TypeAndStack, FetchShareMeta
  PROVE  StackInv'
<1> DEFINE refs == [i \in DOMAIN Top.lent |-> Top.lent[i].refs[1]]
           obj == Object(SPU, refs)
           p == Placed(Top, obj)
           call == [p EXCEPT !.held = Append(@, obj), !.lent = <<>>, !.phase = "place"]
<1>1. /\ stack # <<>> /\ Top \in Calls /\ CallInv(Top) /\ Top.device = SPU
      /\ Top.todo # <<>> /\ refs \in Refs(SPU)
  BY ShareFacts DEF FetchShareMeta
<1> HIDE DEF refs
<1>2. obj \in Objects /\ obj.device = SPU
  BY <1>1, ObjectFacts DEF Devices
<1> HIDE DEF obj
<1>3. /\ p \in Calls /\ ArgsInv(p) /\ p.why = Top.why /\ p.device = Top.device
  BY <1>1, <1>2, PlacedFacts DEF CallInv
<1> HIDE DEF p
<1>4. Append(p.held, obj) \in Seq(Objects) /\ <<>> \in Seq(Objects)
  BY <1>2, <1>3 DEF Calls
<1>5. /\ call \in Calls /\ call.why = Top.why /\ call.device = Top.device
      /\ call.args = p.args /\ call.phase = "place"
  BY <1>3, <1>4 DEF Calls, Phases
<1>6. CallInv(call)
  BY <1>3, <1>5 DEF CallInv, ArgsInv, FetchInv
<1>7. SetTop(call)
  BY DEF FetchShareMeta, refs, obj, p
<1> HIDE DEF call
<1> QED
  BY <1>1, <1>5, <1>6, <1>7, SetTopFacts DEF TypeAndStack

LEMMA FetchMetaFacts ==
  ASSUME TypeAndStack, At("fetch_meta")
  PROVE  /\ stack # <<>> /\ Top \in Calls /\ CallInv(Top) /\ Top.device = SPU
         /\ Top.args[1] \in Refs(SPU)
<1>1. stack # <<>> /\ Top \in Calls /\ CallInv(Top) /\ Top.phase = "fetch_meta"
  BY TopFacts DEF TypeAndStack, At
<1>2. Top.device = SPU /\ Top.args # <<>> /\ Top.args \in Seq(Seq(Ref))
  BY <1>1 DEF CallInv, FetchInv, Calls
<1>3. 1 \in DOMAIN Top.args
  BY <1>2
<1> QED
  BY <1>1, <1>2, <1>3 DEF CallInv, ArgsInv

LEMMA FetchMetaTypes ==
  ASSUME TypeAndStack, FetchMeta
  PROVE  StackInv' /\ handles' \subseteq Objects
<1> DEFINE obj == Object(SPU, Top.args[1])
<1>1. /\ stack # <<>> /\ Top \in Calls /\ Top.device = SPU /\ Top.device \in Devices
      /\ Top.args[1] \in Refs(SPU)
  BY FetchMetaFacts DEF FetchMeta, Devices
<1>2. obj \in Objects
  BY <1>1, ObjectFacts
<1>3. Top.why = "user"
  <2>1. ASSUME Top.why # "user" PROVE FALSE
    BY <1>1, <2>1, Inner DEF TypeAndStack, NestInv
  <2> QED
    BY <2>1
<1>4. GiveResults(<<obj>>)
  BY DEF FetchMeta
<1> HIDE DEF obj
<1>5. <<obj>> \in Seq(Objects) /\ <<obj>> # <<>>
  BY <1>2
<1> DEFINE objs == <<obj>>
<1>6. objs \in Seq(Objects) /\ objs # <<>> /\ GiveResults(objs)
  BY <1>4, <1>5
<1> HIDE DEF objs
<1> QED
  BY <1>1, <1>3, <1>6, GivenFacts

LEMMA FetchFailsTypes ==
  ASSUME TypeAndStack, FetchFails
  PROVE  StackInv'
BY RaiseTypes DEF FetchFails

LEMMA DeadFacts ==
  ASSUME NEW s, s \in Seq(ToSet(s)), NEW ref
  PROVE  /\ Append(s, ref) \in Seq(ToSet(Append(s, ref)))
         /\ ToSet(Append(s, ref)) = ToSet(s) \cup {ref}
<1>1. ToSet(Append(s, ref)) = ToSet(s) \cup {ref}
  BY AppendSet
<1>2. s \in Seq(ToSet(s) \cup {ref})
  OBVIOUS
<1> QED
  BY <1>1, <1>2

LEMMA DecObjrefTypes ==
  ASSUME TypeAndStack, DecObjref
  PROVE  TypeAndStack'
<1> DEFINE ref == Head(drops)
           refs == IF Count(ref, objrefs) = 1 THEN Append(dead, ref) ELSE dead
<1>1. refs \in Seq(ToSet(refs))
  BY DeadFacts DEF TypeAndStack, TypeInv
<1>2. \/ dead' = refs /\ globals' = globals
      \/ \E failed \in SUBSET Nodes :
            globals' = AfterGc(refs, failed) /\ dead' = StillDead(refs, failed)
  BY DEF DecObjref
<1> HIDE DEF refs
<1>3. globals' \in [Nodes -> SUBSET Ref] /\ dead' \in Seq(ToSet(dead'))
  <2>1. CASE dead' = refs /\ globals' = globals
    BY <1>1, <2>1 DEF TypeAndStack, TypeInv
  <2>2. ASSUME NEW failed \in SUBSET Nodes,
               globals' = AfterGc(refs, failed), dead' = StillDead(refs, failed)
        PROVE  globals' \in [Nodes -> SUBSET Ref] /\ dead' \in Seq(ToSet(dead'))
    <3>1. globals' \in [Nodes -> SUBSET Ref]
      BY <2>2 DEF AfterGc, TypeAndStack, TypeInv
    <3>2. <<>> \in Seq(ToSet(<<>>))
      OBVIOUS
    <3> QED
      BY <1>1, <2>2, <3>1, <3>2 DEF StillDead
  <2> QED
    BY <1>2, <2>1, <2>2
<1> QED
  BY <1>3 DEF DecObjref, TypeAndStack, TypeInv, StackInv

LEMMA TypeStep ==
  ASSUME TypeAndStack, [Next]_vars
  PROVE  TypeAndStack'
<1>1. ASSUME NEW device \in Devices, NEW args \in Arguments, Invoke(device, args)
      PROVE  TypeAndStack'
  BY <1>1, InvokeTypes DEF Invoke, TypeAndStack, TypeInv
<1>2. CASE PYU2PYU
  BY <1>2, PYU2PYUTypes DEF PYU2PYU, TypeAndStack, TypeInv
<1>3. CASE SPU2SPU
  BY <1>3, SPU2SPUTypes DEF SPU2SPU, TypeAndStack, TypeInv
<1>4. CASE SPU2PYU
  BY <1>4, SPU2PYUTypes DEF SPU2PYU, TypeAndStack, TypeInv
<1>5. CASE PYU2SPU
  BY <1>5, PYU2SPUTypes DEF PYU2SPU, TypeAndStack, TypeInv
<1>6. CASE Prepare
  BY <1>6, PrepareTypes DEF Prepare, TypeAndStack, TypeInv
<1>7. CASE PyuRun \/ PyuFail \/ PyuAnswerLost \/ SpuRun \/ DecObjref
  BY <1>7, PyuRunTypes, PyuFailTypes, PyuAnswerLostTypes, SpuRunTypes, DecObjrefTypes
<1>8. CASE FetchShareMeta
  BY <1>8, FetchShareMetaTypes DEF FetchShareMeta, TypeAndStack, TypeInv
<1>9. CASE FetchMeta
  BY <1>9, FetchMetaTypes DEF FetchMeta, TypeAndStack, TypeInv
<1>10. CASE FetchFails
  BY <1>10, FetchFailsTypes DEF FetchFails, TypeAndStack, TypeInv
<1>11. ASSUME NEW obj \in handles, Release(obj) PROVE TypeAndStack'
  BY <1>11 DEF Release, TypeAndStack, TypeInv, StackInv
<1>12. CASE UNCHANGED vars
  BY <1>12 DEF vars, TypeAndStack, TypeInv, StackInv
<1> QED
  BY <1>1, <1>2, <1>3, <1>4, <1>5, <1>6, <1>7, <1>8, <1>9, <1>10, <1>11, <1>12 DEF Next, Devices

-----------------------------------------------------------------------------
(* Every action keeps what the nodes store accounted for.                  *)

LEMMA Kept ==
  ASSUME NothingLeaks,
         Accounted \subseteq Accounted',
         \A node \in Nodes : \A r \in globals'[node] : r \in globals[node] \/ r \in Accounted'
  PROVE  NothingLeaks'
BY DEF NothingLeaks

\* Only the results of an SPU's run are ever awaited.
LEMMA NothingAwaited ==
  ASSUME NEW phase, At(phase), phase # "fetch_meta"
  PROVE  Accounted = BagToSet(objrefs) \cup ToSet(dead) \cup undelivered
BY DEF At, Awaited, Accounted

LEMMA AccountedNext ==
  /\ BagToSet(objrefs') \subseteq Accounted'
  /\ ToSet(dead') \subseteq Accounted'
  /\ undelivered' \subseteq Accounted'
BY DEF Accounted

\* A node keeps a copy of an argument only if that argument was stored.
LEMMA ResolvedKept ==
  ASSUME NothingLeaks, NEW node \in Nodes, NEW refs, DOMAIN refs \subseteq Nat,
         \A k \in DOMAIN refs : refs[k] \in Ref
  PROVE  /\ Resolved(node, refs) \subseteq Accounted
         /\ Missing(node, refs) = {} => ToSet(refs) \subseteq Accounted
<1>1. ASSUME NEW k \in DOMAIN refs, k \notin Missing(node, refs)
      PROVE  refs[k] \in Accounted
  <2>1. refs[k] \in globals[node] \cup globals[refs[k].origin]
    BY <1>1 DEF Missing
  <2>2. refs[k].origin \in Nodes
    BY DEF Ref
  <2> QED
    BY <2>1, <2>2 DEF NothingLeaks
<1>2. ASSUME NEW r \in Resolved(node, refs) PROVE r \in Accounted
  <2>1. PICK k \in DOMAIN refs : r = refs[k] /\ \A m \in Missing(node, refs) : k < m
    BY DEF Resolved
  <2>2. k \in Nat /\ ~(k < k)
    OBVIOUS
  <2> QED
    BY <1>1, <2>1, <2>2
<1> QED
  BY <1>1, <1>2 DEF ToSet

\* Nothing is forgotten when the nodes store nothing and no count decreases.
LEMMA QuietKeeps ==
  ASSUME NothingLeaks, NEW phase, At(phase), phase # "fetch_meta",
         globals' = globals, dead' = dead, undelivered' = undelivered,
         BagToSet(objrefs) \subseteq BagToSet(objrefs')
  PROVE  NothingLeaks'
<1>1. Accounted \subseteq Accounted'
  BY NothingAwaited, AccountedNext
<1> QED
  BY <1>1, Kept

LEMMA IdleKeeps ==
  ASSUME NothingLeaks, Idle,
         globals' = globals, dead' = dead, undelivered' = undelivered, objrefs' = objrefs
  PROVE  NothingLeaks'
<1>1. Accounted = BagToSet(objrefs) \cup ToSet(dead) \cup undelivered
  BY DEF Idle, Awaited, Accounted
<1>2. Accounted \subseteq Accounted'
  BY <1>1, AccountedNext
<1> QED
  BY <1>2, Kept

LEMMA PlacingKeeps ==
  ASSUME NothingLeaks,
         PYU2PYU \/ SPU2SPU \/ SPU2PYU \/ PYU2SPU \/ Prepare \/ FetchShareMeta
  PROVE  NothingLeaks'
<1>1. At("place") \/ At("fetch_share_meta")
  BY DEF PYU2PYU, SPU2SPU, SPU2PYU, PYU2SPU, Prepare, FetchShareMeta, Placing
<1>2. globals' = globals /\ dead' = dead /\ undelivered' = undelivered
  BY DEF PYU2PYU, SPU2SPU, SPU2PYU, PYU2SPU, Prepare, FetchShareMeta
<1>3. \/ objrefs' = objrefs
      \/ \E refs : objrefs' = Inc(objrefs, refs)
  BY DEF PYU2PYU, SPU2SPU, SPU2PYU, PYU2SPU, Prepare, FetchShareMeta
<1>4. BagToSet(objrefs) \subseteq BagToSet(objrefs')
  BY <1>3, IncCounts
<1> QED
  BY <1>1, <1>2, <1>4, QuietKeeps

LEMMA PyuKeeps ==
  ASSUME TypeAndStack, NothingLeaks, PyuRun \/ PyuFail \/ PyuAnswerLost
  PROVE  NothingLeaks'
<1>1. /\ Top.device \in Nodes
      /\ Resolved(Top.device, PyuArgs) \subseteq Accounted
      /\ Missing(Top.device, PyuArgs) = {} => ToSet(PyuArgs) \subseteq Accounted
  <2>1. At("run") /\ Top.device # SPU
    BY DEF PyuRun, PyuFail, PyuAnswerLost
  <2>2. /\ Top.device \in Nodes /\ DOMAIN PyuArgs \subseteq Nat
        /\ \A k \in DOMAIN PyuArgs : PyuArgs[k] \in Ref
    BY <2>1, PyuFacts
  <2> QED
    BY <2>2, ResolvedKept
<1>2. Accounted \subseteq Accounted'
  <2>1. Accounted = BagToSet(objrefs) \cup ToSet(dead) \cup undelivered
    BY NothingAwaited DEF PyuRun, PyuFail, PyuAnswerLost
  <2>2. /\ BagToSet(objrefs) \subseteq BagToSet(objrefs')
        /\ dead' = dead /\ undelivered \subseteq undelivered'
    BY IncCounts DEF PyuRun, PyuFail, PyuAnswerLost
  <2> QED
    BY <2>1, <2>2, AccountedNext
<1>3. ASSUME NEW node \in Nodes, NEW r \in globals'[node]
      PROVE  r \in globals[node] \/ r \in Accounted'
  <2>1. CASE PyuFail
    <3>1. r \in globals[node] \/ r \in Resolved(Top.device, PyuArgs)
      BY <1>3, <2>1 DEF PyuFail
    <3> QED
      BY <1>1, <1>2, <3>1
  <2>2. CASE PyuRun \/ PyuAnswerLost
    <3>1. \/ r \in globals[node]
          \/ r \in ToSet(PyuArgs)
          \/ r \in ToSet(PyuResults)
      <4> DEFINE new == ToSet(PyuArgs) \cup ToSet(PyuResults)
      <4>1. globals' = [globals EXCEPT ![Top.device] = @ \cup ToSet(PyuArgs) \cup ToSet(PyuResults)]
        BY <2>2 DEF PyuRun, PyuAnswerLost
      <4>2. globals' = [globals EXCEPT ![Top.device] = @ \cup new]
        BY <4>1
      <4>3. globals \in [Nodes -> SUBSET Ref]
        BY DEF TypeAndStack, TypeInv
      <4> HIDE DEF new
      <4>4. r \in globals[node] \/ r \in new
        BY <1>3, <4>2, <4>3
      <4> QED
        BY <4>4 DEF new
    <3>2. Missing(Top.device, PyuArgs) = {}
      BY <2>2 DEF PyuRun, PyuAnswerLost
    <3>3. ToSet(PyuResults) \subseteq BagToSet(objrefs') \cup undelivered'
      <4>1. CASE PyuRun
        <5>1. objrefs' = Inc(objrefs, PyuResults)
          BY <4>1 DEF PyuRun
        <5> QED
          BY <5>1, IncCounts
      <4>2. CASE PyuAnswerLost
        <5>1. undelivered' = undelivered \cup ToSet(PyuResults)
          BY <4>2 DEF PyuAnswerLost
        <5> QED
          BY <5>1
      <4> QED
        BY <2>2, <4>1, <4>2
    <3> QED
      BY <1>1, <1>2, <3>1, <3>2, <3>3, AccountedNext
  <2> QED
    BY <2>1, <2>2
<1> QED
  BY <1>2, <1>3, Kept

LEMMA SpuRunKeeps ==
  ASSUME TypeAndStack, NothingLeaks, SpuRun
  PROVE  NothingLeaks'
<1> DEFINE results == NewRefs(SpuNodes)
<1>1. /\ stack # <<>> /\ Top \in Calls
      /\ \A i \in Ranks : /\ DOMAIN SpuArgs(i) \subseteq Nat
                          /\ \A k \in DOMAIN SpuArgs(i) : SpuArgs(i)[k] \in Ref
      /\ DOMAIN results = Ranks
  BY SpuFacts DEF SpuRun
<1>2. Accounted = BagToSet(objrefs) \cup ToSet(dead) \cup undelivered
  BY NothingAwaited DEF SpuRun
<1>3. PICK failed \in SUBSET Ranks :
        /\ \A node \in Nodes : \A r \in globals'[node] :
              \/ r \in globals[node]
              \/ \E i \in Ranks : SpuNodes[i] = node /\ r \in Resolved(node, SpuArgs(i))
              \/ \E i \in Ranks \ failed : r = results[i]
        /\ \/ /\ SetTop(SpuDone) /\ undelivered' = undelivered
           \/ /\ Raise
              /\ undelivered' = undelivered \cup {results[i] : i \in Ranks \ failed}
  BY SpuRunFacts
<1>4. undelivered \subseteq undelivered' /\ objrefs' = objrefs /\ dead' = dead
  BY <1>3 DEF SpuRun
<1>5. Accounted \subseteq Accounted'
  BY <1>2, <1>4, AccountedNext
<1>6. ASSUME NEW i \in Ranks \ failed PROVE results[i] \in Accounted'
  <2>1. CASE SetTop(SpuDone)
    <3>1. stack' # <<>> /\ Top' = SpuDone
      BY <1>1, <2>1, TopFacts DEF SetTop, TypeAndStack, StackInv, StackOK, Top, Last, Depth, ReplaceAt
    <3>2. Top'.phase = "fetch_meta" /\ Top'.args = <<results>>
      BY <1>1, <3>1 DEF SpuDone, Calls
    <3>3. Awaited' = ToSet(results)
      BY <3>1, <3>2 DEF Awaited
    <3> QED
      BY <1>1, <3>3 DEF Accounted, ToSet
  <2>2. CASE undelivered' = undelivered \cup {results[j] : j \in Ranks \ failed}
    BY <2>2, AccountedNext
  <2> QED
    BY <1>3, <2>1, <2>2
<1> HIDE DEF results
<1>7. ASSUME NEW node \in Nodes, NEW r \in globals'[node]
      PROVE  r \in globals[node] \/ r \in Accounted'
  <2>1. ASSUME NEW i \in Ranks PROVE Resolved(node, SpuArgs(i)) \subseteq Accounted
    BY <1>1, ResolvedKept
  <2> QED
    BY <1>3, <1>5, <1>6, <1>7, <2>1
<1> QED
  BY <1>5, <1>7, Kept

LEMMA FetchKeeps ==
  ASSUME TypeAndStack, NothingLeaks, FetchMeta \/ FetchFails
  PROVE  NothingLeaks'
<1>1. globals' = globals /\ dead' = dead
  BY DEF FetchMeta, FetchFails
<1>2. CASE FetchMeta
  <2>1. BagToSet(objrefs') = BagToSet(objrefs) \cup ToSet(Top.args[1])
    <3>1. objrefs' = Inc(objrefs, Object(SPU, Top.args[1]).refs)
      BY <1>2 DEF FetchMeta
    <3>2. Object(SPU, Top.args[1]).refs = Top.args[1]
      BY DEF Object
    <3> QED
      BY <3>1, <3>2, IncCounts
  <2>2. Awaited \subseteq ToSet(Top.args[1]) /\ undelivered' = undelivered
    BY <1>2 DEF Awaited, FetchMeta
  <2>3. Accounted \subseteq Accounted'
    BY <1>1, <2>1, <2>2, AccountedNext DEF Accounted
  <2> QED
    BY <1>1, <2>3, Kept
<1>3. CASE FetchFails
  <2>1. undelivered \cup Awaited \subseteq undelivered' /\ objrefs' = objrefs
    BY <1>3 DEF FetchFails, Awaited
  <2>2. Accounted \subseteq Accounted'
    BY <1>1, <2>1, AccountedNext DEF Accounted
  <2> QED
    BY <1>1, <2>2, Kept
<1> QED
  BY <1>2, <1>3

\* The last decrement of a reference moves it to the dead, and the dead are
\* forgotten only when every node has dropped them.
LEMMA DecObjrefKeeps ==
  ASSUME TypeAndStack, NothingLeaks, DecObjref
  PROVE  NothingLeaks'
<1> DEFINE ref == Head(drops)
           refs == IF Count(ref, objrefs) = 1 THEN Append(dead, ref) ELSE dead
<1>1. /\ objrefs' = BagRemove(objrefs, ref)
      /\ undelivered' = undelivered /\ stack' = stack
      /\ \/ dead' = refs /\ globals' = globals
         \/ \E failed \in SUBSET Nodes :
               globals' = AfterGc(refs, failed) /\ dead' = StillDead(refs, failed)
  BY DEF DecObjref
<1>2. BagToSet(objrefs) \cup ToSet(dead) \subseteq BagToSet(objrefs') \cup ToSet(refs)
  <2>1. CASE Count(ref, objrefs) = 1
    <3>1. ToSet(refs) = ToSet(dead) \cup {ref}
      BY <2>1, DeadFacts DEF TypeAndStack, TypeInv
    <3>2. BagToSet(objrefs) \subseteq BagToSet(objrefs') \cup {ref}
      BY <1>1 DEF BagRemove, BagToSet
    <3> QED
      BY <3>1, <3>2
  <2>2. CASE Count(ref, objrefs) # 1
    <3>1. BagToSet(objrefs) \subseteq BagToSet(objrefs')
      BY <1>1, <2>2 DEF BagRemove, BagToSet, Count, BagIn
    <3> QED
      BY <2>2, <3>1
  <2> QED
    BY <2>1, <2>2
<1> HIDE DEF ref, refs
<1>3. Awaited' = Awaited
  BY <1>1 DEF Awaited, Top
<1>4. Accounted \subseteq Accounted' \cup ToSet(refs)
  BY <1>1, <1>2, <1>3 DEF Accounted
<1>5. CASE dead' = refs /\ globals' = globals
  BY <1>4, <1>5, AccountedNext, Kept
<1>6. ASSUME NEW failed \in SUBSET Nodes,
             globals' = AfterGc(refs, failed), dead' = StillDead(refs, failed)
      PROVE  NothingLeaks'
  <2>1. CASE failed = {}
    <3>1. \A node \in Nodes : globals'[node] = globals[node] \ ToSet(refs)
      BY <1>6, <2>1 DEF AfterGc
    <3> QED
      BY <1>4, <3>1 DEF NothingLeaks
  <2>2. CASE failed # {}
    <3>1. dead' = refs
      BY <1>6, <2>2 DEF StillDead
    <3>2. \A node \in Nodes : globals'[node] \subseteq globals[node]
      BY <1>6 DEF AfterGc
    <3>3. Accounted \subseteq Accounted'
      BY <1>4, <3>1, AccountedNext
    <3> QED
      BY <3>2, <3>3, Kept
  <2> QED
    BY <2>1, <2>2
<1> QED
  BY <1>1, <1>5, <1>6

LEMMA LeakStep ==
  ASSUME IndInv, [Next]_vars
  PROVE  NothingLeaks'
<1>1. TypeAndStack /\ NothingLeaks
  BY DEF IndInv, TypeAndStack
<1>2. ASSUME NEW device, NEW args, Invoke(device, args) PROVE NothingLeaks'
  BY <1>1, <1>2, IdleKeeps DEF Invoke
<1>3. ASSUME NEW obj, Release(obj) PROVE NothingLeaks'
  BY <1>1, <1>3, IdleKeeps DEF Release
<1>4. CASE UNCHANGED vars
  BY <1>1, <1>4 DEF vars, NothingLeaks, Accounted, Awaited, Top
<1> QED
  BY <1>1, <1>2, <1>3, <1>4, PlacingKeeps, PyuKeeps, SpuRunKeeps, FetchKeeps, DecObjrefKeeps DEF Next

-----------------------------------------------------------------------------
(* The results.                                                            *)

LEMMA InitInv == Init => IndInv
<1> SUFFICES ASSUME Init PROVE IndInv
  OBVIOUS
<1>1. <<>> \in Seq(ToSet(<<>>))
  OBVIOUS
<1>2. TypeInv
  BY <1>1 DEF Init, TypeInv
<1>3. StackInv
  BY StackEmpty DEF Init, StackInv
<1>4. NothingLeaks
  BY DEF Init, NothingLeaks
<1> QED
  BY <1>2, <1>3, <1>4 DEF IndInv

LEMMA NextInv == IndInv /\ [Next]_vars => IndInv'
BY TypeStep, LeakStep DEF IndInv, TypeAndStack

\* The calls have the shape that _place_arguments and the transfers between
\* devices (distributed_impl.py:424-454, 663-707, 1275-1337) rely on: every
\* object has one reference for each node of its device, a transfer kernel runs
\* on a PYU within the call that it places an argument of, and the meta data
\* that is fetched belongs to shares or results that exist.
THEOREM CallsWellFormed == Spec => [](TypeInv /\ StackInv)
BY InitInv, NextInv, PTL DEF Spec, IndInv

\* No copy of an object outlives its handles (distributed_impl.py:1117-1150),
\* whatever calls are nested, runs fail, answers are lost and collections fail
\* on some of the nodes: a node stores only what the driver accounts for.
THEOREM NoCopyLeaks == Spec => []NothingLeaks
BY InitInv, NextInv, PTL DEF Spec, IndInv

-----------------------------------------------------------------------------
(* Induction.  A set of numbers that has 0 and with every number the next  *)
(* one has them all: else the map that moves its members one up takes 0..m *)
(* one to one into 1..m, for an m that it misses.                          *)

LEMMA NatInduct ==
  ASSUME NEW S, 0 \in S, \A n \in Nat : n \in S => n + 1 \in S
  PROVE  Nat \subseteq S
<1> SUFFICES ASSUME NEW m \in Nat, m \notin S
             PROVE  FALSE
  OBVIOUS
<1> DEFINE f == [x \in 0..m |-> IF x \in S THEN x + 1 ELSE x]
<1>1. f \in [0..m -> 1..m]
  <2>1. ASSUME NEW x \in 0..m PROVE (IF x \in S THEN x + 1 ELSE x) \in 1..m
    <3>1. x \in Nat /\ x <= m
      OBVIOUS
    <3>2. CASE x \in S
      <4>1. x # m
        BY <3>2
      <4> QED
        BY <3>1, <3>2, <4>1
    <3>3. CASE x \notin S
      <4>1. x # 0
        BY <3>3
      <4> QED
        BY <3>1, <3>3, <4>1
    <3> QED
      BY <3>2, <3>3
  <2> QED
    BY <2>1
<1>2. ASSUME NEW x \in 0..m, NEW y \in 0..m, x # y, f[x] = f[y]
      PROVE  FALSE
  <2>1. x \in Nat /\ y \in Nat
    OBVIOUS
  <2>2. CASE x \in S /\ y \notin S
    BY <1>2, <2>1, <2>2
  <2>3. CASE x \notin S /\ y \in S
    BY <1>2, <2>1, <2>3
  <2>4. CASE (x \in S /\ y \in S) \/ (x \notin S /\ y \notin S)
    BY <1>2, <2>1, <2>4
  <2> QED
    BY <2>2, <2>3, <2>4
<1>3. /\ IsFiniteSet(0..m) /\ Cardinality(0..m) = m + 1
      /\ IsFiniteSet(1..m) /\ Cardinality(1..m) = m
  <2>1. 0 \in Int /\ 1 \in Int /\ m \in Int
    OBVIOUS
  <2>2. /\ IsFiniteSet(0..m) /\ Cardinality(0..m) = IF 0 > m THEN 0 ELSE m - 0 + 1
        /\ IsFiniteSet(1..m) /\ Cardinality(1..m) = IF 1 > m THEN 0 ELSE m - 1 + 1
    BY <2>1, FS_Interval
  <2> QED
    BY <2>2
<1> HIDE DEF f
<1>4. \E x, y \in 0..m : x # y /\ f[x] = f[y]
  <2>1. Cardinality(1..m) < Cardinality(0..m)
    BY <1>3
  <2> QED
    BY <1>1, <1>3, <2>1, FS_PigeonHole, Zenon
<1> QED
  BY <1>2, <1>4

\* A sequence that is not empty is another one and an element more.
LEMMA SplitLast ==
  ASSUME NEW T, NEW s \in Seq(T), s # <<>>
  PROVE  /\ Front(s) \in Seq(T) /\ Last(s) \in T
         /\ s = Append(Front(s), Last(s))
         /\ Len(Front(s)) = Len(s) - 1
<1>1. Len(s) \in Nat \ {0} /\ Len(s) > 0
  OBVIOUS
<1>2. /\ Front(s) \in Seq(T) /\ Len(Front(s)) = Len(s) - 1
      /\ \A d \in 1..Len(s) - 1 : Front(s)[d] = s[d]
  BY <1>1, FrontFacts
<1>3. Last(s) \in T /\ Last(s) = s[Len(s)]
  BY <1>1 DEF Last
<1> DEFINE t == Append(Front(s), Last(s))
<1>4. t \in Seq(T) /\ Len(t) = Len(s)
  BY <1>1, <1>2, <1>3
<1>5. ASSUME NEW d \in 1..Len(s) PROVE t[d] = s[d]
  BY <1>1, <1>2, <1>3
<1>6. t = s
  BY <1>4, <1>5
<1> QED
  BY <1>2, <1>3, <1>6

LEMMA SeqInduct ==
  ASSUME NEW T, NEW S, <<>> \in S,
         \A s \in Seq(T) : \A e \in T : s \in S => Append(s, e) \in S
  PROVE  Seq(T) \subseteq S
<1> DEFINE N == {n \in Nat : \A s \in Seq(T) : Len(s) = n => s \in S}
<1>1. 0 \in N
  <2>1. \A s \in Seq(T) : Len(s) = 0 => s = <<>>
    OBVIOUS
  <2> QED
    BY <2>1
<1>2. ASSUME NEW n \in Nat, n \in N PROVE n + 1 \in N
  <2>1. ASSUME NEW s \in Seq(T), Len(s) = n + 1 PROVE s \in S
    <3>1. s # <<>>
      BY <2>1
    <3>2. /\ Front(s) \in Seq(T) /\ Last(s) \in T
          /\ s = Append(Front(s), Last(s)) /\ Len(Front(s)) = Len(s) - 1
      BY <3>1, SplitLast
    <3>3. Len(Front(s)) = n
      BY <2>1, <3>2
    <3>4. Front(s) \in S
      BY <1>2, <3>2, <3>3
    <3> QED
      BY <3>2, <3>4
  <2> QED
    BY <2>1
<1>3. Nat \subseteq N
  <2> HIDE DEF N
  <2> QED
    BY <1>1, <1>2, NatInduct
<1>4. ASSUME NEW s \in Seq(T) PROVE s \in S
  <2>1. Len(s) \in Nat
    OBVIOUS
  <2>2. Len(s) \in N
    BY <1>3, <2>1
  <2> QED
    BY <2>2
<1> QED
  BY <1>4

-----------------------------------------------------------------------------
(* FlattenSeq.                                                             *)

\* f is the function that FlattenSeq takes, on the first n sequences of s.
IsFlat(s, n, f) == f = [i \in 1..n |-> IF i = 1 THEN s[i] ELSE f[i-1] \o s[i]]

LEMMA FlatExists ==
  ASSUME NEW s
  PROVE  \A n \in Nat : \E f : IsFlat(s, n, f)
<1> DEFINE N == {n \in Nat : \E f : IsFlat(s, n, f)}
<1>1. 0 \in N
  <2> DEFINE f == [i \in 1..0 |-> 0]
  <2>1. f = [i \in 1..0 |-> IF i = 1 THEN s[i] ELSE f[i-1] \o s[i]]
    OBVIOUS
  <2> HIDE DEF f
  <2>2. IsFlat(s, 0, f)
    BY <2>1 DEF IsFlat
  <2> QED
    BY <2>2
<1>2. ASSUME NEW n \in Nat, n \in N PROVE n + 1 \in N
  <2>1. PICK f : IsFlat(s, n, f)
    BY <1>2
  <2>2. DOMAIN f = 1..n /\ \A i \in 1..n : f[i] = IF i = 1 THEN s[i] ELSE f[i-1] \o s[i]
    BY <2>1 DEF IsFlat
  <2> DEFINE g == [i \in 1..n+1 |->
                     IF i = n + 1 THEN (IF i = 1 THEN s[i] ELSE f[i-1] \o s[i]) ELSE f[i]]
  <2>3. ASSUME NEW i \in 1..n+1 PROVE g[i] = IF i = 1 THEN s[i] ELSE g[i-1] \o s[i]
    <3>1. i # 1 => i - 1 \in 1..n /\ i - 1 # n + 1 /\ g[i-1] = f[i-1]
      OBVIOUS
    <3>2. CASE i = n + 1
      BY <3>1, <3>2
    <3>3. CASE i # n + 1
      <4>1. i \in 1..n
        BY <3>3
      <4>2. g[i] = f[i]
        BY <3>3
      <4> HIDE DEF g
      <4> QED
        BY <2>2, <3>1, <4>1, <4>2
    <3> QED
      BY <3>2, <3>3
  <2>4. g = [i \in 1..n+1 |-> g[i]]
    OBVIOUS
  <2> HIDE DEF g
  <2>5. g = [i \in 1..n+1 |-> IF i = 1 THEN s[i] ELSE g[i-1] \o s[i]]
    BY <2>3, <2>4
  <2>6. IsFlat(s, n + 1, g)
    BY <2>5 DEF IsFlat
  <2> QED
    BY <2>6
<1>3. Nat \subseteq N
  <2> HIDE DEF N
  <2> QED
    BY <1>1, <1>2, NatInduct
<1> QED
  BY <1>3

LEMMA FlattenIs ==
  ASSUME NEW s, Len(s) \in Nat, Len(s) # 0
  PROVE  \E f : IsFlat(s, Len(s), f) /\ FlattenSeq(s) = f[Len(s)]
<1> DEFINE f == CHOOSE f : f = [i \in 1..Len(s) |-> IF i = 1 THEN s[i] ELSE f[i-1] \o s[i]]
<1>1. FlattenSeq(s) = f[Len(s)]
  BY DEF FlattenSeq
<1>2. \E g : g = [i \in 1..Len(s) |-> IF i = 1 THEN s[i] ELSE g[i-1] \o s[i]]
  BY FlatExists DEF IsFlat
<1>3. f = [i \in 1..Len(s) |-> IF i = 1 THEN s[i] ELSE f[i-1] \o s[i]]
  BY <1>2
<1> HIDE DEF f
<1> QED
  BY <1>1, <1>3 DEF IsFlat

\* What it is on the first n sequences does not depend on those that follow.
LEMMA FlatAgrees ==
  ASSUME NEW n \in Nat, NEW m \in Nat, n <= m, NEW s, NEW t,
         \A i \in 1..n : s[i] = t[i],
         NEW f, IsFlat(s, n, f), NEW g, IsFlat(t, m, g)
  PROVE  \A i \in 1..n : f[i] = g[i]
<1>1. /\ \A i \in 1..n : f[i] = IF i = 1 THEN s[i] ELSE f[i-1] \o s[i]
      /\ \A i \in 1..m : g[i] = IF i = 1 THEN t[i] ELSE g[i-1] \o t[i]
  BY DEF IsFlat
<1> DEFINE N == {i \in Nat : i \in 1..n => f[i] = g[i]}
<1>2. 0 \in N
  OBVIOUS
<1>3. ASSUME NEW i \in Nat, i \in N PROVE i + 1 \in N
  <2>1. ASSUME i + 1 \in 1..n PROVE f[i+1] = g[i+1]
    <3>1. i + 1 \in 1..m /\ s[i+1] = t[i+1] /\ (i + 1) - 1 = i
      BY <2>1
    <3>2. CASE i = 0
      BY <1>1, <2>1, <3>1, <3>2
    <3>3. CASE i # 0
      <4>1. i \in 1..n
        BY <2>1, <3>3
      <4>2. f[i] = g[i]
        BY <1>3, <4>1
      <4> DEFINE k == i + 1
      <4>3. k \in 1..n /\ k \in 1..m /\ k # 1 /\ k - 1 = i
        BY <2>1, <3>1, <3>3
      <4> HIDE DEF k
      <4>4. f[k] = f[k-1] \o s[k] /\ g[k] = g[k-1] \o t[k]
        BY <1>1, <4>3
      <4>5. f[k] = f[i] \o s[k] /\ g[k] = g[i] \o t[k]
        BY <4>3, <4>4
      <4> QED
        BY <3>1, <4>2, <4>5 DEF k
    <3> QED
      BY <3>2, <3>3
  <2> QED
    BY <2>1
<1>4. Nat \subseteq N
  <2> HIDE DEF N
  <2> QED
    BY <1>2, <1>3, NatInduct
<1> QED
  BY <1>4

LEMMA FlattenEmpty == FlattenSeq(<<>>) = <<>>
BY DEF FlattenSeq

LEMMA FlattenAppend ==
  ASSUME NEW T, NEW s \in Seq(Seq(T)), NEW e \in Seq(T)
  PROVE  FlattenSeq(Append(s, e)) = FlattenSeq(s) \o e
<1> DEFINE t == Append(s, e)
           n == Len(s)
<1>1. /\ n \in Nat /\ Len(t) = n + 1 /\ t[n+1] = e
      /\ \A i \in 1..n : s[i] = t[i]
  OBVIOUS
<1> HIDE DEF t
<1>2. PICK g : IsFlat(t, n + 1, g) /\ FlattenSeq(t) = g[n+1]
  <2>1. Len(t) \in Nat /\ Len(t) # 0
    BY <1>1
  <2> QED
    BY <1>1, <2>1, FlattenIs
<1>3. g[n+1] = IF n + 1 = 1 THEN t[n+1] ELSE g[(n+1)-1] \o t[n+1]
  <2>1. n + 1 \in 1..n+1
    BY <1>1
  <2> QED
    BY <1>2, <2>1 DEF IsFlat
<1>4. CASE n = 0
  <2>1. s = <<>>
    BY <1>4
  <2>2. FlattenSeq(t) = e
    BY <1>1, <1>2, <1>3, <1>4
  <2>3. FlattenSeq(s) \o e = e
    BY <2>1, FlattenEmpty
  <2> QED
    BY <2>2, <2>3 DEF t
<1>5. CASE n # 0
  <2>1. PICK f : IsFlat(s, n, f) /\ FlattenSeq(s) = f[n]
    BY <1>1, <1>5, FlattenIs
  <2>2. f[n] = g[n]
    <3>1. n <= n + 1 /\ n + 1 \in Nat /\ n \in 1..n
      BY <1>1, <1>5
    <3>2. \A i \in 1..n : f[i] = g[i]
      <4>1. \A i \in 1..n : s[i] = t[i]
        BY <1>1
      <4>2. n \in Nat
        BY <1>1
      <4> HIDE DEF n
      <4> QED
        BY ONLY <1>2, <2>1, <3>1, <4>1, <4>2, FlatAgrees, SMTT(60)
    <3> QED
      BY <3>1, <3>2
  <2>3. g[n+1] = g[n] \o e
    <3>1. (n + 1) - 1 = n /\ n + 1 # 1
      BY <1>1, <1>5
    <3> HIDE DEF n
    <3> QED
      BY <1>1, <1>3, <3>1
  <2> QED
    BY <1>2, <2>1, <2>2, <2>3 DEF t
<1> QED
  BY <1>4, <1>5

LEMMA FlattenType ==
  ASSUME NEW T, NEW s \in Seq(Seq(T))
  PROVE  FlattenSeq(s) \in Seq(T)
<1> DEFINE S == {x \in Seq(Seq(T)) : FlattenSeq(x) \in Seq(T)}
<1>1. <<>> \in S
  <2>1. <<>> \in Seq(T) /\ <<>> \in Seq(Seq(T))
    OBVIOUS
  <2> QED
    BY <2>1, FlattenEmpty
<1>2. ASSUME NEW x \in Seq(Seq(T)), NEW e \in Seq(T), x \in S PROVE Append(x, e) \in S
  <2>1. FlattenSeq(Append(x, e)) = FlattenSeq(x) \o e /\ Append(x, e) \in Seq(Seq(T))
    BY FlattenAppend
  <2>2. FlattenSeq(x) \o e \in Seq(T)
    BY <1>2
  <2> QED
    BY <2>1, <2>2
<1>3. Seq(Seq(T)) \subseteq S
  <2> HIDE DEF S
  <2> QED
    BY <1>1, <1>2, SeqInduct
<1> QED
  BY <1>3

-----------------------------------------------------------------------------
(* Occurrences.                                                            *)

LEMMA OccurrencesFinite ==
  ASSUME NEW T, NEW s \in Seq(T), NEW r
  PROVE  /\ IsFiniteSet({i \in DOMAIN s : s[i] = r})
         /\ Occurrences(r, s) \in Nat
<1>1. DOMAIN s = 1..Len(s) /\ Len(s) \in Int /\ 1 \in Int
  OBVIOUS
<1>2. IsFiniteSet(1..Len(s))
  BY <1>1, FS_Interval
<1>3. {i \in DOMAIN s : s[i] = r} \in SUBSET (1..Len(s))
  BY <1>1
<1>4. IsFiniteSet({i \in DOMAIN s : s[i] = r})
  BY <1>2, <1>3, FS_Subset
<1> QED
  BY <1>4, FS_CardinalityType DEF Occurrences

LEMMA OccurrencesEmpty == \A r : Occurrences(r, <<>>) = 0
<1> SUFFICES ASSUME NEW r PROVE Occurrences(r, <<>>) = 0
  OBVIOUS
<1>1. {i \in DOMAIN <<>> : <<>>[i] = r} = {}
  OBVIOUS
<1> QED
  BY <1>1, FS_EmptySet DEF Occurrences

LEMMA OccurrencesAppend ==
  ASSUME NEW T, NEW s \in Seq(T), NEW e \in T, NEW r
  PROVE  Occurrences(r, Append(s, e)) = Occurrences(r, s) + (IF e = r THEN 1 ELSE 0)
<1> DEFINE n == Len(s)
           t == Append(s, e)
           I == {i \in DOMAIN s : s[i] = r}
           J == {i \in DOMAIN t : t[i] = r}
<1>1. /\ n \in Nat /\ DOMAIN s = 1..n /\ DOMAIN t = 1..n+1
      /\ t[n+1] = e /\ \A i \in 1..n : t[i] = s[i]
  OBVIOUS
<1> HIDE DEF n, t
<1>2. IsFiniteSet(I) /\ Cardinality(I) \in Nat /\ n + 1 \notin I
  <2>1. n + 1 \notin DOMAIN s
    BY <1>1
  <2> QED
    BY <2>1, OccurrencesFinite DEF Occurrences
<1>3. J = IF e = r THEN I \cup {n+1} ELSE I
  <2>1. ASSUME NEW i PROVE i \in DOMAIN t <=> i \in DOMAIN s \/ i = n + 1
    BY <1>1
  <2> QED
    BY <1>1, <2>1
<1> HIDE DEF I, J
<1>4. Cardinality(J) = Cardinality(I) + (IF e = r THEN 1 ELSE 0)
  <2>1. CASE e = r
    BY <1>2, <1>3, <2>1, FS_AddElement
  <2>2. CASE e # r
    BY <1>2, <1>3, <2>2
  <2> QED
    BY <2>1, <2>2
<1> QED
  BY <1>4 DEF Occurrences, I, J, t

LEMMA OccurrencesConcat ==
  ASSUME NEW T, NEW a \in Seq(T), NEW b \in Seq(T), NEW r
  PROVE  Occurrences(r, a \o b) = Occurrences(r, a) + Occurrences(r, b)
<1> DEFINE S == {x \in Seq(T) : Occurrences(r, a \o x) = Occurrences(r, a) + Occurrences(r, x)}
<1>1. <<>> \in S
  <2>1. a \o <<>> = a /\ <<>> \in Seq(T)
    OBVIOUS
  <2>2. Occurrences(r, a) \in Nat /\ Occurrences(r, <<>>) = 0
    BY OccurrencesEmpty, OccurrencesFinite
  <2>3. Occurrences(r, a \o <<>>) = Occurrences(r, a) + Occurrences(r, <<>>)
    BY <2>1, <2>2
  <2> QED
    BY <2>1, <2>3
<1>2. ASSUME NEW x \in Seq(T), NEW e \in T, x \in S PROVE Append(x, e) \in S
  <2>1. /\ a \o Append(x, e) = Append(a \o x, e)
        /\ a \o x \in Seq(T) /\ Append(x, e) \in Seq(T)
    OBVIOUS
  <2>2. /\ Occurrences(r, Append(a \o x, e)) = Occurrences(r, a \o x) + (IF e = r THEN 1 ELSE 0)
        /\ Occurrences(r, Append(x, e)) = Occurrences(r, x) + (IF e = r THEN 1 ELSE 0)
    BY <2>1, OccurrencesAppend
  <2>3. Occurrences(r, a \o x) = Occurrences(r, a) + Occurrences(r, x)
    BY <1>2
  <2>4. Occurrences(r, a) \in Nat /\ Occurrences(r, x) \in Nat
    BY OccurrencesFinite
  <2>5. Occurrences(r, a \o Append(x, e)) = Occurrences(r, a) + Occurrences(r, Append(x, e))
    BY <2>1, <2>2, <2>3, <2>4
  <2> QED
    BY <2>1, <2>5
<1>3. Seq(T) \subseteq S
  <2> HIDE DEF S
  <2> QED
    BY <1>1, <1>2, SeqInduct
<1> QED
  BY <1>3

LEMMA OccurrencesPositive ==
  ASSUME NEW T, NEW s \in Seq(T), NEW r
  PROVE  r \in ToSet(s) <=> Occurrences(r, s) # 0
<1>1. IsFiniteSet({i \in DOMAIN s : s[i] = r})
  BY OccurrencesFinite
<1>2. Occurrences(r, s) = 0 <=> {i \in DOMAIN s : s[i] = r} = {}
  BY <1>1, FS_EmptySet DEF Occurrences
<1> QED
  BY <1>2 DEF ToSet

\* No two positions of s have the same element.
Distinct(s) == \A i, j \in DOMAIN s : s[i] = s[j] => i = j

LEMMA OccursOnce ==
  ASSUME NEW T, NEW s \in Seq(T), Distinct(s), NEW r
  PROVE  Occurrences(r, s) = IF r \in ToSet(s) THEN 1 ELSE 0
<1>1. CASE r \in ToSet(s)
  <2>1. PICK i \in DOMAIN s : s[i] = r
    BY <1>1 DEF ToSet
  <2>2. {j \in DOMAIN s : s[j] = r} = {i}
    BY <2>1 DEF Distinct
  <2> QED
    BY <1>1, <2>2, FS_Singleton DEF Occurrences
<1>2. CASE r \notin ToSet(s)
  BY <1>2, OccurrencesPositive
<1> QED
  BY <1>1, <1>2

LEMMA OccurrencesHead ==
  ASSUME NEW T, NEW s \in Seq(T), s # <<>>, NEW r
  PROVE  Occurrences(r, s) = (IF Head(s) = r THEN 1 ELSE 0) + Occurrences(r, Tail(s))
<1> DEFINE h == Append(<<>>, Head(s))
<1>1. /\ Head(s) \in T /\ Tail(s) \in Seq(T)
      /\ h \in Seq(T) /\ <<>> \in Seq(T)
      /\ s = h \o Tail(s)
  OBVIOUS
<1>2. Occurrences(r, h) = Occurrences(r, <<>>) + (IF Head(s) = r THEN 1 ELSE 0)
  BY <1>1, OccurrencesAppend
<1> HIDE DEF h
<1>3. Occurrences(r, h \o Tail(s)) = Occurrences(r, h) + Occurrences(r, Tail(s))
  BY <1>1, OccurrencesConcat
<1>4. Occurrences(r, <<>>) = 0 /\ Occurrences(r, Tail(s)) \in Nat
  BY <1>1, OccurrencesEmpty, OccurrencesFinite
<1>5. Occurrences(r, s) = Occurrences(r, h \o Tail(s))
  BY <1>1
<1> QED
  BY <1>2, <1>3, <1>4, <1>5

-----------------------------------------------------------------------------
(* The references that handles name.                                       *)

LEMMA RefsOfEmpty == RefsOf(<<>>) = <<>>
<1>1. [i \in DOMAIN <<>> |-> <<>>[i].refs] = <<>>
  OBVIOUS
<1> QED
  BY <1>1, FlattenEmpty DEF RefsOf

LEMMA RefsOfAppend ==
  ASSUME NEW objs \in Seq(Objects), NEW obj \in Objects
  PROVE  /\ RefsOf(objs) \in Seq(Ref)
         /\ RefsOf(Append(objs, obj)) = RefsOf(objs) \o obj.refs
<1> DEFINE refs(s) == [i \in DOMAIN s |-> s[i].refs]
<1>1. \A o \in Objects : o.refs \in Seq(Ref)
  BY DEF Objects
<1>2. refs(objs) \in Seq(Seq(Ref)) /\ obj.refs \in Seq(Ref)
  BY <1>1
<1>3. refs(Append(objs, obj)) = Append(refs(objs), obj.refs)
  <2>1. /\ DOMAIN refs(Append(objs, obj)) = 1..Len(objs) + 1
        /\ DOMAIN Append(refs(objs), obj.refs) = 1..Len(objs) + 1
        /\ Len(objs) \in Nat
    OBVIOUS
  <2>2. refs(Append(objs, obj)) \in Seq(Seq(Ref)) /\ Append(refs(objs), obj.refs) \in Seq(Seq(Ref))
    <3>1. Append(objs, obj) \in Seq(Objects)
      OBVIOUS
    <3> QED
      BY <1>1, <1>2, <3>1
  <2>3. ASSUME NEW i \in 1..Len(objs) + 1
        PROVE  refs(Append(objs, obj))[i] = Append(refs(objs), obj.refs)[i]
    OBVIOUS
  <2> QED
    BY <2>1, <2>2, <2>3
<1> HIDE DEF refs
<1>4. FlattenSeq(refs(objs)) \in Seq(Ref)
  BY <1>2, FlattenType
<1>5. FlattenSeq(Append(refs(objs), obj.refs)) = FlattenSeq(refs(objs)) \o obj.refs
  BY <1>2, FlattenAppend
<1> QED
  BY <1>3, <1>4, <1>5 DEF RefsOf, refs

\* Handles of one reference each.
LEMMA RefsOfSingles ==
  ASSUME NEW device \in Devices, device # SPU, NEW refs \in Seq(Ref)
  PROVE  RefsOf([i \in DOMAIN refs |-> Object(device, <<refs[i]>>)]) = refs
<1> DEFINE objs(s) == [i \in DOMAIN s |-> Object(device, <<s[i]>>)]
           S == {s \in Seq(Ref) : RefsOf(objs(s)) = s}
<1>1. <<>> \in S
  <2>1. objs(<<>>) = <<>> /\ <<>> \in Seq(Ref)
    OBVIOUS
  <2> QED
    BY <2>1, RefsOfEmpty
<1>2. ASSUME NEW r \in Ref
      PROVE  Object(device, <<r>>) \in Objects /\ Object(device, <<r>>).refs = <<r>>
  <2>1. <<r>> \in Refs(device)
    BY DEF Refs, Width
  <2> QED
    BY <2>1, ObjectFacts
<1>5. ASSUME NEW s \in Seq(Ref)
      PROVE  objs(s) \in Seq(Objects) /\ Len(objs(s)) = Len(s)
  <2>1. Len(s) \in Nat /\ DOMAIN s = 1..Len(s) /\ s \in [1..Len(s) -> Ref]
    OBVIOUS
  <2> QED
    BY <2>1, OnPyu
<1>3. ASSUME NEW s \in Seq(Ref), NEW r \in Ref, s \in S PROVE Append(s, r) \in S
  <2>1. objs(s) \in Seq(Objects) /\ Len(objs(s)) = Len(s)
    BY <1>5
  <2>2. objs(Append(s, r)) = Append(objs(s), Object(device, <<r>>))
    <3>1. Append(s, r) \in Seq(Ref) /\ Len(Append(s, r)) = Len(s) + 1 /\ Len(s) \in Nat
      OBVIOUS
    <3>2. objs(Append(s, r)) \in Seq(Objects) /\ Append(objs(s), Object(device, <<r>>)) \in Seq(Objects)
      <4>1. Object(device, <<r>>) \in Objects
        BY <1>2
      <4>2. Append(objs(s), Object(device, <<r>>)) \in Seq(Objects)
        <5> HIDE DEF objs
        <5> QED
          BY <2>1, <4>1
      <4>3. \A t \in Seq(Ref) : objs(t) \in Seq(Objects)
        <5> HIDE DEF objs
        <5> QED
          BY <1>5
      <4>4. objs(Append(s, r)) \in Seq(Objects)
        <5> HIDE DEF objs
        <5> QED
          BY <3>1, <4>3
      <4> QED
        BY <4>2, <4>4
    <3>3. /\ Len(objs(Append(s, r))) = Len(s) + 1
          /\ Len(Append(objs(s), Object(device, <<r>>))) = Len(s) + 1
      BY <2>1, <3>1
    <3>4. ASSUME NEW i \in 1..Len(s) + 1
          PROVE  objs(Append(s, r))[i] = Append(objs(s), Object(device, <<r>>))[i]
      BY <2>1, <3>1
    <3> HIDE DEF objs
    <3> QED
      BY <3>2, <3>3, <3>4
  <2> HIDE DEF objs
  <2>3. RefsOf(objs(Append(s, r))) = RefsOf(objs(s)) \o <<r>>
    BY <1>2, <2>1, <2>2, RefsOfAppend
  <2>4. RefsOf(objs(s)) = s
    BY <1>3
  <2>5. RefsOf(objs(Append(s, r))) = Append(s, r)
    BY <2>3, <2>4
  <2> QED
    BY <2>5
<1>4. Seq(Ref) \subseteq S
  <2> HIDE DEF S
  <2> QED
    BY <1>1, <1>3, SeqInduct
<1> QED
  BY <1>4

-----------------------------------------------------------------------------
(* The handles that are counted.                                           *)

LEMMA RefsOfType ==
  ASSUME NEW objs \in Seq(Objects)
  PROVE  RefsOf(objs) \in Seq(Ref)
<1>1. \A o \in Objects : o.refs \in Seq(Ref)
  BY DEF Objects
<1>2. [i \in DOMAIN objs |-> objs[i].refs] \in Seq(Seq(Ref))
  BY <1>1
<1> QED
  BY <1>2, FlattenType DEF RefsOf

LEMMA RefsOfMember ==
  ASSUME NEW objs \in Seq(Objects), NEW k \in DOMAIN objs, NEW ref \in ToSet(objs[k].refs)
  PROVE  Occurrences(ref, RefsOf(objs)) # 0
<1> DEFINE S == {s \in Seq(Objects) :
                   \A i \in DOMAIN s : ref \in ToSet(s[i].refs) => Occurrences(ref, RefsOf(s)) # 0}
<1>1. <<>> \in S
  OBVIOUS
<1>2. ASSUME NEW s \in Seq(Objects), NEW e \in Objects, s \in S PROVE Append(s, e) \in S
  <2> DEFINE t == Append(s, e)
  <2>1. /\ t \in Seq(Objects) /\ DOMAIN t = 1..Len(s) + 1 /\ Len(s) \in Nat
        /\ DOMAIN s = 1..Len(s)
        /\ t[Len(s) + 1] = e /\ \A i \in 1..Len(s) : t[i] = s[i]
    OBVIOUS
  <2>2. RefsOf(t) = RefsOf(s) \o e.refs /\ RefsOf(s) \in Seq(Ref) /\ e.refs \in Seq(Ref)
    BY RefsOfAppend, RefsOfType DEF Objects
  <2> HIDE DEF t
  <2>3. Occurrences(ref, RefsOf(t)) = Occurrences(ref, RefsOf(s)) + Occurrences(ref, e.refs)
    BY <2>2, OccurrencesConcat
  <2>4. Occurrences(ref, RefsOf(s)) \in Nat /\ Occurrences(ref, e.refs) \in Nat
    BY <2>2, OccurrencesFinite
  <2>5. ASSUME NEW i \in DOMAIN t, ref \in ToSet(t[i].refs)
        PROVE  Occurrences(ref, RefsOf(t)) # 0
    <3>1. CASE i = Len(s) + 1
      <4>1. Occurrences(ref, e.refs) # 0
        BY <2>1, <2>2, <2>5, <3>1, OccurrencesPositive
      <4> QED
        BY <2>3, <2>4, <4>1
    <3>2. CASE i # Len(s) + 1
      <4>1. i \in DOMAIN s /\ t[i] = s[i]
        BY <2>1, <3>2
      <4>2. Occurrences(ref, RefsOf(s)) # 0
        BY <1>2, <2>5, <4>1
      <4> QED
        BY <2>3, <2>4, <4>2
    <3> QED
      BY <3>1, <3>2
  <2> QED
    BY <2>1, <2>5 DEF t
<1>3. Seq(Objects) \subseteq S
  <2> HIDE DEF S
  <2> QED
    BY <1>1, <1>2, SeqInduct
<1> QED
  BY <1>3

CallRefs(call) == RefsOf(call.held) \o RefsOf(call.lent)
StackRefs(s) == FlattenSeq([d \in 1..Len(s) |-> CallRefs(s[d])])

\* How often the handles of a call, those of all calls and those of the user
\* name a reference.
CallHolds(ref, call) == Occurrences(ref, RefsOf(call.held)) + Occurrences(ref, RefsOf(call.lent))
StackHolds(ref, s) == Occurrences(ref, StackRefs(s))
UserHolds(ref, objs) == Cardinality({obj \in objs : Contains(obj.refs, ref)})

LEMMA HandlesOfIs ==
  \A ref : HandlesOf(ref) =
     UserHolds(ref, handles) + Occurrences(ref, drops) + StackHolds(ref, stack)
BY DEF HandlesOf, UserHolds, StackHolds, StackRefs, CallRefs, Depth

LEMMA CallRefsType ==
  ASSUME NEW call \in Calls
  PROVE  /\ RefsOf(call.held) \in Seq(Ref) /\ RefsOf(call.lent) \in Seq(Ref)
         /\ CallRefs(call) \in Seq(Ref)
         /\ \A ref : /\ Occurrences(ref, RefsOf(call.held)) \in Nat
                     /\ Occurrences(ref, RefsOf(call.lent)) \in Nat
                     /\ CallHolds(ref, call) \in Nat
                     /\ Occurrences(ref, CallRefs(call)) = CallHolds(ref, call)
<1>1. RefsOf(call.held) \in Seq(Ref) /\ RefsOf(call.lent) \in Seq(Ref)
  BY RefsOfType DEF Calls
<1>2. CallRefs(call) \in Seq(Ref)
  BY <1>1 DEF CallRefs
<1>3. ASSUME NEW ref
      PROVE  /\ Occurrences(ref, RefsOf(call.held)) \in Nat
             /\ Occurrences(ref, RefsOf(call.lent)) \in Nat
             /\ Occurrences(ref, CallRefs(call)) = CallHolds(ref, call)
  BY <1>1, OccurrencesFinite, OccurrencesConcat DEF CallHolds, CallRefs
<1> QED
  BY <1>1, <1>2, <1>3 DEF CallHolds

LEMMA StackHoldsEmpty == \A ref : StackHolds(ref, <<>>) = 0
<1>1. StackRefs(<<>>) = <<>>
  <2>1. [d \in 1..Len(<<>>) |-> CallRefs(<<>>[d])] = <<>>
    OBVIOUS
  <2> QED
    BY <2>1, FlattenEmpty DEF StackRefs
<1> QED
  BY <1>1, OccurrencesEmpty DEF StackHolds

LEMMA StackHoldsPush ==
  ASSUME NEW s \in Seq(Calls), NEW call \in Calls
  PROVE  /\ StackRefs(s) \in Seq(Ref)
         /\ \A ref : /\ StackHolds(ref, s) \in Nat
                     /\ StackHolds(ref, Append(s, call)) = StackHolds(ref, s) + CallHolds(ref, call)
<1> DEFINE refs(t) == [d \in 1..Len(t) |-> CallRefs(t[d])]
<1>1. \A t \in Seq(Calls) : refs(t) \in Seq(Seq(Ref)) /\ Len(refs(t)) = Len(t)
  <2>1. \A c \in Calls : CallRefs(c) \in Seq(Ref)
    BY CallRefsType
  <2> QED
    BY <2>1
<1>2. refs(Append(s, call)) = Append(refs(s), CallRefs(call))
  <2>1. /\ Append(s, call) \in Seq(Calls) /\ Len(Append(s, call)) = Len(s) + 1
        /\ Len(s) \in Nat
    OBVIOUS
  <2>2. CallRefs(call) \in Seq(Ref)
    BY CallRefsType
  <2>3. refs(Append(s, call)) \in Seq(Seq(Ref)) /\ Len(refs(Append(s, call))) = Len(s) + 1
    <3> HIDE DEF refs
    <3> QED
      BY <1>1, <2>1
  <2>4. /\ Append(refs(s), CallRefs(call)) \in Seq(Seq(Ref))
        /\ Len(Append(refs(s), CallRefs(call))) = Len(s) + 1
        /\ Len(refs(s)) = Len(s)
    <3>1. refs(s) \in Seq(Seq(Ref)) /\ Len(refs(s)) = Len(s)
      BY <1>1
    <3> HIDE DEF refs
    <3> QED
      BY <2>2, <3>1
  <2>5. ASSUME NEW i \in 1..Len(s) + 1
        PROVE  refs(Append(s, call))[i] = Append(refs(s), CallRefs(call))[i]
    BY <2>1, <2>4
  <2> DEFINE a == refs(Append(s, call))
             b == Append(refs(s), CallRefs(call))
  <2> HIDE DEF refs
  <2>6. /\ a \in Seq(Seq(Ref)) /\ b \in Seq(Seq(Ref)) /\ Len(a) = Len(b)
        /\ \A i \in 1..Len(a) : a[i] = b[i]
    BY <2>3, <2>4, <2>5
  <2> HIDE DEF a, b
  <2>7. a = b
    <3>1. a = [i \in 1..Len(a) |-> a[i]] /\ b = [i \in 1..Len(b) |-> b[i]]
      BY <2>6
    <3>2. [i \in 1..Len(a) |-> a[i]] = [i \in 1..Len(b) |-> b[i]]
      BY ONLY <2>6, Zenon
    <3> QED
      BY ONLY <3>1, <3>2, Zenon
  <2> QED
    BY <2>7 DEF a, b
<1>3. refs(s) \in Seq(Seq(Ref))
  BY <1>1
<1> HIDE DEF refs
<1>4. CallRefs(call) \in Seq(Ref)
  BY CallRefsType
<1>5. FlattenSeq(refs(s)) \in Seq(Ref)
  BY <1>3, FlattenType
<1>6. FlattenSeq(Append(refs(s), CallRefs(call))) = FlattenSeq(refs(s)) \o CallRefs(call)
  BY <1>3, <1>4, FlattenAppend
<1>7. /\ StackRefs(s) = FlattenSeq(refs(s))
      /\ StackRefs(Append(s, call)) = FlattenSeq(refs(Append(s, call)))
  BY DEF StackRefs, refs
<1>8. StackRefs(s) \in Seq(Ref) /\ StackRefs(Append(s, call)) = StackRefs(s) \o CallRefs(call)
  BY <1>2, <1>5, <1>6, <1>7
<1>9. ASSUME NEW ref
      PROVE  /\ StackHolds(ref, s) \in Nat
             /\ StackHolds(ref, Append(s, call)) = StackHolds(ref, s) + CallHolds(ref, call)
  <2>1. Occurrences(ref, StackRefs(s)) \in Nat
    BY <1>8, OccurrencesFinite
  <2>2. Occurrences(ref, StackRefs(s) \o CallRefs(call))
          = Occurrences(ref, StackRefs(s)) + Occurrences(ref, CallRefs(call))
    BY <1>4, <1>8, OccurrencesConcat
  <2>3. Occurrences(ref, CallRefs(call)) = CallHolds(ref, call)
    BY CallRefsType
  <2> QED
    BY <1>8, <2>1, <2>2, <2>3 DEF StackHolds
<1> QED
  BY <1>8, <1>9

LEMMA UserHoldsType ==
  ASSUME NEW objs, IsFiniteSet(objs), NEW ref
  PROVE  /\ IsFiniteSet({obj \in objs : Contains(obj.refs, ref)})
         /\ UserHolds(ref, objs) \in Nat
<1>1. {obj \in objs : Contains(obj.refs, ref)} \in SUBSET objs
  OBVIOUS
<1>2. IsFiniteSet({obj \in objs : Contains(obj.refs, ref)})
  BY <1>1, FS_Subset
<1> QED
  BY <1>2, FS_CardinalityType DEF UserHolds

LEMMA UserHoldsChange ==
  ASSUME NEW objs, IsFiniteSet(objs), NEW obj \in Objects, obj \notin objs, NEW ref
  PROVE  UserHolds(ref, objs \cup {obj})
           = UserHolds(ref, objs) + (IF ref \in ToSet(obj.refs) THEN 1 ELSE 0)
<1> DEFINE S == {o \in objs : Contains(o.refs, ref)}
           T == {o \in objs \cup {obj} : Contains(o.refs, ref)}
<1>1. Contains(obj.refs, ref) <=> ref \in ToSet(obj.refs)
  <2>1. obj.refs \in Seq(Ref)
    BY DEF Objects
  <2>2. DOMAIN obj.refs = 1..Len(obj.refs)
    BY <2>1
  <2> QED
    BY <2>2 DEF Contains, ToSet
<1>2. IsFiniteSet(S) /\ Cardinality(S) \in Nat /\ obj \notin S
  BY UserHoldsType DEF UserHolds
<1>3. T = IF Contains(obj.refs, ref) THEN S \cup {obj} ELSE S
  OBVIOUS
<1> HIDE DEF S, T
<1>4. Cardinality(T) = Cardinality(S) + (IF Contains(obj.refs, ref) THEN 1 ELSE 0)
  <2>1. CASE Contains(obj.refs, ref)
    <3>1. T = S \cup {obj}
      BY <1>3, <2>1
    <3>2. Cardinality(S \cup {obj}) = Cardinality(S) + 1
      BY <1>2, FS_AddElement
    <3> QED
      BY <2>1, <3>1, <3>2
  <2>2. CASE ~Contains(obj.refs, ref)
    BY <1>2, <1>3, <2>2
  <2> QED
    BY <2>1, <2>2
<1> QED
  BY <1>1, <1>4 DEF UserHolds, S, T

LEMMA UserHoldsPositive ==
  ASSUME NEW objs, IsFiniteSet(objs), NEW obj \in objs, obj \in Objects, NEW ref \in ToSet(obj.refs)
  PROVE  UserHolds(ref, objs) # 0
<1>1. Contains(obj.refs, ref)
  <2>1. obj.refs \in Seq(Ref)
    BY DEF Objects
  <2>2. DOMAIN obj.refs = 1..Len(obj.refs)
    BY <2>1
  <2> QED
    BY <2>2 DEF Contains, ToSet
<1>2. {o \in objs : Contains(o.refs, ref)} # {}
  BY <1>1
<1>3. IsFiniteSet({o \in objs : Contains(o.refs, ref)})
  BY UserHoldsType
<1> QED
  BY <1>2, <1>3, FS_EmptySet DEF UserHolds

-----------------------------------------------------------------------------
(* The counts.                                                             *)

IsBag(bag) == bag \in [BagToSet(bag) -> Nat \ {0}]

LEMMA CountType ==
  ASSUME NEW bag, IsBag(bag), NEW ref
  PROVE  Count(ref, bag) \in Nat /\ (Count(ref, bag) # 0 <=> ref \in BagToSet(bag))
BY DEF IsBag, Count, BagIn, BagToSet

LEMMA CountInc ==
  ASSUME NEW bag, IsBag(bag), NEW refs \in Seq(Ref)
  PROVE  /\ IsBag(Inc(bag, refs))
         /\ BagToSet(Inc(bag, refs)) = BagToSet(bag) \cup ToSet(refs)
         /\ \A ref : Count(ref, Inc(bag, refs)) = Count(ref, bag) + Occurrences(ref, refs)
<1>1. BagToSet(Inc(bag, refs)) = BagToSet(bag) \cup ToSet(refs)
  BY IncCounts
<1>2. \A ref : /\ Count(ref, bag) \in Nat /\ (Count(ref, bag) # 0 <=> ref \in BagToSet(bag))
               /\ Occurrences(ref, refs) \in Nat
               /\ (ref \in ToSet(refs) <=> Occurrences(ref, refs) # 0)
  BY CountType, OccurrencesFinite, OccurrencesPositive
<1>3. \A ref \in BagToSet(bag) \cup ToSet(refs) :
         Inc(bag, refs)[ref] = Count(ref, bag) + Occurrences(ref, refs)
  BY DEF Inc
<1>4. DOMAIN Inc(bag, refs) = BagToSet(bag) \cup ToSet(refs)
  BY DEF Inc
<1>5. IsBag(Inc(bag, refs))
  <2>1. \A ref \in BagToSet(bag) \cup ToSet(refs) : Count(ref, bag) + Occurrences(ref, refs) \in Nat \ {0}
    BY <1>2
  <2>2. Inc(bag, refs) = [ref \in BagToSet(bag) \cup ToSet(refs) |-> Inc(bag, refs)[ref]]
    BY DEF Inc
  <2> QED
    BY <1>1, <1>3, <2>1, <2>2 DEF IsBag
<1>6. ASSUME NEW ref
      PROVE  Count(ref, Inc(bag, refs)) = Count(ref, bag) + Occurrences(ref, refs)
  <2>1. CASE ref \in BagToSet(bag) \cup ToSet(refs)
    BY <1>3, <1>4, <2>1 DEF Count, BagIn, BagToSet
  <2>2. CASE ref \notin BagToSet(bag) \cup ToSet(refs)
    <3>1. Count(ref, Inc(bag, refs)) = 0
      BY <1>4, <2>2 DEF Count, BagIn, BagToSet
    <3>2. Count(ref, bag) = 0 /\ Occurrences(ref, refs) = 0
      BY <1>2, <2>2
    <3> QED
      BY <3>1, <3>2
  <2> QED
    BY <2>1, <2>2
<1> QED
  BY <1>1, <1>5, <1>6

LEMMA CountRemove ==
  ASSUME NEW bag, IsBag(bag), NEW x \in BagToSet(bag)
  PROVE  /\ IsBag(BagRemove(bag, x))
         /\ BagToSet(BagRemove(bag, x)) = IF Count(x, bag) = 1 THEN BagToSet(bag) \ {x} ELSE BagToSet(bag)
         /\ \A ref : Count(ref, BagRemove(bag, x)) = Count(ref, bag) - (IF ref = x THEN 1 ELSE 0)
<1>1. x \in DOMAIN bag /\ BagToSet(bag) = DOMAIN bag /\ bag \in [DOMAIN bag -> Nat \ {0}]
      /\ Count(x, bag) = bag[x]
  BY DEF IsBag, BagToSet, Count, BagIn
<1>2. CASE bag[x] = 1
  <2>1. BagRemove(bag, x) = [e \in DOMAIN bag \ {x} |-> bag[e]]
    BY <1>1, <1>2 DEF BagRemove
  <2>2. IsBag(BagRemove(bag, x))
    BY <1>1, <2>1 DEF IsBag, BagToSet
  <2>3. \A ref : Count(ref, BagRemove(bag, x)) = Count(ref, bag) - (IF ref = x THEN 1 ELSE 0)
    BY <1>1, <1>2, <2>1 DEF Count, BagIn, BagToSet
  <2> QED
    BY <1>1, <1>2, <2>1, <2>2, <2>3 DEF BagToSet
<1>3. CASE bag[x] # 1
  <2>1. BagRemove(bag, x) = [e \in DOMAIN bag |-> IF e = x THEN bag[e] - 1 ELSE bag[e]]
    BY <1>1, <1>3 DEF BagRemove
  <2>2. \A e \in DOMAIN bag : (IF e = x THEN bag[e] - 1 ELSE bag[e]) \in Nat \ {0}
    BY <1>1, <1>3
  <2>3. IsBag(BagRemove(bag, x))
    BY <2>1, <2>2 DEF IsBag, BagToSet
  <2>4. \A ref : Count(ref, BagRemove(bag, x)) = Count(ref, bag) - (IF ref = x THEN 1 ELSE 0)
    BY <1>1, <1>3, <2>1 DEF Count, BagIn, BagToSet
  <2> QED
    BY <1>1, <1>3, <2>1, <2>3, <2>4 DEF BagToSet
<1> QED
  BY <1>2, <1>3

-----------------------------------------------------------------------------
(* The references that the calls hold.                                     *)

LEMMA StackTop ==
  ASSUME StackInv, stack # <<>>
  PROVE  /\ Front(stack) \in Seq(Calls) /\ Top \in Calls /\ stack \in Seq(Calls)
         /\ stack = Append(Front(stack), Top)
         /\ Len(Front(stack)) = Len(stack) - 1
         /\ \A d \in 1..Len(stack) - 1 : Front(stack)[d] = stack[d]
         /\ \A ref : /\ StackHolds(ref, Front(stack)) \in Nat
                     /\ CallHolds(ref, Top) \in Nat
                     /\ StackHolds(ref, stack) = StackHolds(ref, Front(stack)) + CallHolds(ref, Top)
<1>1. stack \in Seq(Calls)
  BY DEF StackInv, StackOK
<1>2. /\ Front(stack) \in Seq(Calls) /\ Top \in Calls
      /\ stack = Append(Front(stack), Top)
      /\ Len(Front(stack)) = Len(stack) - 1
  BY <1>1, SplitLast DEF Top
<1>3. \A d \in 1..Len(stack) - 1 : Front(stack)[d] = stack[d]
  BY <1>1, FrontFacts
<1>4. \A ref : /\ StackHolds(ref, Front(stack)) \in Nat
               /\ StackHolds(ref, Append(Front(stack), Top))
                    = StackHolds(ref, Front(stack)) + CallHolds(ref, Top)
               /\ CallHolds(ref, Top) \in Nat
  BY <1>2, StackHoldsPush, CallRefsType
<1> QED
  BY <1>1, <1>2, <1>3, <1>4

LEMMA ReplaceIsPush ==
  ASSUME NEW s \in Seq(Calls), s # <<>>, NEW call \in Calls
  PROVE  /\ ReplaceAt(s, Len(s), call) = Append(Front(s), call)
         /\ ReplaceAt(s, Len(s), call) \in Seq(Calls)
         /\ Len(ReplaceAt(s, Len(s), call)) = Len(s)
         /\ \A d \in 1..Len(s) : ReplaceAt(s, Len(s), call)[d] = IF d = Len(s) THEN call ELSE s[d]
<1>1. /\ Front(s) \in Seq(Calls) /\ Len(Front(s)) = Len(s) - 1 /\ Len(s) \in Nat /\ Len(s) > 0
      /\ \A d \in 1..Len(s) - 1 : Front(s)[d] = s[d]
  BY FrontFacts
<1> DEFINE t == ReplaceAt(s, Len(s), call)
           u == Append(Front(s), call)
<1>2. /\ t \in Seq(Calls) /\ Len(t) = Len(s)
      /\ \A d \in 1..Len(s) : t[d] = IF d = Len(s) THEN call ELSE s[d]
  BY DEF ReplaceAt
<1>3. /\ u \in Seq(Calls) /\ Len(u) = Len(s)
      /\ \A d \in 1..Len(s) : u[d] = IF d = Len(s) THEN call ELSE s[d]
  BY <1>1
<1>4. t = u
  <2> HIDE DEF t, u
  <2> QED
    BY <1>2, <1>3
<1> QED
  BY <1>2, <1>4

\* The innermost call is replaced.
LEMMA SetTopHolds ==
  ASSUME StackInv, stack # <<>>, NEW call \in Calls
  PROVE  LET s == ReplaceAt(stack, Depth, call)
         IN  /\ s \in Seq(Calls) /\ Len(s) = Len(stack) /\ Len(s) \in Nat \ {0}
             /\ \A d \in 1..Len(stack) : s[d] = IF d = Len(stack) THEN call ELSE stack[d]
             /\ \A ref : StackHolds(ref, s) = StackHolds(ref, Front(stack)) + CallHolds(ref, call)
<1>1. stack \in Seq(Calls) /\ Front(stack) \in Seq(Calls) /\ Len(stack) \in Nat \ {0}
  BY StackTop
<1>2. \A ref : StackHolds(ref, Append(Front(stack), call))
                 = StackHolds(ref, Front(stack)) + CallHolds(ref, call)
  BY <1>1, StackHoldsPush
<1> QED
  BY <1>1, <1>2, ReplaceIsPush DEF Depth

-----------------------------------------------------------------------------
(* The invariant of the counts.                                            *)

\* The node that has the object of a reference at position i of a handle.
Home(device, i) == IF device = SPU THEN SpuNodes[i] ELSE device
HandlesInv ==
    /\ IsFiniteSet(handles)
    /\ \A obj \in handles :
          /\ Distinct(obj.refs)
          /\ \A i \in DOMAIN obj.refs : obj.refs[i].origin = Home(obj.device, i)
RefsInv ==
    /\ IsBag(objrefs) /\ BagToSet(objrefs) \subseteq Ref
    /\ drops \in Seq(Ref)
    /\ ToSet(dead) \subseteq Ref
\* The references are counted right,
CountInv == \A ref \in Ref : Count(ref, objrefs) = HandlesOf(ref)
\* the counted ones are not dead, and their objects are stored,
StoredInv ==
    /\ BagToSet(objrefs) \cap ToSet(dead) = {}
    /\ \A ref \in BagToSet(objrefs) : ref \in globals[ref.origin]
\* and the references to come are new.
IssuedInv == \A ref \in BagToSet(objrefs) \cup ToSet(dead) : ref.uuid <= fresh

\* A call has at most one transfer kernel under way.  Handles are lent to a
\* reconstruct, or until the shares' meta data has come.
NestingInv ==
    /\ Len(stack) <= 2
    /\ Len(stack) = 1 => stack[1].phase = "fetch_share_meta" \/ stack[1].lent = <<>>
    /\ Len(stack) = 2 =>
         /\ stack[1].phase = "place"
         /\ stack[2].why # "user"
         /\ stack[2].why = "make_shares" => stack[1].lent = <<>>
         /\ stack[2].lent = <<>>
    /\ \A d \in 1..Len(stack) :
         stack[d].device # SPU /\ stack[d].phase # "place" => stack[d].held = <<>>
\* The objects that a call is to place, and those that an SPU's call has
\* placed, have a handle.
ArgumentsInv ==
    /\ stack # <<>> => \A k \in DOMAIN stack[1].todo : stack[1].todo[k] \in handles
    /\ stack # <<>> /\ stack[1].device = SPU /\ stack[1].phase # "fetch_meta" =>
         \A k \in DOMAIN stack[1].args :
            \E obj \in handles \cup ToSet(stack[1].held) : obj.refs = stack[1].args[k]
    /\ Len(stack) = 2 =>
         \A k \in DOMAIN stack[2].todo :
            /\ stack[2].todo[k].device # SPU
            /\ stack[2].todo[k] \in handles \cup ToSet(stack[1].lent)
\* The results that the SPU's nodes have stored are still to be counted.
AwaitedInv ==
    stack # <<>> /\ Top.phase = "fetch_meta" =>
       /\ Distinct(Top.args[1])
       /\ \A i \in DOMAIN Top.args[1] :
             LET ref == Top.args[1][i]
             IN  /\ ref.origin = SpuNodes[i]
                 /\ ref \in globals[ref.origin]
                 /\ ref.uuid <= fresh
                 /\ ref \notin BagToSet(objrefs) \cup ToSet(dead)

CountingInv ==
    /\ HandlesInv /\ RefsInv /\ CountInv /\ StoredInv /\ IssuedInv
    /\ NestingInv /\ ArgumentsInv /\ AwaitedInv

-----------------------------------------------------------------------------
(* What has a handle is counted.                                           *)

LEMMA HoldsType ==
  ASSUME StackInv, RefsInv, HandlesInv, NEW ref
  PROVE  /\ UserHolds(ref, handles) \in Nat
         /\ Occurrences(ref, drops) \in Nat
         /\ StackHolds(ref, stack) \in Nat
         /\ HandlesOf(ref) = UserHolds(ref, handles) + Occurrences(ref, drops) + StackHolds(ref, stack)
<1>1. UserHolds(ref, handles) \in Nat
  BY UserHoldsType DEF HandlesInv
<1>2. Occurrences(ref, drops) \in Nat
  BY OccurrencesFinite DEF RefsInv
<1>3. StackHolds(ref, stack) \in Nat
  BY StackTop, StackHoldsEmpty
<1> QED
  BY <1>1, <1>2, <1>3, HandlesOfIs

LEMMA HeldIsCounted ==
  ASSUME StackInv, RefsInv, HandlesInv, CountInv, NEW ref \in Ref,
         UserHolds(ref, handles) # 0 \/ Occurrences(ref, drops) # 0 \/ StackHolds(ref, stack) # 0
  PROVE  ref \in BagToSet(objrefs)
<1>1. HandlesOf(ref) # 0
  BY HoldsType
<1>2. Count(ref, objrefs) # 0
  BY <1>1 DEF CountInv
<1> QED
  BY <1>2, CountType DEF RefsInv

LEMMA RefsOfObject ==
  ASSUME NEW obj \in Objects
  PROVE  obj.refs \in Seq(Ref) /\ ToSet(obj.refs) \subseteq Ref /\ DOMAIN obj.refs = 1..Len(obj.refs)
<1>1. obj.refs \in Seq(Ref)
  BY DEF Objects
<1> QED
  BY <1>1 DEF ToSet

LEMMA UserIsCounted ==
  ASSUME TypeAndStack, CountingInv, NEW obj \in handles
  PROVE  ToSet(obj.refs) \subseteq BagToSet(objrefs)
<1>1. obj \in Objects /\ IsFiniteSet(handles)
  BY DEF TypeAndStack, TypeInv, CountingInv, HandlesInv
<1>2. ASSUME NEW ref \in ToSet(obj.refs) PROVE ref \in BagToSet(objrefs)
  <2>1. UserHolds(ref, handles) # 0 /\ ref \in Ref
    BY <1>1, UserHoldsPositive, RefsOfObject
  <2> QED
    BY <2>1, HeldIsCounted DEF TypeAndStack, CountingInv
<1> QED
  BY <1>2

LEMMA StackLength ==
  ASSUME TypeAndStack, CountingInv
  PROVE  /\ stack \in Seq(Calls) /\ Len(stack) \in Nat /\ Len(stack) <= 2
         /\ stack # <<>> => Len(stack) \in {1, 2}
<1>1. stack \in Seq(Calls)
  BY DEF TypeAndStack, StackInv, StackOK
<1>2. Len(stack) <= 2
  BY DEF CountingInv, NestingInv
<1>3. Len(stack) \in Nat /\ (stack # <<>> => Len(stack) # 0)
  BY <1>1
<1>4. \A n \in Nat : n <= 2 /\ n # 0 => n \in {1, 2}
  OBVIOUS
<1> QED
  BY <1>1, <1>2, <1>3, <1>4, Zenon

LEMMA CallIsCounted ==
  ASSUME TypeAndStack, CountingInv, NEW d \in 1..Len(stack),
         NEW obj, obj \in ToSet(stack[d].held) \/ obj \in ToSet(stack[d].lent)
  PROVE  ToSet(obj.refs) \subseteq BagToSet(objrefs) /\ obj \in Objects
<1>1. stack \in Seq(Calls) /\ stack[d] \in Calls /\ stack # <<>> /\ Len(stack) \in {1, 2}
  <2>1. stack \in Seq(Calls) /\ Len(stack) \in Nat
    BY StackLength
  <2>2. stack[d] \in Calls /\ stack # <<>>
    BY <2>1
  <2> QED
    BY <2>1, <2>2, StackLength
<1>2. stack[d].held \in Seq(Objects) /\ stack[d].lent \in Seq(Objects)
  BY <1>1 DEF Calls
<1>3. obj \in Objects
  BY <1>2 DEF ToSet
<1>4. ASSUME NEW ref \in ToSet(obj.refs) PROVE ref \in BagToSet(objrefs)
  <2>1. Occurrences(ref, RefsOf(stack[d].held)) # 0 \/ Occurrences(ref, RefsOf(stack[d].lent)) # 0
    <3>1. CASE obj \in ToSet(stack[d].held)
      BY <1>2, <3>1, <1>4, RefsOfMember DEF ToSet
    <3>2. CASE obj \in ToSet(stack[d].lent)
      BY <1>2, <3>2, <1>4, RefsOfMember DEF ToSet
    <3> QED
      BY <3>1, <3>2
  <2>2. CallHolds(ref, stack[d]) # 0 /\ CallHolds(ref, stack[d]) \in Nat
    <3> DEFINE h == Occurrences(ref, RefsOf(stack[d].held))
               l == Occurrences(ref, RefsOf(stack[d].lent))
    <3>1. h \in Nat /\ l \in Nat
      BY <1>1, CallRefsType
    <3>2. CallHolds(ref, stack[d]) = h + l
      BY DEF CallHolds
    <3>3. h # 0 \/ l # 0
      BY <2>1
    <3> HIDE DEF h, l
    <3> QED
      BY <3>1, <3>2, <3>3
  <2>3. StackHolds(ref, stack) # 0
    <3>1. /\ StackHolds(ref, Front(stack)) \in Nat /\ CallHolds(ref, Top) \in Nat
          /\ StackHolds(ref, stack) = StackHolds(ref, Front(stack)) + CallHolds(ref, Top)
          /\ Front(stack) \in Seq(Calls) /\ Len(Front(stack)) = Len(stack) - 1
          /\ \A e \in 1..Len(stack) - 1 : Front(stack)[e] = stack[e]
          /\ Top = stack[Len(stack)]
      BY <1>1, StackTop DEF TypeAndStack, Top, Last
    <3>2. CASE d = Len(stack)
      BY <2>2, <3>1, <3>2
    <3>3. CASE d # Len(stack)
      <4>1. d = 1 /\ Len(stack) = 2 /\ Len(Front(stack)) = 1 /\ Front(stack)[1] = stack[1]
        BY <1>1, <3>1, <3>3
      <4>2. Front(stack) = Append(<<>>, stack[1])
        BY <3>1, <4>1
      <4>3. StackHolds(ref, Front(stack)) = StackHolds(ref, <<>>) + CallHolds(ref, stack[1])
        <5>1. <<>> \in Seq(Calls) /\ stack[1] \in Calls
          BY <1>1, <4>1
        <5> QED
          BY <4>2, <5>1, StackHoldsPush
      <4> QED
        BY <2>2, <3>1, <4>1, <4>3, StackHoldsEmpty
    <3> QED
      BY <3>2, <3>3
  <2>4. ref \in Ref
    BY <1>3, <1>4, RefsOfObject
  <2> QED
    BY <2>3, <2>4, HeldIsCounted DEF TypeAndStack, CountingInv
<1> QED
  BY <1>3, <1>4

\* The places on the stack.
LEMMA Places ==
  ASSUME TypeAndStack, CountingInv, stack # <<>>
  PROVE  /\ Len(stack) \in {1, 2} /\ Depth = Len(stack)
         /\ Top = stack[Depth] /\ Top \in Calls /\ CallInv(Top)
         /\ stack[1] \in Calls /\ CallInv(stack[1])
         /\ Depth = 1 <=> Top.why = "user"
         /\ Top.device = SPU => Depth = 1
         /\ Depth = 2 => Len(stack) = 2 /\ NestInv(Top, stack[1])
<1>1. Len(stack) \in {1, 2} /\ Depth = Len(stack)
  BY StackLength DEF Depth
<1>2. Top = stack[Depth] /\ Top \in Calls /\ CallInv(Top)
  BY TopFacts DEF TypeAndStack
<1>3. stack[1] \in Calls /\ CallInv(stack[1]) /\ stack[1].why = "user"
  BY <1>1 DEF TypeAndStack, StackInv, StackOK
<1>4. Depth = 2 => Top.why # "user" /\ NestInv(Top, stack[1])
  <2>1. ASSUME Depth = 2 PROVE Top.why # "user" /\ NestInv(Top, stack[1])
    <3>1. Top.why # "user"
      BY <1>1, <1>2, <2>1 DEF CountingInv, NestingInv
    <3>2. 2 \in 2..Len(stack) /\ 2 - 1 = 1
      BY <1>1, <2>1
    <3>3. NestInv(stack[2], stack[2-1])
      BY <3>2 DEF TypeAndStack, StackInv, StackOK
    <3> QED
      BY <1>2, <2>1, <3>1, <3>2, <3>3
  <2> QED
    BY <2>1
<1>5. Top.device = SPU => Depth = 1
  BY <1>1, <1>4 DEF NestInv
<1> QED
  BY <1>1, <1>2, <1>3, <1>4, <1>5

LEMMA MovedIsCounted ==
  ASSUME TypeAndStack, CountingInv, Placing
  PROVE  /\ ToSet(Moved.refs) \subseteq BagToSet(objrefs)
         /\ Depth = 2 => Moved.device # SPU
         /\ Depth = 1 => Moved \in handles
         /\ Moved \in handles \/ (Depth = 2 /\ Moved \in ToSet(stack[1].lent))
<1>1. /\ stack # <<>> /\ Top \in Calls /\ Top.phase = "place" /\ Top.todo # <<>>
  BY PlacingFacts
<1>2. 1 \in DOMAIN Top.todo /\ Moved = Top.todo[1]
  BY <1>1 DEF Calls, Moved
<1>3. Moved \in handles \/ (Depth = 2 /\ Moved \in ToSet(stack[1].lent))
  BY <1>1, <1>2, Places DEF CountingInv, ArgumentsInv
<1>4. Depth = 2 => Moved.device # SPU
  BY <1>1, <1>2, Places DEF CountingInv, ArgumentsInv
<1>5. Depth = 1 => Moved \in handles
  BY <1>1, <1>2, Places DEF CountingInv, ArgumentsInv
<1>6. ToSet(Moved.refs) \subseteq BagToSet(objrefs)
  <2>1. CASE Moved \in handles
    BY <2>1, UserIsCounted
  <2>2. CASE Depth = 2 /\ Moved \in ToSet(stack[1].lent)
    <3>1. 1 \in 1..Len(stack)
      BY <1>1, Places
    <3> QED
      BY <2>2, <3>1, CallIsCounted
  <2> QED
    BY <1>3, <2>1, <2>2
<1> QED
  BY <1>3, <1>4, <1>5, <1>6

-----------------------------------------------------------------------------
(* What every action but the decrement and the release keeps: references   *)
(* refs are counted once more, and have that many handles more.            *)

\* The invariant of the counts in two parts: the counts, and the calls.
Kernel == HandlesInv /\ RefsInv /\ CountInv /\ StoredInv /\ IssuedInv
Shape == NestingInv /\ ArgumentsInv /\ AwaitedInv

LEMMA Recounted ==
  ASSUME TypeAndStack, StackInv', CountingInv, HandlesInv',
         dead' = dead, fresh' \in Nat, fresh <= fresh',
         \A node \in Nodes : globals[node] \subseteq globals'[node],
         drops' \in Seq(Ref),
         NEW refs \in Seq(Ref),
         objrefs' = Inc(objrefs, refs) \/ (objrefs' = objrefs /\ refs = <<>>),
         \A ref \in ToSet(refs) :
            \/ ref \in BagToSet(objrefs)
            \/ ref \notin ToSet(dead) /\ ref \in globals'[ref.origin] /\ ref.uuid <= fresh',
         \A ref \in Ref :
            UserHolds(ref, handles') + Occurrences(ref, drops') + StackHolds(ref, stack')
              = UserHolds(ref, handles) + Occurrences(ref, drops) + StackHolds(ref, stack)
                  + Occurrences(ref, refs)
  PROVE  Kernel'
<1>1. /\ IsBag(objrefs')
      /\ BagToSet(objrefs') = BagToSet(objrefs) \cup ToSet(refs)
      /\ \A ref : Count(ref, objrefs') = Count(ref, objrefs) + Occurrences(ref, refs)
  <2>1. IsBag(objrefs)
    BY DEF CountingInv, RefsInv
  <2>2. CASE objrefs' = Inc(objrefs, refs)
    BY <2>1, <2>2, CountInc
  <2>3. CASE objrefs' = objrefs /\ refs = <<>>
    <3>1. \A ref : Occurrences(ref, refs) = 0 /\ Count(ref, objrefs) \in Nat
      BY <2>1, <2>3, OccurrencesEmpty, CountType
    <3>2. ToSet(refs) = {}
      BY <2>3 DEF ToSet
    <3> QED
      BY <2>1, <2>3, <3>1, <3>2
  <2> QED
    BY <2>2, <2>3
<1>2. ToSet(refs) \subseteq Ref
  BY DEF ToSet
<1>3. RefsInv'
  BY <1>1, <1>2 DEF CountingInv, RefsInv
<1>4. CountInv'
  <2>1. ASSUME NEW ref \in Ref PROVE Count(ref, objrefs') = HandlesOf(ref)'
    <3>1. HandlesOf(ref)' = UserHolds(ref, handles') + Occurrences(ref, drops') + StackHolds(ref, stack')
      BY DEF HandlesOf, UserHolds, StackHolds, StackRefs, CallRefs, Depth
    <3>2. HandlesOf(ref) = UserHolds(ref, handles) + Occurrences(ref, drops) + StackHolds(ref, stack)
      BY HoldsType DEF CountingInv, TypeAndStack
    <3>3. Count(ref, objrefs) = HandlesOf(ref)
      BY DEF CountingInv, CountInv
    <3> QED
      BY <1>1, <3>1, <3>2, <3>3
  <2> QED
    BY <2>1 DEF CountInv
<1>5. ASSUME NEW ref \in BagToSet(objrefs')
      PROVE  ref \notin ToSet(dead') /\ ref \in globals'[ref.origin] /\ ref.uuid <= fresh'
  <2>1. CASE ref \in BagToSet(objrefs)
    <3>1. ref \in Ref /\ ref.origin \in Nodes /\ ref.uuid \in Nat
      BY <2>1 DEF CountingInv, RefsInv, Ref
    <3>2. ref \notin ToSet(dead) /\ ref \in globals[ref.origin] /\ ref.uuid <= fresh
      BY <2>1 DEF CountingInv, StoredInv, IssuedInv
    <3>3. fresh \in Nat
      BY DEF TypeAndStack, TypeInv
    <3> QED
      BY <3>1, <3>2, <3>3
  <2>2. CASE ref \notin BagToSet(objrefs)
    BY <1>1, <1>5, <2>2
  <2> QED
    BY <2>1, <2>2
<1>6. StoredInv'
  BY <1>5 DEF StoredInv
<1>7. ASSUME NEW ref \in ToSet(dead') PROVE ref.uuid <= fresh'
  <2>1. ref.uuid <= fresh /\ ref.uuid \in Nat /\ fresh \in Nat
    BY <1>7 DEF CountingInv, IssuedInv, RefsInv, Ref, TypeAndStack, TypeInv
  <2> QED
    BY <2>1
<1>8. IssuedInv'
  BY <1>5, <1>7 DEF IssuedInv
<1> QED
  BY <1>3, <1>4, <1>6, <1>8 DEF Kernel

LEMMA Parts == CountingInv <=> Kernel /\ Shape
BY DEF CountingInv, Kernel, Shape

\* The user's handles stay, objects are at most added: only the equation of
\* the calls' handles is left.
LEMMA Grown ==
  ASSUME TypeAndStack, StackInv', CountingInv,
         UNCHANGED <<handles, dead>>, fresh' \in Nat, fresh <= fresh',
         \A node \in Nodes : globals[node] \subseteq globals'[node],
         drops' \in Seq(Ref),
         NEW refs \in Seq(Ref), ToSet(refs) \subseteq BagToSet(objrefs),
         objrefs' = Inc(objrefs, refs) \/ (objrefs' = objrefs /\ refs = <<>>),
         \A ref \in Ref :
            Occurrences(ref, drops') + StackHolds(ref, stack')
              = Occurrences(ref, drops) + StackHolds(ref, stack) + Occurrences(ref, refs)
  PROVE  Kernel'
<1>1. HandlesInv'
  BY DEF CountingInv, HandlesInv
<1>3. ASSUME NEW ref \in Ref
      PROVE  UserHolds(ref, handles') + Occurrences(ref, drops') + StackHolds(ref, stack')
              = UserHolds(ref, handles) + Occurrences(ref, drops) + StackHolds(ref, stack)
                  + Occurrences(ref, refs)
  <2>1. /\ UserHolds(ref, handles) \in Nat /\ Occurrences(ref, drops) \in Nat
        /\ StackHolds(ref, stack) \in Nat
    BY HoldsType DEF CountingInv, TypeAndStack
  <2>2. Occurrences(ref, refs) \in Nat /\ Occurrences(ref, drops') \in Nat
    BY OccurrencesFinite
  <2>3. StackHolds(ref, stack') \in Nat
    <3>1. stack' \in Seq(Calls)
      BY DEF StackInv, StackOK
    <3>2. CASE stack' = <<>>
      BY <3>2, StackHoldsEmpty
    <3>3. CASE stack' # <<>>
      BY <3>1, <3>3, SplitLast, StackHoldsPush, CallRefsType
    <3> QED
      BY <3>2, <3>3
  <2>4. UserHolds(ref, handles') = UserHolds(ref, handles)
    OBVIOUS
  <2>5. Occurrences(ref, drops') + StackHolds(ref, stack')
              = Occurrences(ref, drops) + StackHolds(ref, stack) + Occurrences(ref, refs)
    OBVIOUS
  <2> DEFINE u == UserHolds(ref, handles)
             o == Occurrences(ref, drops)
             s == StackHolds(ref, stack)
             r == Occurrences(ref, refs)
             p == Occurrences(ref, drops')
             t == StackHolds(ref, stack')
  <2>6. /\ u \in Nat /\ o \in Nat /\ s \in Nat /\ r \in Nat /\ p \in Nat /\ t \in Nat
        /\ UserHolds(ref, handles') = u
    BY <2>1, <2>2, <2>3, <2>4
  <2>7. p + t = o + s + r
    BY <2>5
  <2> HIDE DEF u, o, s, r, p, t
  <2>8. u + p + t = u + o + s + r
    BY ONLY <2>6, <2>7
  <2> QED
    BY ONLY <2>6, <2>8, Zenon DEF u, o, s, r, p, t
<1> QED
  BY <1>1, <1>3, Recounted

\* No object is touched, only calls and handles: only the equation is left.
LEMMA Quiet ==
  ASSUME TypeAndStack, StackInv', CountingInv,
         UNCHANGED <<globals, fresh, handles, dead>>,
         drops' \in Seq(Ref),
         NEW refs \in Seq(Ref), ToSet(refs) \subseteq BagToSet(objrefs),
         objrefs' = Inc(objrefs, refs) \/ (objrefs' = objrefs /\ refs = <<>>),
         \A ref \in Ref :
            Occurrences(ref, drops') + StackHolds(ref, stack')
              = Occurrences(ref, drops) + StackHolds(ref, stack) + Occurrences(ref, refs)
  PROVE  Kernel'
<1>1. fresh' \in Nat /\ fresh <= fresh'
  BY DEF TypeAndStack, TypeInv
<1>2. \A node \in Nodes : globals[node] \subseteq globals'[node]
  OBVIOUS
<1> QED
  BY <1>1, <1>2, Grown

\* A call without handles on an empty stack or on top of the others.
LEMMA NewCall ==
  ASSUME NEW device \in Devices, NEW why \in {"user", "reconstruct", "make_shares"},
         NEW todo \in Seq(Objects)
  PROVE  /\ Call(device, why, todo) \in Calls
         /\ Call(device, why, todo).todo = todo
         /\ Call(device, why, todo).device = device
         /\ Call(device, why, todo).why = why
         /\ Call(device, why, todo).phase = "place"
         /\ Call(device, why, todo).args = <<>>
         /\ Call(device, why, todo).held = <<>>
         /\ Call(device, why, todo).lent = <<>>
         /\ \A ref : CallHolds(ref, Call(device, why, todo)) = 0
<1>1. Call(device, why, todo).held = <<>> /\ Call(device, why, todo).lent = <<>>
  BY DEF Call
<1>2. \A ref : CallHolds(ref, Call(device, why, todo)) = 0 + 0
  BY <1>1, RefsOfEmpty, OccurrencesEmpty DEF CallHolds
<1> QED
  BY <1>1, <1>2, CallFacts DEF Call

-----------------------------------------------------------------------------
(* A call begins, and places its arguments.                                *)

LEMMA InvokeCounts ==
  ASSUME TypeAndStack, StackInv', CountingInv,
         NEW device \in Devices, NEW args \in Arguments, Invoke(device, args)
  PROVE  CountingInv'
<1> DEFINE call == Call(device, "user", args)
<1>1. args \in Seq(Objects) /\ \A k \in DOMAIN args : args[k] \in handles
  <2>1. PICK n \in 0..MaxArgs : args \in Injection(1..n, handles)
    BY DEF Arguments
  <2>2. args \in [1..n -> handles] /\ n \in Nat
    BY <2>1, ConstantFacts DEF Injection
  <2>3. handles \subseteq Objects
    BY DEF TypeAndStack, TypeInv
  <2> QED
    BY <2>2, <2>3
<1>2. /\ call \in Calls /\ call.todo = args /\ call.phase = "place" /\ call.args = <<>>
      /\ call.lent = <<>> /\ call.held = <<>>
      /\ \A ref : CallHolds(ref, call) = 0
  BY <1>1, NewCall
<1>3. stack = <<>> /\ drops = <<>> /\ drops' = drops /\ objrefs' = objrefs /\ stack' = <<call>>
  BY DEF Invoke, Idle
<1> HIDE DEF call
<1>4. stack' = Append(<<>>, call) /\ <<>> \in Seq(Calls)
  BY <1>2, <1>3
<1>5. \A ref : StackHolds(ref, stack') = 0
  <2>1. \A ref : StackHolds(ref, stack') = StackHolds(ref, <<>>) + CallHolds(ref, call)
    BY <1>2, <1>4, StackHoldsPush
  <2>2. \A ref : StackHolds(ref, <<>>) = 0 /\ CallHolds(ref, call) = 0
    BY <1>2, StackHoldsEmpty
  <2> QED
    BY <2>1, <2>2
<1>6. Kernel'
  <2>1. \A ref \in Ref :
            Occurrences(ref, drops') + StackHolds(ref, stack')
              = Occurrences(ref, drops) + StackHolds(ref, stack) + Occurrences(ref, <<>>)
    <3>1. \A ref : /\ StackHolds(ref, stack) = 0 /\ StackHolds(ref, stack') = 0
                   /\ Occurrences(ref, <<>>) = 0
      BY <1>3, <1>5, StackHoldsEmpty, OccurrencesEmpty
    <3> QED
      BY <1>3, <3>1
  <2>2. ToSet(<<>>) \subseteq BagToSet(objrefs) /\ <<>> \in Seq(Ref)
    BY DEF ToSet
  <2>3. UNCHANGED <<globals, fresh, handles, dead>>
    BY DEF Invoke
  <2> QED
    BY <1>3, <2>1, <2>2, <2>3, Quiet
<1>7. Len(stack') = 1 /\ stack'[1] = call /\ Top' = call /\ handles' = handles
  <2>1. Len(stack') = 1 /\ stack'[1] = call
    BY <1>3
  <2> QED
    BY <2>1 DEF Invoke, Top, Last
<1>8. NestingInv'
  BY <1>2, <1>7 DEF NestingInv
<1>9. ArgumentsInv'
  BY <1>1, <1>2, <1>7 DEF ArgumentsInv
<1>10. AwaitedInv'
  BY <1>2, <1>7 DEF AwaitedInv
<1> QED
  BY <1>6, <1>8, <1>9, <1>10, Parts DEF Shape, CountingInv, Kernel

\* What is left of a sequence was in it.
LEMMA TailMembers ==
  ASSUME NEW T, NEW s \in Seq(T), s # <<>>
  PROVE  \A k \in DOMAIN Tail(s) : \E j \in DOMAIN s : Tail(s)[k] = s[j]
<1>1. ASSUME NEW k \in DOMAIN Tail(s) PROVE k + 1 \in DOMAIN s /\ Tail(s)[k] = s[k+1]
  <2>1. /\ Tail(s) \in Seq(T) /\ Len(Tail(s)) = Len(s) - 1 /\ Len(s) \in Nat
        /\ DOMAIN Tail(s) = 1..Len(s) - 1 /\ DOMAIN s = 1..Len(s)
    OBVIOUS
  <2> QED
    BY <2>1
<1> QED
  BY <1>1

\* A call with one object placed.
LEMMA PlacedCall ==
  ASSUME NEW call \in Calls, call.todo # <<>>, NEW obj \in Objects,
         NEW p, p = Placed(call, obj), NEW q, q = [p EXCEPT !.held = Append(@, obj)]
  PROVE  /\ p \in Calls /\ q \in Calls
         /\ p.held = call.held /\ p.lent = call.lent /\ p.phase = call.phase
         /\ p.device = call.device /\ p.why = call.why
         /\ p.args = Append(call.args, obj.refs)
         /\ \A k \in DOMAIN p.todo : \E j \in DOMAIN call.todo : p.todo[k] = call.todo[j]
         /\ q.lent = call.lent /\ q.phase = call.phase
         /\ q.device = call.device /\ q.why = call.why
         /\ q.args = Append(call.args, obj.refs) /\ q.todo = p.todo
         /\ q.held = Append(call.held, obj)
         /\ \A ref : /\ CallHolds(ref, p) = CallHolds(ref, call)
                     /\ CallHolds(ref, q) = CallHolds(ref, call) + Occurrences(ref, obj.refs)
<1>1. /\ call.todo \in Seq(Objects) /\ call.args \in Seq(Seq(Ref)) /\ call.held \in Seq(Objects)
      /\ call.lent \in Seq(Objects) /\ obj.refs \in Seq(Ref)
  BY RefsOfObject DEF Calls
<1>2. Tail(call.todo) \in Seq(Objects) /\ Append(call.args, obj.refs) \in Seq(Seq(Ref))
      /\ Append(call.held, obj) \in Seq(Objects)
  BY <1>1
<1>3. /\ p \in Calls
      /\ p.held = call.held /\ p.lent = call.lent /\ p.phase = call.phase
      /\ p.device = call.device /\ p.why = call.why
      /\ p.args = Append(call.args, obj.refs) /\ p.todo = Tail(call.todo)
  BY <1>2 DEF Calls, Placed
<1>4. /\ q \in Calls /\ q.lent = call.lent /\ q.phase = call.phase
      /\ q.device = call.device /\ q.why = call.why
      /\ q.args = Append(call.args, obj.refs) /\ q.todo = p.todo
      /\ q.held = Append(call.held, obj)
  BY <1>2, <1>3 DEF Calls
<1>5. \A k \in DOMAIN p.todo : \E j \in DOMAIN call.todo : p.todo[k] = call.todo[j]
  <2>1. \A k \in DOMAIN Tail(call.todo) : \E j \in DOMAIN call.todo : Tail(call.todo)[k] = call.todo[j]
    BY <1>1, TailMembers, Zenon
  <2> QED
    BY ONLY <1>3, <2>1, Zenon
<1>6. ASSUME NEW ref
      PROVE  /\ CallHolds(ref, p) = CallHolds(ref, call)
             /\ CallHolds(ref, q) = CallHolds(ref, call) + Occurrences(ref, obj.refs)
  <2>1. CallHolds(ref, p) = CallHolds(ref, call)
    BY <1>3 DEF CallHolds
  <2>2. RefsOf(q.held) = RefsOf(call.held) \o obj.refs /\ RefsOf(call.held) \in Seq(Ref)
    BY <1>1, <1>4, RefsOfAppend
  <2>3. Occurrences(ref, RefsOf(q.held)) = Occurrences(ref, RefsOf(call.held)) + Occurrences(ref, obj.refs)
    BY <1>1, <2>2, OccurrencesConcat
  <2>4. /\ Occurrences(ref, RefsOf(call.held)) \in Nat /\ Occurrences(ref, obj.refs) \in Nat
        /\ Occurrences(ref, RefsOf(call.lent)) \in Nat
    BY <1>1, CallRefsType, OccurrencesFinite
  <2>5. RefsOf(q.lent) = RefsOf(call.lent)
    BY <1>4
  <2> QED
    BY <2>1, <2>3, <2>4, <2>5 DEF CallHolds
<1> QED
  BY <1>3, <1>4, <1>5, <1>6

\* The equation when the innermost call is replaced.
LEMMA TopEquation ==
  ASSUME TypeAndStack, CountingInv, stack # <<>>, NEW call \in Calls, SetTop(call),
         NEW refs \in Seq(Ref), drops' \in Seq(Ref),
         \A ref : Occurrences(ref, drops') + CallHolds(ref, call)
                    = Occurrences(ref, drops) + CallHolds(ref, Top) + Occurrences(ref, refs)
  PROVE  /\ \A ref \in Ref :
              Occurrences(ref, drops') + StackHolds(ref, stack')
                = Occurrences(ref, drops) + StackHolds(ref, stack) + Occurrences(ref, refs)
         /\ Len(stack') = Len(stack) /\ Depth' = Depth
         /\ \A d \in 1..Len(stack) : stack'[d] = IF d = Len(stack) THEN call ELSE stack[d]
         /\ Top' = call
<1>1. StackInv
  BY DEF TypeAndStack
<1>2. stack' = ReplaceAt(stack, Depth, call)
  BY DEF SetTop
<1>3. /\ Len(stack') = Len(stack) /\ Len(stack) \in Nat \ {0}
      /\ \A d \in 1..Len(stack) : stack'[d] = IF d = Len(stack) THEN call ELSE stack[d]
      /\ \A ref : StackHolds(ref, stack') = StackHolds(ref, Front(stack)) + CallHolds(ref, call)
  BY <1>1, <1>2, SetTopHolds
<1>4. \A ref : /\ StackHolds(ref, Front(stack)) \in Nat /\ CallHolds(ref, Top) \in Nat
               /\ StackHolds(ref, stack) = StackHolds(ref, Front(stack)) + CallHolds(ref, Top)
  BY <1>1, StackTop
<1>5. ASSUME NEW ref \in Ref
      PROVE  Occurrences(ref, drops') + StackHolds(ref, stack')
                = Occurrences(ref, drops) + StackHolds(ref, stack) + Occurrences(ref, refs)
  <2>1. /\ Occurrences(ref, drops') \in Nat /\ Occurrences(ref, drops) \in Nat
        /\ Occurrences(ref, refs) \in Nat
    BY OccurrencesFinite DEF CountingInv, RefsInv
  <2>2. CallHolds(ref, call) \in Nat
    BY CallRefsType
  <2>3. Occurrences(ref, drops') + CallHolds(ref, call)
                    = Occurrences(ref, drops) + CallHolds(ref, Top) + Occurrences(ref, refs)
    OBVIOUS
  <2>4. StackHolds(ref, stack') = StackHolds(ref, Front(stack)) + CallHolds(ref, call)
    BY <1>3
  <2>5. /\ StackHolds(ref, Front(stack)) \in Nat /\ CallHolds(ref, Top) \in Nat
        /\ StackHolds(ref, stack) = StackHolds(ref, Front(stack)) + CallHolds(ref, Top)
    BY <1>4
  <2> DEFINE f == StackHolds(ref, Front(stack))
             b == CallHolds(ref, Top)
             c == CallHolds(ref, call)
             o == Occurrences(ref, drops)
             r == Occurrences(ref, refs)
             p == Occurrences(ref, drops')
  <2>6. /\ f \in Nat /\ b \in Nat /\ c \in Nat /\ o \in Nat /\ r \in Nat /\ p \in Nat
        /\ StackHolds(ref, stack') = f + c /\ StackHolds(ref, stack) = f + b
    BY <2>1, <2>2, <2>4, <2>5
  <2>7. p + c = o + b + r
    BY <2>3
  <2> HIDE DEF f, b, c, o, r, p
  <2>8. p + (f + c) = o + (f + b) + r
    BY ONLY <2>6, <2>7
  <2> QED
    BY ONLY <2>6, <2>8, Zenon DEF o, r, p
<1>6. Top' = call /\ Depth' = Depth
  BY <1>3 DEF Top, Last, Depth
<1> QED
  BY <1>3, <1>5, <1>6

LEMMA PYU2PYUCounts ==
  ASSUME TypeAndStack, StackInv', CountingInv, PYU2PYU
  PROVE  CountingInv'
<1> DEFINE obj == Object(Top.device, Moved.refs)
           call == [Placed(Top, obj) EXCEPT !.held = Append(@, obj)]
<1>1. /\ stack # <<>> /\ Top \in Calls /\ Top.todo # <<>> /\ Top.phase = "place"
      /\ Moved \in Objects /\ Moved.refs \in Refs(Moved.device)
      /\ Moved.device # SPU /\ Top.device # SPU /\ Top.device \in Devices
  BY PlacingFacts DEF PYU2PYU, Calls
<1>2. obj \in Objects /\ obj.refs = Moved.refs
  <2>1. Moved.refs \in Refs(Top.device)
    BY <1>1 DEF Refs, Width
  <2> QED
    BY <1>1, <2>1, ObjectFacts
<1>3. drops = <<>> /\ drops' = drops /\ drops \in Seq(Ref)
  BY DEF PYU2PYU, Placing, At
<1>4. /\ SetTop(call) /\ objrefs' = Inc(objrefs, obj.refs)
      /\ UNCHANGED <<globals, fresh, handles, dead>>
  BY DEF PYU2PYU
<1>5. ToSet(obj.refs) \subseteq BagToSet(objrefs) /\ obj.refs \in Seq(Ref)
  BY <1>2, MovedIsCounted, RefsOfObject DEF PYU2PYU
<1> HIDE DEF obj
<1>6. /\ call \in Calls /\ call.lent = Top.lent /\ call.phase = Top.phase
      /\ call.device = Top.device /\ call.why = Top.why
      /\ \A k \in DOMAIN call.todo : \E j \in DOMAIN Top.todo : call.todo[k] = Top.todo[j]
      /\ \A ref : CallHolds(ref, call) = CallHolds(ref, Top) + Occurrences(ref, obj.refs)
  BY <1>1, <1>2, PlacedCall
<1> HIDE DEF call
<1>7. \A ref : Occurrences(ref, drops') + CallHolds(ref, call)
                 = Occurrences(ref, drops) + CallHolds(ref, Top) + Occurrences(ref, obj.refs)
  <2>1. \A ref : Occurrences(ref, drops) = 0 /\ CallHolds(ref, Top) \in Nat /\ Occurrences(ref, obj.refs) \in Nat
    BY <1>1, <1>3, <1>5, OccurrencesEmpty, CallRefsType, OccurrencesFinite
  <2> QED
    BY <1>3, <1>6, <2>1
<1>8. /\ \A ref \in Ref :
              Occurrences(ref, drops') + StackHolds(ref, stack')
                = Occurrences(ref, drops) + StackHolds(ref, stack) + Occurrences(ref, obj.refs)
      /\ Len(stack') = Len(stack) /\ Top' = call
      /\ \A d \in 1..Len(stack) : stack'[d] = IF d = Len(stack) THEN call ELSE stack[d]
  BY <1>1, <1>3, <1>4, <1>5, <1>6, <1>7, TopEquation
<1>9. Kernel'
  BY <1>3, <1>4, <1>5, <1>8, Quiet
<1>10. /\ Len(stack) \in {1, 2} /\ Depth = Len(stack) /\ Top = stack[Len(stack)]
       /\ Top.device # SPU /\ (Depth = 2 => Top.why # "user")
  BY <1>1, Places
<1>11. NestingInv'
  BY <1>1, <1>6, <1>8, <1>10 DEF NestingInv, CountingInv
<1>12. ArgumentsInv'
  BY <1>1, <1>4, <1>6, <1>8, <1>10 DEF ArgumentsInv, CountingInv
<1>13. AwaitedInv'
  BY <1>1, <1>6, <1>8 DEF AwaitedInv
<1> QED
  BY <1>9, <1>11, <1>12, <1>13, Parts DEF Shape, CountingInv, Kernel

LEMMA SPU2SPUCounts ==
  ASSUME TypeAndStack, StackInv', CountingInv, SPU2SPU
  PROVE  CountingInv'
<1> DEFINE call == Placed(Top, Moved)
<1>1. /\ stack # <<>> /\ Top \in Calls /\ Top.todo # <<>> /\ Top.phase = "place"
      /\ Moved \in Objects /\ Top.device = SPU
  BY PlacingFacts DEF SPU2SPU
<1>2. drops = <<>> /\ drops' = drops /\ drops \in Seq(Ref)
  BY DEF SPU2SPU, Placing, At
<1>3. /\ SetTop(call) /\ objrefs' = objrefs
      /\ UNCHANGED <<globals, fresh, handles, dead>>
  BY DEF SPU2SPU
<1>4. /\ call \in Calls /\ call.lent = Top.lent /\ call.phase = Top.phase
      /\ call.device = Top.device /\ call.why = Top.why /\ call.held = Top.held
      /\ call.args = Append(Top.args, Moved.refs)
      /\ \A k \in DOMAIN call.todo : \E j \in DOMAIN Top.todo : call.todo[k] = Top.todo[j]
      /\ \A ref : CallHolds(ref, call) = CallHolds(ref, Top)
  <2>1. PICK q : q = [call EXCEPT !.held = Append(@, Moved)]
    OBVIOUS
  <2> QED
    BY <1>1, <2>1, PlacedCall
<1> HIDE DEF call
<1>5. <<>> \in Seq(Ref) /\ ToSet(<<>>) \subseteq BagToSet(objrefs)
  BY DEF ToSet
<1>6. \A ref : Occurrences(ref, drops') + CallHolds(ref, call)
                 = Occurrences(ref, drops) + CallHolds(ref, Top) + Occurrences(ref, <<>>)
  <2>1. \A ref : Occurrences(ref, <<>>) = 0 /\ CallHolds(ref, Top) \in Nat
    BY <1>1, OccurrencesEmpty, CallRefsType
  <2> QED
    BY <1>2, <1>4, <2>1
<1>7. /\ \A ref \in Ref :
              Occurrences(ref, drops') + StackHolds(ref, stack')
                = Occurrences(ref, drops) + StackHolds(ref, stack) + Occurrences(ref, <<>>)
      /\ Len(stack') = Len(stack) /\ Top' = call
      /\ \A d \in 1..Len(stack) : stack'[d] = IF d = Len(stack) THEN call ELSE stack[d]
  BY <1>1, <1>2, <1>3, <1>4, <1>5, <1>6, TopEquation
<1>8. Kernel'
  BY <1>2, <1>3, <1>5, <1>7, Quiet
<1>9. Len(stack) = 1 /\ Top = stack[1] /\ Moved \in handles
  BY <1>1, Places, MovedIsCounted DEF SPU2SPU
<1>10. Len(stack') = 1 /\ stack'[1] = call
  BY <1>7, <1>9
<1>11. NestingInv'
  BY <1>1, <1>4, <1>9, <1>10 DEF NestingInv, CountingInv
<1>12. ArgumentsInv'
  <2>1. \A k \in DOMAIN call.todo : call.todo[k] \in handles
    BY <1>1, <1>4, <1>9 DEF ArgumentsInv, CountingInv
  <2>2. \A k \in DOMAIN Top.args : \E obj \in handles \cup ToSet(Top.held) : obj.refs = Top.args[k]
    BY <1>1, <1>9 DEF ArgumentsInv, CountingInv
  <2>3. ASSUME NEW k \in DOMAIN call.args
        PROVE  \E obj \in handles \cup ToSet(Top.held) : obj.refs = call.args[k]
    <3>1. Top.args \in Seq(Seq(Ref)) /\ Moved.refs \in Seq(Ref)
      BY <1>1, RefsOfObject DEF Calls
    <3>2. (k \in DOMAIN Top.args /\ call.args[k] = Top.args[k]) \/ call.args[k] = Moved.refs
      BY <1>4, <2>3, <3>1
    <3> QED
      BY <1>9, <2>2, <3>2
  <2> QED
    BY <1>3, <1>4, <1>10, <2>1, <2>3 DEF ArgumentsInv
<1>13. AwaitedInv'
  BY <1>1, <1>4, <1>7 DEF AwaitedInv
<1> QED
  BY <1>8, <1>11, <1>12, <1>13 DEF CountingInv, Kernel

\* The equation when a call without handles is pushed.
LEMMA PushEquation ==
  ASSUME NEW s \in Seq(Calls), NEW call \in Calls, \A ref : CallHolds(ref, call) = 0
  PROVE  /\ \A ref : StackHolds(ref, Append(s, call)) = StackHolds(ref, s)
         /\ Len(Append(s, call)) = Len(s) + 1
         /\ \A d \in 1..Len(s) : Append(s, call)[d] = s[d]
         /\ Append(s, call)[Len(s) + 1] = call
<1>1. \A ref : /\ StackHolds(ref, s) \in Nat
               /\ StackHolds(ref, Append(s, call)) = StackHolds(ref, s) + CallHolds(ref, call)
  BY StackHoldsPush
<1> QED
  BY <1>1

LEMMA PYU2SPUCounts ==
  ASSUME TypeAndStack, StackInv', CountingInv, PYU2SPU
  PROVE  CountingInv'
<1> DEFINE one == <<Moved>>
           call == Call(Moved.device, "make_shares", one)
<1>1. /\ stack # <<>> /\ Top \in Calls /\ Top.todo # <<>> /\ Top.phase = "place"
      /\ Moved \in Objects /\ Top.device = SPU /\ Moved.device # SPU /\ Moved.device \in Devices
  BY PlacingFacts DEF PYU2SPU
<1>2. drops = <<>> /\ drops' = drops /\ drops \in Seq(Ref) /\ objrefs' = objrefs
      /\ UNCHANGED <<globals, fresh, handles, dead>>
  BY DEF PYU2SPU, Placing, At
<1>3. stack' = Append(stack, call)
  BY DEF PYU2SPU
<1>4. /\ call \in Calls /\ call.todo = one /\ call.device = Moved.device
      /\ call.why = "make_shares" /\ call.phase = "place"
      /\ call.held = <<>> /\ call.lent = <<>>
      /\ \A ref : CallHolds(ref, call) = 0
  <2>1. one \in Seq(Objects)
    BY <1>1
  <2> HIDE DEF one
  <2> QED
    BY <1>1, <2>1, NewCall
<1> HIDE DEF call
<1>5. Len(stack) = 1 /\ Top = stack[1] /\ Moved \in handles /\ stack \in Seq(Calls)
  BY <1>1, Places, MovedIsCounted DEF PYU2SPU, TypeAndStack, StackInv, StackOK
<1>6. /\ \A ref : StackHolds(ref, stack') = StackHolds(ref, stack)
      /\ Len(stack') = 2 /\ stack'[1] = Top /\ stack'[2] = call
  <2>1. /\ \A ref : StackHolds(ref, Append(stack, call)) = StackHolds(ref, stack)
        /\ Len(Append(stack, call)) = Len(stack) + 1
        /\ \A d \in 1..Len(stack) : Append(stack, call)[d] = stack[d]
        /\ Append(stack, call)[Len(stack) + 1] = call
    BY <1>4, <1>5, PushEquation
  <2> QED
    BY <1>3, <1>5, <2>1
<1>7. Kernel'
  <2>1. <<>> \in Seq(Ref) /\ ToSet(<<>>) \subseteq BagToSet(objrefs)
    BY DEF ToSet
  <2>2. ASSUME NEW ref \in Ref
        PROVE  Occurrences(ref, drops') + StackHolds(ref, stack')
                = Occurrences(ref, drops) + StackHolds(ref, stack) + Occurrences(ref, <<>>)
    <3>1. /\ Occurrences(ref, <<>>) = 0 /\ Occurrences(ref, drops) \in Nat
          /\ StackHolds(ref, stack) \in Nat
      BY HoldsType, OccurrencesEmpty DEF TypeAndStack, CountingInv
    <3> QED
      BY <1>2, <1>6, <3>1
  <2> QED
    BY <1>2, <2>1, <2>2, Quiet
<1>8. Top' = call
  BY <1>6 DEF Top, Last
<1>9. Top.lent = <<>>
  BY <1>1, <1>5 DEF CountingInv, NestingInv
<1>10. NestingInv'
  BY <1>1, <1>4, <1>6, <1>9 DEF NestingInv
<1>11. ArgumentsInv'
  <2>1. \A k \in DOMAIN Top.todo : Top.todo[k] \in handles
    BY <1>1, <1>5 DEF ArgumentsInv, CountingInv
  <2>2. \A k \in DOMAIN Top.args : \E obj \in handles \cup ToSet(Top.held) : obj.refs = Top.args[k]
    BY <1>1, <1>5 DEF ArgumentsInv, CountingInv
  <2>3. \A k \in DOMAIN call.todo : call.todo[k] = Moved
    BY <1>4
  <2> QED
    BY <1>1, <1>2, <1>5, <1>6, <2>1, <2>2, <2>3 DEF ArgumentsInv
<1>12. AwaitedInv'
  BY <1>4, <1>8 DEF AwaitedInv
<1> QED
  BY <1>7, <1>10, <1>11, <1>12 DEF CountingInv, Kernel

LEMMA SPU2PYUCounts ==
  ASSUME TypeAndStack, StackInv', CountingInv, SPU2PYU
  PROVE  CountingInv'
<1> DEFINE shares == [i \in Ranks |-> Object(Top.device, <<Moved.refs[i]>>)]
           lender == [Top EXCEPT !.lent = shares]
           call == Call(Top.device, "reconstruct", shares)
<1>1. /\ stack # <<>> /\ Top \in Calls /\ Top.todo # <<>> /\ Top.phase = "place"
      /\ Moved \in Objects /\ Moved.device = SPU /\ Top.device # SPU /\ Top.device \in Devices
      /\ Moved.refs \in Refs(SPU) /\ Moved.refs \in Seq(Ref)
  BY PlacingFacts, RefsOfObject DEF SPU2PYU, Calls
<1>2. drops = <<>> /\ drops' = drops /\ drops \in Seq(Ref) /\ objrefs' = Inc(objrefs, Moved.refs)
      /\ UNCHANGED <<globals, fresh, handles, dead>>
  BY DEF SPU2PYU, Placing, At
<1>3. /\ shares \in Seq(Objects) /\ RefsOf(shares) = Moved.refs
      /\ \A i \in DOMAIN shares : shares[i].device # SPU
  <2>1. Len(SpuNodes) \in Nat /\ Ranks = 1..Len(SpuNodes) /\ Moved.refs \in [1..Len(SpuNodes) -> Ref]
    BY <1>1, ConstantFacts DEF Refs, Width
  <2>2. shares = [i \in 1..Len(SpuNodes) |-> Object(Top.device, <<Moved.refs[i]>>)]
    BY <2>1
  <2>3. DOMAIN Moved.refs = 1..Len(SpuNodes)
    BY <2>1
  <2>4. shares \in Seq(Objects) /\ DOMAIN shares = 1..Len(SpuNodes)
        /\ \A i \in 1..Len(SpuNodes) : shares[i].device = Top.device
    BY <1>1, <2>1, <2>2, OnPyu
  <2>5. RefsOf(shares) = Moved.refs
    BY <1>1, <2>2, <2>3, RefsOfSingles
  <2> QED
    BY <1>1, <2>4, <2>5
<1>4. stack' = Append(ReplaceAt(stack, Depth, lender), call)
  BY DEF SPU2PYU
<1> HIDE DEF shares
<1>5. /\ call \in Calls /\ call.todo = shares /\ call.device = Top.device
      /\ call.why = "reconstruct" /\ call.phase = "place"
      /\ call.held = <<>> /\ call.lent = <<>>
      /\ \A ref : CallHolds(ref, call) = 0
  BY <1>1, <1>3, NewCall
<1> HIDE DEF call
<1>6. /\ lender \in Calls /\ lender.lent = shares /\ lender.held = Top.held
      /\ lender.phase = Top.phase /\ lender.device = Top.device /\ lender.todo = Top.todo
  BY <1>1, <1>3 DEF Calls
<1> HIDE DEF lender
<1>7. Depth = 1 /\ Len(stack) = 1 /\ Top = stack[1] /\ Moved \in handles /\ StackInv
  <2>1. Depth # 2
    BY <1>1, MovedIsCounted DEF SPU2PYU
  <2>2. Depth = 1
    BY <1>1, <2>1, Places
  <2> QED
    BY <1>1, <2>2, Places, MovedIsCounted DEF SPU2PYU, TypeAndStack
<1>8. Top.lent = <<>>
  BY <1>1, <1>7 DEF CountingInv, NestingInv
<1>9. \A ref : CallHolds(ref, lender) = CallHolds(ref, Top) + Occurrences(ref, Moved.refs)
  <2>1. ASSUME NEW ref PROVE CallHolds(ref, lender) = CallHolds(ref, Top) + Occurrences(ref, Moved.refs)
    <3>1. Occurrences(ref, RefsOf(Top.lent)) = 0
      BY <1>8, RefsOfEmpty, OccurrencesEmpty
    <3>2. Occurrences(ref, RefsOf(Top.held)) \in Nat /\ Occurrences(ref, Moved.refs) \in Nat
      BY <1>1, CallRefsType, OccurrencesFinite
    <3>3. CallHolds(ref, lender) = Occurrences(ref, RefsOf(Top.held)) + Occurrences(ref, Moved.refs)
      BY <1>3, <1>6 DEF CallHolds
    <3>4. CallHolds(ref, Top) = Occurrences(ref, RefsOf(Top.held)) + Occurrences(ref, RefsOf(Top.lent))
      BY DEF CallHolds
    <3> QED
      BY ONLY <3>1, <3>2, <3>3, <3>4
  <2> QED
    BY <2>1
<1> DEFINE s == ReplaceAt(stack, Depth, lender)
<1>10. /\ s \in Seq(Calls) /\ Len(s) = 1 /\ s[1] = lender
       /\ \A ref : StackHolds(ref, s) = StackHolds(ref, Front(stack)) + CallHolds(ref, lender)
  BY <1>1, <1>6, <1>7, SetTopHolds
<1>11. stack' = Append(s, call)
  BY <1>4
<1> HIDE DEF s
<1>12. /\ \A ref : StackHolds(ref, stack') = StackHolds(ref, s)
       /\ Len(stack') = 2 /\ stack'[1] = lender /\ stack'[2] = call
  <2>1. /\ \A ref : StackHolds(ref, Append(s, call)) = StackHolds(ref, s)
        /\ Len(Append(s, call)) = Len(s) + 1
        /\ \A d \in 1..Len(s) : Append(s, call)[d] = s[d]
        /\ Append(s, call)[Len(s) + 1] = call
    BY <1>5, <1>10, PushEquation
  <2> QED
    BY <1>10, <1>11, <2>1
<1>13. Kernel'
  <2>1. ToSet(Moved.refs) \subseteq BagToSet(objrefs)
    BY MovedIsCounted DEF SPU2PYU
  <2>2. ASSUME NEW ref \in Ref
        PROVE  Occurrences(ref, drops') + StackHolds(ref, stack')
                = Occurrences(ref, drops) + StackHolds(ref, stack) + Occurrences(ref, Moved.refs)
    <3>1. Occurrences(ref, drops) \in Nat /\ Occurrences(ref, Moved.refs) \in Nat
      BY <1>1, <1>2, OccurrencesFinite
    <3>2. /\ StackHolds(ref, Front(stack)) \in Nat /\ CallHolds(ref, Top) \in Nat
          /\ StackHolds(ref, stack) = StackHolds(ref, Front(stack)) + CallHolds(ref, Top)
      BY <1>1, <1>7, StackTop
    <3>3. StackHolds(ref, stack') = StackHolds(ref, Front(stack)) + CallHolds(ref, lender)
      BY <1>10, <1>12
    <3>4. CallHolds(ref, lender) = CallHolds(ref, Top) + Occurrences(ref, Moved.refs)
      BY <1>9
    <3>5. Occurrences(ref, drops') = Occurrences(ref, drops)
      BY <1>2
    <3> QED
      BY ONLY <3>1, <3>2, <3>3, <3>4, <3>5
  <2> QED
    BY <1>1, <1>2, <2>1, <2>2, Quiet
<1>14. Top' = call
  BY <1>12 DEF Top, Last
<1>15. Top.held = <<>> \/ Top.phase = "place"
  BY <1>1
<1>16. NestingInv'
  BY <1>1, <1>5, <1>6, <1>12 DEF NestingInv
<1>17. ArgumentsInv'
  <2>1. \A k \in DOMAIN Top.todo : Top.todo[k] \in handles
    BY <1>1, <1>7 DEF ArgumentsInv, CountingInv
  <2>2. \A k \in DOMAIN call.todo : call.todo[k].device # SPU /\ call.todo[k] \in ToSet(shares)
    BY <1>3, <1>5 DEF ToSet
  <2> QED
    BY <1>1, <1>2, <1>6, <1>12, <2>1, <2>2 DEF ArgumentsInv
<1>18. AwaitedInv'
  BY <1>5, <1>14 DEF AwaitedInv
<1> QED
  BY <1>13, <1>16, <1>17, <1>18 DEF CountingInv, Kernel

LEMMA PrepareCounts ==
  ASSUME TypeAndStack, StackInv', CountingInv, Prepare
  PROVE  CountingInv'
<1> DEFINE kept == IF Top.device = SPU THEN Top.held ELSE <<>>
           gone == IF Top.device = SPU THEN <<>> ELSE RefsOf(Top.held)
           call == [Top EXCEPT !.phase = "run", !.held = kept]
<1>1. stack # <<>> /\ Top \in Calls /\ Top.todo = <<>> /\ Top.phase = "place" /\ drops = <<>>
  BY Places DEF Prepare, At
<1>2. Top.held \in Seq(Objects) /\ Top.lent \in Seq(Objects)
  BY <1>1 DEF Calls
<1>3. gone \in Seq(Ref) /\ drops' = gone /\ drops' \in Seq(Ref)
  <2>1. RefsOf(Top.held) \in Seq(Ref)
    BY <1>1, CallRefsType
  <2>2. drops' = gone
    BY <1>1 DEF Prepare
  <2> QED
    BY <2>1, <2>2
<1>4. SetTop(call)
  <2>1. CASE Top.device = SPU
    <3>1. [Top EXCEPT !.phase = "run", !.held = Top.held] = [Top EXCEPT !.phase = "run"]
      BY <1>1 DEF Calls
    <3> QED
      BY <2>1, <3>1 DEF Prepare
  <2>2. CASE Top.device # SPU
    BY <2>2 DEF Prepare
  <2> QED
    BY <2>1, <2>2
<1>5. objrefs' = objrefs /\ UNCHANGED <<globals, fresh, handles, dead>>
  BY DEF Prepare
<1>6. \A ref : /\ Occurrences(ref, gone) + Occurrences(ref, RefsOf(kept)) = Occurrences(ref, RefsOf(Top.held))
               /\ Occurrences(ref, gone) \in Nat /\ Occurrences(ref, RefsOf(kept)) \in Nat
  <2>1. \A ref : /\ Occurrences(ref, <<>>) = 0 /\ RefsOf(<<>>) = <<>>
                 /\ Occurrences(ref, RefsOf(Top.held)) \in Nat
    BY <1>1, OccurrencesEmpty, RefsOfEmpty, CallRefsType
  <2> QED
    BY <2>1
<1>7. /\ kept \in Seq(Objects) /\ (Top.device # SPU => kept = <<>>)
      /\ (Top.device = SPU => kept = Top.held)
  BY <1>2
<1> HIDE DEF gone, kept
<1>8. /\ call \in Calls /\ call.held = kept /\ call.lent = Top.lent /\ call.phase = "run"
      /\ call.device = Top.device /\ call.why = Top.why /\ call.args = Top.args
      /\ call.todo = Top.todo
  BY <1>1, <1>7 DEF Calls, Phases
<1> HIDE DEF call
<1>9. <<>> \in Seq(Ref) /\ ToSet(<<>>) \subseteq BagToSet(objrefs)
  BY DEF ToSet
<1>10. \A ref : Occurrences(ref, drops') + CallHolds(ref, call)
                 = Occurrences(ref, drops) + CallHolds(ref, Top) + Occurrences(ref, <<>>)
  <2>1. ASSUME NEW ref
        PROVE  Occurrences(ref, drops') + CallHolds(ref, call)
                 = Occurrences(ref, drops) + CallHolds(ref, Top) + Occurrences(ref, <<>>)
    <3>1. CallHolds(ref, call) = Occurrences(ref, RefsOf(kept)) + Occurrences(ref, RefsOf(Top.lent))
      BY <1>8 DEF CallHolds
    <3>2. CallHolds(ref, Top) = Occurrences(ref, RefsOf(Top.held)) + Occurrences(ref, RefsOf(Top.lent))
      BY DEF CallHolds
    <3>3. Occurrences(ref, drops') = Occurrences(ref, gone) /\ Occurrences(ref, drops) = 0
          /\ Occurrences(ref, <<>>) = 0
      BY <1>1, <1>3, OccurrencesEmpty
    <3>4. Occurrences(ref, RefsOf(Top.held)) \in Nat /\ Occurrences(ref, RefsOf(Top.lent)) \in Nat
      BY <1>1, CallRefsType
    <3>5. /\ Occurrences(ref, gone) + Occurrences(ref, RefsOf(kept)) = Occurrences(ref, RefsOf(Top.held))
          /\ Occurrences(ref, gone) \in Nat /\ Occurrences(ref, RefsOf(kept)) \in Nat
      BY <1>6
    <3> QED
      BY ONLY <3>1, <3>2, <3>3, <3>4, <3>5
  <2> QED
    BY <2>1
<1>11. /\ \A ref \in Ref :
              Occurrences(ref, drops') + StackHolds(ref, stack')
                = Occurrences(ref, drops) + StackHolds(ref, stack) + Occurrences(ref, <<>>)
      /\ Len(stack') = Len(stack) /\ Top' = call
      /\ \A d \in 1..Len(stack) : stack'[d] = IF d = Len(stack) THEN call ELSE stack[d]
  BY <1>1, <1>3, <1>4, <1>8, <1>9, <1>10, TopEquation
<1>12. Kernel'
  BY <1>3, <1>5, <1>9, <1>11, Quiet
<1>13. /\ Len(stack) \in {1, 2} /\ Depth = Len(stack) /\ Top = stack[Len(stack)]
       /\ (Depth = 2 => Top.why # "user") /\ (Top.device = SPU => Depth = 1)
  BY <1>1, Places
<1>14. NestingInv'
  BY <1>1, <1>7, <1>8, <1>11, <1>13 DEF NestingInv, CountingInv
<1>15. ArgumentsInv'
  BY <1>1, <1>5, <1>7, <1>8, <1>11, <1>13 DEF ArgumentsInv, CountingInv
<1>16. AwaitedInv'
  BY <1>8, <1>11 DEF AwaitedInv
<1> QED
  BY <1>12, <1>14, <1>15, <1>16 DEF CountingInv, Kernel

LEMMA FetchShareMetaCounts ==
  ASSUME TypeAndStack, StackInv', CountingInv, FetchShareMeta
  PROVE  CountingInv'
<1> DEFINE refs == [i \in DOMAIN Top.lent |-> Top.lent[i].refs[1]]
           obj == Object(SPU, refs)
           placed == [Placed(Top, obj) EXCEPT !.held = Append(@, obj)]
           call == [placed EXCEPT !.lent = <<>>, !.phase = "place"]
<1>1. /\ stack # <<>> /\ Top \in Calls /\ Top.todo # <<>> /\ Top.phase = "fetch_share_meta"
      /\ Top.device = SPU /\ refs \in Refs(SPU) /\ drops = <<>>
  BY ShareFacts DEF FetchShareMeta, At
<1>2. obj \in Objects /\ obj.refs = refs /\ refs \in Seq(Ref)
  <2>1. SPU \in Devices
    BY DEF Devices
  <2> QED
    BY <1>1, <2>1, ObjectFacts, WidthFacts
<1>3. ToSet(refs) \subseteq BagToSet(objrefs)
  <2>1. ASSUME NEW i \in DOMAIN Top.lent PROVE refs[i] \in BagToSet(objrefs)
    <3>1. Top.lent \in Seq(Objects) /\ Top.lent[i] \in Objects /\ Top.lent[i] \in ToSet(Top.lent)
      BY <1>1, <2>1 DEF Calls, ToSet
    <3>2. Top.lent[i].refs[1] \in ToSet(Top.lent[i].refs)
      <4>1. Top.lent[i].refs \in Refs(Top.lent[i].device)
        BY <3>1 DEF Objects
      <4>2. DOMAIN Top.lent[i].refs = 1..Width(Top.lent[i].device)
            /\ Width(Top.lent[i].device) \in Nat \ {0}
        BY <4>1, WidthFacts
      <4> QED
        BY <4>2 DEF ToSet
    <3>3. Depth \in 1..Len(stack) /\ Top = stack[Depth]
      BY <1>1, Places
    <3>4. ToSet(Top.lent[i].refs) \subseteq BagToSet(objrefs)
      BY <3>1, <3>3, CallIsCounted
    <3> QED
      BY <3>2, <3>4
  <2> QED
    BY <2>1 DEF ToSet
<1> HIDE DEF refs
<1>4. /\ objrefs' = Inc(objrefs, refs) /\ drops' = RefsOf(Top.lent)
      /\ UNCHANGED <<globals, fresh, handles, dead>>
  BY <1>2 DEF FetchShareMeta, refs
<1>5. SetTop(call)
  <2>1. SetTop([Placed(Top, obj) EXCEPT !.held = Append(@, obj), !.lent = <<>>, !.phase = "place"])
    BY DEF FetchShareMeta, refs
  <2>2. [Placed(Top, obj) EXCEPT !.held = Append(@, obj), !.lent = <<>>, !.phase = "place"] = call
    BY <1>1 DEF Placed, Calls
  <2> QED
    BY <2>1, <2>2
<1> HIDE DEF obj
<1>6. /\ placed \in Calls /\ placed.device = Top.device /\ placed.why = Top.why
      /\ placed.args = Append(Top.args, refs) /\ placed.held = Append(Top.held, obj)
      /\ \A k \in DOMAIN placed.todo : \E j \in DOMAIN Top.todo : placed.todo[k] = Top.todo[j]
  BY <1>1, <1>2, PlacedCall
<1> HIDE DEF placed
<1>7. /\ call \in Calls /\ call.device = Top.device /\ call.why = Top.why
      /\ call.args = Append(Top.args, refs) /\ call.held = Append(Top.held, obj)
      /\ call.lent = <<>> /\ call.phase = "place"
      /\ \A k \in DOMAIN call.todo : \E j \in DOMAIN Top.todo : call.todo[k] = Top.todo[j]
  <2>1. <<>> \in Seq(Objects) /\ "place" \in Phases
    BY DEF Phases
  <2> QED
    BY <1>6, <2>1 DEF Calls
<1> HIDE DEF call
<1>8. drops' \in Seq(Ref)
  BY <1>1, <1>4, CallRefsType
<1>9. \A ref : Occurrences(ref, drops') + CallHolds(ref, call)
                 = Occurrences(ref, drops) + CallHolds(ref, Top) + Occurrences(ref, refs)
  <2>1. ASSUME NEW ref
        PROVE  Occurrences(ref, drops') + CallHolds(ref, call)
                 = Occurrences(ref, drops) + CallHolds(ref, Top) + Occurrences(ref, refs)
    <3>1. Top.held \in Seq(Objects) /\ RefsOf(Top.held) \in Seq(Ref)
      BY <1>1, CallRefsType DEF Calls
    <3>2. RefsOf(call.held) = RefsOf(Top.held) \o refs
      BY <1>2, <1>7, <3>1, RefsOfAppend
    <3>3. Occurrences(ref, RefsOf(call.held)) = Occurrences(ref, RefsOf(Top.held)) + Occurrences(ref, refs)
      BY <1>2, <3>1, <3>2, OccurrencesConcat
    <3>4. Occurrences(ref, RefsOf(call.lent)) = 0
      BY <1>7, RefsOfEmpty, OccurrencesEmpty
    <3>5. CallHolds(ref, call) = Occurrences(ref, RefsOf(call.held)) + Occurrences(ref, RefsOf(call.lent))
      BY DEF CallHolds
    <3>6. CallHolds(ref, Top) = Occurrences(ref, RefsOf(Top.held)) + Occurrences(ref, RefsOf(Top.lent))
      BY DEF CallHolds
    <3>7. Occurrences(ref, drops') = Occurrences(ref, RefsOf(Top.lent)) /\ Occurrences(ref, drops) = 0
      BY <1>1, <1>4, OccurrencesEmpty
    <3>8. /\ Occurrences(ref, RefsOf(Top.held)) \in Nat /\ Occurrences(ref, RefsOf(Top.lent)) \in Nat
          /\ Occurrences(ref, refs) \in Nat
      BY <1>1, <1>2, CallRefsType, OccurrencesFinite
    <3> QED
      BY ONLY <3>3, <3>4, <3>5, <3>6, <3>7, <3>8
  <2> QED
    BY <2>1
<1>10. /\ \A ref \in Ref :
              Occurrences(ref, drops') + StackHolds(ref, stack')
                = Occurrences(ref, drops) + StackHolds(ref, stack) + Occurrences(ref, refs)
      /\ Len(stack') = Len(stack) /\ Top' = call
      /\ \A d \in 1..Len(stack) : stack'[d] = IF d = Len(stack) THEN call ELSE stack[d]
  BY <1>1, <1>2, <1>5, <1>7, <1>8, <1>9, TopEquation
<1>11. Kernel'
  BY <1>2, <1>3, <1>4, <1>8, <1>10, Quiet
<1>12. Len(stack) = 1 /\ Top = stack[1]
  BY <1>1, Places
<1>13. Len(stack') = 1 /\ stack'[1] = call
  BY <1>10, <1>12
<1>14. NestingInv'
  BY <1>1, <1>7, <1>13 DEF NestingInv
<1>15. ArgumentsInv'
  <2>1. \A k \in DOMAIN call.todo : call.todo[k] \in handles
    BY <1>1, <1>7, <1>12 DEF ArgumentsInv, CountingInv
  <2>2. \A k \in DOMAIN Top.args : \E o \in handles \cup ToSet(Top.held) : o.refs = Top.args[k]
    BY <1>1, <1>12 DEF ArgumentsInv, CountingInv
  <2>3. ToSet(call.held) = ToSet(Top.held) \cup {obj}
    <3>1. Top.held \in Seq(Objects)
      BY <1>1 DEF Calls
    <3> QED
      BY <1>7, <3>1, AppendSet
  <2>4. ASSUME NEW k \in DOMAIN call.args
        PROVE  \E o \in handles \cup ToSet(call.held) : o.refs = call.args[k]
    <3>1. Top.args \in Seq(Seq(Ref))
      BY <1>1 DEF Calls
    <3>2. (k \in DOMAIN Top.args /\ call.args[k] = Top.args[k]) \/ call.args[k] = refs
      BY <1>2, <1>7, <2>4, <3>1
    <3> QED
      BY <1>2, <2>2, <2>3, <3>2
  <2> QED
    BY <1>4, <1>13, <2>1, <2>4 DEF ArgumentsInv
<1>16. AwaitedInv'
  BY <1>7, <1>10 DEF AwaitedInv
<1> QED
  BY <1>11, <1>14, <1>15, <1>16 DEF CountingInv, Kernel

-----------------------------------------------------------------------------
(* An exception: the calls' handles go, whatever the nodes have stored.    *)

LEMMA RaiseCounts ==
  ASSUME TypeAndStack, StackInv', CountingInv, Raise, drops = <<>>,
         UNCHANGED <<handles, objrefs, dead>>, fresh' \in Nat, fresh <= fresh',
         \A node \in Nodes : globals[node] \subseteq globals'[node]
  PROVE  CountingInv'
<1>1. stack' = <<>> /\ drops' = StackRefs(stack)
  BY DEF Raise, StackRefs, CallRefs, Depth
<1>2. drops' \in Seq(Ref)
  <2>1. stack \in Seq(Calls)
    BY DEF TypeAndStack, StackInv, StackOK
  <2>2. CASE stack = <<>>
    <3>1. [d \in 1..Len(<<>>) |-> CallRefs(<<>>[d])] = <<>>
      OBVIOUS
    <3>2. StackRefs(<<>>) = <<>>
      BY <3>1, FlattenEmpty DEF StackRefs
    <3>3. drops' = StackRefs(<<>>)
      BY <1>1, <2>2
    <3>4. <<>> \in Seq(Ref)
      OBVIOUS
    <3> QED
      BY <3>2, <3>3, <3>4, Zenon
  <2>3. CASE stack # <<>>
    <3>1. Top \in Calls
      BY <2>3, StackTop DEF TypeAndStack
    <3> QED
      BY <1>1, <2>1, <3>1, StackHoldsPush
  <2> QED
    BY <2>2, <2>3
<1>3. <<>> \in Seq(Ref) /\ ToSet(<<>>) \subseteq BagToSet(objrefs)
  BY DEF ToSet
<1>4. ASSUME NEW ref \in Ref
      PROVE  Occurrences(ref, drops') + StackHolds(ref, stack')
              = Occurrences(ref, drops) + StackHolds(ref, stack) + Occurrences(ref, <<>>)
  <2>1. /\ Occurrences(ref, drops') = StackHolds(ref, stack) /\ StackHolds(ref, stack') = 0
        /\ Occurrences(ref, drops) = 0 /\ Occurrences(ref, <<>>) = 0
    BY <1>1, StackHoldsEmpty, OccurrencesEmpty DEF StackHolds
  <2>2. StackHolds(ref, stack) \in Nat
    BY HoldsType DEF TypeAndStack, CountingInv
  <2> QED
    BY ONLY <2>1, <2>2
<1>5. Kernel'
  BY <1>2, <1>3, <1>4, Grown
<1>6. Len(stack') = 0
  BY <1>1
<1>7. Shape'
  BY <1>1, <1>6 DEF Shape, NestingInv, ArgumentsInv, AwaitedInv
<1> QED
  BY <1>5, <1>7 DEF CountingInv, Kernel, Shape

\* Numbers only go up.
LEMMA FreshGrows ==
  ASSUME TypeAndStack, NEW n \in Nat, fresh' = fresh + n
  PROVE  fresh' \in Nat /\ fresh <= fresh'
BY DEF TypeAndStack, TypeInv

LEMMA PyuFailCounts ==
  ASSUME TypeAndStack, StackInv', CountingInv, PyuFail
  PROVE  CountingInv'
<1>1. globals \in [Nodes -> SUBSET Ref] /\ fresh \in Nat
  BY DEF TypeAndStack, TypeInv
<1>2. \A node \in Nodes : globals[node] \subseteq globals'[node]
  BY <1>1 DEF PyuFail
<1>3. Raise /\ drops = <<>> /\ UNCHANGED <<handles, objrefs, dead, fresh>>
  BY DEF PyuFail, At
<1> QED
  BY <1>1, <1>2, <1>3, RaiseCounts

LEMMA PyuAnswerLostCounts ==
  ASSUME TypeAndStack, StackInv', CountingInv, PyuAnswerLost
  PROVE  CountingInv'
<1>1. globals \in [Nodes -> SUBSET Ref]
  BY DEF TypeAndStack, TypeInv
<1>2. \A node \in Nodes : globals[node] \subseteq globals'[node]
  BY <1>1 DEF PyuAnswerLost
<1>3. Raise /\ drops = <<>> /\ UNCHANGED <<handles, objrefs, dead>>
  BY DEF PyuAnswerLost, At
<1>4. fresh' \in Nat /\ fresh <= fresh'
  <2>1. Len(PyuResults) \in Nat
    BY PyuResultFacts DEF PyuAnswerLost
  <2>2. fresh' = fresh + Len(PyuResults)
    BY DEF PyuAnswerLost
  <2> QED
    BY <2>1, <2>2, FreshGrows
<1> QED
  BY <1>2, <1>3, <1>4, RaiseCounts

LEMMA FetchFailsCounts ==
  ASSUME TypeAndStack, StackInv', CountingInv, FetchFails
  PROVE  CountingInv'
<1>1. fresh \in Nat
  BY DEF TypeAndStack, TypeInv
<1>2. Raise /\ drops = <<>> /\ UNCHANGED <<globals, handles, objrefs, dead, fresh>>
  BY DEF FetchFails, At
<1> QED
  BY <1>1, <1>2, RaiseCounts

-----------------------------------------------------------------------------
(* The SPU's run.                                                          *)

\* The nodes of the SPU keep what they have; when none of them fails each has
\* stored its result.
LEMMA SpuStores ==
  ASSUME TypeAndStack, SpuRun
  PROVE  /\ \A node \in Nodes : globals[node] \subseteq globals'[node]
         /\ \/ Raise
            \/ /\ SetTop(SpuDone) /\ drops' = drops
               /\ \A i \in Ranks : NewRefs(SpuNodes)[i] \in globals'[SpuNodes[i]]
<1> DEFINE results == NewRefs(SpuNodes)
           got == [i \in Ranks |-> Resolved(SpuNodes[i], SpuArgs(i))]
<1>1. PICK failed \in SUBSET Ranks :
         /\ globals' = [node \in Nodes |-> globals[node] \cup
               {r \in {results[i] : i \in Ranks \ failed} : r.origin = node} \cup
               UNION {got[i] : i \in {i \in Ranks : SpuNodes[i] = node}}]
         /\ IF failed = {}
            THEN SetTop(SpuDone) /\ drops' = drops
            ELSE Raise
  BY DEF SpuRun, SpuDone
<1>2. \A i \in Ranks : results[i].origin = SpuNodes[i] /\ SpuNodes[i] \in Nodes
  BY SpuFacts, ConstantFacts DEF SpuRun
<1> HIDE DEF results, got
<1>3. \A node \in Nodes : globals[node] \subseteq globals'[node]
  BY <1>1
<1>4. ASSUME failed = {}, NEW i \in Ranks PROVE results[i] \in globals'[SpuNodes[i]]
  <2>1. results[i] \in {r \in {results[j] : j \in Ranks \ failed} : r.origin = SpuNodes[i]}
    BY <1>2, <1>4
  <2> QED
    BY <1>1, <1>2, <2>1
<1> QED
  BY <1>1, <1>3, <1>4 DEF results

LEMMA SpuRunCounts ==
  ASSUME TypeAndStack, StackInv', CountingInv, SpuRun
  PROVE  CountingInv'
<1>1. /\ stack # <<>> /\ Top \in Calls /\ Top.phase = "run" /\ Top.device = SPU /\ drops = <<>>
      /\ UNCHANGED <<handles, objrefs, dead>> /\ fresh' = fresh + Len(SpuNodes)
  BY SpuFacts DEF SpuRun, At
<1>2. fresh \in Nat /\ fresh' \in Nat /\ fresh <= fresh' /\ Len(SpuNodes) \in Nat
  BY <1>1, ConstantFacts, FreshGrows DEF TypeAndStack, TypeInv
<1>3. \A node \in Nodes : globals[node] \subseteq globals'[node]
  BY SpuStores
<1>4. CASE Raise
  BY <1>1, <1>2, <1>3, <1>4, RaiseCounts
<1>5. CASE /\ SetTop(SpuDone) /\ drops' = drops
           /\ \A i \in Ranks : NewRefs(SpuNodes)[i] \in globals'[SpuNodes[i]]
  <2> DEFINE results == NewRefs(SpuNodes)
  <2>1. /\ results \in [Ranks -> Ref] /\ Ranks = 1..Len(SpuNodes) /\ results \in Seq(Ref)
        /\ \A i \in Ranks : /\ results[i].origin = SpuNodes[i]
                            /\ results[i].uuid = fresh + i
    BY <1>1, SpuFacts, ConstantFacts DEF NewRefs, ObjectRef, SpuRun, Ranks
  <2>2. \A i \in Ranks : results[i] \in globals'[SpuNodes[i]]
    BY <1>5
  <2>3. SetTop(SpuDone) /\ SpuDone = [Top EXCEPT !.args = <<results>>, !.phase = "fetch_meta"]
    BY <1>5 DEF SpuDone
  <2> HIDE DEF results
  <2>4. /\ SpuDone \in Calls /\ SpuDone.args = <<results>> /\ SpuDone.phase = "fetch_meta"
        /\ SpuDone.held = Top.held /\ SpuDone.lent = Top.lent /\ SpuDone.todo = Top.todo
        /\ SpuDone.device = Top.device /\ SpuDone.why = Top.why
    <3>1. <<results>> \in Seq(Seq(Ref)) /\ "fetch_meta" \in Phases
      BY <2>1 DEF Phases
    <3> DEFINE new == <<results>>
    <3>2. new \in Seq(Seq(Ref)) /\ SpuDone = [Top EXCEPT !.args = new, !.phase = "fetch_meta"]
      BY <2>3, <3>1
    <3> HIDE DEF new
    <3>3. /\ SpuDone \in Calls /\ SpuDone.args = new /\ SpuDone.phase = "fetch_meta"
        /\ SpuDone.held = Top.held /\ SpuDone.lent = Top.lent /\ SpuDone.todo = Top.todo
        /\ SpuDone.device = Top.device /\ SpuDone.why = Top.why
      BY <1>1, <3>1, <3>2 DEF Calls
    <3> QED
      BY <3>3 DEF new
  <2>5. <<>> \in Seq(Ref) /\ ToSet(<<>>) \subseteq BagToSet(objrefs) /\ drops' \in Seq(Ref)
    BY <1>1, <1>5 DEF ToSet
  <2>6. \A ref : Occurrences(ref, drops') + CallHolds(ref, SpuDone)
                   = Occurrences(ref, drops) + CallHolds(ref, Top) + Occurrences(ref, <<>>)
    <3>1. \A ref : /\ Occurrences(ref, <<>>) = 0 /\ CallHolds(ref, Top) \in Nat
                   /\ CallHolds(ref, SpuDone) = CallHolds(ref, Top)
      BY <1>1, <2>4, OccurrencesEmpty, CallRefsType DEF CallHolds
    <3> QED
      BY <1>1, <1>5, <3>1
  <2>7. /\ \A ref \in Ref :
              Occurrences(ref, drops') + StackHolds(ref, stack')
                = Occurrences(ref, drops) + StackHolds(ref, stack) + Occurrences(ref, <<>>)
        /\ Len(stack') = Len(stack) /\ Top' = SpuDone
        /\ \A d \in 1..Len(stack) : stack'[d] = IF d = Len(stack) THEN SpuDone ELSE stack[d]
    BY <1>1, <2>3, <2>4, <2>5, <2>6, TopEquation
  <2>8. Kernel'
    BY <1>1, <1>2, <1>3, <2>5, <2>7, Grown
  <2>9. Len(stack) = 1 /\ Top = stack[1]
    BY <1>1, Places
  <2>10. Len(stack') = 1 /\ stack'[1] = SpuDone
    BY <2>7, <2>9
  <2>11. NestingInv'
    BY <1>1, <2>4, <2>9, <2>10 DEF NestingInv, CountingInv
  <2>12. ArgumentsInv'
    BY <1>1, <2>4, <2>9, <2>10 DEF ArgumentsInv, CountingInv
  <2>13. Distinct(results)
    BY <1>2, <2>1 DEF Distinct
  <2>14. ASSUME NEW i \in DOMAIN results
         PROVE  /\ results[i].origin = SpuNodes[i]
                /\ results[i] \in globals'[results[i].origin]
                /\ results[i].uuid <= fresh'
                /\ results[i] \notin BagToSet(objrefs) \cup ToSet(dead)
    <3>1. /\ i \in 1..Len(SpuNodes) /\ results[i].origin = SpuNodes[i]
          /\ results[i].uuid = fresh + i /\ results[i] \in globals'[SpuNodes[i]]
      BY <2>1, <2>2, <2>14
    <3>2. ~ (fresh + i <= fresh) /\ fresh + i <= fresh'
      BY <1>1, <1>2, <3>1
    <3>3. \A ref \in BagToSet(objrefs) \cup ToSet(dead) : ref.uuid <= fresh
      BY DEF CountingInv, IssuedInv
    <3> QED
      BY <3>1, <3>2, <3>3
  <2>15. AwaitedInv'
    <3>1. Top'.args[1] = results
      BY <2>4, <2>7
    <3> QED
      BY <1>1, <2>13, <2>14, <3>1 DEF AwaitedInv
  <2> QED
    BY <2>8, <2>11, <2>12, <2>15 DEF CountingInv, Kernel
<1> QED
  BY <1>4, <1>5, SpuStores

-----------------------------------------------------------------------------
(* The results of a call, given to the one that called it.                 *)

LEMMA StackSums ==
  ASSUME TypeAndStack, CountingInv, stack # <<>>
  PROVE  /\ Len(stack) = 1 =>
              \A ref : StackHolds(ref, stack) = CallHolds(ref, stack[1])
         /\ Len(stack) = 2 =>
              /\ Front(Front(stack)) = <<>>
              /\ \A ref : StackHolds(ref, stack) = CallHolds(ref, stack[1]) + CallHolds(ref, stack[2])
<1>1. /\ Front(stack) \in Seq(Calls) /\ Top \in Calls /\ stack \in Seq(Calls)
      /\ Len(Front(stack)) = Len(stack) - 1
      /\ \A d \in 1..Len(stack) - 1 : Front(stack)[d] = stack[d]
      /\ \A ref : /\ CallHolds(ref, Top) \in Nat
                  /\ StackHolds(ref, stack) = StackHolds(ref, Front(stack)) + CallHolds(ref, Top)
      /\ Top = stack[Len(stack)]
  BY StackTop, Places DEF TypeAndStack
<1>2. ASSUME Len(stack) = 1, NEW ref PROVE StackHolds(ref, stack) = CallHolds(ref, stack[1])
  <2>1. Front(stack) = <<>>
    BY <1>1, <1>2
  <2>2. StackHolds(ref, Front(stack)) = 0
    BY <2>1, StackHoldsEmpty
  <2> QED
    BY <1>1, <1>2, <2>2
<1>3. ASSUME Len(stack) = 2
      PROVE  /\ Front(Front(stack)) = <<>>
             /\ \A ref : StackHolds(ref, stack) = CallHolds(ref, stack[1]) + CallHolds(ref, stack[2])
  <2>1. Len(Front(stack)) = 1 /\ Front(stack)[1] = stack[1] /\ stack[1] \in Calls
    BY <1>1, <1>3
  <2>2. Front(stack) = Append(<<>>, stack[1]) /\ <<>> \in Seq(Calls)
    BY <1>1, <2>1
  <2>3. Front(Front(stack)) = <<>>
    <3>1. Len(Front(Front(stack))) = 0 /\ Front(Front(stack)) \in Seq(Calls)
      BY <1>1, <2>1, FrontFacts
    <3> QED
      BY <3>1
  <2>4. \A ref : StackHolds(ref, Append(<<>>, stack[1])) = StackHolds(ref, <<>>) + CallHolds(ref, stack[1])
    BY <2>1, <2>2, StackHoldsPush
  <2>5. ASSUME NEW ref
        PROVE  StackHolds(ref, stack) = CallHolds(ref, stack[1]) + CallHolds(ref, stack[2])
    <3>1. StackHolds(ref, Front(stack)) = 0 + CallHolds(ref, stack[1])
      BY <2>2, <2>4, StackHoldsEmpty
    <3>2. StackHolds(ref, stack) = StackHolds(ref, Front(stack)) + CallHolds(ref, stack[2])
      BY <1>1, <1>3
    <3>3. CallHolds(ref, stack[1]) \in Nat
      BY <2>1, CallRefsType
    <3> QED
      BY <3>1, <3>2, <3>3
  <2> QED
    BY <2>3, <2>5
<1> QED
  BY <1>2, <1>3

LEMMA OneCall ==
  ASSUME NEW call \in Calls
  PROVE  \A ref : StackHolds(ref, Append(<<>>, call)) = CallHolds(ref, call)
<1>1. <<>> \in Seq(Calls)
  OBVIOUS
<1>2. \A ref : /\ StackHolds(ref, Append(<<>>, call)) = StackHolds(ref, <<>>) + CallHolds(ref, call)
               /\ StackHolds(ref, <<>>) = 0 /\ CallHolds(ref, call) \in Nat
  BY <1>1, StackHoldsPush, StackHoldsEmpty, CallRefsType
<1> QED
  BY <1>2

\* The call of the user returns a handle.
LEMMA UserGiven ==
  ASSUME TypeAndStack, StackInv', CountingInv, stack # <<>>, drops = <<>>,
         Top.why = "user", Top.phase \in {"run", "fetch_meta"},
         NEW obj \in Objects, obj.refs # <<>>, Distinct(obj.refs),
         \A i \in DOMAIN obj.refs : obj.refs[i].origin = Home(obj.device, i),
         handles' = handles \cup {obj}, stack' = <<>>, drops' = RefsOf(Top.held),
         dead' = dead, fresh' \in Nat, fresh <= fresh',
         \A node \in Nodes : globals[node] \subseteq globals'[node],
         objrefs' = Inc(objrefs, obj.refs),
         \A ref \in ToSet(obj.refs) :
            /\ ref \notin BagToSet(objrefs) \cup ToSet(dead)
            /\ ref \in globals'[ref.origin] /\ ref.uuid <= fresh'
  PROVE  CountingInv'
<1>1. obj.refs \in Seq(Ref) /\ obj.refs[1] \in ToSet(obj.refs)
  <2>1. obj.refs \in Seq(Ref)
    BY RefsOfObject
  <2> QED
    BY <2>1 DEF ToSet
<1>2. obj \notin handles
  BY <1>1, UserIsCounted
<1>3. IsFiniteSet(handles) /\ HandlesInv
  BY DEF CountingInv, HandlesInv
<1>4. HandlesInv'
  <2>1. IsFiniteSet(handles')
    BY <1>3, FS_AddElement
  <2> QED
    BY <2>1, <1>3 DEF HandlesInv
<1>5. Len(stack) = 1 /\ Depth = 1 /\ Top = stack[1] /\ Top \in Calls
  BY Places
<1>6. Top.lent = <<>>
  BY <1>5 DEF CountingInv, NestingInv
<1>7. drops' \in Seq(Ref)
  BY <1>5, CallRefsType
<1>8. ASSUME NEW ref \in Ref
      PROVE  UserHolds(ref, handles') + Occurrences(ref, drops') + StackHolds(ref, stack')
              = UserHolds(ref, handles) + Occurrences(ref, drops) + StackHolds(ref, stack)
                  + Occurrences(ref, obj.refs)
  <2>1. /\ UserHolds(ref, handles) \in Nat /\ Occurrences(ref, obj.refs) \in Nat
        /\ Occurrences(ref, RefsOf(Top.held)) \in Nat
    BY <1>1, <1>3, <1>5, UserHoldsType, OccurrencesFinite, CallRefsType
  <2>2. UserHolds(ref, handles') = UserHolds(ref, handles) + Occurrences(ref, obj.refs)
    BY <1>1, <1>2, <1>3, UserHoldsChange, OccursOnce
  <2>3. Occurrences(ref, drops') = Occurrences(ref, RefsOf(Top.held)) /\ Occurrences(ref, drops) = 0
        /\ StackHolds(ref, stack') = 0
    BY StackHoldsEmpty, OccurrencesEmpty
  <2>4. StackHolds(ref, stack) = CallHolds(ref, Top)
    BY <1>5, StackSums
  <2>5. CallHolds(ref, Top) = Occurrences(ref, RefsOf(Top.held)) + 0
    BY <1>6, RefsOfEmpty, OccurrencesEmpty DEF CallHolds
  <2> QED
    BY ONLY <2>1, <2>2, <2>3, <2>4, <2>5
<1>9. Kernel'
  BY <1>1, <1>4, <1>7, <1>8, Recounted
<1>10. Len(stack') = 0
  OBVIOUS
<1>11. Shape'
  BY <1>10 DEF Shape, NestingInv, ArgumentsInv, AwaitedInv
<1> QED
  BY <1>9, <1>11 DEF CountingInv, Kernel, Shape

LEMMA FetchMetaCounts ==
  ASSUME TypeAndStack, StackInv', CountingInv, FetchMeta
  PROVE  CountingInv'
<1> DEFINE refs == Top.args[1]
           obj == Object(SPU, refs)
<1>1. /\ stack # <<>> /\ Top \in Calls /\ Top.phase = "fetch_meta" /\ Top.device = SPU
      /\ drops = <<>> /\ refs \in Refs(SPU)
      /\ UNCHANGED <<globals, fresh, dead>>
  BY FetchMetaFacts DEF FetchMeta, At
<1>2. obj \in Objects /\ obj.refs = refs /\ obj.device = SPU /\ refs \in Seq(Ref) /\ refs # <<>>
      /\ DOMAIN refs = 1..Len(SpuNodes)
  <2>1. SPU \in Devices /\ Len(SpuNodes) \in Nat \ {0}
    BY ConstantFacts DEF Devices
  <2>2. refs \in [1..Len(SpuNodes) -> Ref]
    BY <1>1 DEF Refs, Width
  <2> QED
    BY <1>1, <2>1, <2>2, ObjectFacts, WidthFacts
<1>3. Top.why = "user"
  BY <1>1, Places
<1>4. /\ Distinct(refs)
      /\ \A i \in DOMAIN refs :
            /\ refs[i].origin = SpuNodes[i] /\ refs[i] \in globals[refs[i].origin]
            /\ refs[i].uuid <= fresh
            /\ refs[i] \notin BagToSet(objrefs) \cup ToSet(dead)
  BY <1>1 DEF CountingInv, AwaitedInv
<1>5. objrefs' = Inc(objrefs, refs) /\ GiveResults(<<obj>>)
  BY <1>2 DEF FetchMeta
<1>6. handles' = handles \cup {obj} /\ stack' = <<>> /\ drops' = RefsOf(Top.held)
  <2>1. ToSet(<<obj>>) = {obj}
    BY DEF ToSet
  <2> QED
    BY <1>3, <1>5, <2>1 DEF GiveResults
<1> HIDE DEF refs, obj
<1>7. \A i \in DOMAIN refs : refs[i].origin = Home(obj.device, i)
  BY <1>2, <1>4 DEF Home
<1>8. \A ref \in ToSet(refs) :
            /\ ref \notin BagToSet(objrefs) \cup ToSet(dead)
            /\ ref \in globals'[ref.origin] /\ ref.uuid <= fresh'
  BY <1>1, <1>4 DEF ToSet
<1>9. fresh' \in Nat /\ fresh <= fresh' /\ \A node \in Nodes : globals[node] \subseteq globals'[node]
  BY <1>1 DEF TypeAndStack, TypeInv
<1> QED
  BY <1>1, <1>2, <1>3, <1>4, <1>5, <1>6, <1>7, <1>8, <1>9, UserGiven

\* What a PYU's node has stored when its function has run.
LEMMA PyuStores ==
  ASSUME TypeAndStack, CountingInv, PyuRun
  PROVE  /\ PyuResults \in Seq(Ref) /\ Len(PyuResults) \in Nat
         /\ \A i \in DOMAIN PyuResults :
               /\ PyuResults[i].origin = Top.device
               /\ PyuResults[i].uuid <= fresh'
               /\ PyuResults[i] \in globals'[Top.device]
               /\ PyuResults[i] \notin BagToSet(objrefs) \cup ToSet(dead)
         /\ fresh' \in Nat /\ fresh <= fresh'
         /\ \A node \in Nodes : globals[node] \subseteq globals'[node]
         /\ Top.device \in Pyus /\ Top.device \in Nodes /\ Top.device # SPU
<1>1. /\ Top.device \in Pyus /\ Top.device \in Nodes /\ Top.device # SPU
      /\ \E n \in Nat \ {0} : PyuResults \in [1..n -> Ref]
      /\ Len(PyuResults) \in Nat
  BY PyuFacts, PyuResultFacts DEF PyuRun
<1>2. fresh' = fresh + Len(PyuResults) /\ fresh \in Nat
  BY DEF PyuRun, TypeAndStack, TypeInv
<1>3. \A node \in Nodes :
         /\ globals[node] \subseteq globals'[node]
         /\ node = Top.device => ToSet(PyuResults) \subseteq globals'[node]
  <2>1. globals \in [Nodes -> SUBSET Ref]
    BY DEF TypeAndStack, TypeInv
  <2> QED
    BY <2>1, <1>1 DEF PyuRun
<1>4. ASSUME NEW i \in DOMAIN PyuResults
      PROVE  /\ PyuResults[i].origin = Top.device
             /\ PyuResults[i].uuid = fresh + i
             /\ i \in 1..Len(PyuResults)
  BY <1>1 DEF PyuResults, NewRefs, ObjectRef
<1>5. ASSUME NEW i \in DOMAIN PyuResults
      PROVE  /\ PyuResults[i].uuid <= fresh'
             /\ PyuResults[i] \in globals'[Top.device]
             /\ PyuResults[i] \notin BagToSet(objrefs) \cup ToSet(dead)
  <2>1. PyuResults[i].uuid = fresh + i /\ i \in 1..Len(PyuResults)
    BY <1>4, <1>5
  <2>2. fresh + i <= fresh' /\ ~ (fresh + i <= fresh)
    BY <1>1, <1>2, <2>1
  <2>3. \A ref \in BagToSet(objrefs) \cup ToSet(dead) : ref.uuid <= fresh
    BY DEF CountingInv, IssuedInv
  <2>4. PyuResults[i] \in ToSet(PyuResults)
    BY <1>5 DEF ToSet
  <2> QED
    BY <1>1, <1>3, <2>1, <2>2, <2>3, <2>4
<1>6. fresh' \in Nat /\ fresh <= fresh'
  BY <1>1, <1>2
<1>7. PyuResults \in Seq(Ref)
  BY <1>1
<1> QED
  BY <1>1, <1>3, <1>4, <1>5, <1>6, <1>7

\* The call that a transfer kernel returns to, the kernel gone.
LEMMA NestedCalls ==
  ASSUME TypeAndStack, CountingInv, stack # <<>>, Top.why # "user", Top.phase # "place"
  PROVE  /\ Len(stack) = 2 /\ Depth - 1 = 1 /\ Front(Front(stack)) = <<>>
         /\ stack[1] \in Calls /\ stack[1].phase = "place" /\ stack[1].todo # <<>>
         /\ stack[1].why = "user"
         /\ (Top.why = "reconstruct" => stack[1].device # SPU)
         /\ (Top.why = "make_shares" => stack[1].device = SPU)
         /\ (Top.why = "make_shares" => stack[1].lent = <<>>)
         /\ Top.device # SPU
         /\ \A k \in DOMAIN stack[1].todo : stack[1].todo[k] \in handles
         /\ \A ref : StackHolds(ref, stack) = CallHolds(ref, stack[1])
<1>1. /\ Len(stack) = 2 /\ Depth = 2 /\ Top = stack[2] /\ Top \in Calls /\ stack[1] \in Calls
      /\ NestInv(Top, stack[1])
  BY Places
<1>2. /\ stack[1].phase = "place" /\ stack[1].todo # <<>> /\ Top.device # SPU
      /\ Top.held = <<>> /\ Top.lent = <<>>
      /\ (Top.why = "make_shares" => stack[1].lent = <<>>)
      /\ (Top.why = "reconstruct" => stack[1].device # SPU)
      /\ (Top.why = "make_shares" => stack[1].device = SPU)
  BY <1>1 DEF NestInv, CountingInv, NestingInv
<1>3. stack[1].why = "user"
  BY <1>1 DEF TypeAndStack, StackInv, StackOK
<1>4. \A k \in DOMAIN stack[1].todo : stack[1].todo[k] \in handles
  BY DEF CountingInv, ArgumentsInv
<1>5. ASSUME NEW ref PROVE StackHolds(ref, stack) = CallHolds(ref, stack[1])
  <2>1. CallHolds(ref, Top) = 0
    <3>1. Occurrences(ref, RefsOf(Top.held)) = 0 /\ Occurrences(ref, RefsOf(Top.lent)) = 0
      BY <1>2, RefsOfEmpty, OccurrencesEmpty
    <3> QED
      BY <3>1 DEF CallHolds
  <2>2. StackHolds(ref, stack) = CallHolds(ref, stack[1]) + CallHolds(ref, stack[2])
    BY <1>1, StackSums
  <2>3. CallHolds(ref, stack[1]) \in Nat
    BY <1>1, CallRefsType
  <2> QED
    BY <1>1, <2>1, <2>2, <2>3
<1>6. Front(Front(stack)) = <<>>
  BY <1>1, StackSums
<1>7. Depth - 1 = 1
  BY <1>1
<1> QED
  BY <1>1, <1>2, <1>3, <1>4, <1>5, <1>6, <1>7

\* A transfer kernel returns: the equation of the call it returns to is left.
LEMMA NestedGiven ==
  ASSUME TypeAndStack, StackInv', CountingInv, PyuRun, Top.why # "user",
         NEW call \in Calls, stack' = Append(<<>>, call), handles' = handles, drops' \in Seq(Ref),
         \A ref : Occurrences(ref, drops') + CallHolds(ref, call)
                    = CallHolds(ref, stack[1]) + Occurrences(ref, PyuResults)
  PROVE  Kernel' /\ Len(stack') = 1 /\ stack'[1] = call /\ Top' = call
<1>1. stack # <<>> /\ Top.phase = "run" /\ drops = <<>> /\ dead' = dead
      /\ objrefs' = Inc(objrefs, PyuResults)
  BY DEF PyuRun, At
<1>2. HandlesInv'
  BY DEF CountingInv, HandlesInv
<1>3. /\ PyuResults \in Seq(Ref)
      /\ \A i \in DOMAIN PyuResults :
               /\ PyuResults[i].origin = Top.device
               /\ PyuResults[i].uuid <= fresh'
               /\ PyuResults[i] \in globals'[Top.device]
               /\ PyuResults[i] \notin BagToSet(objrefs) \cup ToSet(dead)
      /\ fresh' \in Nat /\ fresh <= fresh'
      /\ \A node \in Nodes : globals[node] \subseteq globals'[node]
  BY PyuStores
<1>4. \A ref \in ToSet(PyuResults) :
         ref \notin ToSet(dead) /\ ref \in globals'[ref.origin] /\ ref.uuid <= fresh'
  BY <1>3 DEF ToSet
<1>5. ASSUME NEW ref \in Ref
      PROVE  UserHolds(ref, handles') + Occurrences(ref, drops') + StackHolds(ref, stack')
              = UserHolds(ref, handles) + Occurrences(ref, drops) + StackHolds(ref, stack)
                  + Occurrences(ref, PyuResults)
  <2>1. /\ UserHolds(ref, handles) \in Nat /\ Occurrences(ref, PyuResults) \in Nat
        /\ Occurrences(ref, drops') \in Nat /\ CallHolds(ref, call) \in Nat
    BY <1>3, HoldsType, OccurrencesFinite, CallRefsType DEF TypeAndStack, CountingInv
  <2>2. UserHolds(ref, handles') = UserHolds(ref, handles) /\ Occurrences(ref, drops) = 0
    BY <1>1, OccurrencesEmpty
  <2>3. StackHolds(ref, stack') = CallHolds(ref, call)
    BY OneCall
  <2>4. StackHolds(ref, stack) = CallHolds(ref, stack[1])
    BY <1>1, NestedCalls
  <2>5. StackHolds(ref, stack) \in Nat
    BY HoldsType DEF TypeAndStack, CountingInv
  <2>6. Occurrences(ref, drops') + CallHolds(ref, call)
                    = CallHolds(ref, stack[1]) + Occurrences(ref, PyuResults)
    OBVIOUS
  <2> QED
    BY ONLY <2>1, <2>2, <2>3, <2>4, <2>5, <2>6
<1>6. Kernel'
  BY <1>1, <1>2, <1>3, <1>4, <1>5, Recounted
<1>7. Len(stack') = 1 /\ stack'[1] = call
  OBVIOUS
<1>8. Top' = call
  BY <1>7 DEF Top, Last
<1> QED
  BY <1>6, <1>7, <1>8

LEMMA PyuRunCounts ==
  ASSUME TypeAndStack, StackInv', CountingInv, PyuRun
  PROVE  CountingInv'
<1> DEFINE objs == [i \in DOMAIN PyuResults |-> Object(Top.device, <<PyuResults[i]>>)]
           obj == Object(Top.device, <<PyuResults[1]>>)
           outer == stack[1]
<1>1. /\ stack # <<>> /\ Top \in Calls /\ Top.phase = "run" /\ Top.device # SPU /\ drops = <<>>
      /\ dead' = dead /\ objrefs' = Inc(objrefs, PyuResults) /\ Top.device \in Devices
      /\ Top.why \in {"user", "reconstruct", "make_shares"}
  BY PyuFacts DEF PyuRun, At, Calls
<1>2. GiveResults(objs)
  BY DEF PyuRun
<1>3. /\ PyuResults \in Seq(Ref)
      /\ \A i \in DOMAIN PyuResults :
               /\ PyuResults[i].origin = Top.device
               /\ PyuResults[i].uuid <= fresh'
               /\ PyuResults[i] \in globals'[Top.device]
               /\ PyuResults[i] \notin BagToSet(objrefs) \cup ToSet(dead)
      /\ fresh' \in Nat /\ fresh <= fresh'
      /\ \A node \in Nodes : globals[node] \subseteq globals'[node]
  BY PyuStores
<1>4. RefsOf(objs) = PyuResults
  BY <1>1, <1>3, RefsOfSingles
<1>5. ASSUME Top.why # "make_shares"
      PROVE  /\ PyuResults = <<PyuResults[1]>> /\ DOMAIN PyuResults = {1} /\ PyuResults[1] \in Ref
             /\ objs[1] = obj /\ ToSet(objs) = {obj}
             /\ obj \in Objects /\ obj.refs = PyuResults /\ obj.device = Top.device
  <2>1. PyuResults \in [1..1 -> Ref]
    BY <1>1, <1>5, PyuResultFacts DEF PyuRun
  <2>2. PyuResults = <<PyuResults[1]>> /\ DOMAIN PyuResults = {1} /\ PyuResults[1] \in Ref
    BY <2>1
  <2>3. <<PyuResults[1]>> \in Refs(Top.device)
    BY <1>1, <2>2 DEF Refs, Width
  <2>4. obj \in Objects /\ obj.refs = <<PyuResults[1]>> /\ obj.device = Top.device
    BY <1>1, <2>3, ObjectFacts
  <2>5. DOMAIN objs = {1} /\ objs[1] = obj
    BY <2>2
  <2> HIDE DEF objs, obj
  <2>6. ToSet(objs) = {obj}
    BY <2>5 DEF ToSet
  <2> QED
    BY <2>2, <2>4, <2>5, <2>6
<1> HIDE DEF objs, obj
<1>6. CASE Top.why = "user"
  <2>1. handles' = handles \cup {obj} /\ stack' = <<>> /\ drops' = RefsOf(Top.held)
    BY <1>2, <1>5, <1>6 DEF GiveResults
  <2>2. Distinct(obj.refs) /\ obj.refs # <<>>
    BY <1>5, <1>6 DEF Distinct
  <2>3. \A i \in DOMAIN obj.refs : obj.refs[i].origin = Home(obj.device, i)
    BY <1>1, <1>3, <1>5, <1>6 DEF Home
  <2>4. \A ref \in ToSet(obj.refs) :
            /\ ref \notin BagToSet(objrefs) \cup ToSet(dead)
            /\ ref \in globals'[ref.origin] /\ ref.uuid <= fresh'
    BY <1>3, <1>5, <1>6 DEF ToSet
  <2>5. obj \in Objects /\ objrefs' = Inc(objrefs, obj.refs)
    BY <1>1, <1>5, <1>6
  <2> QED
    BY <1>1, <1>3, <1>6, <2>1, <2>2, <2>3, <2>4, <2>5, UserGiven
<1>7. ASSUME Top.why # "user"
      PROVE  /\ Depth - 1 = 1 /\ Front(Front(stack)) = <<>>
         /\ outer \in Calls /\ outer.phase = "place" /\ outer.todo # <<>> /\ outer.why = "user"
         /\ (Top.why = "reconstruct" => outer.device # SPU)
         /\ (Top.why = "make_shares" => outer.device = SPU)
         /\ (Top.why = "make_shares" => outer.lent = <<>>)
         /\ \A k \in DOMAIN outer.todo : outer.todo[k] \in handles
  BY <1>1, <1>7, NestedCalls
<1>8. CASE Top.why = "reconstruct"
  <2> DEFINE placed == [Placed(outer, obj) EXCEPT !.held = Append(@, obj)]
             call == [placed EXCEPT !.lent = <<>>]
  <2>1. /\ placed \in Calls /\ placed.lent = outer.lent /\ placed.phase = outer.phase
        /\ placed.device = outer.device /\ placed.why = outer.why
        /\ placed.held = Append(outer.held, obj)
        /\ \A k \in DOMAIN placed.todo : \E j \in DOMAIN outer.todo : placed.todo[k] = outer.todo[j]
    <3>1. outer \in Calls /\ outer.todo # <<>> /\ obj \in Objects
      BY <1>5, <1>7, <1>8
    <3> HIDE DEF outer
    <3> QED
      BY <3>1, PlacedCall
  <2>2. /\ stack' = Append(<<>>, call) /\ drops' = RefsOf(outer.lent) /\ handles' = handles
    <3>1. [Placed(outer, obj) EXCEPT !.held = Append(@, obj), !.lent = <<>>] = call
      BY <1>7, <1>8 DEF Placed, Calls
    <3> HIDE DEF call, placed
    <3> QED
      BY <1>2, <1>5, <1>7, <1>8, <3>1 DEF GiveResults
  <2> HIDE DEF placed
  <2>3. /\ call \in Calls /\ call.lent = <<>> /\ call.phase = "place" /\ call.device # SPU
        /\ call.held = Append(outer.held, obj)
        /\ \A k \in DOMAIN call.todo : \E j \in DOMAIN outer.todo : call.todo[k] = outer.todo[j]
    <3>1. <<>> \in Seq(Objects)
      OBVIOUS
    <3> QED
      BY <1>7, <1>8, <2>1, <3>1 DEF Calls
  <2> HIDE DEF call
  <2>4. drops' \in Seq(Ref)
    BY <1>7, <1>8, <2>2, CallRefsType
  <2>5. \A ref : Occurrences(ref, drops') + CallHolds(ref, call)
                    = CallHolds(ref, outer) + Occurrences(ref, PyuResults)
    <3>1. ASSUME NEW ref
          PROVE  Occurrences(ref, drops') + CallHolds(ref, call)
                    = CallHolds(ref, outer) + Occurrences(ref, PyuResults)
      <4>1. outer.held \in Seq(Objects) /\ RefsOf(outer.held) \in Seq(Ref)
        BY <1>7, <1>8, CallRefsType DEF Calls
      <4>2. RefsOf(call.held) = RefsOf(outer.held) \o PyuResults
        BY <1>5, <1>8, <2>3, <4>1, RefsOfAppend
      <4>3. Occurrences(ref, RefsOf(call.held))
              = Occurrences(ref, RefsOf(outer.held)) + Occurrences(ref, PyuResults)
        BY <1>3, <4>1, <4>2, OccurrencesConcat
      <4>4. CallHolds(ref, call) = Occurrences(ref, RefsOf(call.held)) + 0
        BY <2>3, RefsOfEmpty, OccurrencesEmpty DEF CallHolds
      <4>5. CallHolds(ref, outer)
              = Occurrences(ref, RefsOf(outer.held)) + Occurrences(ref, RefsOf(outer.lent))
        BY DEF CallHolds
      <4>6. /\ Occurrences(ref, RefsOf(outer.held)) \in Nat
            /\ Occurrences(ref, RefsOf(outer.lent)) \in Nat /\ Occurrences(ref, PyuResults) \in Nat
        BY <1>3, <1>7, <1>8, CallRefsType, OccurrencesFinite
      <4>7. Occurrences(ref, drops') = Occurrences(ref, RefsOf(outer.lent))
        BY <2>2
      <4> QED
        BY ONLY <4>3, <4>4, <4>5, <4>6, <4>7
    <3> QED
      BY <3>1
  <2>6. Kernel' /\ Len(stack') = 1 /\ stack'[1] = call /\ Top' = call
    BY <1>8, <2>2, <2>3, <2>4, <2>5, NestedGiven
  <2>7. NestingInv'
    BY <2>3, <2>6 DEF NestingInv
  <2>8. \A k \in DOMAIN call.todo : call.todo[k] \in handles'
    BY <1>7, <1>8, <2>2, <2>3
  <2>9. ArgumentsInv'
    BY <2>3, <2>6, <2>8 DEF ArgumentsInv
  <2>10. AwaitedInv'
    BY <2>3, <2>6 DEF AwaitedInv
  <2> QED
    BY <2>6, <2>7, <2>9, <2>10 DEF CountingInv, Kernel
<1>9. CASE Top.why = "make_shares"
  <2> DEFINE call == [outer EXCEPT !.lent = objs, !.phase = "fetch_share_meta"]
  <2>1. objs \in Seq(Objects)
    <3>1. PICK n \in Nat \ {0} : PyuResults \in [1..n -> Ref]
      BY <1>1, PyuResultFacts DEF PyuRun
    <3>2. objs = [i \in 1..n |-> Object(Top.device, <<PyuResults[i]>>)] /\ n \in Nat
      BY <3>1 DEF objs
    <3> QED
      BY <1>1, <3>1, <3>2, OnPyu
  <2>2. stack' = Append(<<>>, call) /\ drops' = drops /\ handles' = handles
    <3> HIDE DEF call
    <3>1. stack' = Append(Front(Front(stack)),
                     [stack[Depth - 1] EXCEPT !.lent = objs, !.phase = "fetch_share_meta"])
          /\ drops' = drops /\ handles' = handles
      BY <1>2, <1>9 DEF GiveResults
    <3> USE DEF call
    <3> QED
      BY <1>7, <1>9, <3>1
  <2>3. /\ call \in Calls /\ call.lent = objs /\ call.phase = "fetch_share_meta" /\ call.device = SPU
        /\ call.held = outer.held /\ call.todo = outer.todo /\ call.args = outer.args
    <3>1. "fetch_share_meta" \in Phases
      BY DEF Phases
    <3> QED
      BY <1>7, <1>9, <2>1, <3>1 DEF Calls
  <2> HIDE DEF call
  <2>4. drops' \in Seq(Ref)
    BY <1>1, <2>2
  <2>5. \A ref : Occurrences(ref, drops') + CallHolds(ref, call)
                    = CallHolds(ref, outer) + Occurrences(ref, PyuResults)
    <3>1. ASSUME NEW ref
          PROVE  Occurrences(ref, drops') + CallHolds(ref, call)
                    = CallHolds(ref, outer) + Occurrences(ref, PyuResults)
      <4>1. CallHolds(ref, call) = Occurrences(ref, RefsOf(outer.held)) + Occurrences(ref, PyuResults)
        BY <1>4, <2>3 DEF CallHolds
      <4>2. CallHolds(ref, outer) = Occurrences(ref, RefsOf(outer.held)) + 0
        BY <1>7, <1>9, RefsOfEmpty, OccurrencesEmpty DEF CallHolds
      <4>3. Occurrences(ref, drops') = 0
        BY <1>1, <2>2, OccurrencesEmpty
      <4>4. Occurrences(ref, RefsOf(outer.held)) \in Nat /\ Occurrences(ref, PyuResults) \in Nat
        BY <1>3, <1>7, <1>9, CallRefsType, OccurrencesFinite
      <4> QED
        BY ONLY <4>1, <4>2, <4>3, <4>4
    <3> QED
      BY <3>1
  <2>6. Kernel' /\ Len(stack') = 1 /\ stack'[1] = call /\ Top' = call
    BY <1>9, <2>2, <2>3, <2>4, <2>5, NestedGiven
  <2>7. NestingInv'
    BY <2>3, <2>6 DEF NestingInv
  <2>8. \A k \in DOMAIN outer.args : \E o \in handles \cup ToSet(outer.held) : o.refs = outer.args[k]
    BY <1>1, <1>7, <1>9 DEF CountingInv, ArgumentsInv
  <2>9. ArgumentsInv'
    BY <1>7, <1>9, <2>2, <2>3, <2>6, <2>8 DEF ArgumentsInv
  <2>10. AwaitedInv'
    BY <2>3, <2>6 DEF AwaitedInv
  <2> QED
    BY <2>6, <2>7, <2>9, <2>10 DEF CountingInv, Kernel
<1> QED
  BY <1>1, <1>6, <1>8, <1>9

-----------------------------------------------------------------------------
(* Handles go, one decrement after the other.                              *)

LEMMA ReleaseCounts ==
  ASSUME TypeAndStack, StackInv', CountingInv, NEW obj \in handles, Release(obj)
  PROVE  CountingInv'
<1>1. /\ stack = <<>> /\ drops = <<>> /\ handles' = handles \ {obj} /\ drops' = obj.refs
      /\ UNCHANGED <<globals, fresh, stack, objrefs, dead>>
  BY DEF Release, Idle
<1>2. obj \in Objects /\ IsFiniteSet(handles) /\ Distinct(obj.refs) /\ obj.refs \in Seq(Ref)
  <2>1. obj \in Objects /\ IsFiniteSet(handles) /\ Distinct(obj.refs)
    BY DEF TypeAndStack, TypeInv, CountingInv, HandlesInv
  <2> QED
    BY <2>1, RefsOfObject
<1>3. IsFiniteSet(handles')
  BY <1>1, <1>2, FS_Subset
<1>4. HandlesInv'
  BY <1>1, <1>3 DEF CountingInv, HandlesInv
<1>5. ASSUME NEW ref \in Ref
      PROVE  UserHolds(ref, handles') + Occurrences(ref, drops') + StackHolds(ref, stack')
              = UserHolds(ref, handles) + Occurrences(ref, drops) + StackHolds(ref, stack)
                  + Occurrences(ref, <<>>)
  <2>1. handles = handles' \cup {obj} /\ obj \notin handles'
    BY <1>1
  <2>2. UserHolds(ref, handles' \cup {obj})
          = UserHolds(ref, handles') + (IF ref \in ToSet(obj.refs) THEN 1 ELSE 0)
    BY <1>2, <1>3, <2>1, UserHoldsChange
  <2>3. Occurrences(ref, drops') = IF ref \in ToSet(obj.refs) THEN 1 ELSE 0
    BY <1>1, <1>2, OccursOnce
  <2>4. Occurrences(ref, drops) = 0 /\ Occurrences(ref, <<>>) = 0 /\ StackHolds(ref, stack') = 0
        /\ StackHolds(ref, stack) = 0
    BY <1>1, OccurrencesEmpty, StackHoldsEmpty
  <2>5. UserHolds(ref, handles') \in Nat /\ UserHolds(ref, handles) \in Nat
    BY <1>2, <1>3, UserHoldsType
  <2>6. UserHolds(ref, handles) = UserHolds(ref, handles') + Occurrences(ref, drops')
    BY <2>1, <2>2, <2>3
  <2>7. Occurrences(ref, drops') \in Nat
    BY <1>1, <1>2, OccurrencesFinite
  <2> QED
    BY ONLY <2>4, <2>5, <2>6, <2>7
<1>6. Kernel'
  <2>1. <<>> \in Seq(Ref) /\ ToSet(<<>>) = {}
    BY DEF ToSet
  <2>2. fresh' \in Nat /\ fresh <= fresh'
    BY <1>1 DEF TypeAndStack, TypeInv
  <2> QED
    BY <1>1, <1>2, <1>4, <1>5, <2>1, <2>2, Recounted
<1>7. Len(stack') = 0 /\ stack' = <<>>
  BY <1>1
<1>8. Shape'
  BY <1>7 DEF Shape, NestingInv, ArgumentsInv, AwaitedInv
<1> QED
  BY <1>6, <1>8 DEF CountingInv, Kernel, Shape

LEMMA DecObjrefCounts ==
  ASSUME TypeAndStack, StackInv', CountingInv, DecObjref
  PROVE  CountingInv'
<1> DEFINE x == Head(drops)
           refs == IF Count(x, objrefs) = 1 THEN Append(dead, x) ELSE dead
<1>1. /\ drops # <<>> /\ drops' = Tail(drops) /\ objrefs' = BagRemove(objrefs, x)
      /\ UNCHANGED <<fresh, handles, stack>>
  BY DEF DecObjref
<1>2. \/ dead' = refs /\ globals' = globals
      \/ \E failed \in SUBSET Nodes :
            globals' = AfterGc(refs, failed) /\ dead' = StillDead(refs, failed)
  BY DEF DecObjref
<1>3. /\ drops \in Seq(Ref) /\ drops' \in Seq(Ref) /\ x \in Ref
      /\ IsBag(objrefs) /\ BagToSet(objrefs) \subseteq Ref /\ ToSet(dead) \subseteq Ref
  BY <1>1 DEF CountingInv, RefsInv
<1>4. \A ref : Occurrences(ref, drops) = (IF x = ref THEN 1 ELSE 0) + Occurrences(ref, drops')
  BY <1>1, <1>3, OccurrencesHead
<1>5. x \in BagToSet(objrefs)
  <2>1. Occurrences(x, drops) # 0
    <3>1. Occurrences(x, drops) = 1 + Occurrences(x, drops')
      BY <1>4
    <3>2. Occurrences(x, drops') \in Nat
      BY <1>3, OccurrencesFinite
    <3> QED
      BY ONLY <3>1, <3>2
  <2> QED
    BY <1>3, <2>1, HeldIsCounted DEF CountingInv, TypeAndStack
<1>6. /\ IsBag(objrefs')
      /\ BagToSet(objrefs') = IF Count(x, objrefs) = 1 THEN BagToSet(objrefs) \ {x} ELSE BagToSet(objrefs)
      /\ \A ref : Count(ref, objrefs') = Count(ref, objrefs) - (IF ref = x THEN 1 ELSE 0)
  BY <1>1, <1>3, <1>5, CountRemove
<1>7. /\ ToSet(refs) = ToSet(dead) \cup (IF Count(x, objrefs) = 1 THEN {x} ELSE {})
      /\ ToSet(refs) \cap BagToSet(objrefs') = {}
      /\ ToSet(refs) \subseteq ToSet(dead) \cup BagToSet(objrefs)
  <2>1. ToSet(Append(dead, x)) = ToSet(dead) \cup {x}
    BY DeadFacts DEF TypeAndStack, TypeInv
  <2>2. BagToSet(objrefs) \cap ToSet(dead) = {}
    BY DEF CountingInv, StoredInv
  <2> QED
    BY <1>5, <1>6, <2>1, <2>2
<1> HIDE DEF x, refs
<1>8. /\ ToSet(dead') \subseteq ToSet(refs)
      /\ \A node \in Nodes : globals[node] \ ToSet(refs) \subseteq globals'[node]
  <2>1. CASE dead' = refs /\ globals' = globals
    BY <2>1
  <2>2. ASSUME NEW failed \in SUBSET Nodes,
               globals' = AfterGc(refs, failed), dead' = StillDead(refs, failed)
        PROVE  /\ ToSet(dead') \subseteq ToSet(refs)
               /\ \A node \in Nodes : globals[node] \ ToSet(refs) \subseteq globals'[node]
    <3>1. ToSet(<<>>) = {}
      BY DEF ToSet
    <3>2. ToSet(dead') \subseteq ToSet(refs)
      BY <2>2, <3>1 DEF StillDead
    <3>3. \A node \in Nodes : globals[node] \ ToSet(refs) \subseteq globals'[node]
      BY <2>2 DEF AfterGc
    <3> QED
      BY <3>2, <3>3
  <2> QED
    BY <1>2, <2>1, <2>2
<1>9. HandlesInv'
  BY <1>1 DEF CountingInv, HandlesInv
<1>10. RefsInv'
  BY <1>3, <1>6, <1>7, <1>8 DEF RefsInv
<1>11. CountInv'
  <2>1. ASSUME NEW ref \in Ref PROVE Count(ref, objrefs') = HandlesOf(ref)'
    <3>1. HandlesOf(ref)' = UserHolds(ref, handles') + Occurrences(ref, drops') + StackHolds(ref, stack')
      BY DEF HandlesOf, UserHolds, StackHolds, StackRefs, CallRefs, Depth
    <3>2. /\ UserHolds(ref, handles) \in Nat /\ StackHolds(ref, stack) \in Nat
          /\ HandlesOf(ref) = UserHolds(ref, handles) + Occurrences(ref, drops) + StackHolds(ref, stack)
      BY HoldsType DEF CountingInv, TypeAndStack
    <3>3. Count(ref, objrefs) = HandlesOf(ref)
      BY DEF CountingInv, CountInv
    <3>4. Occurrences(ref, drops') \in Nat
      BY <1>3, OccurrencesFinite
    <3>5. /\ Occurrences(ref, drops) = (IF x = ref THEN 1 ELSE 0) + Occurrences(ref, drops')
          /\ Count(ref, objrefs') = Count(ref, objrefs) - (IF ref = x THEN 1 ELSE 0)
      BY <1>4, <1>6
    <3>6. UserHolds(ref, handles') = UserHolds(ref, handles)
          /\ StackHolds(ref, stack') = StackHolds(ref, stack)
      BY <1>1
    <3> QED
      BY ONLY <3>1, <3>2, <3>3, <3>4, <3>5, <3>6
  <2> QED
    BY <2>1 DEF CountInv
<1>12. StoredInv'
  <2>1. BagToSet(objrefs') \cap ToSet(dead') = {}
    BY <1>7, <1>8
  <2>2. ASSUME NEW ref \in BagToSet(objrefs') PROVE ref \in globals'[ref.origin]
    <3>1. ref \in BagToSet(objrefs) /\ ref \notin ToSet(refs)
      BY <1>6, <1>7, <2>2
    <3>2. ref \in globals[ref.origin] /\ ref.origin \in Nodes
      BY <1>3, <3>1 DEF CountingInv, StoredInv, Ref
    <3> QED
      BY <1>8, <3>1, <3>2
  <2> QED
    BY <2>1, <2>2 DEF StoredInv
<1>13. IssuedInv'
  <2>1. BagToSet(objrefs') \cup ToSet(dead') \subseteq BagToSet(objrefs) \cup ToSet(dead)
    BY <1>6, <1>7, <1>8
  <2> QED
    BY <1>1, <2>1 DEF CountingInv, IssuedInv
<1>14. NestingInv' /\ ArgumentsInv'
  BY <1>1 DEF CountingInv, NestingInv, ArgumentsInv
<1>15. AwaitedInv'
  <2>1. Top' = Top
    BY <1>1 DEF Top
  <2>2. ASSUME stack # <<>>, Top.phase = "fetch_meta"
        PROVE  /\ Distinct(Top.args[1])
               /\ \A i \in DOMAIN Top.args[1] :
                     /\ Top.args[1][i].origin = SpuNodes[i]
                     /\ Top.args[1][i] \in globals'[Top.args[1][i].origin]
                     /\ Top.args[1][i].uuid <= fresh
                     /\ Top.args[1][i] \notin BagToSet(objrefs') \cup ToSet(dead')
    <3>1. /\ Distinct(Top.args[1])
          /\ \A i \in DOMAIN Top.args[1] :
                     /\ Top.args[1][i].origin = SpuNodes[i]
                     /\ Top.args[1][i] \in globals[Top.args[1][i].origin]
                     /\ Top.args[1][i].uuid <= fresh
                     /\ Top.args[1][i] \notin BagToSet(objrefs) \cup ToSet(dead)
      BY <2>2 DEF CountingInv, AwaitedInv
    <3>2. /\ BagToSet(objrefs') \cup ToSet(dead') \subseteq BagToSet(objrefs) \cup ToSet(dead)
          /\ ToSet(refs) \subseteq BagToSet(objrefs) \cup ToSet(dead)
      BY <1>6, <1>7, <1>8
    <3>3. ASSUME NEW i \in DOMAIN Top.args[1]
          PROVE  Top.args[1][i] \in globals'[Top.args[1][i].origin]
      <4>1. Top.args[1] \in Refs(SPU) /\ Len(SpuNodes) \in Nat
        BY <2>2, Places, ConstantFacts DEF CallInv, ArgsInv, FetchInv, Calls
      <4>2. Top.args[1][i] \in Ref
        BY <3>3, <4>1 DEF Refs, Width
      <4>3. Top.args[1][i].origin \in Nodes
        BY <4>2 DEF Ref
      <4> QED
        BY <1>8, <3>1, <3>2, <3>3, <4>3
    <3> QED
      BY <3>1, <3>2, <3>3
  <2> QED
    BY <1>1, <2>1, <2>2 DEF AwaitedInv
<1> QED
  BY <1>9, <1>10, <1>11, <1>12, <1>13, <1>14, <1>15 DEF CountingInv

-----------------------------------------------------------------------------
(* The invariant of the counts is one.                                     *)

LEMMA CountingInit == Init => CountingInv
<1> SUFFICES ASSUME Init PROVE CountingInv
  OBVIOUS
<1>1. /\ handles = {} /\ stack = <<>> /\ drops = <<>> /\ dead = <<>> /\ objrefs = EmptyBag
  BY DEF Init
<1>2. ToSet(<<>>) = {} /\ DOMAIN objrefs = {} /\ BagToSet(objrefs) = {} /\ Len(stack) = 0
  BY <1>1 DEF ToSet, EmptyBag, SetToBag, BagToSet
<1>3. IsBag(objrefs)
  <2>1. objrefs = [e \in {} |-> 1]
    BY <1>1 DEF EmptyBag, SetToBag
  <2> QED
    BY <1>2, <2>1 DEF IsBag
<1>4. HandlesInv
  BY <1>1, FS_EmptySet DEF HandlesInv
<1>5. RefsInv
  <2>1. drops \in Seq(Ref)
    BY <1>1
  <2> QED
    BY <1>1, <1>2, <1>3, <2>1 DEF RefsInv
<1>6. CountInv
  <2>1. ASSUME NEW ref \in Ref PROVE Count(ref, objrefs) = HandlesOf(ref)
    <3>1. Count(ref, objrefs) = 0
      BY <1>2, <1>3, CountType
    <3>2. UserHolds(ref, handles) = 0
      <4>1. {obj \in handles : Contains(obj.refs, ref)} = {}
        BY <1>1
      <4> QED
        BY <4>1, FS_EmptySet DEF UserHolds
    <3>3. Occurrences(ref, drops) = 0 /\ StackHolds(ref, stack) = 0
      BY <1>1, OccurrencesEmpty, StackHoldsEmpty
    <3>4. HandlesOf(ref) = UserHolds(ref, handles) + Occurrences(ref, drops) + StackHolds(ref, stack)
      BY HandlesOfIs
    <3> QED
      BY <3>1, <3>2, <3>3, <3>4
  <2> QED
    BY <2>1 DEF CountInv
<1>7. StoredInv /\ IssuedInv
  BY <1>1, <1>2 DEF StoredInv, IssuedInv
<1>8. NestingInv /\ ArgumentsInv /\ AwaitedInv
  BY <1>1, <1>2 DEF NestingInv, ArgumentsInv, AwaitedInv
<1> QED
  BY <1>4, <1>5, <1>6, <1>7, <1>8 DEF CountingInv

LEMMA CountingStep ==
  ASSUME TypeAndStack, CountingInv, [Next]_vars
  PROVE  CountingInv'
<1>1. StackInv'
  BY TypeStep DEF TypeAndStack
<1>2. ASSUME NEW device \in Devices, NEW args \in Arguments, Invoke(device, args)
      PROVE  CountingInv'
  BY <1>1, <1>2, InvokeCounts
<1>3. CASE PYU2PYU \/ SPU2SPU \/ SPU2PYU \/ PYU2SPU
  BY <1>1, <1>3, PYU2PYUCounts, SPU2SPUCounts, SPU2PYUCounts, PYU2SPUCounts
<1>4. CASE Prepare
  BY <1>1, <1>4, PrepareCounts
<1>5. CASE PyuRun \/ PyuFail \/ PyuAnswerLost \/ SpuRun
  BY <1>1, <1>5, PyuRunCounts, PyuFailCounts, PyuAnswerLostCounts, SpuRunCounts
<1>6. CASE FetchShareMeta \/ FetchMeta \/ FetchFails
  BY <1>1, <1>6, FetchShareMetaCounts, FetchMetaCounts, FetchFailsCounts
<1>7. ASSUME NEW obj \in handles, Release(obj) PROVE CountingInv'
  BY <1>1, <1>7, ReleaseCounts
<1>8. CASE DecObjref
  BY <1>1, <1>8, DecObjrefCounts
<1>9. CASE UNCHANGED vars
  BY <1>9 DEF vars, CountingInv, HandlesInv, RefsInv, CountInv, HandlesOf, Depth, StoredInv,
              IssuedInv, NestingInv, ArgumentsInv, AwaitedInv, Top
<1> QED
  BY <1>2, <1>3, <1>4, <1>5, <1>6, <1>7, <1>8, <1>9 DEF Next, Devices

-----------------------------------------------------------------------------
(* What the counts are good for.                                           *)

LEMMA CountsFollow ==
  ASSUME TypeAndStack, CountingInv
  PROVE  CountsHandles
<1>1. BagToSet(objrefs) \cap ToSet(dead) = {}
  BY DEF CountingInv, StoredInv
<1>2. BagToSet(objrefs) \cup ToSet(drops) \cup UNION {ToSet(obj.refs) : obj \in handles} \subseteq Ref
  <2>1. BagToSet(objrefs) \subseteq Ref
    BY DEF CountingInv, RefsInv
  <2>2. ToSet(drops) \subseteq Ref
    BY DEF CountingInv, RefsInv, ToSet
  <2>3. ASSUME NEW obj \in handles PROVE ToSet(obj.refs) \subseteq Ref
    BY <2>3, RefsOfObject DEF TypeAndStack, TypeInv
  <2> QED
    BY <2>1, <2>2, <2>3
<1> QED
  BY <1>1, <1>2 DEF CountsHandles, CountingInv, CountInv

LEMMA FetchableFollows ==
  ASSUME TypeAndStack, CountingInv
  PROVE  Fetchable
<1>1. ASSUME NEW obj \in handles, NEW i \in DOMAIN obj.refs
      PROVE  ObjectRef(obj.refs[i].uuid, Home(obj.device, i)) \in globals[Home(obj.device, i)]
  <2>1. obj.refs[i].origin = Home(obj.device, i)
    BY <1>1 DEF CountingInv, HandlesInv
  <2>2. obj.refs[i] \in ToSet(obj.refs) /\ obj.refs[i] \in Ref
    BY <1>1, RefsOfObject DEF TypeAndStack, TypeInv, ToSet
  <2>3. obj.refs[i] \in globals[obj.refs[i].origin]
    BY <1>1, <2>2, UserIsCounted DEF CountingInv, StoredInv
  <2>4. ObjectRef(obj.refs[i].uuid, obj.refs[i].origin) = obj.refs[i]
    BY <2>2 DEF Ref, ObjectRef
  <2> QED
    BY <2>1, <2>3, <2>4
<1> QED
  BY <1>1 DEF Fetchable, Home

LEMMA SpuArgumentsFollow ==
  ASSUME TypeAndStack, CountingInv
  PROVE  SpuArgumentsStored
<1> SUFFICES ASSUME At("run"), Top.device = SPU, NEW i \in Ranks
             PROVE  Missing(SpuNodes[i], SpuArgs(i)) = {}
  BY DEF SpuArgumentsStored
<1>1. /\ stack # <<>> /\ Top.phase = "run" /\ Top = stack[1] /\ 1 \in 1..Len(stack)
      /\ CallInv(Top) /\ Top \in Calls
  BY Places DEF At
<1>2. \A k \in DOMAIN Top.args : \E obj \in handles \cup ToSet(Top.held) : obj.refs = Top.args[k]
  BY <1>1 DEF CountingInv, ArgumentsInv
<1>3. ASSUME NEW k \in DOMAIN Top.args
      PROVE  Top.args[k][i] \in globals[Top.args[k][i].origin]
  <2>1. PICK obj \in handles \cup ToSet(Top.held) : obj.refs = Top.args[k]
    BY <1>2
  <2>2. ToSet(obj.refs) \subseteq BagToSet(objrefs)
    <3>1. CASE obj \in handles
      BY <3>1, UserIsCounted
    <3>2. CASE obj \in ToSet(Top.held)
      BY <1>1, <3>2, CallIsCounted
    <3> QED
      BY <3>1, <3>2
  <2>3. Top.args[k] \in [Ranks -> Ref]
    BY <1>1, ConstantFacts DEF CallInv, ArgsInv, Refs, Width
  <2>4. Top.args[k][i] \in ToSet(obj.refs)
    BY <2>1, <2>3 DEF ToSet
  <2> QED
    BY <2>2, <2>4 DEF CountingInv, StoredInv
<1> QED
  BY <1>3 DEF Missing, SpuArgs

\* One step of the induction.
LEMMA NextCounting ==
  TypeAndStack /\ CountingInv /\ [Next]_vars => (TypeAndStack /\ CountingInv)'
BY TypeStep, CountingStep

\* _objrefs (distributed_impl.py:1114-1126) counts the handles of every
\* reference: the user's, the temporaries of placing and of transfer kernels,
\* and those whose finaliser is still to run, through exceptions and nested
\* calls; and what is counted is never in _dead_refs.
THEOREM HandlesCounted == Spec => []CountsHandles
<1>1. Init => TypeAndStack /\ CountingInv
  BY InitInv, CountingInit DEF IndInv, TypeAndStack
<1>2. TypeAndStack /\ CountingInv => CountsHandles
  BY CountsFollow
<1> QED
  BY <1>1, <1>2, NextCounting, PTL DEF Spec

\* What PYU.get and SPU.get (distributed_impl.py:254, 518, 1036) ask the node
\* of a handle for is there for as long as the user holds the handle, whatever
\* calls failed and whatever was collected meanwhile.
THEOREM HandlesFetchable == Spec => []Fetchable
<1>1. Init => TypeAndStack /\ CountingInv
  BY InitInv, CountingInit DEF IndInv, TypeAndStack
<1>2. TypeAndStack /\ CountingInv => Fetchable
  BY FetchableFollows
<1> QED
  BY <1>1, <1>2, NextCounting, PTL DEF Spec

\* Every rank of the SPU finds the arguments of a call when it runs
\* (distributed_impl.py:663-707, 1305-1337): the handles that placing made live
\* until the call returns, so no collection takes their shares away.
THEOREM SpuArgumentsThere == Spec => []SpuArgumentsStored
<1>1. Init => TypeAndStack /\ CountingInv
  BY InitInv, CountingInit DEF IndInv, TypeAndStack
<1>2. TypeAndStack /\ CountingInv => SpuArgumentsStored
  BY SpuArgumentsFollow
<1> QED
  BY <1>1, <1>2, NextCounting, PTL DEF Spec

=============================================================================
