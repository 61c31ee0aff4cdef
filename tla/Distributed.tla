----------------------------- MODULE Distributed -----------------------------
(***************************************************************************)
(* The driver of spu/utils/distributed_impl.py and the nodes it steers.    *)
(* A node keeps objects under references; the driver keeps device objects, *)
(* handles that name references, and counts the handles of each reference. *)
(* A reference with no handle left is dead; when enough of them are dead   *)
(* every node is told to drop them.                                        *)
(*                                                                         *)
(* A call of a device function places its arguments (which may call other  *)
(* functions first: the stack), runs on the nodes, and makes handles of    *)
(* what they return.  A handle that nothing holds any more is finalised at *)
(* once, by reference counting: `drops' are the decrements still to do.    *)
(* The driver is one thread and waits for every answer, the nodes of an    *)
(* SPU included, so a run on the nodes is one step with an outcome.        *)
(***************************************************************************)
EXTENDS Naturals, Sequences, FiniteSets, BagsExt, Bags, SequencesExt

CONSTANTS Pyus,        \* the nodes that host a PYU
          SpuNodes,    \* the nodes of the SPU, by rank
          SPU,         \* the SPU device
          GcThreshold, \* _GC_COLLECT_THRESHOLD
          MaxObjects,  \* bound: the objects a behaviour creates
          MaxHandles,  \* bound: the handles the user keeps
          MaxArgs,     \* bound: the device objects passed to a call
          MaxFaults    \* bound: the runs, answers and collections that fail

ASSUME DistributedAssumption ==
    /\ SpuNodes \in Seq(Pyus \cup ToSet(SpuNodes)) /\ SpuNodes # <<>>
    /\ SPU \notin Pyus \cup ToSet(SpuNodes)
    /\ GcThreshold \in Nat \ {0} /\ MaxArgs \in Nat

Nodes == Pyus \cup ToSet(SpuNodes)
Ranks == DOMAIN SpuNodes

VARIABLES globals,     \* globals[node]: the references it has an object for
          fresh,       \* the objects created so far: the next uuid
          handles,     \* the device objects the user holds
          stack,       \* the calls under way, the innermost last
          drops,       \* references whose handle was just finalised
          objrefs,     \* a bag: how many handles each reference has
          dead,        \* _dead_refs
          undelivered, \* results of a node whose answer never made a handle
          faults       \* the failures so far
vars == <<globals, fresh, handles, stack, drops, objrefs, dead, undelivered, faults>>

Init ==
    /\ globals = [node \in Nodes |-> {}]
    /\ fresh = 0
    /\ handles = {}
    /\ stack = <<>>
    /\ drops = <<>>
    /\ objrefs = EmptyBag
    /\ dead = <<>>
    /\ undelivered = {}
    /\ faults = 0

\* One more failure, if there is one.
Fault(happens) ==
    /\ happens => faults < MaxFaults
    /\ faults' = IF happens THEN faults + 1 ELSE faults

\* ObjectRef, and the references of the next objects, one at each origin.
ObjectRef(uuid, origin) == [uuid |-> uuid, origin |-> origin]
NewRefs(origins) == [i \in DOMAIN origins |-> ObjectRef(fresh + i, origins[i])]

\* Device.Object: the device and its references, one for a PYU, one for each
\* rank for the SPU.
Object(device, refs) == [device |-> device, refs |-> refs]
RefsOf(objs) == FlattenSeq([i \in DOMAIN objs |-> objs[i].refs])
Count(ref, bag) == IF BagIn(ref, bag) THEN bag[ref] ELSE 0
Occurrences(ref, refs) == Cardinality({i \in DOMAIN refs : refs[i] = ref})
\* The constructors count every reference.
Inc(bag, refs) ==
    [ref \in BagToSet(bag) \cup ToSet(refs) |-> Count(ref, bag) + Occurrences(ref, refs)]

\* A call: the arguments left to place, the references of those placed, the
\* handles that placing made, and the handles lent to a nested call.
Call(device, why, todo) ==
    [device |-> device, why |-> why, todo |-> todo, args |-> <<>>,
     held |-> <<>>, lent |-> <<>>, phase |-> "place"]

Idle == stack = <<>> /\ drops = <<>>
Top == Last(stack)
Depth == Len(stack)
\* The driver goes on with the innermost call once its finalisers are done.
At(phase) == stack # <<>> /\ drops = <<>> /\ Top.phase = phase
SetTop(call) == stack' = ReplaceAt(stack, Depth, call)

Invoke(device, args) ==
    /\ Idle
    /\ stack' = <<Call(device, "user", args)>>
    /\ UNCHANGED <<globals, fresh, handles, drops, objrefs, dead, undelivered, faults>>

-----------------------------------------------------------------------------
\* _place_arguments: Device.move on the arguments, in order.
Placing == At("place") /\ Top.todo # <<>>
Moved == Head(Top.todo)
Placed(call, obj) == [call EXCEPT !.todo = Tail(@), !.args = Append(@, obj.refs)]

PYU2PYUUncounted ==
    /\ Placing /\ Moved.device # SPU /\ Top.device # SPU
    /\ LET obj == Object(Top.device, Moved.refs)
       IN  SetTop([Placed(Top, obj) EXCEPT !.held = Append(@, obj)])
    /\ UNCHANGED <<globals, fresh, handles, drops, objrefs, dead, undelivered, faults>>

\* The same references, under a handle of their own.
PYU2PYU ==
    /\ Placing /\ Moved.device # SPU /\ Top.device # SPU
    /\ LET obj == Object(Top.device, Moved.refs)
       IN  /\ SetTop([Placed(Top, obj) EXCEPT !.held = Append(@, obj)])
           /\ objrefs' = Inc(objrefs, obj.refs)
    /\ UNCHANGED <<globals, fresh, handles, drops, dead, undelivered, faults>>

SPU2SPUHeld ==
    /\ Placing /\ Moved.device = SPU /\ Top.device = SPU
    /\ SetTop([Placed(Top, Moved) EXCEPT !.held = Append(@, Moved)])
    /\ UNCHANGED <<globals, fresh, handles, drops, objrefs, dead, undelivered, faults>>

\* The very same handle.
SPU2SPU ==
    /\ Placing /\ Moved.device = SPU /\ Top.device = SPU
    /\ SetTop(Placed(Top, Moved))
    /\ UNCHANGED <<globals, fresh, handles, drops, objrefs, dead, undelivered, faults>>

\* reconstruct runs on the PYU, on handles of the shares.
SPU2PYU ==
    /\ Placing /\ Moved.device = SPU /\ Top.device # SPU
    /\ LET shares == [i \in Ranks |-> Object(Top.device, <<Moved.refs[i]>>)]
       IN  /\ stack' = Append(ReplaceAt(stack, Depth, [Top EXCEPT !.lent = shares]),
                              Call(Top.device, "reconstruct", shares))
           /\ objrefs' = Inc(objrefs, Moved.refs)
    /\ UNCHANGED <<globals, fresh, handles, drops, dead, undelivered, faults>>

\* make_shares runs on the argument's own PYU.
PYU2SPU ==
    /\ Placing /\ Moved.device # SPU /\ Top.device = SPU
    /\ stack' = Append(stack, Call(Moved.device, "make_shares", <<Moved>>))
    /\ UNCHANGED <<globals, fresh, handles, drops, objrefs, dead, undelivered, faults>>

PrepareDropsAll ==
    /\ At("place") /\ Top.todo = <<>>
    /\ SetTop([Top EXCEPT !.phase = "run", !.held = <<>>])
    /\ drops' = RefsOf(Top.held)
    /\ UNCHANGED <<globals, fresh, handles, objrefs, dead, undelivered, faults>>

\* All are placed.  A PYU's call replaces the handles by their references: the
\* handles that placing made are gone.  The SPU's keeps them until it returns.
Prepare ==
    /\ At("place") /\ Top.todo = <<>>
    /\ IF Top.device = SPU
       THEN SetTop([Top EXCEPT !.phase = "run"]) /\ drops' = drops
       ELSE /\ SetTop([Top EXCEPT !.phase = "run", !.held = <<>>])
            /\ drops' = RefsOf(Top.held)
    /\ UNCHANGED <<globals, fresh, handles, objrefs, dead, undelivered, faults>>

-----------------------------------------------------------------------------
\* _get_object on the arguments in order: what is not here is fetched from its
\* origin and kept; the first that is not there either ends the run.
Missing(node, refs) ==
    {k \in DOMAIN refs : refs[k] \notin globals[node] \cup globals[refs[k].origin]}
Resolved(node, refs) ==
    {refs[k] : k \in {k \in DOMAIN refs : \A m \in Missing(node, refs) : k < m}}

\* An exception: every call returns and its handles are gone.
Raise ==
    /\ stack' = <<>>
    /\ drops' = FlattenSeq([d \in 1..Depth |-> RefsOf(stack[d].held) \o RefsOf(stack[d].lent)])

PyuArgs == [k \in DOMAIN Top.args |-> Top.args[k][1]]
PyuResults == NewRefs([i \in (IF Top.why = "make_shares" THEN Ranks ELSE 1..1) |-> Top.device])

\* The handles of a call's results, given to the one that called it.
GiveResults(objs) ==
    LET outer == stack[Depth - 1]
    IN  CASE Top.why = "user" ->
               /\ handles' = handles \cup ToSet(objs)
               /\ stack' = <<>>
               /\ drops' = RefsOf(Top.held)
          [] Top.why = "reconstruct" ->
               /\ stack' = Append(Front(Front(stack)),
                     [Placed(outer, objs[1]) EXCEPT !.held = Append(@, objs[1]), !.lent = <<>>])
               /\ drops' = RefsOf(outer.lent)
               /\ handles' = handles
          [] Top.why = "make_shares" ->
               /\ stack' = Append(Front(Front(stack)),
                     [outer EXCEPT !.lent = objs, !.phase = "fetch_share_meta"])
               /\ UNCHANGED <<drops, handles>>

\* The PYU's node runs the function, and the answer arrives.
PyuRun ==
    /\ At("run") /\ Top.device # SPU
    /\ Missing(Top.device, PyuArgs) = {}
    /\ fresh + Len(PyuResults) <= MaxObjects
    /\ globals' = [globals EXCEPT ![Top.device] = @ \cup ToSet(PyuArgs) \cup ToSet(PyuResults)]
    /\ fresh' = fresh + Len(PyuResults)
    /\ objrefs' = Inc(objrefs, PyuResults)
    /\ GiveResults([i \in DOMAIN PyuResults |-> Object(Top.device, <<PyuResults[i]>>)])
    /\ UNCHANGED <<dead, undelivered, faults>>

\* An argument is not found, or the function raises.
PyuFail ==
    /\ At("run") /\ Top.device # SPU
    /\ globals' = [globals EXCEPT ![Top.device] = @ \cup Resolved(Top.device, PyuArgs)]
    /\ Fault(Missing(Top.device, PyuArgs) = {})
    /\ Raise
    /\ UNCHANGED <<fresh, handles, objrefs, dead, undelivered>>

\* The function ran, and the connection broke under its answer.
PyuAnswerLost ==
    /\ At("run") /\ Top.device # SPU
    /\ Missing(Top.device, PyuArgs) = {}
    /\ fresh + Len(PyuResults) <= MaxObjects
    /\ globals' = [globals EXCEPT ![Top.device] = @ \cup ToSet(PyuArgs) \cup ToSet(PyuResults)]
    /\ fresh' = fresh + Len(PyuResults)
    /\ undelivered' = undelivered \cup ToSet(PyuResults)
    /\ Fault(TRUE)
    /\ Raise
    /\ UNCHANGED <<handles, objrefs, dead>>

\* The shares' meta data is fetched from the node that made them; then the SPU
\* has a handle of them and the PYU's are gone.
FetchShareMeta ==
    /\ At("fetch_share_meta")
    /\ LET obj == Object(SPU, [i \in DOMAIN Top.lent |-> Top.lent[i].refs[1]])
       IN  /\ SetTop([Placed(Top, obj) EXCEPT !.held = Append(@, obj), !.lent = <<>>,
                                              !.phase = "place"])
           /\ objrefs' = Inc(objrefs, obj.refs)
           /\ drops' = RefsOf(Top.lent)
    /\ UNCHANGED <<globals, fresh, handles, dead, undelivered, faults>>

SpuArgs(i) == [k \in DOMAIN Top.args |-> Top.args[k][i]]

\* Every node of the SPU runs the executable on its own shares.  When some of
\* them fail the call raises, and the results of the others have no handle.
SpuRun ==
    /\ At("run") /\ Top.device = SPU
    /\ fresh + Len(SpuNodes) <= MaxObjects
    /\ LET results == NewRefs(SpuNodes)
           lost == {i \in Ranks : Missing(SpuNodes[i], SpuArgs(i)) # {}}
       IN  \E failed \in {f \in SUBSET Ranks : lost \subseteq f} :
             LET done == {results[i] : i \in Ranks \ failed}
                 got == [i \in Ranks |-> Resolved(SpuNodes[i], SpuArgs(i))]
             IN  /\ globals' = [node \in Nodes |-> globals[node] \cup
                      {r \in done : r.origin = node} \cup
                      UNION {got[i] : i \in {i \in Ranks : SpuNodes[i] = node}}]
                 /\ IF failed = {}
                    THEN /\ SetTop([Top EXCEPT !.args = <<results>>, !.phase = "fetch_meta"])
                         /\ UNCHANGED <<drops, undelivered>>
                    ELSE Raise /\ undelivered' = undelivered \cup done
                 /\ Fault(failed # lost)
    /\ fresh' = fresh + Len(SpuNodes)
    /\ UNCHANGED <<handles, objrefs, dead>>

\* The results' meta data is fetched from rank 0.
FetchMeta ==
    /\ At("fetch_meta")
    /\ LET obj == Object(SPU, Top.args[1])
       IN  /\ objrefs' = Inc(objrefs, obj.refs)
           /\ GiveResults(<<obj>>)
    /\ UNCHANGED <<globals, fresh, dead, undelivered, faults>>

FetchFails ==
    /\ At("fetch_share_meta") \/ At("fetch_meta")
    /\ undelivered' = undelivered \cup
         (IF Top.phase = "fetch_meta" THEN ToSet(Top.args[1]) ELSE {})
    /\ Fault(TRUE)
    /\ Raise
    /\ UNCHANGED <<globals, fresh, handles, objrefs, dead>>

-----------------------------------------------------------------------------
\* The user lets a handle go.
Release(obj) ==
    /\ Idle
    /\ handles' = handles \ {obj}
    /\ drops' = obj.refs
    /\ UNCHANGED <<globals, fresh, stack, objrefs, dead, undelivered, faults>>

\* _garbage_collect, with the nodes that fail to answer: the dead are
\* forgotten when every node has dropped them, and kept for a later try else.
AfterGc(refs, failed) ==
    [node \in Nodes |-> IF node \in failed THEN globals[node]
                                           ELSE globals[node] \ ToSet(refs)]
StillDeadUnlessAllFail(refs, failed) == IF failed = Nodes THEN refs ELSE <<>>
StillDead(refs, failed) == IF failed = {} THEN <<>> ELSE refs

\* _dec_objref.
DecObjref ==
    /\ drops # <<>>
    /\ LET ref == Head(drops)
           dies == Count(ref, objrefs) = 1
           refs == IF dies THEN Append(dead, ref) ELSE dead
       IN  /\ objrefs' = BagRemove(objrefs, ref)
           /\ IF Len(refs) < GcThreshold
              THEN dead' = refs /\ UNCHANGED <<globals, faults>>
              ELSE \E failed \in SUBSET Nodes :
                      /\ globals' = AfterGc(refs, failed)
                      /\ dead' = StillDead(refs, failed)
                      /\ Fault(failed # {})
    /\ drops' = Tail(drops)
    /\ UNCHANGED <<fresh, handles, stack, undelivered>>

\* The device objects of the user that are passed to a call.
Arguments == UNION {Injection(1..n, handles) : n \in 0..MaxArgs}

Next ==
    \/ /\ Cardinality(handles) < MaxHandles
       /\ \E device \in Pyus \cup {SPU}, args \in Arguments : Invoke(device, args)
    \/ PYU2PYU \/ SPU2SPU \/ SPU2PYU \/ PYU2SPU
    \/ Prepare
    \/ PyuRun \/ PyuFail \/ PyuAnswerLost \/ SpuRun
    \/ FetchShareMeta \/ FetchMeta \/ FetchFails
    \/ \E obj \in handles : Release(obj)
    \/ DecObjref

Spec == Init /\ [][Next]_vars

-----------------------------------------------------------------------------
\* The handles of a reference: the user's, the calls' and the ones going away.
HandlesOf(ref) ==
    Cardinality({obj \in handles : Contains(obj.refs, ref)}) + Occurrences(ref, drops) +
    Occurrences(ref, FlattenSeq([d \in 1..Depth |-> RefsOf(stack[d].held) \o RefsOf(stack[d].lent)]))

\* _objrefs (distributed_impl.py:1114-1126) counts the handles of every
\* reference, through temporaries, exceptions and nested calls; none of the
\* counted is dead.
CountsHandles ==
    /\ \A ref \in BagToSet(objrefs) \cup ToSet(drops) \cup UNION {ToSet(obj.refs) : obj \in handles} :
          Count(ref, objrefs) = HandlesOf(ref)
    /\ BagToSet(objrefs) \cap ToSet(dead) = {}

\* What PYU.get and SPU.get (distributed_impl.py:254, 518, 1036) ask each node
\* of a handle for, the uuid under the node's own name, is there for as long
\* as the user holds the handle, whatever was collected meanwhile.
Fetchable ==
    \A obj \in handles : \A i \in DOMAIN obj.refs :
        LET node == IF obj.device = SPU THEN SpuNodes[i] ELSE obj.device
        IN  ObjectRef(obj.refs[i].uuid, node) \in globals[node]

\* The arguments of an SPU's call can be resolved by every rank when it runs:
\* the handles that placing made live until the call returns.
SpuArgumentsStored ==
    At("run") /\ Top.device = SPU =>
        \A i \in Ranks : Missing(SpuNodes[i], SpuArgs(i)) = {}

\* The results that the SPU's nodes have stored and the driver is about to count.
Awaited == IF stack # <<>> /\ Top.phase = "fetch_meta" THEN ToSet(Top.args[1]) ELSE {}
\* What is counted, what is dead and so still to be collected everywhere, and
\* the results of runs whose answer the driver is about to take or never got.
Accounted == BagToSet(objrefs) \cup ToSet(dead) \cup undelivered \cup Awaited

\* No copy of an object outlives its handles (distributed_impl.py:1117-1150):
\* a node stores only what the driver accounts for.
NothingLeaks == \A node \in Nodes : globals[node] \subseteq Accounted

\* The arguments of a PYU's call can be resolved by its node when it runs.
ArgumentsStored ==
    At("run") /\ Top.device # SPU => Missing(Top.device, PyuArgs) = {}
=============================================================================
