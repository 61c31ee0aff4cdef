--------------------------- MODULE DataflowBlock ---------------------------
(***************************************************************************)
(* What runBlockParallel (libspu/device/executor.cc) promises: a block of  *)
(* operations is evaluated by every party as a dataflow graph.  No thread, *)
(* queue, lock or link appears here.  done[p] are the operations party p   *)
(* has completed.                                                          *)
(***************************************************************************)
CONSTANTS
  Party,   \* the parties
  Op,      \* the operations of the block
  Deps,    \* Deps[o]: the operations o must wait for
  Joint    \* operations that all parties compute together

VARIABLE done

\* The parties that take part in o when party p completes it.
Peers(p, o) == IF o \in Joint THEN Party ELSE {p}

Init == done = [p \in Party |-> {}]

\* An operation completes at most once, and a joint one only when what it
\* waits for is complete at every party.
Complete(p, o) ==
  /\ o \notin done[p]
  /\ \A q \in Peers(p, o) : Deps[o] \subseteq done[q]
  /\ done' = [done EXCEPT ![p] = @ \cup {o}]

Next == \E p \in Party, o \in Op : Complete(p, o)

Spec == Init /\ [][Next]_done

\* Every operation that can complete eventually does.
FairSpec == Spec /\ \A p \in Party, o \in Op : WF_done(Complete(p, o))

=============================================================================
