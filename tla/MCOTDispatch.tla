---------------------------- MODULE MCOTDispatch ----------------------------
(***************************************************************************)
(* Ranks with 3 and 4 cores, a slice for every 3 elements: a call of two   *)
(* slices makes two instances and one of three slices the third; the next  *)
(* has a batched input at one rank, and the last has a single slice.       *)
(***************************************************************************)
EXTENDS OTDispatch, TLC

MCCores == 0 :> 3 @@ 1 :> 4

Plain(n, r) == [jobs |-> n, batch |-> 1, batcher |-> {}, first |-> r]
MCProgram == <<Plain(4, 0), Plain(10, 1),
               [jobs |-> 7, batch |-> 2, batcher |-> {1}, first |-> 0], Plain(1, 1)>>

=============================================================================
