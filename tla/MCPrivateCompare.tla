-------------------------- MODULE MCPrivateCompare --------------------------
(* Two elements of two bits. *)
EXTENDS PrivateCompare

MCElements == 1..2
MCInputs == {[x |-> <<2, 1>>, r |-> <<1, 3>>], [x |-> <<0, 3>>, r |-> <<3, 2>>]}
\* The threads of rank 0 overlap, rank 1 goes through its elements in turn.
MCThreads == [k \in 0..1 |-> 2 - k]
=============================================================================
