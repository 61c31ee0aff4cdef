---------------------------- MODULE MCDistributed ----------------------------
(***************************************************************************)
(* Three nodes: the SPU on the first two, a PYU on the first and the       *)
(* third, so that one PYU is on a node of the SPU and the other is not.    *)
(***************************************************************************)
EXTENDS Distributed

MCPyus == {"n0", "n2"}
MCSpuNodes == <<"n0", "n1">>
MCSPU == "spu"
=============================================================================
