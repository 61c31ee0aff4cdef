----------------------------- MODULE MCOTBuffer -----------------------------
(***************************************************************************)
(* An extension of 5 correlations with a reserve of 2 leaves 3, the first  *)
(* one 2.  Requests of 1 and 2 use the buffer up, 4 can meet the worst     *)
(* case of rcot (two Bootstraps), 5 and 9 extend in place once and twice.  *)
(***************************************************************************)
EXTENDS OTBuffer

=============================================================================
