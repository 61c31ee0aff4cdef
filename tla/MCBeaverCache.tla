---------------------------- MODULE MCBeaverCache ----------------------------
(***************************************************************************)
(* Every program of MaxTakes requests over two rings, with OLE batches of  *)
(* 4 elements (2 triples) and requests of 1 to 3 triples.                  *)
(***************************************************************************)
EXTENDS BeaverCache

=============================================================================
