----------------------------- MODULE MCFerretIO -----------------------------
(***************************************************************************)
(* A buffer of 3 bytes: batches that fit, that just fill it, that overflow *)
(* it, that go over several buffers, and that end with a full one.         *)
(***************************************************************************)
EXTENDS FerretIO

MCBatches == {<<3>>, <<2, 4>>, <<1, 3, 10>>}

=============================================================================
