---------------------------- MODULE MCCheetahMul ----------------------------
(***************************************************************************)
(* A Beaver batch over a 32-bit ring creates the keys; a long square over  *)
(* a 64-bit ring expands the contexts and runs on both links; a direct     *)
(* product and a short square go back to 32 bits; MulAV over 128 bits is   *)
(* evaluated by the rank that does not own the private operand.  With 2    *)
(* slots per ciphertext, lengths 5 and 7 leave the last one half full.     *)
(***************************************************************************)
EXTENDS CheetahMul

MCProgram == <<
  [kind |-> "beaver", bits |-> 32, n |-> 1],
  [kind |-> "square", bits |-> 64, n |-> 5],
  [kind |-> "direct", bits |-> 32, n |-> 7],
  [kind |-> "square", bits |-> 32, n |-> 2],
  [kind |-> "mulav", bits |-> 128, n |-> 1, owner |-> 0] >>

=============================================================================
