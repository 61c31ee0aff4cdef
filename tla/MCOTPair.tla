------------------------------ MODULE MCOTPair ------------------------------
(***************************************************************************)
(* Every program of three OTs, with random or chosen choices, on an        *)
(* extension of 5 correlations with a reserve of 2.  The endpoints'        *)
(* MaxSpent is not used: MaxCalls bounds the composition.                  *)
(***************************************************************************)
EXTENDS OTPair

=============================================================================
