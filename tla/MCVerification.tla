---------------------------- MODULE MCVerification ----------------------------
(***************************************************************************)
(* Verification with sets of model values.  The run checks a liveness      *)
(* property, so no symmetry is used.                                       *)
(***************************************************************************)
EXTENDS Verification, TLC

==============================================================================
