------------------------- MODULE MCApprovalDecision -------------------------
(***************************************************************************)
(* ApprovalDecision with sets of model values; workers and audit data are  *)
(* interchangeable.                                                        *)
(***************************************************************************)
EXTENDS ApprovalDecision, TLC

Renamings == Permutations(Workers) \cup Permutations(Audits)

==============================================================================
