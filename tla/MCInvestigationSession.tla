------------------------ MODULE MCInvestigationSession ------------------------
(***************************************************************************)
(* InvestigationSession with sets of model values; workers, claimants and  *)
(* probes are interchangeable.                                             *)
(***************************************************************************)
EXTENDS InvestigationSession, TLC

Renamings == Permutations(Workers) \cup Permutations(Claimants) \cup Permutations(Probes)

==============================================================================
