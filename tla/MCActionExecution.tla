-------------------------- MODULE MCActionExecution --------------------------
(***************************************************************************)
(* ActionExecution with sets of model values.  Identifiers, keys, workers, *)
(* results and approved approvals are interchangeable, so states are taken *)
(* up to a renaming of them.                                               *)
(***************************************************************************)
EXTENDS ActionExecution, TLC

Renamings ==
    Permutations(Workers) \cup Permutations(ExecutionIds)
        \cup Permutations(Keys) \cup Permutations(ApprovedPlans)
        \cup Permutations(Results)

==============================================================================
