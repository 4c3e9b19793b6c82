-------------------------- MODULE MCActionPreparation --------------------------
(***************************************************************************)
(* ActionPreparation with sets of model values; all of them are            *)
(* interchangeable.                                                        *)
(***************************************************************************)
EXTENDS ActionPreparation, TLC

Renamings ==
    Permutations(Workers) \cup Permutations(Artifacts) \cup Permutations(Preflights)
        \cup Permutations(Views) \cup Permutations(Operators) \cup Permutations(Keys)

==============================================================================
