------------------------------- MODULE MCChatOps -------------------------------
(***************************************************************************)
(* ChatOps with sets of model values; workers, events, incidents and       *)
(* approvals are interchangeable.                                          *)
(***************************************************************************)
EXTENDS ChatOps, TLC

Renamings ==
    Permutations(Workers) \cup Permutations(Events) \cup Permutations(Incidents)
        \cup Permutations(Approvals)

==============================================================================
