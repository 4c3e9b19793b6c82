---------------------------- MODULE MCPilotGoNoGo ----------------------------
(***************************************************************************)
(* PilotGoNoGo with three reports of one pilot: two of the same approval,  *)
(* before and after its evidence changed, and one of another.  Each of two *)
(* reviewers has another duty in one of them.                              *)
(***************************************************************************)
EXTENDS PilotGoNoGo, TLC

CONSTANTS r1, r2, r3, eve, finn, anna, ben

MCReports == {r1, r2, r3}
MCOperators == {eve, finn, anna, ben}
MCApprovalOf == (r1 :> "a1") @@ (r2 :> "a1") @@ (r3 :> "a2")
MCPilotOf == [r \in MCReports |-> "p1"]
MCExecutorOf == (r1 :> eve) @@ (r2 :> eve) @@ (r3 :> finn)
MCOwnersOf == (r1 :> {finn}) @@ (r2 :> {ben}) @@ (r3 :> {eve})
MCReviewersOf == (r1 :> {anna}) @@ (r2 :> {}) @@ (r3 :> {ben})

Renamings == Permutations(Workers) \cup Permutations(Keys)

==============================================================================
