--------------------------- MODULE MCActionWorkflow ---------------------------
(***************************************************************************)
(* ActionWorkflow with sets of model values.  Requests are                 *)
(* interchangeable, and so are the approvals of the pilot.                 *)
(***************************************************************************)
EXTENDS ActionWorkflow, FiniteSets, TLC

Renamings == Permutations(Workers) \cup Permutations(Production)

\* Approvals with an execution, a request in flight, a checklist or a ceremony.
Engaged(a) ==
    \/ Claimed(a) \/ a \in checklists \/ ceremonies[a] # "none"
    \/ \E w \in Workers : jobs[w] # None /\ jobs[w].approval = a

\* Bound: two of the approvals are engaged, any two.
TwoEngaged == Cardinality({a \in Approvals : Engaged(a)}) <= 2

==============================================================================
