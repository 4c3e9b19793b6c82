-------------------------- MODULE ExecutionLifecycle --------------------------
(***************************************************************************)
(* What the execution ledger promises about one approval, with no workers, *)
(* no identifiers and no races: an approval is launched at most once, its  *)
(* running execution ends with one outcome or is frozen as indeterminate,  *)
(* and a frozen execution leaves that state only by an operator's          *)
(* decision.  ActionExecution implements it.                               *)
(***************************************************************************)
CONSTANTS
    Approvals,  \* the approvals an execution can be claimed for
    Results,    \* what an executor or an operator reports
    None        \* no result

VARIABLE phase  \* phase[a]: where the only execution of approval a stands

Outcomes == {"succeeded", "failed"}

Phases ==
    [status: {"unclaimed", "running", "indeterminate"} \cup Outcomes,
     result: Results \cup {None}]

Unclaimed == [status |-> "unclaimed", result |-> None]

\* The phase of every approval is well typed.
TypeOK == phase \in [Approvals -> Phases]

Init == phase = [a \in Approvals |-> Unclaimed]

Launch(a) ==
    /\ phase[a].status = "unclaimed"
    /\ phase' = [phase EXCEPT ![a] = [status |-> "running", result |-> None]]

Settle(a, s, r) ==
    /\ phase[a].status = "running"
    /\ phase' = [phase EXCEPT ![a] = [status |-> s, result |-> r]]

Freeze(a) ==
    /\ phase[a].status = "running"
    /\ phase' = [phase EXCEPT ![a] = [status |-> "indeterminate", result |-> None]]

Resolve(a, s, r) ==
    /\ phase[a].status = "indeterminate"
    /\ phase' = [phase EXCEPT ![a] = [status |-> s, result |-> r]]

Next ==
    \E a \in Approvals :
        \/ Launch(a)
        \/ Freeze(a)
        \/ \E s \in Outcomes, r \in Results : Settle(a, s, r) \/ Resolve(a, s, r)

Spec == Init /\ [][Next]_phase

===============================================================================
