--------------------------- MODULE ApprovalRegister ---------------------------
(***************************************************************************)
(* What the approval manager promises about one request, with no callers,  *)
(* no guard and no races: a request is created pending, is decided at most *)
(* once, and keeps the decision and its audit record for ever.             *)
(* ApprovalDecision implements it; ChatOps is built on it.                 *)
(***************************************************************************)
CONSTANTS
    Requests,  \* approval identifiers
    Audits,    \* who decides, when and why
    None       \* no decision, or a decision without an audit record

VARIABLE register  \* register[id]: where request id stands

Targets == {"approved", "rejected"}

Entries == [status: {"absent", "pending"} \cup Targets, audit: Audits \cup {None}]

Absent == [status |-> "absent", audit |-> None]

Init == register = [id \in Requests |-> Absent]

Create(id) ==
    /\ register[id].status = "absent"
    /\ register' = [register EXCEPT ![id] = [status |-> "pending", audit |-> None]]

Decide(id, t, audit) ==
    /\ register[id].status = "pending"
    /\ register' = [register EXCEPT ![id] = [status |-> t, audit |-> audit]]

Next ==
    \E id \in Requests :
        \/ Create(id)
        \/ \E t \in Targets, audit \in Audits \cup {None} : Decide(id, t, audit)

Spec == Init /\ [][Next]_register

===============================================================================
