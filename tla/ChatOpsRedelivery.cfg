SPECIFICATION Spec
CONSTANTS
    None = None
    Events = {e1}
    Chats = {c1}
    Actors = {u1}
    Approvers = {u1}
    Executors = {u1}
    Incidents = {i1}
    Approvals = {a1, a2}
    Workers = {w1}
INVARIANTS OneDecisionPerEvent
