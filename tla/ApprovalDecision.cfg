SPECIFICATION Spec
CONSTANTS
    None = None
    Requests = {a1, a2}
    PreApproved = {a1}
    Audits = {d1, d2}
    Workers = {w1, w2}
SYMMETRY Renamings
INVARIANTS ApprovedPlanIsBound AcknowledgedDecisionStands
PROPERTIES ImplementsRegister RefusedCallersNeverDecide
