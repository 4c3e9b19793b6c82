SPECIFICATION Spec
CONSTANTS
    None = None
    ExecutionIds = {x1, x2}
    Approvals = {a1, a2, a3}
    ApprovedPlans = {a1, a2}
    Keys = {k1, k2}
    Operators = {p1}
    Reconcilers = {c1}
    Results = {r1, r2}
    Workers = {w1, w2}
SYMMETRY Renamings
INVARIANTS LaunchedOnce AcknowledgedOutcomeStands ReconciledOnce
PROPERTIES ImplementsLifecycle
