SPECIFICATION Spec
CONSTANTS
    None = None
    Requests = {a1, a2}
    PreApproved = {}
    Audits = {d1}
    Workers = {w1}
INVARIANTS DecisionsAreRecordable
