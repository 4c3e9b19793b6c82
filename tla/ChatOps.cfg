SPECIFICATION Spec
CONSTANTS
    None = None
    Events = {e1, e2}
    Chats = {c1}
    Actors = {u1, u2}
    Approvers = {u1}
    Executors = {u2}
    Incidents = {i1, i2}
    Approvals = {a1, a2}
    Workers = {w1, w2}
SYMMETRY Renamings
INVARIANTS RepliedDecisionsHold ActsFollowAuthority LaunchedIsApproved OneRemediationPerIncident CompletedIsVerified
