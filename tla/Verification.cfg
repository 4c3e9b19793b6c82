SPECIFICATION RecoverySpec
CONSTANTS
    None = None
    Executions = {x1}
    Triggers = {t1, t2}
    Probes = {p1, p2}
    Required = {p1}
    Workers = {w1, w2}
INVARIANTS EvidenceCollectedOnce ResolvedHasEvidence
PROPERTIES VerdictsAreFinal VerdictsMoveOnlyHealing VerdictReachesIncident
