CONSTANTS
    Probes = {p1, p2}
    MaxIterations = 3
    MaxTools = 2
    MaxCalls = 2
    Claimants = {c1, c2}
    Workers = {w1, w2}
    None = None
SPECIFICATION Spec
SYMMETRY Renamings
INVARIANTS OneCallPerStep StepsWithinLimits ClaimBindsState PausedIsResumable
PROPERTIES ExpectedVersionBinds UnresolvedIsNeverResumed
