SPECIFICATION Spec
CONSTANTS
    None = None
    Approvals = {a1, a2, a3}
    Production = {a1, a2}
    Probes = {p1}
    Required = {p1}
    Workers = {w1, w2}
SYMMETRY Renamings
CONSTRAINT TwoEngaged
INVARIANTS FrozenIsReconcilable OnePatchPerPilot PatchIsPermitted LedgerIsTruthful OnlySuccessIsVerified
