SPECIFICATION RecoverySpec
CONSTANTS
    None = None
    Approvals = {a1}
    Production = {a1}
    Probes = {p1}
    Required = {p1}
    Workers = {w1}
PROPERTIES RunningIsDecided
