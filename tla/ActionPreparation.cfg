CONSTANTS
    Keys = {k1, k2}
    Preflights = {f1, f2}
    Views = {v1, v2}
    Operators = {o1, o2}
    Artifacts = {a1, a2, a3}
    Workers = {w1, w2}
    None = None
SPECIFICATION Spec
SYMMETRY Renamings
INVARIANTS AnswersAgree AnsweredAsAsked ApprovalsFollowArtifacts
