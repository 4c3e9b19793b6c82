SPECIFICATION PilotSpec
CONSTANTS
    None = None
    r1 = r1
    r2 = r2
    r3 = r3
    eve = eve
    finn = finn
    anna = anna
    ben = ben
    Reports <- MCReports
    Operators <- MCOperators
    ApprovalOf <- MCApprovalOf
    PilotOf <- MCPilotOf
    ExecutorOf <- MCExecutorOf
    OwnersOf <- MCOwnersOf
    ReviewersOf <- MCReviewersOf
    Keys = {k1, k2}
    Workers = {w1, w2}
SYMMETRY Renamings
INVARIANTS ProbedOnce GoIsBacked DecisionsAgree
