SPECIFICATION FairSpec
CONSTANTS
    p1 = p1
    p2 = p2
    unknown = unknown
    Clients <- MCClients
    NameOf <- MCNameOf
    Routes = {p1, p2, unknown}
    Callers = {c1, c2}
    Limit = 2
    Window = 2
    Threshold = 2
    Recovery = 2
    Attempts = 2
    None = None
INVARIANTS WindowKept ClosedWhileWorking
PROPERTIES FailuresAreWaitedOut CallersMoveOn CircuitRecovers
