CONSTANTS
    Callers = {t1, t2}
    Threshold = 2
    Timeout = 1
    MaxFailures = 3
    Registrars = {r1, r2}
    MaxIds = 3
    Clients = {x1}
    MaxRequests = 2
    WindowMs = 1
    MaxTime = 3
    None = None
    Reporters = {"p1", "p2"}
    MScript <- MCMScript
    UserIds <- MCUserIds
    Stamps <- MCStamps
    Ttls <- MCTtls
SPECIFICATION Spec
INVARIANT ServiceIdsUnique
