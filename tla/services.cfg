CONSTANTS
    Callers = {t1, t2}
    Threshold = 2
    Timeout = 1
    MaxFailures = 3
    Registrars = {r1}
    MaxIds = 2
    Clients = {x1}
    MaxRequests = 2
    WindowMs = 1
    MaxTime = 2
    None = None
    Reporters = {"p1", "p2"}
    MScript <- MCMScript
    UserIds <- MCUserIds
    Stamps <- MCStamps
    Ttls <- MCTtls
SPECIFICATION Spec
INVARIANT MetricsConsistent
PROPERTY BreakerRecloses
