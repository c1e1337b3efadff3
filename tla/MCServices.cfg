SPECIFICATION ServicesSpec
CONSTANTS
    Requests = {r1, r2}
    Keys = {k1, k2}
    Models = {m1, m2}
    EnvKey = EnvKey
    WrongKey = WrongKey
    NoModel = NoModel
    Listing = Listing
    Caps = {1}
    EnvLimit = 1
    EnvCap = 1
    MaxOthers = 2
    Refreshes = {h1, h2}
    Loads = {l1}
    Issues = {"requires_login", "error"}
    Told = {"requires_login"}
    MaxRows = 2
    MaxBuckets = 1
    MaxTroubles = 2
    Evaluations = {e1, e2}
    Setters = {b1, b2}
    Kinds = {composer}
    Expected = {composer}
    MaxBaselines = 2
    MaxAlerts = 2
    MaxRuns = 3
    MaxUpsets = 1
    Replicas = {p1, p2, p3}
    NoReplica = NoReplica
    MaxTicks = 3
    MaxMishaps = 1
CHECK_DEADLOCK FALSE
SYMMETRY ServicesSymmetry
INVARIANTS WithinLimits ScopesHold IncidentsTell AlertTellsDrift SingleFlight
