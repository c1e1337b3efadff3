SPECIFICATION FairSpec
CONSTANTS
    j1 = j1
    j2 = j2
    j3 = j3
    s1 = s1
    s2 = s2
    k1 = k1
    k2 = k2
    Jobs = {j1}
    Workers = {s1}
    Keys = {k1}
    KeyOf <- OneKey
    Nobody = Nobody
    Stale = Stale
    NoJob = NoJob
    MayCancel = {j1}
    MayAttach = {}
    LeaseLapses = FALSE
    CancelLapses = TRUE
    MaxCrashes = 2
    MaxFaults = 0
CHECK_DEADLOCK FALSE
INVARIANTS SettledIsTerminal SettledIsAnnounced
PROPERTIES EveryJobSettles ImplementsLifecycle
