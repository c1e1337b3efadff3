SPECIFICATION Spec
CONSTANTS
    j1 = j1
    j2 = j2
    j3 = j3
    s1 = s1
    s2 = s2
    k1 = k1
    k2 = k2
    Jobs = {j1}
    Workers = {s1, s2}
    Keys = {k1}
    KeyOf <- OneKey
    Nobody = Nobody
    Stale = Stale
    NoJob = NoJob
    MayCancel = {j1}
    MayAttach = {j1}
    LeaseLapses = TRUE
    CancelLapses = FALSE
    MaxCrashes = 1
    MaxFaults = 1
CHECK_DEADLOCK FALSE
SYMMETRY SlotSymmetry
INVARIANTS SlotsSound FinishedIsAnnounced
PROPERTIES CancelledNeverSent
