SPECIFICATION OperationsSpec
CONSTANTS
    NoWindow = NoWindow
    Connects = {c1, c2}
    Polls = {p1}
    Closers = {d1}
    Checkers = {v1}
    Items = {i1, i2}
    Values = {1, 2}
    MaxCalls = 3
    Dirs = {b1, b2, b3}
    NoDir = NoDir
    MaxWrites = 2
    MaxEdits = 2
    MaxPackagings = 2
    Words = {"w1"}
    BodyLimit = 5
    MaxThreads = 2
    MaxPerThread = 2
    MaxTotal = 2
    MaxRequests = 4
    MaxTurns = 1
    Models = {1, 2}
    NamedSteps = {3, 7}
    MaxWizardCalls = 4
    AtOnce = 2
    MaxOutside = 1
CHECK_DEADLOCK FALSE
INVARIANTS MapsConsistent WindowReachable PageTells NothingLost RestoreBringsBack VerifyTells ReadyIsEarned ImportAsShown ExportWhole WizardResumes
PROPERTY ConnectedHasSession
