SPECIFICATION StreamSpec
CONSTANTS
    Scripts <- ErrorScripts
    MaxReplay = 100
    ListLapses = FALSE
CHECK_DEADLOCK FALSE
INVARIANT OwnErrorReported
