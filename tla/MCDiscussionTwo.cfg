SPECIFICATION Spec
CONSTANTS
    MaxLoops = 2
    Turns = 2
    MaxStops = 1
    MayLeave = FALSE
INVARIANT OneSpeaker
CHECK_DEADLOCK FALSE
