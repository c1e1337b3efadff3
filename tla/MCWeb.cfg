SPECIFICATION WebSpec
CONSTANTS
    Scripts <- JobScripts
    MaxReplay = 3
    ListLapses = TRUE
    MaxLoops = 2
    Turns = 3
    MaxStops = 2
    MayLeave = TRUE
CHECK_DEADLOCK FALSE
INVARIANTS LostOnlyInGap CompletedWasAnswered StopReaches NobodyWaitsAlone
PROPERTIES StreamReleased CardSettles DiscussionEnds
