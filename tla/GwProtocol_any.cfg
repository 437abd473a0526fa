SPECIFICATION FairSpec
CONSTANTS
    Targets <- TwoTracks
    Retries = 1
    InfoLen = 2
    MaxFlux = 1
    MaxPending = 3
INVARIANTS
    FluxIsOfTheTrackAsked
    WritesOnlyAtTheTarget
    OkWriteIsWritten
    SmoothResultsAreTrue
    SmoothLeavesNothingUnread
PROPERTIES
    EveryOperationEnds
