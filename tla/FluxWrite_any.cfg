SPECIFICATION FairSpec
CONSTANTS
    MaxTracks = 4
INVARIANTS
    FinishedCountsAreTrue
    NothingAfterTornTrack
    CancelIsPrompt
PROPERTIES
    Ends
CHECK_DEADLOCK FALSE
