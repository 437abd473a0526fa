SPECIFICATION Spec
CONSTANTS
    NumTracks = 2
    Data = {d1, d2}
    Torn = Torn
    Lost = Lost
    NoFile = NoFile
    ShortCopyPasses = FALSE
    Careful = FALSE
INVARIANTS
    CommitIsExact
    OnlyStagedTracksChange
