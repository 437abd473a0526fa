SPECIFICATION Spec
CONSTANTS
    NumTracks = 3
    Data = {d1, d2}
    Torn = Torn
    Lost = Lost
    NoFile = NoFile
    ShortCopyPasses = FALSE
    Careful = TRUE
INVARIANTS
    SkippedRestoreHidesNoWrite
    OneGoodCopy
PROPERTIES
    ImplementsAtomicImage
