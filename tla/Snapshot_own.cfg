SPECIFICATION SnapSpec
CONSTANTS
    Users = {u1, u2}
    Data = {d1, d2}
    Empty = Empty
    Part = Part
    NoFile = NoFile
    MaxTime = 2
    OwnTimes = TRUE
    LateErrors = FALSE
    BadMedia = TRUE
INVARIANTS
    HeldIsWhole
    RestoreIsExact
    DestroyedOnlyWithSnapshot
