SPECIFICATION FairSpec
CONSTANTS
    NumJobs = 2
    NumChunks = 3
    MaxSectors = 2
    None = None
INVARIANTS
    CountsAreTrue
    NoPartStays
PROPERTIES
    FinishedCopyIsWhole
    EndsUnlessStuck
CHECK_DEADLOCK FALSE
