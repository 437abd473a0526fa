SPECIFICATION FairSpec
CONSTANTS
    Cylinders = 2
    Sides = 2
    RevsAsked = 2
    WriterCylinders = 1
    LateErrors = FALSE
INVARIANTS
    ErrorsCountTheGaps
    FileFitsVerdict
PROPERTIES
    Ends
CHECK_DEADLOCK FALSE
