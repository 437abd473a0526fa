SPECIFICATION Spec
CONSTANTS
    Users = {u1, u2}
    Data = {"adf", "nib"}
    Empty = Empty
    Part = Part
    NoFile = NoFile
    MaxTime = 2
    OwnTimes = TRUE
    LateErrors = FALSE
    BadMedia = TRUE
    NoDiag = NoDiag
    Probe <- MCProbe
    Policies <- MCPolicies
    Diags <- AnyDrive
INVARIANTS
    OkLacksOnlyTheDrive
    OverridesStayInPolicy
    SavedWhileWriting
SYMMETRY Symmetric
