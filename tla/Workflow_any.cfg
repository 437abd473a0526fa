SPECIFICATION FairSpec
CONSTANTS
    MaxJobs = 2
    MaxGens = 2
    HastyGens = 1
    MaxCalls = 1
    NULL = NULL
INVARIANTS
    ToldInOrder
    AbortReachesWorker
    OneDeviceUser
    ProviderOutlivesUse
PROPERTIES
    FluxThreadsAreReaped
    TabComesBack
