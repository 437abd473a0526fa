SPECIFICATION StreamSpec
CONSTANTS
    Revs = 2
    Word = 64
    FluxTicks = {1, 3}
    IndexTicks = {0, 2}
    SpaceTicks = {2}
    MaxIndices = 3
    NsNum = 5
    NsDen = 2
    TickNs = 3
    WordRange = 3
    MaxSamples = 4
    MaxPulses = 4
INVARIANTS
    IndexTimesAreIntervals
    NoFluxLostOrDoubled
    SplitFollowsContract
    PluginReadsBack
CHECK_DEADLOCK FALSE
