SPECIFICATION StreamSpec
CONSTANTS
    Revs = 3
    Word = 512
    FluxTicks = {2}
    IndexTicks = {1}
    SpaceTicks = {2}
    MaxIndices = 3
    NsNum = 25
    NsDen = 2
    TickNs = 3
    WordRange = 3
    MaxSamples = 6
    MaxPulses = 4
INVARIANTS
    EnoughRevolutions
CHECK_DEADLOCK FALSE
