SPECIFICATION Spec
CONSTANTS
    Paths = {p1, p2, p3}
    Originals = {p1}
    Callers = {cli, worker}
    MaxCalls = 4
    None = None
INVARIANTS FluxIsNeverMadeUp LossIsTold
