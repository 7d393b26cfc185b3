SPECIFICATION Spec
CONSTANTS
    TICKS_PER_SEC = 3
    Callers = {drain, h1}
    Rates = {0, 1, 2}
    Peak = 2
    WindowStart = 2
    MaxTick = 9
INVARIANTS
    BurstBounded
