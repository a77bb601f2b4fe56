CONSTANTS
    ULONG_MAX = 15
    Resolution = 2
    Interval = 4
    MaxGap = 2
    BITS = 2
    BYTES = 2
    INITIAL_MIDPOINT = 3
    NOMINAL_uS_PER_TICK = 1
    LEFT = 2
    RIGHT = 5
SPECIFICATION Spec
INVARIANTS BatchesAreSamples NothingPendingWhenParked StallsOnlyAtWrap

