CONSTANTS
    DURATION = 1
    PERIOD = 2
    TIME = 3
    Counts = {1, 2}
    MaxElapsed = 6
SPECIFICATION Spec
INVARIANT CacheIsTrue
PROPERTIES EndsLow TakesItsTime
