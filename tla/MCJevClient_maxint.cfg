SPECIFICATION Spec
CONSTANTS
    NProviders = 2
    MaxRetries = 7
    MaxInt = 7
    Budget = 7
    PerRequestTimeout = 3
    Statuses = {200, 401, 429}
    Bodies = {"json"}
    RetryAfters = {0, 2}
    BadEndpoints = {}
    BaseDelay = 1
    MaxDelay = 2
    JitterPct = 50
    MaxDuration = 127
    Millisecond = 1
    Second = 2
INVARIANTS
    NeverPanics
CHECK_DEADLOCK FALSE
