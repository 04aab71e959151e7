SPECIFICATION Spec
CONSTANTS
    NProviders = 3
    MaxRetries = 1
    MaxInt = 7
    Budget = 7
    PerRequestTimeout = 1
    Statuses = {200, 204, 403, 408, 413, 429, 500, 529}
    Bodies = {"json", "undecodable", "oversized", "broken"}
    RetryAfters = {0}
    BadEndpoints = {2}
    BaseDelay = 1
    MaxDelay = 1
    JitterPct = 50
    MaxDuration = 127
    Millisecond = 1
    Second = 2
INVARIANTS
    FallbackTried
CHECK_DEADLOCK FALSE
