SPECIFICATION Spec
CONSTANTS
    NProviders = 2
    MaxRetries = 2
    MaxInt = 7
    Budget = 120
    PerRequestTimeout = 40
    Statuses = {200}
    Bodies = {"json"}
    RetryAfters = {0}
    BadEndpoints = {}
    BaseDelay = 2
    MaxDelay = 20
    JitterPct = 25
    MaxDuration = 1023
    Millisecond = 1
    Second = 4
INVARIANTS
    FallbackPromised
CHECK_DEADLOCK FALSE
