SPECIFICATION Spec
CONSTANTS
    NProviders = 2
    MaxRetries = 2
    MaxInt = 7
    Budget = 10
    PerRequestTimeout = 3
    Statuses = {200, 401, 429}
    Bodies = {"json"}
    RetryAfters = {0, 4, 9}
    BadEndpoints = {}
    BaseDelay = 1
    MaxDelay = 2
    JitterPct = 50
    MaxDuration = 127
    Millisecond = 1
    Second = 2
INVARIANTS
    TypeOK
    AttemptsAccounted
    FallbackJustified
    StopsOnlyWhenTold
    BudgetHolds
    StopNotHidden
PROPERTIES
    BackoffHonoured
    Ends
    KeepsContract
CHECK_DEADLOCK FALSE
