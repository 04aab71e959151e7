SPECIFICATION Spec
CONSTANTS
    BaseDelay = 4
    MaxDelay = 25
    JitterPct = 25
    MaxDuration = 127
    Millisecond = 1
    Second = 20
    Attempts = {0, 1, 2, 3, 4, 5, 6, 7}
    Numbers <- MCNumbers
    Instants <- MCInstants
INVARIANTS
    WaitBounded
    ServerWaitHonoured
    BackoffDoubles
CHECK_DEADLOCK FALSE
