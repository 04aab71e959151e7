SPECIFICATION Spec
CONSTANTS
    UTFMax = 3
    maxMessageBytes = 6
    maxErrorTypeBytes = 1
    MaxChunks = 5
    Responses <- SmallResponses
INVARIANTS
    CleanIsSafe
    CleanKeepsText
    MessageSurvives
CHECK_DEADLOCK FALSE
