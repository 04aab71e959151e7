SPECIFICATION Spec
CONSTANTS
    Conns = {c1, c2}
INVARIANTS
    NothingLeftOpen
    ErrorMeansFailure
PROPERTIES
    DrainSparesEvaluations
    Returns
    EvaluationsStop
CHECK_DEADLOCK FALSE
