SPECIFICATION Spec
CONSTANTS
    Conns = {c1}
INVARIANTS
    NoHandlerOutlives
CHECK_DEADLOCK FALSE
