SPECIFICATION Spec
CONSTANTS
    MaxStateBytes = 2
    MaxQuestions = 3
    MinChoiceOptions = 2
    MaxChoiceOptions = 3
    MinScoreLevels = 2
    MaxScoreLevels = 3
    LongNames = {7}
    WideNames = {8}
    ControlNames = {9}
    Situations <- OddAnswers
INVARIANT
    RawPassedThrough
CHECK_DEADLOCK FALSE
