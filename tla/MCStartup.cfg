SPECIFICATION Spec
CONSTANTS
    Situations <- AllSituations
    Answers <- AllAnswers
INVARIANTS
    TypeOK
    SetKeyDecides
    DoctorAgrees
    TokenHonoured
    BindsLoopback
    TokenWarned
    ExitExplained
PROPERTIES
    InterruptionNotBlamed
CHECK_DEADLOCK FALSE
