SPECIFICATION FairSpec
CONSTANTS
    Versions = {1, 2}
    Wanted = {1}
    Forms = {"plain", "commented", "gone"}
    MaxMishaps = 3
INVARIANTS
    TreeRestored
    TagNamesVersion
PROPERTIES
    NeverDiscardsWork
    RerunReleases
CHECK_DEADLOCK FALSE
