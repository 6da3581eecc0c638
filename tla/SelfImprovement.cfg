CONSTANTS
    Tasks = {1}
    Inserts <- ThreeRows
    Scores = {4, 6}
    NoScore = NoScore
    NoFile = NoFile
    Torn = Torn
    MaxScans = 2
SPECIFICATION FairSpec
CHECK_DEADLOCK FALSE
INVARIANTS
    TypeOK
    NoDuplicates
    TriggersFiled
PROPERTIES
    FilesKept
    FindingsFreeze
