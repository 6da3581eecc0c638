CONSTANTS
    Procs = {p1, p2}
    NumFiles = 3
    Objects <- MCObjects
    Script <- MCScript
    Base <- MCBase
    NoObject = NoObject
    NoProc = NoProc
    MaxCrashes = 2
SPECIFICATION FairSpec
INVARIANTS
    RecordedIsApplied
    ConnectedIsComplete
PROPERTIES
    Migrates
