CONSTANTS
    Harnesses = {h1, h2}
    NoRow = NoRow
    MaxRuns = 2
    MaxExp = 8
    MaxSecond = 2
    MaxMem = 2
SYMMETRY Symmetry
SPECIFICATION Spec
CHECK_DEADLOCK FALSE
INVARIANTS
    OwnRunOnly
    ScoresWhatItReviews
    ExitMeansDone
