CONSTANTS
    Stores = {s1, s2}
    NumTasks = 1
    Torn = TRUE
    MaxEvents = 3
SPECIFICATION Spec
SYMMETRY Symmetry
INVARIANTS
    TypeOK
    CausalReplay
    NoGaps
    NoSilentLoss
