SPECIFICATION CliSpec
CONSTANTS
    MaxInv = 3
    Partial = torn
INVARIANTS
    RawFirst
    OwnAdvice
