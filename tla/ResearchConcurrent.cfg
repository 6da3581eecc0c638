CONSTANTS
    Procs = {p1, p2}
    Providers = {stub_claude, stub_codex}
    CodexNames = {stub_codex}
    ClaudeNames = {stub_claude}
    Ceilings <- FiveCalls
    Advisors = {stub_claude}
    Implementer = stub_codex
    FusionIds = {f1}
    Usages <- CheapOnly
    Outcomes = {"artifact", "stopped", "crash"}
    NoRow = NoRow
    NoFile = NoFile
    NoToken = NoToken
    MaxRuns = 1
    MaxExp = 6
    MaxCommands = 3
SPECIFICATION Spec
SYMMETRY Symmetry
CHECK_DEADLOCK FALSE
INVARIANTS
    ChainOrder
PROPERTIES
    RowsKept
