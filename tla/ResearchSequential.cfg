CONSTANTS
    Procs = {p1}
    Providers = {stub_claude, stub_codex}
    CodexNames = {stub_codex}
    ClaudeNames = {stub_claude}
    Ceilings <- FiveCalls
    Advisors = {stub_claude}
    Implementer = stub_codex
    FusionIds = {f1}
    Usages <- BothUsages
    Outcomes = {"artifact", "unusable", "stopped", "raises", "crash"}
    NoRow = NoRow
    NoFile = NoFile
    NoToken = NoToken
    MaxRuns = 2
    MaxExp = 8
    MaxCommands = 3
SPECIFICATION Spec
CHECK_DEADLOCK FALSE
INVARIANTS
    TypeOK
    NoPhantomCalls
    ChainOrder
    OwnArtifacts
    ImplementsGated
    RowBudget
    ReviewInRun
