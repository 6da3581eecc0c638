CONSTANTS
    Procs = {p1}
    Providers = {stub_claude, stub_codex}
    CodexNames = {stub_codex}
    ClaudeNames = {stub_claude}
    Ceilings <- TwoCalls
    Advisors = {stub_claude}
    Implementer = stub_codex
    FusionIds = {f1}
    Usages <- CheapOnly
    Outcomes = {"artifact", "unusable"}
    NoRow = NoRow
    NoFile = NoFile
    NoToken = NoToken
    MaxRuns = 1
    MaxExp = 4
    MaxCommands = 3
SPECIFICATION Spec
CHECK_DEADLOCK FALSE
INVARIANTS
    CapsSeeAllCalls
