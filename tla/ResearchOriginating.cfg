CONSTANTS
    Procs = {p1}
    Providers = {stub_claude, stub_codex}
    CodexNames = {stub_codex}
    ClaudeNames = {stub_claude}
    Ceilings <- ManyCalls
    Advisors = {stub_claude}
    Implementer = stub_codex
    FusionIds = {f1}
    Usages <- CheapOnly
    Outcomes = {"artifact"}
    NoRow = NoRow
    NoFile = NoFile
    NoToken = NoToken
    MaxRuns = 1
    MaxExp = 9
    MaxCommands = 3
SPECIFICATION Spec
CHECK_DEADLOCK FALSE
INVARIANTS
    ReviewsOriginating
