CONSTANTS
    Procs = {p1, p2}
    Providers <- MCProviders
    CodexNames <- MCCodex
    ClaudeNames <- MCClaude
    Ceilings <- ConcurrentCeilings
    RealProviders = {"stub_claude"}
    Usages <- ConcurrentUsages
    ResultStatuses = {"success"}
    Digests = {"d1"}
    Faults = {"crash", "foreign", "unavailable"}
    NoFile = NoFile
    Torn = Torn
    Foreign = Foreign
    NoRow = NoRow
    MaxRuns = 1
    MaxExp = 2
    MaxPlans = 2
SPECIFICATION Spec
SYMMETRY Symmetry
INVARIANTS
    CallBudget
PROPERTIES
    LedgerSpec
    RowsAppendOnly
