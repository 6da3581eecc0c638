CONSTANTS
    Procs = {p1}
    Providers <- MCProviders
    CodexNames <- MCCodex
    ClaudeNames <- MCClaude
    Ceilings <- SequentialCeilings
    RealProviders = {}
    Usages <- SequentialUsages
    ResultStatuses = {"success"}
    Digests = {"d1", "d2"}
    Faults = {"edit", "corrupt"}
    NoFile = NoFile
    Torn = Torn
    Foreign = Foreign
    NoRow = NoRow
    MaxRuns = 2
    MaxExp = 2
    MaxPlans = 2
SPECIFICATION FairSpec
INVARIANTS
    TypeOK
    TraceCoversRows
    OneDigest
PROPERTIES
    LedgerSpec
    ClaimedIsRecorded
